---------------------------- MODULE IntakeProofs ----------------------------
(***************************************************************************)
(* Theorems about Intake, for any calls, any number of them, any keys,     *)
(* templates and faults, and texts of any length.                          *)
(***************************************************************************)
EXTENDS Intake, SequenceTheorems, FiniteSetTheorems, WellFoundedInduction, TLAPS

(***************************************************************************)
(* Render.  A text is put together from nothing, character by character;   *)
(* the least number without a property is what makes the induction.  Texts *)
(* are joined by an operator of our own, so that an equation between texts *)
(* is not taken apart into one about each position.                        *)
(***************************************************************************)
NoText == <<>>
Alone(x) == <<x>>
Joined(s, t) == s \o t

LEMMA LeastNumber ==
  ASSUME NEW S \in SUBSET Nat, S # {}
  PROVE  \E n \in S : \A k \in S : n <= k
<1>0. \A k, n \in Nat : k < n => <<k, n>> \in OpToRel(<, Nat)
  BY DEF OpToRel
<1>1. PICK n \in S : \A k \in S : ~ (<<k, n>> \in OpToRel(<, Nat))
  BY NatLessThanWellFounded, WFMin
<1>2. ASSUME NEW k \in S  PROVE n <= k
  <2>1. k \in Nat /\ n \in Nat /\ ~(k < n)
    BY <1>0, <1>1
  <2> QED  BY <2>1
<1> QED  BY <1>2

\* Induction, for a property that is given as the set of what has it.
LEMMA Induction ==
  ASSUME NEW G, 0 \in G, \A k \in Nat : k \in G => k + 1 \in G
  PROVE  Nat \subseteq G
<1> SUFFICES ASSUME Nat \ G # {}  PROVE FALSE
  OBVIOUS
<1>1. PICK n \in Nat \ G : \A k \in Nat \ G : n <= k
  <2>1. Nat \ G \in SUBSET Nat
    OBVIOUS
  <2> QED  BY <2>1, LeastNumber
<1>2. n # 0 /\ n \in Nat
  OBVIOUS
<1>3. n - 1 \in Nat /\ ~(n <= n - 1) /\ (n - 1) + 1 = n
  BY <1>2
<1>4. n - 1 \in G
  BY <1>1, <1>3
<1> QED  BY <1>3, <1>4

\* The same, for the numbers up to a length.
LEMMA InductionUpTo ==
  ASSUME NEW n \in Nat, NEW G, 0 \in G, \A k \in 1 .. n : k - 1 \in G => k \in G
  PROVE  0 .. n \subseteq G
<1> DEFINE H == {k \in Nat : k <= n => k \in G}
<1>1. 0 \in H
  OBVIOUS
<1>2. ASSUME NEW k \in Nat, k \in H  PROVE k + 1 \in H
  <2> SUFFICES ASSUME k + 1 <= n  PROVE k + 1 \in G
    OBVIOUS
  <2>1. k \in G /\ k + 1 \in 1 .. n /\ (k + 1) - 1 = k
    BY <1>2
  <2> QED  BY <2>1
<1> HIDE DEF H
<1>3. Nat \subseteq H
  BY <1>1, <1>2, Induction
<1> QED  BY <1>3 DEF H

LEMMA TextAlgebra ==
  /\ NoText \in Text
  /\ \A x \in Char : Alone(x) \in Text
  /\ \A s, t \in Text : Joined(s, t) \in Text
  /\ \A s \in Text : Joined(s, NoText) = s /\ Joined(NoText, s) = s
  /\ \A s, t, u \in Text : Joined(Joined(s, t), u) = Joined(s, Joined(t, u))
<1>1. NoText \in Text /\ \A x \in Char : Alone(x) \in Text
  BY DEF NoText, Alone, Text
<1>2. \A s, t \in Text : Joined(s, t) \in Text
  BY ConcatProperties DEF Joined, Text
<1>3. \A s \in Text : Joined(s, NoText) = s /\ Joined(NoText, s) = s
  BY ConcatEmptySeq DEF Joined, NoText, Text
<1>4. \A s, t, u \in Text : Joined(Joined(s, t), u) = Joined(s, Joined(t, u))
  BY ConcatAssociative DEF Joined, Text
<1> QED  BY <1>1, <1>2, <1>3, <1>4

LEMMA Lengths ==
  /\ \A t \in Text : Len(t) \in Nat /\ (Len(t) = 0 <=> t = NoText)
  /\ \A s, t \in Text : Len(Joined(s, t)) = Len(s) + Len(t)
  /\ \A x \in Char : Len(Alone(x)) = 1
<1>1. \A t \in Text : Len(t) \in Nat /\ (Len(t) = 0 <=> t = NoText)
  BY EmptySeq, LenProperties DEF Text, NoText
<1>2. \A s, t \in Text : Len(Joined(s, t)) = Len(s) + Len(t)
  BY ConcatProperties DEF Text, Joined
<1>3. \A x \in Char : Len(Alone(x)) = 1
  BY DEF Alone
<1> QED  BY <1>1, <1>2, <1>3

LEMMA CharacterOf ==
  ASSUME NEW t \in Text, NEW i \in 1 .. Len(t)
  PROVE  t[i] \in Char
BY ElementOfSeq DEF Text

\* A text is nothing, or a character before a text.
LEMMA FrontOf ==
  ASSUME NEW t \in Text, t # NoText
  PROVE  /\ Head(t) = t[1] /\ t[1] \in Char /\ Tail(t) \in Text
         /\ t = Joined(Alone(Head(t)), Tail(t))
         /\ Len(Tail(t)) < Len(t)
<1>1. t \in Seq(Char) /\ t # <<>> /\ Len(t) \in Nat /\ 1 \in 1 .. Len(t)
  BY Lengths DEF Text, NoText
<1>2. /\ Tail(t) \in Seq(Char) /\ Len(Tail(t)) = Len(t) - 1
      /\ Tail(t) = SubSeq(t, 2, Len(t))
  BY <1>1, HeadTailProperties, TailIsSubSeq
<1>3. t[1] \in Char
  BY <1>1, ElementOfSeq
<1>4. SubSeq(t, 1, Len(t)) = <<t[1]>> \o SubSeq(t, 2, Len(t))
  <2>1. Len(t) \in 1 .. Len(t)
    BY <1>1
  <2> QED  BY <1>1, <2>1, SubSeqRecursiveFirst
<1>5. t = <<t[1]>> \o Tail(t)
  BY <1>1, <1>2, <1>4, SubSeqFull
<1>6. Head(t) = t[1]
  BY <1>1
<1> QED  BY <1>1, <1>2, <1>3, <1>5, <1>6 DEF Joined, Alone, Text

LEMMA FrontOfJoined ==
  ASSUME NEW c \in Char, NEW t \in Text
  PROVE  /\ Joined(Alone(c), t) # NoText
         /\ Head(Joined(Alone(c), t)) = c /\ Tail(Joined(Alone(c), t)) = t
<1> DEFINE w == Joined(Alone(c), t)
<1>0. Alone(c) \in Text /\ Len(Alone(c)) = 1
  BY TextAlgebra, Lengths
<1>1. w \in Text /\ Len(w) = 1 + Len(t) /\ Len(t) \in Nat
  <2> DEFINE a == Alone(c)
  <2>1. a \in Text /\ Len(a) = 1
    BY <1>0
  <2> HIDE DEF a
  <2>2. Joined(a, t) \in Text
    BY <2>1, TextAlgebra
  <2>3. Len(Joined(a, t)) = Len(a) + Len(t) /\ Len(t) \in Nat
    BY <2>1, Lengths
  <2> QED  BY <2>1, <2>2, <2>3 DEF a
<1>2. w # NoText
  BY <1>1, Lengths
<1>3. w[1] = c
  BY <1>1, ConcatProperties, TextAlgebra DEF Joined, Alone, Text
<1>4. w = Joined(Alone(w[1]), Tail(w)) /\ Tail(w) \in Text /\ Head(w) = w[1]
  BY <1>1, <1>2, FrontOf
<1>5. Tail(w) = t
  <2>1. Alone(c) \o Tail(w) = Alone(c) \o t /\ Alone(c) \in Seq(Char)
    BY <1>0, <1>3, <1>4 DEF Joined, Text
  <2>2. Tail(w) \in Seq(Char) /\ t \in Seq(Char)
    BY <1>4 DEF Text
  <2> HIDE DEF w
  <2> QED  BY <2>1, <2>2, ConcatSimplifications
<1> QED  BY <1>2, <1>3, <1>4, <1>5

LEMMA TextInduction ==
  ASSUME NEW G, NoText \in G,
         \A t \in Text, x \in Char : t \in G => Joined(Alone(x), t) \in G
  PROVE  Text \subseteq G
<1> DEFINE H == {n \in Nat : \A t \in Text : Len(t) <= n => t \in G}
<1>1. 0 \in H
  BY Lengths
<1>2. ASSUME NEW n \in Nat, n \in H  PROVE n + 1 \in H
  <2> SUFFICES ASSUME NEW t \in Text, Len(t) <= n + 1  PROVE t \in G
    OBVIOUS
  <2>1. CASE t = NoText
    BY <2>1
  <2>2. CASE t # NoText
    <3>1. /\ t[1] \in Char /\ Tail(t) \in Text /\ t = Joined(Alone(t[1]), Tail(t))
          /\ Len(Tail(t)) < Len(t)
      BY <2>2, FrontOf
    <3>2. Len(Tail(t)) <= n
      BY <3>1, Lengths
    <3>3. Tail(t) \in G
      BY <1>2, <3>1, <3>2
    <3> QED  BY <3>1, <3>3
  <2> QED  BY <2>1, <2>2
<1> HIDE DEF H
<1>3. Nat \subseteq H
  BY <1>1, <1>2, Induction
<1> QED  BY <1>3, Lengths DEF H

\* A function of texts may be defined by what it makes of shorter ones.
Shorter == {rest \in [Text -> Text] : \A t \in Text : t # NoText => Len(rest[t]) < Len(t)}

IsScan(f, out, rest, n) ==
  \A t \in Text : Len(t) <= n =>
    f[t] = IF t = NoText THEN NoText ELSE Joined(out[t], f[rest[t]])

LEMMA ScansAgree ==
  ASSUME NEW out, NEW rest \in Shorter, NEW n \in Nat, NEW f, NEW g,
         IsScan(f, out, rest, n), IsScan(g, out, rest, n)
  PROVE  \A t \in Text : Len(t) <= n => f[t] = g[t]
<1> DEFINE H == {m \in Nat : m <= n => \A t \in Text : Len(t) <= m => f[t] = g[t]}
<1>1. 0 \in H
  BY Lengths DEF IsScan
<1>2. ASSUME NEW m \in Nat, m \in H  PROVE m + 1 \in H
  <2> SUFFICES ASSUME m + 1 <= n, NEW t \in Text, Len(t) <= m + 1  PROVE f[t] = g[t]
    OBVIOUS
  <2>0. Len(t) <= n
    BY Lengths
  <2>1. CASE t = NoText
    BY <2>0, <2>1 DEF IsScan
  <2>2. CASE t # NoText
    <3>1. rest[t] \in Text /\ Len(rest[t]) < Len(t)
      BY <2>2 DEF Shorter
    <3>2. Len(rest[t]) <= m
      BY <3>1, Lengths
    <3>3. f[rest[t]] = g[rest[t]]
      BY <1>2, <3>1, <3>2
    <3> QED  BY <2>0, <2>2, <3>3 DEF IsScan
  <2> QED  BY <2>1, <2>2
<1> HIDE DEF H
<1>3. Nat \subseteq H
  BY <1>1, <1>2, Induction
<1> QED  BY <1>3 DEF H

LEMMA ScanExists ==
  ASSUME NEW out \in [Text -> Text], NEW rest \in Shorter
  PROVE  \E f \in [Text -> Text] : \A n \in Nat : IsScan(f, out, rest, n)
<1> DEFINE H == {n \in Nat : \E f \in [Text -> Text] : IsScan(f, out, rest, n)}
<1>0. \A t \in Text : out[t] \in Text /\ rest[t] \in Text
  BY DEF Shorter
<1>1. 0 \in H
  <2> DEFINE f == [t \in Text |-> NoText]
  <2>1. f \in [Text -> Text]
    BY TextAlgebra
  <2>2. IsScan(f, out, rest, 0)
    BY Lengths DEF IsScan
  <2> QED  BY <2>1, <2>2
<1>2. ASSUME NEW n \in Nat, n \in H  PROVE n + 1 \in H
  <2>1. PICK f \in [Text -> Text] : IsScan(f, out, rest, n)
    BY <1>2
  <2> DEFINE g == [t \in Text |-> IF t = NoText THEN NoText ELSE Joined(out[t], f[rest[t]])]
  <2>2. g \in [Text -> Text]
    BY <1>0, TextAlgebra
  <2>3. ASSUME NEW t \in Text, Len(t) <= n + 1, t # NoText
        PROVE  g[t] = Joined(out[t], g[rest[t]])
    <3>1. rest[t] \in Text /\ Len(rest[t]) < Len(t)
      BY <2>3 DEF Shorter
    <3>2. Len(rest[t]) <= n
      BY <2>3, <3>1, Lengths
    <3>3. f[rest[t]] = g[rest[t]]
      BY <2>1, <3>1, <3>2 DEF IsScan
    <3> QED  BY <2>3, <3>3
  <2>4. g[NoText] = NoText
    BY TextAlgebra
  <2> HIDE DEF g
  <2>5. IsScan(g, out, rest, n + 1)
    BY <2>3, <2>4 DEF IsScan
  <2> QED  BY <2>2, <2>5
<1>3. Nat \subseteq H
  <2> HIDE DEF H
  <2> QED  BY <1>1, <1>2, Induction
<1> DEFINE F(n) == CHOOSE f \in [Text -> Text] : IsScan(f, out, rest, n)
           whole == [t \in Text |-> F(Len(t))[t]]
<1>4. ASSUME NEW n \in Nat  PROVE F(n) \in [Text -> Text] /\ IsScan(F(n), out, rest, n)
  BY <1>3
<1> HIDE DEF F, H
<1>5. whole \in [Text -> Text]
  BY <1>4, Lengths
<1>6. ASSUME NEW t \in Text, t # NoText  PROVE whole[t] = Joined(out[t], whole[rest[t]])
  <2> DEFINE s == rest[t]
  <2>1. s \in Text /\ Len(s) < Len(t) /\ Len(s) \in Nat /\ Len(t) \in Nat
    BY <1>6, Lengths DEF Shorter
  <2> HIDE DEF s
  <2>2. IsScan(F(Len(t)), out, rest, Len(s))
    <3>1. IsScan(F(Len(t)), out, rest, Len(t))
      BY <1>4, <2>1
    <3>2. \A u \in Text : Len(u) <= Len(s) => Len(u) <= Len(t)
      BY <2>1, Lengths
    <3> QED  BY <3>1, <3>2 DEF IsScan
  <2>3. F(Len(t))[s] = F(Len(s))[s]
    BY <1>4, <2>1, <2>2, ScansAgree
  <2>4. F(Len(t))[t] = Joined(out[t], F(Len(t))[s])
    BY <1>4, <1>6, <2>1 DEF IsScan, s
  <2> QED  BY <2>1, <2>3, <2>4 DEF s
<1>7. whole[NoText] = NoText
  <2>1. NoText \in Text /\ Len(NoText) = 0
    BY TextAlgebra, Lengths
  <2>2. IsScan(F(0), out, rest, 0)
    BY <1>4
  <2>3. F(0)[NoText] = NoText
    <3> DEFINE f == F(0)
    <3> HIDE DEF f
    <3>1. IsScan(f, out, rest, 0)
      BY <2>2 DEF f
    <3>2. f[NoText] = NoText
      BY <2>1, <3>1 DEF IsScan
    <3> QED  BY <3>2 DEF f
  <2> QED  BY <2>1, <2>3
<1> HIDE DEF whole
<1>8. \A n \in Nat : IsScan(whole, out, rest, n)
  BY <1>6, <1>7 DEF IsScan
<1> QED  BY <1>5, <1>8

\* Characters of a text put together.
LEMMA PartsOfJoined ==
  ASSUME NEW s \in Text, NEW t \in Text
  PROVE  /\ Joined(s, t) \in Text /\ Len(Joined(s, t)) = Len(s) + Len(t)
         /\ \A i \in 1 .. Len(s) : Joined(s, t)[i] = s[i]
         /\ \A i \in 1 .. Len(t) : Joined(s, t)[Len(s) + i] = t[i]
<1>0. Joined(s, t) \in Text /\ Len(Joined(s, t)) = Len(s) + Len(t)
  BY TextAlgebra, Lengths
<1>1. /\ Len(s) \in Nat /\ Len(t) \in Nat
      /\ \A i \in 1 .. Len(s) + Len(t) :
           Joined(s, t)[i] = IF i <= Len(s) THEN s[i] ELSE t[i - Len(s)]
  BY Lengths, ConcatProperties DEF Text, Joined
<1>2. ASSUME NEW i \in 1 .. Len(s)  PROVE Joined(s, t)[i] = s[i]
  BY <1>1
<1>3. ASSUME NEW i \in 1 .. Len(t)  PROVE Joined(s, t)[Len(s) + i] = t[i]
  <2>1. /\ Len(s) + i \in 1 .. Len(s) + Len(t) /\ ~(Len(s) + i <= Len(s))
        /\ (Len(s) + i) - Len(s) = i
    BY <1>1
  <2> QED  BY <1>1, <2>1
<1> QED  BY <1>0, <1>2, <1>3

LEMMA SameText ==
  ASSUME NEW s \in Text, NEW t \in Text, Len(s) = Len(t), \A i \in 1 .. Len(s) : s[i] = t[i]
  PROVE  s = t
BY SeqEqual DEF Text

LEMMA PrefixOf ==
  ASSUME NEW p \in Text, NEW t \in Text, IsPrefix(p, t)
  PROVE  /\ SubSeq(t, Len(p) + 1, Len(t)) \in Text
         /\ t = Joined(p, SubSeq(t, Len(p) + 1, Len(t)))
<1>1. /\ Len(p) \in Nat /\ Len(t) \in Nat /\ p \in Seq(Char) /\ t \in Seq(Char)
  BY Lengths DEF Text
<1>2. Len(p) <= Len(t) /\ SubSeq(p, 1, Len(p)) = SubSeq(t, 1, Len(p))
  BY  DEF IsPrefix
<1>3. p = SubSeq(t, 1, Len(p))
  BY <1>1, <1>2, SubSeqFull
<1>4. SubSeq(t, 1, Len(p)) \o SubSeq(t, Len(p) + 1, Len(t)) = SubSeq(t, 1, Len(t))
  <2>1. /\ 1 \in 1 .. Len(t) + 1 /\ Len(p) \in (1 - 1) .. Len(t)
        /\ Len(t) \in Len(p) .. Len(t)
    BY <1>1, <1>2
  <2> QED  BY <1>1, <2>1, ConcatAdjacentSubSeq
<1>5. SubSeq(t, Len(p) + 1, Len(t)) \in Seq(Char)
  <2>1. \A i \in Len(p) + 1 .. Len(t) : t[i] \in Char
    <3>1. \A i \in Len(p) + 1 .. Len(t) : i \in 1 .. Len(t)
      BY <1>1
    <3> QED  BY <3>1, CharacterOf
  <2> QED  BY <1>1, <2>1, SubSeqProperties
<1>6. SubSeq(t, 1, Len(t)) = t
  BY <1>1, SubSeqFull
<1> QED  BY <1>3, <1>4, <1>5, <1>6 DEF Joined, Text

LEMMA PrefixOfJoined ==
  ASSUME NEW p \in Text, NEW t \in Text
  PROVE  /\ IsPrefix(p, Joined(p, t))
         /\ SubSeq(Joined(p, t), Len(p) + 1, Len(Joined(p, t))) = t
<1>1. /\ Len(p) \in Nat /\ Len(t) \in Nat /\ p \in Seq(Char) /\ t \in Seq(Char)
  BY Lengths DEF Text
<1> DEFINE w == Joined(p, t)
<1>3. w \in Text /\ Len(w) = Len(p) + Len(t)
  BY TextAlgebra, Lengths
<1>4. /\ \A i \in 1 .. Len(p) : w[i] = p[i]
      /\ \A i \in 1 .. Len(t) : w[Len(p) + i] = t[i]
  BY PartsOfJoined
<1> HIDE DEF w
<1>5. \A i \in 1 .. Len(w) : w[i] \in Char
  BY <1>3, CharacterOf
<1>6. SubSeq(w, 1, Len(p)) = p
  <2>1. \A i \in 1 .. Len(p) : w[i] \in Char
    BY <1>1, <1>3, <1>5
  <2>2. /\ SubSeq(w, 1, Len(p)) \in Seq(Char)
        /\ Len(SubSeq(w, 1, Len(p))) = IF 1 <= Len(p) THEN Len(p) - 1 + 1 ELSE 0
        /\ \A i \in 1 .. Len(p) - 1 + 1 : SubSeq(w, 1, Len(p))[i] = w[1 + i - 1]
    BY <1>1, <2>1, SubSeqProperties
  <2>3. Len(SubSeq(w, 1, Len(p))) = Len(p)
    BY <1>1, <2>2
  <2>4. ASSUME NEW i \in 1 .. Len(p)  PROVE SubSeq(w, 1, Len(p))[i] = p[i]
    <3>1. i \in 1 .. Len(p) - 1 + 1 /\ 1 + i - 1 = i
      BY <1>1
    <3> QED  BY <1>4, <2>2, <3>1
  <2> QED  BY <2>2, <2>3, <2>4, SameText DEF Text
<1>7. SubSeq(w, Len(p) + 1, Len(w)) = t
  <2> DEFINE m == Len(p) + 1
             n == Len(w)
             u == SubSeq(w, m, n)
  <2>0. m \in Int /\ n \in Int /\ n - m + 1 = Len(t) /\ (m <= n <=> 1 <= Len(t))
    BY <1>1, <1>3
  <2>1. \A i \in m .. n : w[i] \in Char
    BY <1>1, <1>3, <1>5
  <2> HIDE DEF m, n
  <2>2. /\ u \in Seq(Char)
        /\ Len(u) = IF m <= n THEN n - m + 1 ELSE 0
        /\ \A i \in 1 .. n - m + 1 : u[i] = w[m + i - 1]
    BY <2>0, <2>1, SubSeqProperties
  <2> HIDE DEF u
  <2>3. Len(u) = Len(t)
    BY <1>1, <2>0, <2>2
  <2>4. ASSUME NEW i \in 1 .. Len(t)  PROVE u[i] = t[i]
    <3>1. i \in 1 .. n - m + 1 /\ m + i - 1 = Len(p) + i
      BY <1>1, <2>0 DEF m
    <3> QED  BY <1>4, <2>2, <3>1
  <2>5. u = t
    BY <2>2, <2>3, <2>4, SameText DEF Text
  <2> QED  BY <2>5 DEF u, m, n
<1>8. IsPrefix(p, w)
  BY <1>1, <1>3, <1>6, SubSeqFull DEF IsPrefix
<1> QED  BY <1>7, <1>8 DEF w

\* The two closing braces.
Closing == <<Close, Close>>

LEMMA Braces == Open \in Char /\ Close \in Char /\ Open # Close /\ Closing \in Text
BY CharAssumption DEF Closing, Text

LEMMA PlaceholderParts ==
  ASSUME NEW key \in Text
  PROVE  /\ Placeholder(key) \in Text
         /\ Placeholder(key) =
              Joined(Alone(Open), Joined(Alone(Open), Joined(key, Closing)))
         /\ Len(Placeholder(key)) = Len(key) + 4
         /\ Placeholder(key)[1] = Open /\ Placeholder(key)[2] = Open
         /\ \A i \in 1 .. Len(key) : Placeholder(key)[i + 2] = key[i]
         /\ Placeholder(key)[Len(key) + 3] = Close /\ Placeholder(key)[Len(key) + 4] = Close
<1> DEFINE opening == <<Open, Open>>
<1>0. Len(key) \in Nat
  BY Lengths
<1>1. /\ opening \in Text /\ Len(opening) = 2 /\ opening[1] = Open /\ opening[2] = Open
      /\ Len(Closing) = 2 /\ Closing[1] = Close /\ Closing[2] = Close
  BY Braces DEF Text, Closing
<1>2. opening = Joined(Alone(Open), Alone(Open))
  BY DEF Joined, Alone
<1>3. Placeholder(key) = Joined(Joined(opening, key), Closing)
  BY DEF Placeholder, Joined, Closing
<1> HIDE DEF opening
<1> DEFINE v == Joined(opening, key)
           w == Joined(v, Closing)
<1>4. /\ v \in Text /\ Len(v) = 2 + Len(key)
      /\ \A i \in 1 .. 2 : v[i] = opening[i]
      /\ \A i \in 1 .. Len(key) : v[2 + i] = key[i]
  <2>1. opening \in Text
    BY <1>1
  <2>2. /\ v \in Text /\ Len(v) = Len(opening) + Len(key)
        /\ \A i \in 1 .. Len(opening) : v[i] = opening[i]
        /\ \A i \in 1 .. Len(key) : v[Len(opening) + i] = key[i]
    BY <2>1, PartsOfJoined
  <2> HIDE DEF v
  <2> QED  BY <1>1, <2>2
<1> HIDE DEF v
<1>5. /\ w \in Text /\ Len(w) = Len(v) + 2
      /\ \A i \in 1 .. Len(v) : w[i] = v[i]
      /\ \A i \in 1 .. 2 : w[Len(v) + i] = Closing[i]
  <2>1. v \in Text /\ Closing \in Text
    BY <1>4, Braces
  <2>2. /\ w \in Text /\ Len(w) = Len(v) + Len(Closing)
        /\ \A i \in 1 .. Len(v) : w[i] = v[i]
        /\ \A i \in 1 .. Len(Closing) : w[Len(v) + i] = Closing[i]
    BY <2>1, PartsOfJoined
  <2> HIDE DEF w
  <2> QED  BY <1>1, <2>2
<1> HIDE DEF w
<1>6. Len(w) = Len(key) + 4
  BY <1>0, <1>4, <1>5
<1>8. w[1] = Open /\ w[2] = Open
  BY <1>0, <1>1, <1>4, <1>5
<1>9. ASSUME NEW i \in 1 .. Len(key)  PROVE w[i + 2] = key[i]
  <2>1. i + 2 \in 1 .. Len(v) /\ i + 2 = 2 + i
    BY <1>0, <1>4
  <2> QED  BY <1>4, <1>5, <2>1
<1>10. w[Len(key) + 3] = Close /\ w[Len(key) + 4] = Close
  <2>1. Len(v) + 1 = Len(key) + 3 /\ Len(v) + 2 = Len(key) + 4
    BY <1>0, <1>4
  <2> QED  BY <1>1, <1>5, <2>1
<1>11. w = Joined(Alone(Open), Joined(Alone(Open), Joined(key, Closing)))
  <2> DEFINE o == Alone(Open)
  <2>1. o \in Text /\ opening = Joined(o, o)
    BY <1>2, Braces, TextAlgebra
  <2> HIDE DEF o
  <2>2. w = Joined(opening, Joined(key, Closing)) /\ Joined(key, Closing) \in Text
    BY <1>1, Braces, TextAlgebra DEF v, w
  <2>3. Joined(Joined(o, o), Joined(key, Closing)) = Joined(o, Joined(o, Joined(key, Closing)))
    BY <2>1, <2>2, TextAlgebra
  <2> QED  BY <2>1, <2>2, <2>3 DEF o
<1>12. Placeholder(key) = w
  BY <1>3 DEF w, v
<1> QED  BY <1>5, <1>6, <1>8, <1>9, <1>10, <1>11, <1>12

-----------------------------------------------------------------------------
(***************************************************************************)
(* What a pass makes of a text, part by part.                              *)
(***************************************************************************)
LEMMA KeysNextType ==
  ASSUME NEW variables, IsVariables(variables), NEW t \in Text, NEW key \in KeysNext(t, variables)
  PROVE  /\ key \in DOMAIN variables /\ key \in Text /\ variables[key] \in Text
         /\ Behind(t, key) \in Text /\ Len(Behind(t, key)) < Len(t)
         /\ t = Joined(Placeholder(key), Behind(t, key)) /\ t # NoText
<1>1. key \in DOMAIN variables /\ key \in Text /\ variables[key] \in Text
  BY DEF KeysNext, IsVariables
<1>2. IsPrefix(Placeholder(key), t)
  BY DEF KeysNext
<1>3. /\ Placeholder(key) \in Text /\ Len(Placeholder(key)) = Len(key) + 4
      /\ Len(key) \in Nat
  BY <1>1, PlaceholderParts, Lengths
<1>4. Behind(t, key) \in Text /\ t = Joined(Placeholder(key), Behind(t, key))
  BY <1>2, <1>3, PrefixOf DEF Behind
<1>5. Len(t) = Len(Placeholder(key)) + Len(Behind(t, key)) /\ Len(Behind(t, key)) \in Nat
  <2> DEFINE q == Placeholder(key)
             u == Behind(t, key)
  <2>1. q \in Text /\ u \in Text /\ t = Joined(q, u)
    BY <1>3, <1>4
  <2> HIDE DEF q, u
  <2>2. Len(t) = Len(q) + Len(u) /\ Len(u) \in Nat
    BY <2>1, Lengths
  <2> QED  BY <2>2 DEF q, u
<1>6. Len(Behind(t, key)) < Len(t) /\ Len(t) # 0
  BY <1>3, <1>5
<1>7. t # NoText
  BY <1>6, Lengths
<1> QED  BY <1>1, <1>4, <1>6, <1>7

NextKey(t, variables) == CHOOSE key \in KeysNext(t, variables) : TRUE

\* ReplaceEach is what it says it is: such a function exists.
LEMMA PassStep ==
  ASSUME NEW variables, IsVariables(variables), NEW t \in Text
  PROVE  /\ ReplaceEach(t, variables) \in Text
         /\ t = NoText => ReplaceEach(t, variables) = NoText
         /\ t # NoText /\ KeysNext(t, variables) = {} =>
              ReplaceEach(t, variables) = Joined(Alone(Head(t)), ReplaceEach(Tail(t), variables))
         /\ KeysNext(t, variables) # {} =>
              ReplaceEach(t, variables) =
                Joined(variables[NextKey(t, variables)],
                       ReplaceEach(Behind(t, NextKey(t, variables)), variables))
<1> DEFINE out == [u \in Text |-> IF u = NoText THEN NoText
                                 ELSE IF KeysNext(u, variables) = {} THEN Alone(Head(u))
                                 ELSE variables[NextKey(u, variables)]]
           rest == [u \in Text |-> IF u = NoText THEN NoText
                                  ELSE IF KeysNext(u, variables) = {} THEN Tail(u)
                                  ELSE Behind(u, NextKey(u, variables))]
           Eq(g) == g = [u \in Text |->
                           IF u = <<>> THEN <<>>
                           ELSE IF KeysNext(u, variables) = {} THEN <<Head(u)>> \o g[Tail(u)]
                           ELSE variables[NextKey(u, variables)]
                                  \o g[Behind(u, NextKey(u, variables))]]
           replaced == CHOOSE g : Eq(g)
<1>1. \A u \in Text : ReplaceEach(u, variables) = replaced[u]
  BY Zenon DEF ReplaceEach, NextKey
<1>2. ASSUME NEW u \in Text, KeysNext(u, variables) # {}
      PROVE  NextKey(u, variables) \in KeysNext(u, variables)
  BY <1>2 DEF NextKey
<1>3. ASSUME NEW u \in Text
      PROVE  /\ out[u] \in Text /\ rest[u] \in Text
             /\ u # NoText => Len(rest[u]) < Len(u)
  <2>1. CASE u = NoText
    BY <2>1, TextAlgebra
  <2>2. CASE u # NoText /\ KeysNext(u, variables) = {}
    BY <2>2, FrontOf, TextAlgebra
  <2>3. CASE u # NoText /\ KeysNext(u, variables) # {}
    BY <1>2, <2>3, KeysNextType
  <2> QED  BY <2>1, <2>2, <2>3
<1>4. out \in [Text -> Text] /\ rest \in Shorter
  <2>1. rest \in [Text -> Text]
    BY <1>3
  <2>2. \A u \in Text : u # NoText => Len(rest[u]) < Len(u)
    BY <1>3
  <2>3. out \in [Text -> Text]
    BY <1>3
  <2> HIDE DEF out, rest
  <2> QED  BY <2>1, <2>2, <2>3 DEF Shorter
<1>5. \A u \in Text : u # NoText =>
        IF KeysNext(u, variables) = {}
        THEN out[u] = Alone(Head(u)) /\ rest[u] = Tail(u)
        ELSE /\ out[u] = variables[NextKey(u, variables)]
             /\ rest[u] = Behind(u, NextKey(u, variables))
  OBVIOUS
<1> HIDE DEF out, rest
<1>6. PICK f \in [Text -> Text] : \A n \in Nat : IsScan(f, out, rest, n)
  BY <1>4, ScanExists
<1>7. ASSUME NEW u \in Text
      PROVE  f[u] = IF u = NoText THEN NoText ELSE Joined(out[u], f[rest[u]])
  <2>1. Len(u) \in Nat /\ Len(u) <= Len(u)
    BY Lengths
  <2> QED  BY <1>6, <2>1 DEF IsScan
<1>8. Eq(f)
  <2>1. ASSUME NEW u \in Text
        PROVE  f[u] = IF u = <<>> THEN <<>>
                      ELSE IF KeysNext(u, variables) = {} THEN <<Head(u)>> \o f[Tail(u)]
                      ELSE variables[NextKey(u, variables)]
                             \o f[Behind(u, NextKey(u, variables))]
    <3>1. CASE u = NoText
      BY <1>7, <3>1 DEF NoText
    <3>2. CASE u # NoText
      BY <1>5, <1>7, <3>2 DEF NoText, Joined, Alone
    <3> QED  BY <3>1, <3>2
  <2> QED  BY <2>1
<1>9. Eq(replaced)
  <2> HIDE DEF Eq
  <2> QED  BY <1>8
<1>10. ASSUME NEW n \in Nat  PROVE IsScan(replaced, out, rest, n)
  <2>1. ASSUME NEW u \in Text
        PROVE  replaced[u] = IF u = NoText THEN NoText ELSE Joined(out[u], replaced[rest[u]])
    <3> HIDE DEF replaced
    <3>1. replaced[u] = IF u = <<>> THEN <<>>
                        ELSE IF KeysNext(u, variables) = {} THEN <<Head(u)>> \o replaced[Tail(u)]
                        ELSE variables[NextKey(u, variables)]
                               \o replaced[Behind(u, NextKey(u, variables))]
      BY <1>9
    <3>2. CASE u = NoText
      BY <3>1, <3>2 DEF NoText
    <3>3. CASE u # NoText
      BY <1>5, <3>1, <3>3 DEF NoText, Joined, Alone
    <3> QED  BY <3>2, <3>3
  <2> HIDE DEF replaced
  <2> QED  BY <2>1 DEF IsScan
<1> HIDE DEF replaced, Eq
<1>11. ASSUME NEW u \in Text  PROVE ReplaceEach(u, variables) = f[u]
  <2>1. Len(u) \in Nat /\ Len(u) <= Len(u)
    BY Lengths
  <2>2. f[u] = replaced[u]
    BY <1>4, <1>6, <1>10, <2>1, ScansAgree
  <2> QED  BY <1>1, <2>2
<1>12. rest[t] \in Text
  BY <1>3
<1>13. ReplaceEach(t, variables) \in Text
  BY <1>6, <1>11
<1>14. ReplaceEach(t, variables) =
         IF t = NoText THEN NoText ELSE Joined(out[t], ReplaceEach(rest[t], variables))
  BY <1>7, <1>11, <1>12
<1>15. CASE t = NoText
  <2>1. KeysNext(t, variables) = {}
    BY <1>15, KeysNextType
  <2> QED  BY <1>13, <1>14, <1>15, <2>1
<1>16. CASE t # NoText
  BY <1>5, <1>13, <1>14, <1>16
<1> QED  BY <1>15, <1>16

\* A character that does not begin a placeholder stays.
LEMMA PassCharacter ==
  ASSUME NEW variables, IsVariables(variables), NEW c \in Char, NEW t \in Text,
         ~(c = Open /\ t # NoText /\ Head(t) = Open)
  PROVE  ReplaceEach(Joined(Alone(c), t), variables) =
           Joined(Alone(c), ReplaceEach(t, variables))
<1> DEFINE w == Joined(Alone(c), t)
<1>1. w \in Text /\ w # NoText /\ Head(w) = c /\ Tail(w) = t
  <2>1. Alone(c) \in Text
    BY TextAlgebra
  <2> QED  BY <2>1, TextAlgebra, FrontOfJoined
<1>2. KeysNext(w, variables) = {}
  <2> SUFFICES ASSUME NEW key \in KeysNext(w, variables)  PROVE FALSE
    OBVIOUS
  <2> HIDE DEF w
  <2>1. key \in Text /\ w = Joined(Placeholder(key), Behind(w, key)) /\ Behind(w, key) \in Text
    BY <1>1, KeysNextType
  <2> DEFINE b == Behind(w, key)
             o == Alone(Open)
             k == Joined(key, Closing)
  <2>2. /\ Placeholder(key) = Joined(o, Joined(o, k)) /\ o \in Text /\ k \in Text
        /\ Open \in Char /\ b \in Text /\ w = Joined(Placeholder(key), b)
    BY <2>1, Braces, PlaceholderParts, TextAlgebra
  <2>3. w = Joined(o, Joined(o, Joined(k, b))) /\ Joined(k, b) \in Text
        /\ Joined(o, Joined(k, b)) \in Text
    <3> HIDE DEF o, k, b
    <3>1. Joined(o, k) \in Text /\ Joined(k, b) \in Text
      BY <2>2, TextAlgebra
    <3>2. w = Joined(o, Joined(Joined(o, k), b))
      BY <2>2, <3>1, TextAlgebra
    <3>3. Joined(Joined(o, k), b) = Joined(o, Joined(k, b))
      BY <2>2, TextAlgebra
    <3>4. Joined(o, Joined(k, b)) \in Text
      BY <2>2, <3>1, TextAlgebra
    <3> QED  BY <3>1, <3>2, <3>3, <3>4
  <2> HIDE DEF k, b
  <2>4. /\ Head(w) = Open /\ Tail(w) = Joined(Alone(Open), Joined(k, b))
        /\ Tail(w) # NoText /\ Head(Tail(w)) = Open
    <3> DEFINE x == Joined(k, b)
               y == Joined(o, x)
    <3>1. Open \in Char /\ x \in Text /\ y \in Text /\ w = Joined(Alone(Open), y)
      BY <2>2, <2>3
    <3>2. y = Joined(Alone(Open), x)
      OBVIOUS
    <3> HIDE DEF x, y
    <3>3. Head(w) = Open /\ Tail(w) = y
      BY <3>1, FrontOfJoined
    <3>4. y # NoText /\ Head(y) = Open
      BY <3>1, <3>2, FrontOfJoined
    <3> QED  BY <3>2, <3>3, <3>4 DEF x
  <2> QED  BY <1>1, <2>4
<1> HIDE DEF w
<1>3. ReplaceEach(w, variables) = Joined(Alone(Head(w)), ReplaceEach(Tail(w), variables))
  BY <1>1, <1>2, PassStep
<1> QED  BY <1>1, <1>3 DEF w

Openless(text) == \A i \in 1 .. Len(text) : text[i] # Open

LEMMA PassOpenless ==
  ASSUME NEW variables, IsVariables(variables), NEW v \in Text, Openless(v), NEW t \in Text
  PROVE  ReplaceEach(Joined(v, t), variables) = Joined(v, ReplaceEach(t, variables))
<1> DEFINE G == {u \in Text : Openless(u) =>
                   ReplaceEach(Joined(u, t), variables) = Joined(u, ReplaceEach(t, variables))}
           r == ReplaceEach(t, variables)
<1>0. r \in Text
  BY PassStep
<1>1. NoText \in G
  BY <1>0, TextAlgebra
<1>2. ASSUME NEW u \in Text, NEW c \in Char, u \in G  PROVE Joined(Alone(c), u) \in G
  <2> DEFINE w == Joined(Alone(c), u)
  <2>1. Alone(c) \in Text /\ Len(Alone(c)) = 1 /\ Alone(c)[1] = c
    BY TextAlgebra, Lengths DEF Alone
  <2>2. w \in Text
    BY <2>1, TextAlgebra
  <2>3. ASSUME Openless(w)
        PROVE  ReplaceEach(Joined(w, t), variables) = Joined(w, r)
    <3>1. c # Open /\ Openless(u)
      <4>1. /\ Len(w) = 1 + Len(u) /\ Len(u) \in Nat
            /\ w[1] = c /\ \A i \in 1 .. Len(u) : w[1 + i] = u[i]
        <5>1. /\ Len(w) = Len(Alone(c)) + Len(u)
              /\ \A i \in 1 .. Len(Alone(c)) : w[i] = Alone(c)[i]
              /\ \A i \in 1 .. Len(u) : w[Len(Alone(c)) + i] = u[i]
          BY <2>1, PartsOfJoined
        <5>2. Len(u) \in Nat
          BY Lengths
        <5> HIDE DEF w
        <5> QED  BY <2>1, <5>1, <5>2
      <4>2. 1 \in 1 .. Len(w) /\ \A i \in 1 .. Len(u) : 1 + i \in 1 .. Len(w)
        BY <4>1
      <4> HIDE DEF w
      <4> QED  BY <2>3, <4>1, <4>2 DEF Openless
    <3>2. ReplaceEach(Joined(u, t), variables) = Joined(u, r)
      BY <1>2, <3>1
    <3>3. Joined(w, t) = Joined(Alone(c), Joined(u, t)) /\ Joined(u, t) \in Text
      BY <2>1, TextAlgebra
    <3>4. ReplaceEach(Joined(Alone(c), Joined(u, t)), variables) =
            Joined(Alone(c), ReplaceEach(Joined(u, t), variables))
      BY <3>1, <3>3, PassCharacter
    <3> HIDE DEF r
    <3>5. Joined(w, r) = Joined(Alone(c), Joined(u, r))
      BY <1>0, <2>1, TextAlgebra
    <3> HIDE DEF w
    <3> QED  BY <3>2, <3>3, <3>4, <3>5
  <2> HIDE DEF w
  <2> QED  BY <2>2, <2>3 DEF w
<1> HIDE DEF G
<1>3. Text \subseteq G
  BY <1>1, <1>2, TextInduction
<1> QED  BY <1>3 DEF G

\* Two names without braces are one if both are next in a text.
LEMMA OneNameNext ==
  ASSUME NEW m \in Text, Plain(m), NEW n \in Text, Plain(n), NEW t \in Text,
         IsPrefix(Placeholder(m), Joined(Placeholder(n), t))
  PROVE  m = n
<1> DEFINE p == Placeholder(m)
           q == Placeholder(n)
           w == Joined(q, t)
<1>1. /\ p \in Text /\ Len(p) = Len(m) + 4 /\ \A i \in 1 .. Len(m) : p[i + 2] = m[i]
      /\ p[Len(m) + 3] = Close
  BY PlaceholderParts
<1>2. /\ q \in Text /\ Len(q) = Len(n) + 4 /\ \A i \in 1 .. Len(n) : q[i + 2] = n[i]
      /\ q[Len(n) + 3] = Close
  BY PlaceholderParts
<1>3. Len(m) \in Nat /\ Len(n) \in Nat
  BY Lengths
<1>4. /\ \A i \in 1 .. Len(m) : m[i] # Close
      /\ \A i \in 1 .. Len(n) : n[i] # Close
  <2>1. DOMAIN m = 1 .. Len(m) /\ DOMAIN n = 1 .. Len(n)
    BY LenProperties DEF Text
  <2> QED  BY <2>1 DEF Plain
<1> HIDE DEF p, q
<1>5. w \in Text /\ \A i \in 1 .. Len(q) : w[i] = q[i]
  BY <1>2, PartsOfJoined
<1>6. \A i \in 1 .. Len(p) : w[i] = p[i]
  <2>1. IsPrefix(p, w)
    BY DEF p, q
  <2> HIDE DEF w
  <2> DEFINE u == SubSeq(w, Len(p) + 1, Len(w))
  <2>2. u \in Text /\ w = Joined(p, u)
    BY <1>1, <1>5, <2>1, PrefixOf
  <2> HIDE DEF u
  <2>3. \A i \in 1 .. Len(p) : Joined(p, u)[i] = p[i]
    BY <1>1, <2>2, PartsOfJoined
  <2> QED  BY <2>2, <2>3
<1> HIDE DEF w
<1>7. ~(Len(m) < Len(n))
  <2> SUFFICES ASSUME Len(m) < Len(n)  PROVE FALSE
    OBVIOUS
  <2>1. /\ Len(m) + 1 \in 1 .. Len(n) /\ (Len(m) + 1) + 2 = Len(m) + 3
        /\ Len(m) + 3 \in 1 .. Len(p) /\ Len(m) + 3 \in 1 .. Len(q)
    BY <1>1, <1>2, <1>3
  <2>2. p[Len(m) + 3] = q[Len(m) + 3]
    BY <1>5, <1>6, <2>1
  <2>3. q[Len(m) + 3] = n[Len(m) + 1]
    BY <1>2, <2>1
  <2> QED  BY <1>1, <1>4, <2>1, <2>2, <2>3
<1>8. ~(Len(n) < Len(m))
  <2> SUFFICES ASSUME Len(n) < Len(m)  PROVE FALSE
    OBVIOUS
  <2>1. /\ Len(n) + 1 \in 1 .. Len(m) /\ (Len(n) + 1) + 2 = Len(n) + 3
        /\ Len(n) + 3 \in 1 .. Len(p) /\ Len(n) + 3 \in 1 .. Len(q)
    BY <1>1, <1>2, <1>3
  <2>2. p[Len(n) + 3] = q[Len(n) + 3]
    BY <1>5, <1>6, <2>1
  <2>3. p[Len(n) + 3] = m[Len(n) + 1]
    BY <1>1, <2>1
  <2> QED  BY <1>2, <1>4, <2>1, <2>2, <2>3
<1>9. Len(m) = Len(n)
  BY <1>3, <1>7, <1>8
<1>10. ASSUME NEW i \in 1 .. Len(m)  PROVE m[i] = n[i]
  <2>1. i \in 1 .. Len(n) /\ i + 2 \in 1 .. Len(p) /\ i + 2 \in 1 .. Len(q)
    BY <1>1, <1>2, <1>3, <1>9
  <2> QED  BY <1>1, <1>2, <1>5, <1>6, <2>1
<1> QED  BY <1>9, <1>10, SameText

\* The placeholder of a key gives way to its value.
LEMMA PassPlaceholder ==
  ASSUME NEW variables, IsVariables(variables), PlainVariables(variables),
         NEW key \in DOMAIN variables, NEW t \in Text
  PROVE  ReplaceEach(Joined(Placeholder(key), t), variables) =
           Joined(variables[key], ReplaceEach(t, variables))
<1> DEFINE q == Placeholder(key)
           w == Joined(q, t)
<1>1. key \in Text /\ \A k \in DOMAIN variables : k \in Text /\ Plain(k)
  BY DEF IsVariables, PlainVariables
<1>2. q \in Text /\ w \in Text
  BY <1>1, PlaceholderParts, TextAlgebra
<1>3. IsPrefix(q, w) /\ Behind(w, key) = t
  BY <1>2, PrefixOfJoined DEF Behind
<1>4. KeysNext(w, variables) = {key}
  <2>1. key \in KeysNext(w, variables)
    BY <1>3 DEF KeysNext
  <2>2. \A k \in KeysNext(w, variables) : k = key
    BY <1>1, OneNameNext DEF KeysNext
  <2> QED  BY <2>1, <2>2
<1> HIDE DEF w
<1>5. NextKey(w, variables) = key
  BY <1>4 DEF NextKey
<1>6. ReplaceEach(w, variables) = Joined(variables[key], ReplaceEach(t, variables))
  BY <1>2, <1>3, <1>4, <1>5, PassStep
<1> QED  BY <1>6 DEF w

\* The placeholder of any other name stays.
LEMMA PassOther ==
  ASSUME NEW variables, IsVariables(variables), PlainVariables(variables),
         NEW name \in Text, Plain(name), name \notin DOMAIN variables, NEW t \in Text
  PROVE  ReplaceEach(Joined(Placeholder(name), t), variables) =
           Joined(Placeholder(name), ReplaceEach(t, variables))
<1> DEFINE q == Placeholder(name)
           o == Alone(Open)
           v == Joined(name, Closing)
           w == Joined(q, t)
           r == ReplaceEach(t, variables)
<1>1. /\ q \in Text /\ q = Joined(o, Joined(o, v)) /\ o \in Text /\ v \in Text
      /\ Open \in Char /\ r \in Text
  BY Braces, PlaceholderParts, TextAlgebra, PassStep
<1>2. Openless(v) /\ v # NoText /\ Head(v) # Open
  <2>1. /\ Closing \in Text /\ Len(Closing) = 2 /\ Closing[1] = Close /\ Closing[2] = Close
        /\ Close # Open
    BY Braces DEF Closing
  <2>2. Len(name) \in Nat /\ \A i \in 1 .. Len(name) : name[i] # Open
    <3>1. DOMAIN name = 1 .. Len(name) /\ Len(name) \in Nat
      BY LenProperties DEF Text
    <3> QED  BY <3>1 DEF Plain
  <2>3. /\ Len(v) = Len(name) + Len(Closing)
        /\ \A i \in 1 .. Len(name) : v[i] = name[i]
        /\ \A i \in 1 .. Len(Closing) : v[Len(name) + i] = Closing[i]
    BY <2>1, PartsOfJoined
  <2> HIDE DEF v
  <2>4. ASSUME NEW i \in 1 .. Len(v)  PROVE v[i] # Open
    <3>1. CASE i <= Len(name)
      <4>1. i \in 1 .. Len(name)
        BY <2>1, <2>2, <2>3, <3>1
      <4> QED  BY <2>2, <2>3, <4>1
    <3>2. CASE ~(i <= Len(name))
      <4> DEFINE j == i - Len(name)
      <4>1. j \in 1 .. Len(Closing) /\ Len(name) + j = i /\ (j = 1 \/ j = 2)
        BY <2>1, <2>2, <2>3, <3>2
      <4> HIDE DEF j
      <4> QED  BY <2>1, <2>3, <4>1
    <3> QED  BY <3>1, <3>2
  <2>5. Len(v) # 0 /\ 1 \in 1 .. Len(v)
    BY <2>1, <2>2, <2>3
  <2>6. v # NoText
    BY <1>1, <2>5, Lengths
  <2>7. Head(v) = v[1]
    BY <1>1, <2>6, FrontOf
  <2> QED  BY <2>4, <2>5, <2>6, <2>7 DEF Openless
<1> DEFINE x == Joined(v, t)
           y == Joined(o, x)
<1>3. x \in Text /\ y \in Text
  <2> HIDE DEF v, o
  <2> QED  BY <1>1, TextAlgebra
<1>4. w = Joined(o, y)
  <2> HIDE DEF q, o, v
  <2>1. Joined(o, v) \in Text
    BY <1>1, TextAlgebra
  <2>2. w = Joined(o, Joined(Joined(o, v), t))
    BY <1>1, <2>1, TextAlgebra
  <2>3. Joined(Joined(o, v), t) = y
    BY <1>1, TextAlgebra
  <2> QED  BY <2>2, <2>3
<1>5. KeysNext(w, variables) = {}
  <2>1. \A k \in DOMAIN variables : k \in Text /\ Plain(k)
    BY DEF IsVariables, PlainVariables
  <2>2. \A k \in KeysNext(w, variables) : k = name
    BY <2>1, OneNameNext DEF KeysNext
  <2> QED  BY <2>2 DEF KeysNext
<1>6. x # NoText /\ Head(x) # Open
  <2> HIDE DEF v
  <2>1. v[1] = Head(v) /\ Len(v) \in Nat /\ Len(v) # 0
    BY <1>1, <1>2, FrontOf, Lengths
  <2>2. 1 \in 1 .. Len(v)
    BY <2>1
  <2>3. x[1] = v[1] /\ Len(x) = Len(v) + Len(t) /\ Len(t) \in Nat
    BY <1>1, <2>2, PartsOfJoined, Lengths
  <2>4. x # NoText
    BY <1>3, <2>1, <2>3, Lengths
  <2>5. Head(x) = x[1]
    BY <1>3, <2>4, FrontOf
  <2> QED  BY <1>2, <2>1, <2>3, <2>4, <2>5
<1>7. ReplaceEach(x, variables) = Joined(v, r)
  <2> HIDE DEF v
  <2> QED  BY <1>1, <1>2, PassOpenless
<1>8. ReplaceEach(y, variables) = Joined(o, Joined(v, r))
  <2> HIDE DEF x
  <2>1. ReplaceEach(y, variables) = Joined(o, ReplaceEach(x, variables))
    BY <1>1, <1>3, <1>6, PassCharacter
  <2> QED  BY <1>7, <2>1
<1>9. ReplaceEach(w, variables) = Joined(o, ReplaceEach(y, variables))
  <2> HIDE DEF w, y
  <2>1. w \in Text /\ w # NoText /\ Head(w) = Open /\ Tail(w) = y
    BY <1>1, <1>3, <1>4, FrontOfJoined, TextAlgebra
  <2>2. ReplaceEach(w, variables) = Joined(Alone(Head(w)), ReplaceEach(Tail(w), variables))
    BY <1>5, <2>1, PassStep
  <2> QED  BY <2>1, <2>2
<1>10. Joined(q, r) = Joined(o, Joined(o, Joined(v, r)))
  <2> HIDE DEF q, o, v, r
  <2>1. Joined(o, v) \in Text
    BY <1>1, TextAlgebra
  <2>2. Joined(q, r) = Joined(o, Joined(Joined(o, v), r))
    BY <1>1, <2>1, TextAlgebra
  <2>3. Joined(Joined(o, v), r) = Joined(o, Joined(v, r))
    BY <1>1, TextAlgebra
  <2> QED  BY <2>2, <2>3
<1> HIDE DEF o, v, y, x
<1> QED  BY <1>8, <1>9, <1>10

-----------------------------------------------------------------------------
(***************************************************************************)
(* A tidy text is made of characters and placeholders.                     *)
(***************************************************************************)
LEMMA PlainPart ==
  ASSUME NEW t \in Text, NEW a \in Nat \ {0}, NEW b \in Nat, b <= Len(t), a <= b + 1
  PROVE  /\ SubSeq(t, a, b) \in Text /\ Len(SubSeq(t, a, b)) = b - a + 1
         /\ \A i \in 1 .. b - a + 1 : SubSeq(t, a, b)[i] = t[a + i - 1]
         /\ Plain(SubSeq(t, a, b)) <=> \A i \in a .. b : t[i] \notin {Open, Close}
<1> DEFINE u == SubSeq(t, a, b)
<1>1. \A i \in a .. b : t[i] \in Char
  <2>1. Len(t) \in Nat
    BY Lengths
  <2>2. \A i \in a .. b : i \in 1 .. Len(t)
    BY <2>1
  <2> QED  BY <2>2, CharacterOf
<1>2. /\ u \in Seq(Char) /\ Len(u) = IF a <= b THEN b - a + 1 ELSE 0
      /\ \A i \in 1 .. b - a + 1 : u[i] = t[a + i - 1]
  <2>1. a \in Int /\ b \in Int
    OBVIOUS
  <2> QED  BY <1>1, <2>1, SubSeqProperties
<1> HIDE DEF u
<1>3. Len(u) = b - a + 1
  BY <1>2
<1>4. DOMAIN u = 1 .. b - a + 1
  BY <1>2, <1>3, LenProperties
<1>5. Plain(u) => \A i \in a .. b : t[i] \notin {Open, Close}
  <2> SUFFICES ASSUME Plain(u), NEW i \in a .. b  PROVE t[i] \notin {Open, Close}
    OBVIOUS
  <2> DEFINE k == i - a + 1
  <2>1. k \in 1 .. b - a + 1 /\ a + k - 1 = i
    OBVIOUS
  <2> HIDE DEF k
  <2>2. u[k] = t[i]
    BY <1>2, <2>1
  <2>3. u[k] \notin {Open, Close}
    BY <1>4, <2>1 DEF Plain
  <2> QED  BY <2>2, <2>3
<1>6. (\A i \in a .. b : t[i] \notin {Open, Close}) => Plain(u)
  <2> SUFFICES ASSUME \A i \in a .. b : t[i] \notin {Open, Close}, NEW k \in 1 .. b - a + 1
               PROVE  u[k] \notin {Open, Close}
    BY <1>4 DEF Plain
  <2>1. a + k - 1 \in a .. b
    OBVIOUS
  <2> QED  BY <1>2, <2>1
<1> QED  BY <1>2, <1>3, <1>5, <1>6 DEF u, Text

LEMMA TidyRest ==
  ASSUME NEW p \in Text, NEW t \in Text, Tidy(Joined(p, t))
  PROVE  Tidy(t)
<1> DEFINE w == Joined(p, t)
           n == Len(p)
<1>1. /\ w \in Text /\ Len(w) = n + Len(t) /\ n \in Nat /\ Len(t) \in Nat
      /\ \A i \in 1 .. Len(t) : w[n + i] = t[i]
  BY PartsOfJoined, Lengths
<1>2. Tidy(w)
  OBVIOUS
<1> HIDE DEF w, n
<1> SUFFICES ASSUME NEW i \in 1 .. Len(t) - 1, OpensAt(t, i)
             PROVE  \E j \in i + 2 .. Len(t) - 1 :
                      ClosesAt(t, j) /\ Plain(SubSeq(t, i + 2, j - 1))
  BY DEF Tidy
<1>3. n + i \in 1 .. Len(w) - 1 /\ OpensAt(w, n + i)
  <2>1. /\ i \in 1 .. Len(t) /\ i + 1 \in 1 .. Len(t) /\ n + (i + 1) = (n + i) + 1
        /\ n + i \in 1 .. Len(w) - 1
    BY <1>1
  <2>2. w[n + i] = t[i] /\ w[(n + i) + 1] = t[i + 1]
    BY <1>1, <2>1
  <2> QED  BY <2>1, <2>2 DEF OpensAt
<1>4. PICK k \in (n + i) + 2 .. Len(w) - 1 :
        ClosesAt(w, k) /\ Plain(SubSeq(w, (n + i) + 2, k - 1))
  BY <1>2, <1>3 DEF Tidy
<1> DEFINE j == k - n
<1>5. /\ j \in i + 2 .. Len(t) - 1 /\ n + j = k /\ k \in Nat
      /\ j \in 1 .. Len(t) /\ j + 1 \in 1 .. Len(t) /\ n + (j + 1) = k + 1
  BY <1>1, <1>4
<1> HIDE DEF j
<1>6. ClosesAt(t, j)
  <2>1. w[k] = t[j] /\ w[k + 1] = t[j + 1]
    BY <1>1, <1>5
  <2> QED  BY <1>4, <2>1 DEF ClosesAt
<1>7. \A m \in (n + i) + 2 .. k - 1 : w[m] \notin {Open, Close}
  <2>1. /\ (n + i) + 2 \in Nat \ {0} /\ k - 1 \in Nat /\ k - 1 <= Len(w)
        /\ (n + i) + 2 <= (k - 1) + 1
    BY <1>1, <1>4, <1>5
  <2> QED  BY <1>1, <1>4, <2>1, PlainPart
<1>8. \A m \in i + 2 .. j - 1 : t[m] \notin {Open, Close}
  <2> SUFFICES ASSUME NEW m \in i + 2 .. j - 1  PROVE t[m] \notin {Open, Close}
    OBVIOUS
  <2>1. m \in 1 .. Len(t) /\ n + m \in (n + i) + 2 .. k - 1
    BY <1>1, <1>5
  <2> QED  BY <1>1, <1>7, <2>1
<1>9. Plain(SubSeq(t, i + 2, j - 1))
  <2>1. i + 2 \in Nat \ {0} /\ j - 1 \in Nat /\ j - 1 <= Len(t) /\ i + 2 <= (j - 1) + 1
    BY <1>1, <1>5
  <2> QED  BY <1>8, <2>1, PlainPart
<1> QED  BY <1>5, <1>6, <1>9

StartsAsPlaceholder(w) ==
  \E n, t \in Text : Plain(n) /\ Tidy(t) /\ w = Joined(Placeholder(n), t) /\ Len(t) < Len(w)

StartsAsCharacter(w) ==
  \E c \in Char, t \in Text :
    /\ Tidy(t) /\ w = Joined(Alone(c), t) /\ Len(t) < Len(w)
    /\ ~(c = Open /\ t # NoText /\ Head(t) = Open)

LEMMA TidyParts ==
  ASSUME NEW w \in Text, w # NoText, Tidy(w)
  PROVE  StartsAsCharacter(w) \/ StartsAsPlaceholder(w)
<1>0. Len(w) \in Nat
  BY Lengths
<1>1. CASE Len(w) > 1 /\ OpensAt(w, 1)
  <2>1. PICK j \in 1 + 2 .. Len(w) - 1 :
          ClosesAt(w, j) /\ Plain(SubSeq(w, 1 + 2, j - 1))
    <3>1. 1 \in 1 .. Len(w) - 1
      BY <1>0, <1>1
    <3> QED  BY <1>1, <3>1 DEF Tidy
  <2> DEFINE n == SubSeq(w, 3, j - 1)
             p == Placeholder(n)
             m == j - 1
  <2>2. /\ n \in Text /\ Len(n) = m - 3 + 1 /\ \A i \in 1 .. m - 3 + 1 : n[i] = w[3 + i - 1]
    <3>1. 3 \in Nat \ {0} /\ m \in Nat /\ m <= Len(w) /\ 3 <= m + 1
      BY <1>0, <2>1
    <3> HIDE DEF m
    <3> QED  BY <3>1, PlainPart DEF m
  <2>3. Plain(n)
    BY <2>1
  <2>4. m - 3 + 1 = j - 3 /\ j \in Nat /\ j >= 3 /\ j + 1 <= Len(w)
    BY <1>0, <2>1
  <2> HIDE DEF n, m
  <2>5. /\ p \in Text /\ Len(p) = j + 1 /\ p[1] = Open /\ p[2] = Open
        /\ \A i \in 1 .. j - 3 : p[i + 2] = n[i]
        /\ p[j] = Close /\ p[j + 1] = Close
    <3>1. Len(n) = j - 3 /\ Len(n) + 3 = j /\ Len(n) + 4 = j + 1
      BY <2>2, <2>4
    <3>2. /\ p \in Text /\ Len(p) = Len(n) + 4 /\ p[1] = Open /\ p[2] = Open
          /\ \A i \in 1 .. Len(n) : p[i + 2] = n[i]
          /\ p[Len(n) + 3] = Close /\ p[Len(n) + 4] = Close
      BY <2>2, PlaceholderParts
    <3> HIDE DEF p
    <3> QED  BY <3>1, <3>2
  <2> HIDE DEF p
  <2>6. ASSUME NEW i \in 1 .. j + 1  PROVE p[i] = w[i]
    <3>1. CASE i = 1 \/ i = 2
      <4>1. w[1] = Open /\ w[2] = Open
        BY <1>1 DEF OpensAt
      <4> QED  BY <2>5, <3>1, <4>1
    <3>2. CASE i > 2 /\ i < j
      <4> DEFINE k == i - 2
      <4>1. k \in 1 .. j - 3 /\ k + 2 = i /\ 3 + k - 1 = i /\ i \in Nat
        BY <2>4, <3>2
      <4> HIDE DEF k
      <4>2. p[i] = n[k]
        BY <2>5, <4>1
      <4>3. n[k] = w[3 + k - 1]
        BY <2>2, <2>4, <4>1
      <4> QED  BY <4>1, <4>2, <4>3
    <3>3. CASE i = j \/ i = j + 1
      <4>1. w[j] = Close /\ w[j + 1] = Close
        BY <2>1 DEF ClosesAt
      <4> QED  BY <2>5, <3>3, <4>1
    <3> QED  BY <2>4, <3>1, <3>2, <3>3
  <2>7. IsPrefix(p, w)
    <3> DEFINE u == SubSeq(w, 1, j + 1)
    <3>1. /\ u \in Text /\ Len(u) = j + 1 /\ \A i \in 1 .. j + 1 : u[i] = w[i]
      <4>1. 1 \in Nat \ {0} /\ j + 1 \in Nat /\ j + 1 <= Len(w) /\ 1 <= j + 1 + 1
        BY <2>4
      <4>2. /\ u \in Text /\ Len(u) = j + 1 - 1 + 1
            /\ \A i \in 1 .. j + 1 - 1 + 1 : u[i] = w[1 + i - 1]
        BY <4>1, PlainPart
      <4> HIDE DEF u
      <4>3. j + 1 - 1 + 1 = j + 1 /\ \A i \in 1 .. j + 1 : 1 + i - 1 = i
        BY <2>4
      <4> QED  BY <4>2, <4>3
    <3> HIDE DEF u
    <3>2. u = p
      BY <2>5, <2>6, <3>1, SameText
    <3>3. SubSeq(p, 1, Len(p)) = p
      BY <2>5, SubSeqFull DEF Text
    <3>4. SubSeq(w, 1, Len(p)) = u
      BY <2>5 DEF u
    <3>5. Len(p) <= Len(w)
      BY <2>4, <2>5
    <3> QED  BY <3>2, <3>3, <3>4, <3>5 DEF IsPrefix
  <2> DEFINE t == SubSeq(w, Len(p) + 1, Len(w))
  <2>8. t \in Text /\ w = Joined(p, t)
    BY <2>5, <2>7, PrefixOf
  <2> HIDE DEF t
  <2>9. Tidy(t)
    BY <2>5, <2>8, TidyRest
  <2>10. Len(t) < Len(w)
    <3>1. Len(w) = Len(p) + Len(t) /\ Len(t) \in Nat
      BY <2>5, <2>8, Lengths
    <3> QED  BY <2>4, <2>5, <3>1
  <2>11. StartsAsPlaceholder(w)
    BY <2>2, <2>3, <2>8, <2>9, <2>10 DEF StartsAsPlaceholder, p
  <2> QED  BY <2>11
<1>2. CASE ~(Len(w) > 1 /\ OpensAt(w, 1))
  <2> DEFINE c == Head(w)
             t == Tail(w)
  <2>1. c \in Char /\ c = w[1] /\ t \in Text /\ w = Joined(Alone(c), t) /\ Len(t) < Len(w)
    BY FrontOf
  <2> HIDE DEF c, t
  <2>2. Alone(c) \in Text /\ Len(Alone(c)) = 1
    BY <2>1, TextAlgebra, Lengths
  <2>3. Tidy(t)
    BY <2>1, <2>2, TidyRest
  <2>4. ~(c = Open /\ t # NoText /\ Head(t) = Open)
    <3> SUFFICES ASSUME c = Open, t # NoText, Head(t) = Open  PROVE FALSE
      OBVIOUS
    <3>1. Len(t) \in Nat /\ Len(t) # 0 /\ t[1] = Open
      BY <2>1, FrontOf, Lengths
    <3> DEFINE f == Alone(c)
    <3>2. f \in Text /\ t \in Text /\ Len(f) = 1 /\ w = Joined(f, t)
      BY <2>1, <2>2
    <3> HIDE DEF f
    <3>3. Len(w) = Len(f) + Len(t) /\ \A i \in 1 .. Len(t) : w[Len(f) + i] = t[i]
      <4>1. /\ Len(Joined(f, t)) = Len(f) + Len(t)
            /\ \A i \in 1 .. Len(t) : Joined(f, t)[Len(f) + i] = t[i]
        BY <3>2, PartsOfJoined
      <4> QED  BY <3>2, <4>1
    <3>4. Len(w) > 1 /\ w[2] = t[1]
      <4>1. 1 \in 1 .. Len(t) /\ Len(f) + 1 = 2 /\ Len(w) > 1
        BY <3>1, <3>2, <3>3
      <4> QED  BY <3>3, <4>1
    <3>5. OpensAt(w, 1)
      <4>0. w[1] = c
        BY <2>1
      <4>1. w[1] = Open /\ w[2] = Open
        BY <3>1, <3>4, <4>0
      <4>2. 1 + 1 = 2
        OBVIOUS
      <4> QED  BY <4>1, <4>2 DEF OpensAt
    <3> QED  BY <1>2, <3>4, <3>5
  <2> QED  BY <2>1, <2>3, <2>4 DEF StartsAsCharacter
<1> QED  BY <1>1, <1>2

LEMMA TidyInduction ==
  ASSUME NEW G, NoText \in G,
         \A c \in Char, t \in Text :
           t \in G /\ ~(c = Open /\ t # NoText /\ Head(t) = Open) => Joined(Alone(c), t) \in G,
         \A n, t \in Text : t \in G /\ Plain(n) => Joined(Placeholder(n), t) \in G
  PROVE  \A w \in Text : Tidy(w) => w \in G
<1> DEFINE H == {n \in Nat : \A w \in Text : Len(w) <= n /\ Tidy(w) => w \in G}
<1>1. 0 \in H
  BY Lengths
<1>2. ASSUME NEW n \in Nat, n \in H  PROVE n + 1 \in H
  <2> SUFFICES ASSUME NEW w \in Text, Len(w) <= n + 1, Tidy(w)  PROVE w \in G
    OBVIOUS
  <2>0. \A t \in Text : Len(t) < Len(w) /\ Tidy(t) => t \in G
    <3> SUFFICES ASSUME NEW t \in Text, Len(t) < Len(w), Tidy(t)  PROVE t \in G
      OBVIOUS
    <3>1. Len(t) <= n
      BY Lengths
    <3> QED  BY <1>2, <3>1
  <2>1. CASE w = NoText
    BY <2>1
  <2>2. CASE StartsAsCharacter(w)
    BY <2>0, <2>2 DEF StartsAsCharacter
  <2>3. CASE StartsAsPlaceholder(w)
    BY <2>0, <2>3 DEF StartsAsPlaceholder
  <2> QED  BY <2>1, <2>2, <2>3, TidyParts
<1> HIDE DEF H
<1>3. Nat \subseteq H
  BY <1>1, <1>2, Induction
<1> QED  BY <1>3, Lengths DEF H

-----------------------------------------------------------------------------
(***************************************************************************)
(* One pass after the other.                                               *)
(***************************************************************************)
Part(variables, keys) == [key \in keys |-> variables[key]]

LEMMA PartType ==
  ASSUME NEW variables, IsVariables(variables), NEW keys \in SUBSET DOMAIN variables
  PROVE  /\ DOMAIN Part(variables, keys) = keys
         /\ \A key \in keys : Part(variables, keys)[key] = variables[key]
         /\ IsVariables(Part(variables, keys))
         /\ PlainVariables(variables) => PlainVariables(Part(variables, keys))
<1> DEFINE part == Part(variables, keys)
<1>1. DOMAIN part = keys /\ \A key \in keys : part[key] = variables[key]
  BY DEF Part
<1>2. /\ keys \subseteq Text /\ IsFiniteSet(keys)
      /\ \A key \in keys : variables[key] \in Text
  BY FS_Subset DEF IsVariables
<1>3. part \in [keys -> Text]
  BY <1>2 DEF Part
<1> HIDE DEF part
<1>4. IsVariables(part)
  BY <1>1, <1>2, <1>3 DEF IsVariables
<1>5. PlainVariables(variables) => PlainVariables(part)
  BY <1>1 DEF PlainVariables
<1> QED  BY <1>1, <1>4, <1>5 DEF part

LEMMA ReplaceEveryPart ==
  ASSUME NEW text, NEW variables, NEW key \in DOMAIN variables
  PROVE  ReplaceEvery(text, key, variables[key]) = ReplaceEach(text, Part(variables, {key}))
<1> DEFINE value == variables[key]
<1>1. Part(variables, {key}) = [k \in {key} |-> value]
  BY DEF Part
<1> HIDE DEF value
<1>2. ReplaceEvery(text, key, value) = ReplaceEach(text, [k \in {key} |-> value])
  BY DEF ReplaceEvery
<1> QED  BY <1>1, <1>2 DEF value

LEMMA ReplaceEveryType ==
  ASSUME NEW text \in Text, NEW variables, IsVariables(variables), NEW key \in DOMAIN variables
  PROVE  ReplaceEvery(text, key, variables[key]) \in Text
<1>1. IsVariables(Part(variables, {key}))
  BY PartType
<1> QED  BY <1>1, PassStep, ReplaceEveryPart

\* A pass puts no opening brace in front.
LEMMA PassKeepsFront ==
  ASSUME NEW variables, IsVariables(variables), NEW t \in Text,
         ~(t # NoText /\ Head(t) = Open)
  PROVE  LET r == ReplaceEach(t, variables) IN ~(r # NoText /\ Head(r) = Open)
<1>1. CASE t = NoText
  BY <1>1, PassStep
<1>2. CASE t # NoText
  <2> DEFINE c == Head(t)
             u == Tail(t)
             r == ReplaceEach(u, variables)
  <2>1. c \in Char /\ u \in Text /\ t = Joined(Alone(c), u) /\ c # Open
    BY <1>2, FrontOf
  <2>2. r \in Text
    BY <2>1, PassStep
  <2> HIDE DEF c, u
  <2>3. ReplaceEach(t, variables) = Joined(Alone(c), r)
    BY <2>1, PassCharacter
  <2>4. Head(Joined(Alone(c), r)) = c
    BY <2>1, <2>2, FrontOfJoined
  <2> QED  BY <2>1, <2>3, <2>4
<1> QED  BY <1>1, <1>2

LEMMA TwoPasses ==
  ASSUME NEW variables, IsVariables(variables), PlainVariables(variables),
         NEW keys \in SUBSET DOMAIN variables, NEW key \in DOMAIN variables,
         NEW w \in Text, Tidy(w)
  PROVE  ReplaceEach(ReplaceEach(w, Part(variables, keys)), Part(variables, {key})) =
           ReplaceEach(w, Part(variables, keys \cup {key}))
<1> DEFINE some == Part(variables, keys)
           one == Part(variables, {key})
           more == Part(variables, keys \cup {key})
           G == {t \in Text : ReplaceEach(ReplaceEach(t, some), one) = ReplaceEach(t, more)}
<1>1. /\ DOMAIN some = keys /\ IsVariables(some) /\ PlainVariables(some)
      /\ \A k \in keys : some[k] = variables[k]
  BY PartType
<1>2. /\ DOMAIN one = {key} /\ IsVariables(one) /\ PlainVariables(one)
      /\ one[key] = variables[key]
  BY PartType
<1>3. /\ DOMAIN more = keys \cup {key} /\ IsVariables(more) /\ PlainVariables(more)
      /\ \A k \in keys \cup {key} : more[k] = variables[k]
  BY PartType
<1>4. \A k \in DOMAIN variables : variables[k] \in Text /\ Openless(variables[k])
  <2> SUFFICES ASSUME NEW k \in DOMAIN variables
               PROVE  variables[k] \in Text /\ Openless(variables[k])
    OBVIOUS
  <2>1. variables[k] \in Text
    BY DEF IsVariables
  <2>2. DOMAIN variables[k] = 1 .. Len(variables[k])
    BY <2>1, LenProperties DEF Text
  <2> QED  BY <2>1, <2>2 DEF PlainVariables, Openless
<1> HIDE DEF some, one, more
<1>5. NoText \in G
  <2>1. NoText \in Text
    BY TextAlgebra
  <2>2. /\ ReplaceEach(NoText, some) = NoText /\ ReplaceEach(NoText, one) = NoText
        /\ ReplaceEach(NoText, more) = NoText
    BY <1>1, <1>2, <1>3, <2>1, PassStep
  <2> QED  BY <2>1, <2>2
<1>6. ASSUME NEW c \in Char, NEW t \in Text, t \in G,
             ~(c = Open /\ t # NoText /\ Head(t) = Open)
      PROVE  Joined(Alone(c), t) \in G
  <2> DEFINE r == ReplaceEach(t, some)
             v == Joined(Alone(c), t)
  <2>1. r \in Text
    BY <1>1, PassStep
  <2>2. v \in Text
    <3>1. Alone(c) \in Text
      BY TextAlgebra
    <3> QED  BY <3>1, TextAlgebra
  <2>3. ~(c = Open /\ r # NoText /\ Head(r) = Open)
    BY <1>1, <1>6, PassKeepsFront
  <2>4. ReplaceEach(v, some) = Joined(Alone(c), r)
    BY <1>1, <1>6, PassCharacter
  <2>5. ReplaceEach(v, more) = Joined(Alone(c), ReplaceEach(t, more))
    BY <1>3, <1>6, PassCharacter
  <2>6. ReplaceEach(r, one) = ReplaceEach(t, more)
    BY <1>6
  <2> HIDE DEF r, v
  <2>7. ReplaceEach(Joined(Alone(c), r), one) = Joined(Alone(c), ReplaceEach(r, one))
    BY <1>2, <2>1, <2>3, PassCharacter
  <2>8. v \in G
    BY <2>2, <2>4, <2>5, <2>6, <2>7
  <2> QED  BY <2>8 DEF v
<1>7. ASSUME NEW n \in Text, NEW t \in Text, t \in G, Plain(n)
      PROVE  Joined(Placeholder(n), t) \in G
  <2> DEFINE r == ReplaceEach(t, some)
             q == Placeholder(n)
             v == Joined(q, t)
  <2>1. r \in Text /\ ReplaceEach(r, one) = ReplaceEach(t, more)
    BY <1>1, <1>7, PassStep
  <2>2. v \in Text
    BY PlaceholderParts, TextAlgebra
  <2> HIDE DEF r
  <2>3. CASE n \in keys
    <3>1. ReplaceEach(v, some) = Joined(variables[n], r)
      BY <1>1, <2>3, PassPlaceholder DEF r
    <3>2. ReplaceEach(Joined(variables[n], r), one) = Joined(variables[n], ReplaceEach(r, one))
      <4>1. variables[n] \in Text /\ Openless(variables[n])
        BY <1>4, <2>3
      <4> QED  BY <1>2, <2>1, <4>1, PassOpenless
    <3>3. ReplaceEach(v, more) = Joined(variables[n], ReplaceEach(t, more))
      BY <1>3, <2>3, PassPlaceholder
    <3> QED  BY <2>1, <2>2, <3>1, <3>2, <3>3
  <2>4. CASE n \notin keys /\ n = key
    <3>1. ReplaceEach(v, some) = Joined(q, r)
      BY <1>1, <1>7, <2>4, PassOther DEF r
    <3>2. ReplaceEach(Joined(q, r), one) = Joined(variables[n], ReplaceEach(r, one))
      BY <1>2, <2>1, <2>4, PassPlaceholder
    <3>3. ReplaceEach(v, more) = Joined(variables[n], ReplaceEach(t, more))
      BY <1>3, <2>4, PassPlaceholder
    <3> QED  BY <2>1, <2>2, <3>1, <3>2, <3>3
  <2>5. CASE n \notin keys /\ n # key
    <3>1. ReplaceEach(v, some) = Joined(q, r)
      BY <1>1, <1>7, <2>5, PassOther DEF r
    <3>2. ReplaceEach(Joined(q, r), one) = Joined(q, ReplaceEach(r, one))
      BY <1>2, <1>7, <2>1, <2>5, PassOther
    <3>3. ReplaceEach(v, more) = Joined(q, ReplaceEach(t, more))
      BY <1>3, <1>7, <2>5, PassOther
    <3> QED  BY <2>1, <2>2, <3>1, <3>2, <3>3
  <2> QED  BY <2>3, <2>4, <2>5
<1> HIDE DEF G
<1>8. \A t \in Text : Tidy(t) => t \in G
  BY <1>5, <1>6, <1>7, TidyInduction
<1>9. w \in G
  BY <1>8
<1> QED  BY <1>9 DEF G, some, one, more

\* Without keys nothing is replaced.
LEMMA PassWithoutKeys ==
  ASSUME NEW variables, IsVariables(variables), NEW t \in Text
  PROVE  ReplaceEach(t, Part(variables, {})) = t
<1> DEFINE none == Part(variables, {})
           G == {u \in Text : ReplaceEach(u, none) = u}
<1>1. IsVariables(none) /\ DOMAIN none = {}
  BY PartType
<1> HIDE DEF none
<1>2. NoText \in G
  BY <1>1, PassStep, TextAlgebra
<1>3. ASSUME NEW u \in Text, NEW c \in Char, u \in G  PROVE Joined(Alone(c), u) \in G
  <2> DEFINE w == Joined(Alone(c), u)
  <2>1. Alone(c) \in Text
    BY TextAlgebra
  <2>2. w \in Text /\ w # NoText /\ Head(w) = c /\ Tail(w) = u
    BY <2>1, FrontOfJoined, TextAlgebra
  <2> HIDE DEF w
  <2>3. KeysNext(w, none) = {}
    BY <1>1 DEF KeysNext
  <2>4. ReplaceEach(w, none) = Joined(Alone(Head(w)), ReplaceEach(Tail(w), none))
    BY <1>1, <2>2, <2>3, PassStep
  <2>5. ReplaceEach(u, none) = u
    BY <1>3
  <2>6. ReplaceEach(w, none) = w
    BY <2>2, <2>4, <2>5 DEF w
  <2> QED  BY <2>2, <2>6 DEF w
<1> HIDE DEF G
<1>4. Text \subseteq G
  BY <1>2, <1>3, TextInduction
<1> QED  BY <1>4 DEF G, none

-----------------------------------------------------------------------------
(***************************************************************************)
(* Render: what is done to a text, n times, and the texts it was from 0    *)
(* to n.                                                                   *)
(***************************************************************************)
Steps(n) == [1 .. n -> [Text -> Text]]
History(n) == [0 .. n -> Text]

LEMMA HistoryEntry ==
  ASSUME NEW n \in Nat, NEW f \in History(n), NEW i \in 0 .. n
  PROVE  f[i] \in Text
BY DEF History

\* A text on which one step after the other is done has a history.
LEMMA StepByStep ==
  ASSUME NEW x0 \in Text, NEW n \in Nat, NEW step \in Steps(n)
  PROVE  \E f \in History(n) :
           f[0] = x0 /\ \A i \in 1 .. n : f[i] = step[i][f[i - 1]]
<1> DEFINE Reached(m) ==
             \E f \in [0 .. m -> Text] :
               f[0] = x0 /\ \A i \in 1 .. m : f[i] = step[i][f[i - 1]]
           G == {m \in 0 .. n : Reached(m)}
<1>0. step \in [1 .. n -> [Text -> Text]]
  BY DEF Steps
<1>1. 0 \in G
  <2> DEFINE f == [i \in 0 .. 0 |-> x0]
  <2>1. f \in [0 .. 0 -> Text] /\ f[0] = x0 /\ \A i \in 1 .. 0 : f[i] = step[i][f[i - 1]]
    OBVIOUS
  <2>2. Reached(0)
    BY <2>1
  <2> QED  BY <2>2
<1>2. ASSUME NEW m \in 1 .. n, Reached(m - 1)  PROVE Reached(m)
  <2>1. PICK f \in [0 .. m - 1 -> Text] :
          f[0] = x0 /\ \A i \in 1 .. m - 1 : f[i] = step[i][f[i - 1]]
    BY <1>2
  <2> DEFINE g == [i \in 0 .. m |-> IF i = m THEN step[m][f[m - 1]] ELSE f[i]]
  <2>2. step[m][f[m - 1]] \in Text
    <3>1. m - 1 \in 0 .. m - 1
      OBVIOUS
    <3> QED  BY <1>0, <2>1, <3>1
  <2>3. g \in [0 .. m -> Text] /\ g[0] = x0
    <3>1. \A i \in 0 .. m : i # m => i \in 0 .. m - 1
      OBVIOUS
    <3>2. 0 \in 0 .. m /\ 0 # m
      OBVIOUS
    <3> QED  BY <2>1, <2>2, <3>1, <3>2
  <2>4. ASSUME NEW i \in 1 .. m  PROVE g[i] = step[i][g[i - 1]]
    <3>1. i \in 0 .. m /\ i - 1 \in 0 .. m /\ i - 1 # m
      OBVIOUS
    <3>2. g[i - 1] = f[i - 1]
      BY <3>1
    <3>3. CASE i = m
      BY <3>1, <3>2, <3>3
    <3>4. CASE i # m
      <4>1. i \in 1 .. m - 1
        BY <3>4
      <4>2. g[i] = f[i]
        BY <3>1, <3>4
      <4> QED  BY <2>1, <3>2, <4>1, <4>2
    <3> QED  BY <3>3, <3>4
  <2> QED  BY <2>3, <2>4
<1> HIDE DEF Reached
<1>3. \A m \in 1 .. n : m - 1 \in G => m \in G
  BY <1>2
<1> HIDE DEF G
<1>4. 0 .. n \subseteq G
  BY <1>1, <1>3, InductionUpTo
<1>5. n \in G
  BY <1>4
<1> QED  BY <1>5 DEF G, Reached, History

\* Render is a history of texts, one for each key of the order.
LEMMA RenderStages ==
  ASSUME NEW body \in Text, NEW variables, IsVariables(variables),
         NEW n \in Nat, NEW order \in [1 .. n -> DOMAIN variables]
  PROVE  \E f \in History(n) :
           /\ f[0] = body
           /\ \A i \in 1 .. n : f[i] = ReplaceEvery(f[i - 1], order[i], variables[order[i]])
           /\ RenderInOrder(body, variables, order) = f[n]
<1> DEFINE step == [i \in 1 .. n |->
                      [t \in Text |-> ReplaceEvery(t, order[i], variables[order[i]])]]
<1>1. step \in Steps(n)
  <2>1. \A i \in 1 .. n : \A t \in Text :
          ReplaceEvery(t, order[i], variables[order[i]]) \in Text
    BY ReplaceEveryType
  <2> QED  BY <2>1 DEF Steps
<1>2. PICK f \in History(n) :
        f[0] = body /\ \A i \in 1 .. n : f[i] = step[i][f[i - 1]]
  <2> HIDE DEF step
  <2> QED  BY <1>1, StepByStep
<1>3. ASSUME NEW i \in 1 .. n
      PROVE  f[i] = ReplaceEvery(f[i - 1], order[i], variables[order[i]])
  <2>1. i - 1 \in 0 .. n
    OBVIOUS
  <2>2. f[i - 1] \in Text
    BY <1>2, <2>1, HistoryEntry
  <2> QED  BY <1>2, <2>2
<1> DEFINE Eq(m, g) ==
             g = [i \in 0 .. m |->
                    IF i = 0 THEN body
                             ELSE ReplaceEvery(g[i - 1], order[i], variables[order[i]])]
           After(m) == CHOOSE g : Eq(m, g)
<1>4. RenderInOrder(body, variables, order) = After(n)[n]
  <2>1. RenderInOrder(body, variables, order) = After(Len(order))[Len(order)]
    BY Zenon DEF RenderInOrder
  <2>2. Len(order) = n
    OBVIOUS
  <2> HIDE DEF After
  <2> QED  BY <2>1, <2>2
<1>5. Eq(n, f)
  <2>1. ASSUME NEW i \in 0 .. n
        PROVE  f[i] = IF i = 0 THEN body
                      ELSE ReplaceEvery(f[i - 1], order[i], variables[order[i]])
    BY <1>2, <1>3
  <2>2. f = [i \in 0 .. n |-> f[i]]
    BY <1>2 DEF History
  <2>3. [i \in 0 .. n |-> f[i]] =
          [i \in 0 .. n |->
             IF i = 0 THEN body ELSE ReplaceEvery(f[i - 1], order[i], variables[order[i]])]
    BY <2>1
  <2> QED  BY <2>2, <2>3
<1>6. Eq(n, After(n))
  <2> HIDE DEF Eq
  <2> QED  BY <1>5
<1> HIDE DEF After
<1> DEFINE G == {i \in 0 .. n : After(n)[i] = f[i]}
<1>7. 0 \in G
  BY <1>2, <1>6
<1>8. ASSUME NEW i \in 1 .. n, i - 1 \in G  PROVE i \in G
  <2>1. After(n)[i - 1] = f[i - 1] /\ i \in 0 .. n /\ i # 0
    BY <1>8
  <2>2. After(n)[i] = ReplaceEvery(After(n)[i - 1], order[i], variables[order[i]])
    BY <1>6, <2>1
  <2> QED  BY <1>3, <2>1, <2>2
<1> HIDE DEF G
<1>9. 0 .. n \subseteq G
  BY <1>7, <1>8, InductionUpTo
<1>10. After(n)[n] = f[n]
  BY <1>9 DEF G
<1> QED  BY <1>2, <1>3, <1>4, <1>10

\* The keys the order has come to.
KeysUpTo(order, i) == {order[j] : j \in 1 .. i}

LEMMA RenderedInOrder ==
  ASSUME NEW body \in Text, Tidy(body),
         NEW variables, IsVariables(variables), PlainVariables(variables),
         NEW n \in Nat, NEW order \in [1 .. n -> DOMAIN variables]
  PROVE  RenderInOrder(body, variables, order) =
           ReplaceEach(body, Part(variables, KeysUpTo(order, n)))
<1>1. PICK f \in History(n) :
        /\ f[0] = body
        /\ \A i \in 1 .. n : f[i] = ReplaceEvery(f[i - 1], order[i], variables[order[i]])
        /\ RenderInOrder(body, variables, order) = f[n]
  BY RenderStages
<1> DEFINE G == {i \in 0 .. n :
                   f[i] = ReplaceEach(body, Part(variables, KeysUpTo(order, i)))}
<1>2. 0 \in G
  <2>1. KeysUpTo(order, 0) = {}
    BY DEF KeysUpTo
  <2>2. 0 \in 0 .. n
    OBVIOUS
  <2> QED  BY <1>1, <2>1, <2>2, PassWithoutKeys
<1>3. ASSUME NEW i \in 1 .. n, i - 1 \in G  PROVE i \in G
  <2> DEFINE keys == KeysUpTo(order, i - 1)
             k == order[i]
  <2>1. keys \in SUBSET DOMAIN variables /\ k \in DOMAIN variables
    <3>1. \A j \in 1 .. i - 1 : j \in 1 .. n
      OBVIOUS
    <3> QED  BY <3>1 DEF KeysUpTo
  <2>2. KeysUpTo(order, i) = keys \cup {k}
    <3>1. 1 .. i = (1 .. i - 1) \cup {i}
      OBVIOUS
    <3> QED  BY <3>1 DEF KeysUpTo
  <2>3. f[i - 1] = ReplaceEach(body, Part(variables, keys))
    BY <1>3
  <2>4. f[i] = ReplaceEvery(f[i - 1], k, variables[k])
    BY <1>1
  <2> HIDE DEF keys, k
  <2>5. f[i] = ReplaceEach(f[i - 1], Part(variables, {k}))
    BY <2>1, <2>4, ReplaceEveryPart
  <2>6. f[i] = ReplaceEach(body, Part(variables, keys \cup {k}))
    BY <2>1, <2>3, <2>5, TwoPasses
  <2>7. i \in 0 .. n
    OBVIOUS
  <2> QED  BY <2>2, <2>6, <2>7
<1> HIDE DEF G
<1>4. 0 .. n \subseteq G
  BY <1>2, <1>3, InductionUpTo
<1>5. n \in G
  BY <1>4
<1> QED  BY <1>1, <1>5 DEF G

\* An order of a finite set comes to all of it.
LEMMA Orders ==
  ASSUME NEW S, IsFiniteSet(S), NEW order \in SetToSeqs(S)
  PROVE  /\ Cardinality(S) \in Nat
         /\ order \in [1 .. Cardinality(S) -> S]
         /\ KeysUpTo(order, Cardinality(S)) = S
<1> DEFINE n == Cardinality(S)
           D == 1 .. n
<1>1. n \in Nat
  BY FS_CardinalityType
<1>2. order \in [D -> S] /\ \A i, j \in D : i # j => order[i] # order[j]
  BY DEF SetToSeqs
<1>3. IsFiniteSet(D) /\ Cardinality(D) = n
  BY <1>1, FS_Interval
<1> HIDE DEF D
<1>4. order \in Injection(D, S)
  BY <1>2 DEF Injection, IsInjective
<1>5. order \in Surjection(D, S)
  BY <1>3, <1>4, FS_Injection
<1>6. \A x \in S : \E i \in D : order[i] = x
  BY <1>5 DEF Surjection
<1> QED  BY <1>1, <1>2, <1>6 DEF D, KeysUpTo

(***************************************************************************)
(* Render returns a text, whatever the template and the variables.  With   *)
(* plain variables and a tidy body it is the one with every placeholder    *)
(* replaced, whatever the order of the map; with others it may not be, as  *)
(* {{{{a}}}} shows.                                                        *)
(***************************************************************************)
THEOREM RenderReplacesAll ==
  ASSUME NEW body \in Text, NEW variables, IsVariables(variables),
         NEW content \in Renderings(body, variables)
  PROVE  /\ content \in Text
         /\ PlainVariables(variables) /\ Tidy(body) => content = Substituted(body, variables)
<1> DEFINE keys == DOMAIN variables
           n == Cardinality(keys)
<1>0. IsFiniteSet(keys)
  BY DEF IsVariables
<1>1. PICK order \in SetToSeqs(keys) : content = RenderInOrder(body, variables, order)
  BY DEF Renderings
<1>2. n \in Nat /\ order \in [1 .. n -> keys] /\ KeysUpTo(order, n) = keys
  BY <1>0, Orders
<1> HIDE DEF n
<1>3. content \in Text
  <2>1. PICK f \in History(n) : RenderInOrder(body, variables, order) = f[n]
    BY <1>2, RenderStages
  <2>2. f[n] \in Text
    BY <1>2, <2>1, HistoryEntry
  <2> QED  BY <1>1, <2>1, <2>2
<1>4. ASSUME PlainVariables(variables), Tidy(body)
      PROVE  content = Substituted(body, variables)
  <2>1. content = ReplaceEach(body, Part(variables, KeysUpTo(order, n)))
    BY <1>1, <1>2, <1>4, RenderedInOrder
  <2>2. Part(variables, keys) = variables
    BY DEF Part, IsVariables
  <2> QED  BY <1>2, <2>1, <2>2 DEF Substituted
<1> QED  BY <1>3, <1>4

LEMMA RenderedAsAsked ==
  ASSUME NEW item, IsItem(item), item.template \in TemplateIds,
         NEW content \in Renderings(Definition[item.template].body, item.variables)
  PROVE  /\ content \in Text
         /\ PlainVariables(item.variables) /\ Tidy(Definition[item.template].body) =>
              content = Substituted(Definition[item.template].body, item.variables)
<1>1. Definition[item.template].body \in Text
  BY DefinitionAssumption
<1>2. IsVariables(item.variables)
  BY DEF IsItem
<1> QED  BY <1>1, <1>2, RenderReplacesAll

-----------------------------------------------------------------------------

AnyAnswer == [status : {"accepted", "rejected"}, id : Id \cup {NoId}]

ShapeOK ==
  /\ table \subseteq TableRow
  /\ call \in [Requests -> Calls \cup {NoCall}]
  /\ pc \in [Requests -> {"idle", "items", "template", "insert", "done"}]
  /\ answers \in [Requests -> Seq(AnyAnswer)]
  /\ fresh \in [Requests -> Seq(TableRow)]
  /\ inserted \in [Requests -> Nat]
  /\ outcome \in [Requests -> {"none", "ok", "invalid", "error"}]
  /\ FaultsTypeOK

\* How far a call is.
OnCourse(r) ==
  /\ inserted[r] <= Len(fresh[r])
  /\ pc[r] # "insert" => inserted[r] = 0
  /\ pc[r] = "idle" => answers[r] = <<>> /\ fresh[r] = <<>>
  /\ pc[r] # "idle" => call[r] \in Calls
  /\ pc[r] # "done" => outcome[r] = "none"
  /\ pc[r] = "template" => IsCreate(r) /\ HasTemplate(call[r].items[1])
  /\ pc[r] \in {"items", "template"} /\ IsCreate(r) => answers[r] = <<>> /\ fresh[r] = <<>>
  /\ pc[r] = "insert" /\ IsCreate(r) => inserted[r] = 0 /\ Len(fresh[r]) = 1

\* A row a call wants to insert is what one of its items has asked for.
Asks(c, item, content) ==
  IF c.kind = "create" /\ HasTemplate(item)
  THEN content \in Renderings(Definition[item.template].body, item.variables)
  ELSE content = item.content /\ Validate(item)

Fits(row, c, item) ==
  IsItem(item) /\ row.key = item.key /\ Asks(c, item, row.content)

RowsAsked(r) ==
  \A k \in 1 .. Len(fresh[r]) :
    \E i \in 1 .. Len(answers[r]) :
      fresh[r][k].id = <<r, i>> /\ Fits(fresh[r][k], call[r], call[r].items[i])

\* The row an accepted item was told of is in the table, or about to be.
IsRowOf(row, r, i) == row.id = answers[r][i].id /\ row.key = call[r].items[i].key

AnswersTrue(r) ==
  \A i \in 1 .. Len(answers[r]) : answers[r][i].status = "accepted" =>
    \E row \in RowsOf(r) \cup table : IsRowOf(row, r, i)

\* The unique index, with the entries of open transactions in it.
OneRowPerKey(S) == \A p, q \in S : p.key = q.key /\ p.key # NoKey => p = q

KeysApart(S, T) == KeysIn(S) \cap KeysIn(T) = {}

UniqueIndex ==
  /\ OneRowPerKey(table)
  /\ \A r \in Requests :
       /\ OneRowPerKey(RowsHeld(r))
       /\ KeysApart(RowsHeld(r), table)
       /\ \A s \in Requests \ {r} : KeysApart(RowsHeld(r), RowsHeld(s))

\* Rows get into the table when their call ends.
RowsAreOfCalls ==
  \A row \in table : \E r \in Requests : pc[r] = "done" /\ row \in RowsOf(r)

OkIsStored == \A r \in Requests : outcome[r] = "ok" => RowsOf(r) \subseteq table

IntakeInv ==
  /\ ShapeOK
  /\ \A r \in Requests : OnCourse(r) /\ RowsAsked(r) /\ AnswersTrue(r)
  /\ UniqueIndex /\ RowsAreOfCalls
  /\ OkIsStored /\ BatchAtomic /\ RefusedLeavesNothing

-----------------------------------------------------------------------------
LEMMA Appended ==
  ASSUME NEW S, NEW s \in Seq(S), NEW x \in S
  PROVE  /\ Append(s, x) \in Seq(S) /\ Len(Append(s, x)) = Len(s) + 1 /\ Len(s) \in Nat
         /\ \A i \in 1 .. Len(s) : Append(s, x)[i] = s[i]
         /\ Append(s, x)[Len(s) + 1] = x
OBVIOUS

\* Whose a row is, and that it is not in the table before its call has ended.
LEMMA RowOwner ==
  ASSUME NEW r \in Requests, RowsAsked(r), NEW row \in RowsOf(r)
  PROVE  row.id[1] = r
BY DEF RowsAsked, RowsOf

LEMMA NotYetStored ==
  ASSUME IntakeInv, NEW r \in Requests, pc[r] # "done", NEW row, row.id[1] = r
  PROVE  row \notin table
<1> SUFFICES ASSUME row \in table  PROVE FALSE
  OBVIOUS
<1>1. PICK s \in Requests : pc[s] = "done" /\ row \in RowsOf(s)
  BY DEF IntakeInv, RowsAreOfCalls
<1>2. row.id[1] = s
  BY <1>1, RowOwner DEF IntakeInv
<1> QED  BY <1>1, <1>2

\* The other calls notice nothing.
OthersStay(r) ==
  \A s \in Requests \ {r} :
    /\ pc'[s] = pc[s] /\ answers'[s] = answers[s] /\ fresh'[s] = fresh[s]
    /\ inserted'[s] = inserted[s] /\ outcome'[s] = outcome[s] /\ call'[s] = call[s]

LEMMA OthersKeep ==
  ASSUME IntakeInv, NEW r \in Requests, OthersStay(r), table \subseteq table',
         NEW s \in Requests \ {r}
  PROVE  /\ OnCourse(s)' /\ RowsAsked(s)' /\ AnswersTrue(s)'
         /\ RowsOf(s)' = RowsOf(s) /\ RowsHeld(s)' = RowsHeld(s)
<1>1. /\ pc'[s] = pc[s] /\ answers'[s] = answers[s] /\ fresh'[s] = fresh[s]
      /\ inserted'[s] = inserted[s] /\ outcome'[s] = outcome[s] /\ call'[s] = call[s]
  BY DEF OthersStay
<1>2. RowsOf(s)' = RowsOf(s) /\ RowsHeld(s)' = RowsHeld(s)
  BY <1>1 DEF RowsOf, RowsHeld
<1>3. OnCourse(s)' /\ RowsAsked(s)'
  BY <1>1 DEF IntakeInv, OnCourse, RowsAsked, IsCreate
<1>4. AnswersTrue(s)'
  <2> SUFFICES ASSUME NEW i \in 1 .. Len(answers'[s]), answers'[s][i].status = "accepted"
               PROVE  \E row \in RowsOf(s)' \cup table' : IsRowOf(row, s, i)'
    BY DEF AnswersTrue
  <2>1. PICK row \in RowsOf(s) \cup table : IsRowOf(row, s, i)
    BY <1>1 DEF IntakeInv, AnswersTrue
  <2>2. row \in RowsOf(s)' \cup table' /\ IsRowOf(row, s, i)'
    BY <1>1, <1>2, <2>1 DEF IsRowOf
  <2> QED  BY <2>2
<1> QED  BY <1>2, <1>3, <1>4

(***************************************************************************)
(* A call goes on, and the table stays as it is.                           *)
(***************************************************************************)
LEMMA Proceeds ==
  ASSUME IntakeInv, NEW r \in Requests, pc[r] # "done", UNCHANGED table, OthersStay(r),
         ShapeOK', OnCourse(r)', RowsAsked(r)', AnswersTrue(r)',
         RowsHeld(r)' \subseteq RowsHeld(r),
         outcome'[r] = "ok" => RowsOf(r)' = {},
         disruptions' = 0 => disruptions = 0
  PROVE  IntakeInv'
<1>1. \A s \in Requests \ {r} :
        /\ OnCourse(s)' /\ RowsAsked(s)' /\ AnswersTrue(s)'
        /\ RowsOf(s)' = RowsOf(s) /\ RowsHeld(s)' = RowsHeld(s)
  BY OthersKeep
<1>2. RowsOf(r)' \cap table = {}
  <2>1. \A row \in RowsOf(r)' : row.id[1] = r
    BY DEF RowsAsked, RowsOf
  <2> QED  BY <2>1, NotYetStored
<1>3. UniqueIndex'
  BY <1>1 DEF IntakeInv, UniqueIndex, OneRowPerKey, KeysApart, KeysIn
<1>4. RowsAreOfCalls'
  <2> SUFFICES ASSUME NEW row \in table
               PROVE  \E s \in Requests : pc'[s] = "done" /\ row \in RowsOf(s)'
    BY DEF RowsAreOfCalls
  <2>1. PICK s \in Requests : pc[s] = "done" /\ row \in RowsOf(s)
    BY DEF IntakeInv, RowsAreOfCalls
  <2>2. pc'[s] = "done" /\ row \in RowsOf(s)'
    BY <1>1, <2>1 DEF OthersStay
  <2> QED  BY <2>2
<1>5. OkIsStored'
  BY <1>1 DEF IntakeInv, OkIsStored, OthersStay
<1>6. BatchAtomic'
  BY <1>1, <1>2 DEF IntakeInv, BatchAtomic
<1>7. RefusedLeavesNothing'
  BY <1>1, <1>2 DEF IntakeInv, RefusedLeavesNothing, OthersStay
<1> QED  BY <1>1, <1>3, <1>4, <1>5, <1>6, <1>7 DEF IntakeInv

(***************************************************************************)
(* A call ends, with its rows in the table: all of them, and of no key     *)
(* that is there.                                                          *)
(***************************************************************************)
LEMMA Stores ==
  ASSUME IntakeInv, NEW r \in Requests, pc[r] = "insert",
         NEW told \in {"ok", "error"}, End(r, told), told = "error" => disruptions' # 0,
         table' = table \cup RowsOf(r), UNCHANGED <<call, answers, fresh>>,
         OneRowPerKey(RowsOf(r)), KeysApart(RowsOf(r), table),
         \A s \in Requests \ {r} : KeysApart(RowsOf(r), RowsHeld(s)),
         FaultsTypeOK', disruptions' = 0 => disruptions = 0
  PROVE  IntakeInv'
<1>1. OthersStay(r)
  BY DEF OthersStay, End, Goto, IntakeInv, ShapeOK
<1>2. \A s \in Requests \ {r} :
        /\ OnCourse(s)' /\ RowsAsked(s)' /\ AnswersTrue(s)'
        /\ RowsOf(s)' = RowsOf(s) /\ RowsHeld(s)' = RowsHeld(s)
  BY <1>1, OthersKeep
<1>3. /\ RowsOf(r)' = RowsOf(r) /\ pc'[r] = "done" /\ outcome'[r] = told /\ inserted'[r] = 0
  BY DEF End, Goto, RowsOf, IntakeInv, ShapeOK
<1>4. ShapeOK'
  <2>1. RowsOf(r) \subseteq TableRow
    BY DEF IntakeInv, ShapeOK, RowsOf
  <2> QED  BY <2>1 DEF IntakeInv, ShapeOK, End, Goto
<1>5. OnCourse(r)' /\ RowsAsked(r)' /\ AnswersTrue(r)'
  <2>1. OnCourse(r)'
    BY <1>3 DEF IntakeInv, ShapeOK, OnCourse
  <2>2. RowsAsked(r)'
    BY DEF IntakeInv, RowsAsked
  <2>3. AnswersTrue(r)'
    BY <1>3 DEF IntakeInv, AnswersTrue, IsRowOf
  <2> QED  BY <2>1, <2>2, <2>3
<1>6. RowsHeld(r)' = {}
  BY <1>3 DEF RowsHeld
<1>7. UniqueIndex'
  <2>1. OneRowPerKey(table)'
    BY DEF IntakeInv, UniqueIndex, OneRowPerKey, KeysApart, KeysIn
  <2>2. \A s \in Requests \ {r} : OneRowPerKey(RowsHeld(s))' /\ KeysApart(RowsHeld(s), table)'
    BY <1>2 DEF IntakeInv, UniqueIndex, OneRowPerKey, KeysApart, KeysIn
  <2>3. \A s, t \in Requests : s # t => KeysApart(RowsHeld(s), RowsHeld(t))'
    BY <1>2, <1>6 DEF IntakeInv, UniqueIndex, KeysApart, KeysIn
  <2>4. OneRowPerKey(RowsHeld(r))' /\ KeysApart(RowsHeld(r), table)'
    BY <1>6 DEF OneRowPerKey, KeysApart, KeysIn
  <2> QED  BY <2>1, <2>2, <2>3, <2>4 DEF UniqueIndex
<1>8. RowsAreOfCalls'
  <2> SUFFICES ASSUME NEW row \in table'
               PROVE  \E s \in Requests : pc'[s] = "done" /\ row \in RowsOf(s)'
    BY DEF RowsAreOfCalls
  <2>1. CASE row \in RowsOf(r)
    BY <1>3, <2>1
  <2>2. CASE row \in table
    <3>1. PICK s \in Requests : pc[s] = "done" /\ row \in RowsOf(s)
      BY <2>2 DEF IntakeInv, RowsAreOfCalls
    <3>2. pc'[s] = "done" /\ row \in RowsOf(s)'
      BY <1>1, <1>2, <3>1 DEF OthersStay
    <3> QED  BY <3>2
  <2> QED  BY <2>1, <2>2
<1>9. \A s \in Requests \ {r} : RowsOf(s) \cap RowsOf(r) = {}
  BY RowOwner DEF IntakeInv
<1>10. OkIsStored'
  BY <1>1, <1>2, <1>3 DEF IntakeInv, OkIsStored, OthersStay
<1>11. BatchAtomic'
  BY <1>2, <1>3, <1>9 DEF IntakeInv, BatchAtomic
<1>12. RefusedLeavesNothing'
  BY <1>1, <1>2, <1>3, <1>9 DEF IntakeInv, RefusedLeavesNothing, OthersStay
<1> QED
  BY <1>2, <1>4, <1>5, <1>7, <1>8, <1>10, <1>11, <1>12 DEF IntakeInv

-----------------------------------------------------------------------------
LEMMA ItemOfCall ==
  ASSUME IntakeInv, NEW r \in Requests, ItemsLeft(r)
  PROVE  call[r] \in Calls /\ IsItem(CurrentItem(r))
<1>1. call[r] \in Calls /\ Index(r) \in 1 .. Len(call[r].items)
  BY DEF IntakeInv, OnCourse, ShapeOK, ItemsLeft, Index
<1> QED  BY <1>1, CallsAssumption DEF CurrentItem

\* A call is refused, whatever its transaction held.
LEMMA EndsRefused ==
  ASSUME IntakeInv, NEW r \in Requests, pc[r] \in {"items", "template", "insert"},
         NEW told \in {"invalid", "error"}, End(r, told),
         UNCHANGED <<table, call, answers, fresh>>,
         FaultsTypeOK', disruptions' = 0 => disruptions = 0
  PROVE  IntakeInv'
<1>1. /\ pc'[r] = "done" /\ inserted'[r] = 0 /\ outcome'[r] = told /\ OthersStay(r)
  BY DEF End, Goto, IntakeInv, ShapeOK, OthersStay
<1>2. ShapeOK'
  BY DEF IntakeInv, ShapeOK, End, Goto
<1>3. OnCourse(r)'
  BY <1>1 DEF IntakeInv, ShapeOK, OnCourse
<1>4. RowsAsked(r)' /\ AnswersTrue(r)'
  BY DEF IntakeInv, RowsAsked, AnswersTrue, RowsOf, IsRowOf
<1>5. RowsHeld(r)' = {}
  BY <1>1 DEF RowsHeld
<1> QED  BY <1>1, <1>2, <1>3, <1>4, <1>5, Proceeds

\* An item is answered without a row of its own: rejected, or with a row that
\* is there.
LEMMA AnswersOnly ==
  ASSUME IntakeInv, NEW r \in Requests, ItemsLeft(r),
         NEW status \in {"accepted", "rejected"}, NEW id \in Id \cup {NoId},
         Answer(r, status, id),
         status = "accepted" => \E row \in table : row.id = id /\ row.key = CurrentItem(r).key,
         IF IsCreate(r) THEN status = "accepted" /\ End(r, "ok")
         ELSE UNCHANGED <<pc, inserted, outcome>>,
         UNCHANGED <<table, call, fresh, disruptions>>
  PROVE  IntakeInv'
<1> DEFINE answer == [status |-> status, id |-> id]
<1>1. /\ pc[r] = "items" /\ answers[r] \in Seq(AnyAnswer) /\ answer \in AnyAnswer
      /\ answers' = [answers EXCEPT ![r] = Append(answers[r], answer)]
  BY DEF ItemsLeft, IntakeInv, ShapeOK, AnyAnswer, Answer
<1>2. /\ answers' \in [Requests -> Seq(AnyAnswer)] /\ Len(answers[r]) \in Nat
      /\ Len(answers'[r]) = Len(answers[r]) + 1
      /\ \A i \in 1 .. Len(answers[r]) : answers'[r][i] = answers[r][i]
      /\ answers'[r][Len(answers[r]) + 1] = answer
  BY <1>1, Appended DEF IntakeInv, ShapeOK
<1>3. /\ OthersStay(r) /\ ShapeOK'
      /\ IF IsCreate(r) THEN pc'[r] = "done" /\ inserted'[r] = 0 /\ outcome'[r] = "ok"
         ELSE pc'[r] = "items" /\ inserted'[r] = inserted[r] /\ outcome'[r] = outcome[r]
  <2>1. CASE IsCreate(r)
    <3>1. /\ pc' = [pc EXCEPT ![r] = "done"] /\ inserted' = [inserted EXCEPT ![r] = 0]
          /\ outcome' = [outcome EXCEPT ![r] = "ok"]
      BY <2>1 DEF End, Goto
    <3>2. ShapeOK'
      BY <1>2, <3>1 DEF IntakeInv, ShapeOK, FaultsTypeOK
    <3>3. OthersStay(r)
      BY <1>1, <3>1 DEF IntakeInv, ShapeOK, OthersStay
    <3> QED  BY <2>1, <3>1, <3>2, <3>3 DEF IntakeInv, ShapeOK
  <2>2. CASE ~IsCreate(r)
    BY <1>1, <1>2, <2>2 DEF IntakeInv, ShapeOK, OthersStay, FaultsTypeOK
  <2> QED  BY <2>1, <2>2
<1>4. OnCourse(r)'
  BY <1>1, <1>3, ItemOfCall DEF IntakeInv, ShapeOK, OnCourse, IsCreate
<1>5. RowsAsked(r)'
  <2> SUFFICES ASSUME NEW k \in 1 .. Len(fresh[r])
               PROVE  \E i \in 1 .. Len(answers'[r]) :
                        fresh[r][k].id = <<r, i>> /\ Fits(fresh[r][k], call[r], call[r].items[i])
    BY DEF RowsAsked
  <2>1. PICK i \in 1 .. Len(answers[r]) :
          fresh[r][k].id = <<r, i>> /\ Fits(fresh[r][k], call[r], call[r].items[i])
    BY DEF IntakeInv, RowsAsked
  <2>2. i \in 1 .. Len(answers'[r])
    BY <1>2
  <2> QED  BY <2>1, <2>2
<1>6. AnswersTrue(r)'
  <2> SUFFICES ASSUME NEW i \in 1 .. Len(answers'[r]), answers'[r][i].status = "accepted"
               PROVE  \E row \in RowsOf(r) \cup table : IsRowOf(row, r, i)'
    BY DEF AnswersTrue, RowsOf
  <2>1. CASE i \in 1 .. Len(answers[r])
    <3>1. answers'[r][i] = answers[r][i]
      BY <1>2, <2>1
    <3>2. PICK row \in RowsOf(r) \cup table : IsRowOf(row, r, i)
      BY <2>1, <3>1 DEF IntakeInv, AnswersTrue
    <3>3. IsRowOf(row, r, i)'
      BY <3>1, <3>2 DEF IsRowOf
    <3> QED  BY <3>3
  <2>2. CASE i = Len(answers[r]) + 1
    <3>1. PICK row \in table : row.id = id /\ row.key = CurrentItem(r).key
      BY <1>2, <2>2
    <3>2. IsRowOf(row, r, i)'
      BY <1>2, <2>2, <3>1 DEF IsRowOf, CurrentItem, Index
    <3> QED  BY <3>2
  <2> QED  BY <1>2, <2>1, <2>2
<1>7. RowsHeld(r)' \subseteq RowsHeld(r)
  BY <1>1, <1>3 DEF RowsHeld, IntakeInv, OnCourse
<1>8. outcome'[r] = "ok" => RowsOf(r)' = {}
  BY <1>1, <1>3 DEF IntakeInv, OnCourse, RowsOf
<1> QED  BY <1>1, <1>3, <1>4, <1>5, <1>6, <1>7, <1>8, Proceeds

\* An item becomes a row to insert, with what it asks for or a template says.
LEMMA AcceptsRow ==
  ASSUME IntakeInv, NEW r \in Requests, pc[r] \in {"items", "template"},
         NEW content \in Text, Accepted(r, content),
         IsItem(CurrentItem(r)), Asks(call[r], CurrentItem(r), content),
         IF IsCreate(r) THEN Goto(r, "insert") ELSE UNCHANGED pc,
         UNCHANGED <<table, call, inserted, outcome>>,
         FaultsTypeOK', disruptions' = 0 => disruptions = 0
  PROVE  IntakeInv'
<1> DEFINE id == <<r, Index(r)>>
           answer == [status |-> "accepted", id |-> id]
           row == [id |-> id, key |-> CurrentItem(r).key, content |-> content]
<1>1. /\ answers[r] \in Seq(AnyAnswer) /\ fresh[r] \in Seq(TableRow)
      /\ Index(r) = Len(answers[r]) + 1 /\ Len(answers[r]) \in Nat
      /\ answers' = [answers EXCEPT ![r] = Append(answers[r], answer)]
      /\ fresh' = [fresh EXCEPT ![r] = Append(fresh[r], row)]
  BY DEF IntakeInv, ShapeOK, Accepted, Answer, Index
<1>2. answer \in AnyAnswer /\ row \in TableRow
  BY <1>1 DEF AnyAnswer, TableRow, Id, IsItem
<1>3. /\ answers' \in [Requests -> Seq(AnyAnswer)]
      /\ Len(answers'[r]) = Len(answers[r]) + 1
      /\ \A i \in 1 .. Len(answers[r]) : answers'[r][i] = answers[r][i]
      /\ answers'[r][Len(answers[r]) + 1] = answer
  BY <1>1, <1>2, Appended DEF IntakeInv, ShapeOK
<1>4. /\ fresh' \in [Requests -> Seq(TableRow)] /\ Len(fresh[r]) \in Nat
      /\ Len(fresh'[r]) = Len(fresh[r]) + 1
      /\ \A k \in 1 .. Len(fresh[r]) : fresh'[r][k] = fresh[r][k]
      /\ fresh'[r][Len(fresh[r]) + 1] = row
  BY <1>1, <1>2, Appended DEF IntakeInv, ShapeOK
<1>5. /\ OthersStay(r) /\ ShapeOK'
      /\ pc'[r] = IF IsCreate(r) THEN "insert" ELSE pc[r]
  <2>1. /\ pc' \in [Requests -> {"idle", "items", "template", "insert", "done"}]
        /\ pc'[r] = IF IsCreate(r) THEN "insert" ELSE pc[r]
        /\ \A s \in Requests \ {r} : pc'[s] = pc[s]
    BY DEF Goto, IntakeInv, ShapeOK
  <2>2. ShapeOK'
    BY <1>3, <1>4, <2>1 DEF IntakeInv, ShapeOK
  <2>3. \A s \in Requests \ {r} : answers'[s] = answers[s] /\ fresh'[s] = fresh[s]
    BY <1>1 DEF IntakeInv, ShapeOK
  <2> QED  BY <2>1, <2>2, <2>3 DEF OthersStay
<1>6. inserted[r] = 0 /\ outcome[r] = "none" /\ (pc[r] = "template" => IsCreate(r))
      /\ (IsCreate(r) => answers[r] = <<>> /\ fresh[r] = <<>>) /\ call[r] \in Calls
  BY DEF IntakeInv, OnCourse
<1> HIDE DEF answer, row
<1>7. OnCourse(r)'
  BY <1>3, <1>4, <1>5, <1>6 DEF OnCourse, IsCreate
<1>8. RowsAsked(r)'
  <2> SUFFICES ASSUME NEW k \in 1 .. Len(fresh'[r])
               PROVE  \E i \in 1 .. Len(answers'[r]) :
                        fresh'[r][k].id = <<r, i>> /\ Fits(fresh'[r][k], call[r], call[r].items[i])
    BY DEF RowsAsked
  <2>1. CASE k \in 1 .. Len(fresh[r])
    <3>1. PICK i \in 1 .. Len(answers[r]) :
            fresh[r][k].id = <<r, i>> /\ Fits(fresh[r][k], call[r], call[r].items[i])
      BY <2>1 DEF IntakeInv, RowsAsked
    <3>2. fresh'[r][k] = fresh[r][k]
      BY <1>4, <2>1
    <3>3. i \in 1 .. Len(answers'[r])
      BY <1>1, <1>3
    <3> QED  BY <3>1, <3>2, <3>3
  <2>2. CASE k = Len(fresh[r]) + 1
    <3>1. fresh'[r][k].id = <<r, Index(r)>> /\ Fits(fresh'[r][k], call[r], call[r].items[Index(r)])
      BY <1>4, <2>2 DEF Fits, row, CurrentItem
    <3> QED  BY <1>1, <1>3, <3>1
  <2> QED  BY <1>4, <2>1, <2>2
<1>9. RowsOf(r)' = RowsOf(r) \cup {row}
  BY <1>4 DEF RowsOf
<1>10. AnswersTrue(r)'
  <2> SUFFICES ASSUME NEW i \in 1 .. Len(answers'[r]), answers'[r][i].status = "accepted"
               PROVE  \E p \in RowsOf(r)' \cup table : IsRowOf(p, r, i)'
    BY DEF AnswersTrue
  <2>1. CASE i \in 1 .. Len(answers[r])
    BY <1>3, <1>9, <2>1 DEF IntakeInv, AnswersTrue, IsRowOf
  <2>2. CASE i = Len(answers[r]) + 1
    <3>1. row.id = answers'[r][i].id /\ row.key = call'[r].items[i].key
      BY <1>1, <1>3, <2>2 DEF CurrentItem, answer, row
    <3> QED  BY <1>9, <3>1 DEF IsRowOf
  <2> QED  BY <1>1, <1>3, <2>1, <2>2
<1>11. RowsHeld(r)' \subseteq RowsHeld(r)
  BY <1>6 DEF RowsHeld
<1> QED  BY <1>5, <1>6, <1>7, <1>8, <1>10, <1>11, Proceeds

\* A call comes to its next statement.
LEMMA MovesOn ==
  ASSUME IntakeInv, NEW r \in Requests, pc[r] = "items",
         NEW next \in {"template", "insert"}, Goto(r, next),
         next = "template" => IsCreate(r) /\ HasTemplate(call[r].items[1]),
         next = "insert" => ~IsCreate(r),
         UNCHANGED <<table, call, answers, fresh, inserted, outcome>>,
         FaultsTypeOK', disruptions' = 0 => disruptions = 0
  PROVE  IntakeInv'
<1>1. pc' = [pc EXCEPT ![r] = next] /\ pc'[r] = next
  BY DEF Goto, IntakeInv, ShapeOK
<1>2. ShapeOK' /\ OthersStay(r)
  BY <1>1 DEF IntakeInv, ShapeOK, OthersStay
<1>3. OnCourse(r)'
  BY <1>1 DEF IntakeInv, OnCourse, IsCreate, HasTemplate
<1>4. RowsAsked(r)' /\ AnswersTrue(r)'
  <2>1. RowsAsked(r)'
    BY DEF IntakeInv, RowsAsked
  <2>2. RowsOf(r)' = RowsOf(r)
    BY DEF RowsOf
  <2>3. AnswersTrue(r)'
    BY <2>2 DEF IntakeInv, AnswersTrue, IsRowOf
  <2> QED  BY <2>1, <2>3
<1>5. RowsHeld(r)' = RowsHeld(r)
  BY DEF RowsHeld
<1>6. outcome'[r] # "ok"
  BY DEF IntakeInv, OnCourse
<1> QED  BY <1>1, <1>2, <1>3, <1>4, <1>5, <1>6, Proceeds

LEMMA Received ==
  ASSUME IntakeInv, NEW r \in Requests, Receive(r)
  PROVE  IntakeInv'
<1>1. PICK c \in Calls : call' = [call EXCEPT ![r] = c]
  BY DEF Receive
<1>2. pc[r] = "idle" /\ pc' = [pc EXCEPT ![r] = "items"]
      /\ UNCHANGED <<table, answers, fresh, inserted, outcome, disruptions>>
  BY DEF Receive, Goto
<1>3. ShapeOK' /\ OthersStay(r)
  BY <1>1, <1>2 DEF IntakeInv, ShapeOK, OthersStay, FaultsTypeOK
<1>4. answers[r] = <<>> /\ fresh[r] = <<>> /\ inserted[r] = 0 /\ outcome[r] = "none"
      /\ pc'[r] = "items" /\ call'[r] = c
  BY <1>1, <1>2 DEF IntakeInv, OnCourse, ShapeOK
<1>5. OnCourse(r)'
  BY <1>2, <1>4 DEF OnCourse
<1>6. RowsAsked(r)' /\ AnswersTrue(r)'
  BY <1>2, <1>4 DEF RowsAsked, AnswersTrue
<1>7. RowsHeld(r)' = RowsHeld(r)
  BY <1>2 DEF RowsHeld
<1> QED  BY <1>2, <1>3, <1>4, <1>5, <1>6, <1>7, Proceeds

\* An INSERT of a transaction, no other holding an entry of that key.
LEMMA HoldsRow ==
  ASSUME IntakeInv, NEW r \in Requests, Inserting(r), WaitsFor(r) = {}, ~IsCreate(r),
         NextRow(r).key \notin KeysIn(table \cup RowsHeld(r)),
         inserted' = [inserted EXCEPT ![r] = @ + 1],
         UNCHANGED <<table, pc, outcome, call, answers, fresh, disruptions>>
  PROVE  IntakeInv'
<1>1. /\ pc[r] = "insert" /\ inserted[r] \in Nat /\ inserted[r] < Len(fresh[r])
      /\ inserted'[r] = inserted[r] + 1 /\ Len(fresh[r]) \in Nat
      /\ \A s \in Requests \ {r} : inserted'[s] = inserted[s]
  BY DEF Inserting, IntakeInv, ShapeOK
<1>2. ShapeOK'
  BY <1>1 DEF IntakeInv, ShapeOK, FaultsTypeOK
<1>3. \A s \in Requests : RowsOf(s)' = RowsOf(s)
  BY DEF RowsOf
<1>4. \A s \in Requests : OnCourse(s)'
  BY <1>1 DEF IntakeInv, OnCourse, IsCreate
<1>5. \A s \in Requests : RowsAsked(s)' /\ AnswersTrue(s)'
  BY <1>3 DEF IntakeInv, RowsAsked, AnswersTrue, IsRowOf
<1>6. RowsHeld(r)' = RowsHeld(r) \cup {NextRow(r)}
  <2>1. 1 .. inserted'[r] = (1 .. inserted[r]) \cup {inserted[r] + 1}
    BY <1>1
  <2> QED  BY <2>1 DEF RowsHeld, NextRow
<1>7. \A s \in Requests \ {r} : RowsHeld(s)' = RowsHeld(s)
  BY <1>1 DEF RowsHeld
<1>8. \A s \in Requests \ {r} : NextRow(r).key \notin KeysIn(RowsHeld(s))
  BY DEF WaitsFor
<1> DEFINE row == NextRow(r)
<1> HIDE DEF row
<1>9. /\ row.key \notin KeysIn(table) /\ row.key \notin KeysIn(RowsHeld(r))
      /\ \A s \in Requests \ {r} : row.key \notin KeysIn(RowsHeld(s))
  BY <1>8 DEF row, KeysIn
<1>10. RowsHeld(r)' = RowsHeld(r) \cup {row}
  BY <1>6 DEF row
<1>11. UniqueIndex'
  <2>1. OneRowPerKey(table)'
    BY DEF IntakeInv, UniqueIndex, OneRowPerKey
  <2>2. OneRowPerKey(RowsHeld(r))'
    BY <1>9, <1>10 DEF IntakeInv, UniqueIndex, OneRowPerKey, KeysIn
  <2>3. KeysIn(RowsHeld(r))' \subseteq KeysIn(RowsHeld(r)) \cup {row.key}
    BY <1>10 DEF KeysIn
  <2>4. KeysApart(RowsHeld(r), table)'
    BY <1>9, <2>3 DEF IntakeInv, UniqueIndex, KeysApart, KeysIn
  <2>5. \A s \in Requests \ {r} : KeysIn(RowsHeld(s))' = KeysIn(RowsHeld(s))
    BY <1>7 DEF KeysIn
  <2>6. \A s \in Requests \ {r} : KeysApart(RowsHeld(r), RowsHeld(s))'
                                  /\ KeysApart(RowsHeld(s), RowsHeld(r))'
    BY <1>9, <2>3, <2>5 DEF IntakeInv, UniqueIndex, KeysApart
  <2>7. \A s \in Requests \ {r} : /\ OneRowPerKey(RowsHeld(s))' /\ KeysApart(RowsHeld(s), table)'
          /\ \A t \in Requests \ {r, s} : KeysApart(RowsHeld(s), RowsHeld(t))'
    BY <1>7 DEF IntakeInv, UniqueIndex, OneRowPerKey, KeysApart, KeysIn
  <2> QED  BY <2>1, <2>2, <2>4, <2>6, <2>7 DEF UniqueIndex
<1>12. RowsAreOfCalls' /\ OkIsStored' /\ BatchAtomic' /\ RefusedLeavesNothing'
  BY <1>3 DEF IntakeInv, RowsAreOfCalls, OkIsStored, BatchAtomic, RefusedLeavesNothing
<1> QED  BY <1>2, <1>4, <1>5, <1>11, <1>12 DEF IntakeInv

LEMMA Crashed ==
  ASSUME IntakeInv, IntakeCrash
  PROVE  IntakeInv'
<1>1. /\ pc' = [r \in Requests |-> IF pc[r] = "idle" THEN "idle" ELSE "done"]
      /\ inserted' = [r \in Requests |-> 0]
      /\ UNCHANGED <<table, call, answers, fresh, outcome>>
      /\ FaultsTypeOK' /\ disruptions' # 0
  BY MaxDisruptionsAssumption DEF IntakeCrash, Disrupt, IntakeInv, ShapeOK, FaultsTypeOK
<1>2. ShapeOK'
  BY <1>1 DEF IntakeInv, ShapeOK
<1>3. \A r \in Requests : RowsOf(r)' = RowsOf(r) /\ RowsHeld(r)' = {}
  BY <1>1 DEF RowsOf, RowsHeld
<1>4. \A r \in Requests : OnCourse(r)' /\ RowsAsked(r)' /\ AnswersTrue(r)'
  <2> SUFFICES ASSUME NEW r \in Requests
               PROVE  OnCourse(r)' /\ RowsAsked(r)' /\ AnswersTrue(r)'
    OBVIOUS
  <2>1. OnCourse(r)'
    BY <1>1 DEF IntakeInv, ShapeOK, OnCourse
  <2>2. RowsAsked(r)'
    BY <1>1 DEF IntakeInv, RowsAsked
  <2>3. AnswersTrue(r)'
    BY <1>1, <1>3 DEF IntakeInv, AnswersTrue, IsRowOf
  <2> QED  BY <2>1, <2>2, <2>3
<1>5. UniqueIndex'
  BY <1>1, <1>3 DEF IntakeInv, UniqueIndex, OneRowPerKey, KeysApart, KeysIn
<1>6. RowsAreOfCalls' /\ OkIsStored' /\ BatchAtomic' /\ RefusedLeavesNothing'
  BY <1>1, <1>3 DEF IntakeInv, RowsAreOfCalls, OkIsStored, BatchAtomic, RefusedLeavesNothing
<1> QED  BY <1>2, <1>4, <1>5, <1>6 DEF IntakeInv

\* A batch of which nothing is left to insert.
LEMMA EndsEmpty ==
  ASSUME IntakeInv, NEW r \in Requests, pc[r] = "items", fresh[r] = <<>>, End(r, "ok"),
         UNCHANGED <<table, call, answers, fresh, disruptions>>
  PROVE  IntakeInv'
<1>1. /\ pc'[r] = "done" /\ inserted'[r] = 0 /\ outcome'[r] = "ok" /\ OthersStay(r)
  BY DEF End, Goto, IntakeInv, ShapeOK, OthersStay
<1>2. ShapeOK'
  BY DEF IntakeInv, ShapeOK, End, Goto, FaultsTypeOK
<1>3. OnCourse(r)'
  BY <1>1 DEF IntakeInv, ShapeOK, OnCourse
<1>4. RowsOf(r)' = RowsOf(r) /\ RowsOf(r) = {} /\ RowsHeld(r)' = {}
  BY <1>1 DEF RowsOf, RowsHeld
<1>5. RowsAsked(r)' /\ AnswersTrue(r)'
  BY <1>4 DEF IntakeInv, RowsAsked, AnswersTrue, IsRowOf
<1> QED  BY <1>1, <1>2, <1>3, <1>4, <1>5, Proceeds

-----------------------------------------------------------------------------
\* The rows of a call that may commit are of keys that nobody else has.
LEMMA OwnKeys ==
  ASSUME IntakeInv, NEW r \in Requests, pc[r] = "insert",
         \/ IsCreate(r) /\ WaitsFor(r) = {} /\ KeysApart(RowsOf(r), table)
         \/ inserted[r] = Len(fresh[r])
  PROVE  /\ OneRowPerKey(RowsOf(r)) /\ KeysApart(RowsOf(r), table)
         /\ \A s \in Requests \ {r} : KeysApart(RowsOf(r), RowsHeld(s))
<1>1. CASE inserted[r] = Len(fresh[r])
  <2>1. RowsOf(r) = RowsHeld(r)
    BY <1>1 DEF RowsOf, RowsHeld
  <2> QED  BY <2>1 DEF IntakeInv, UniqueIndex
<1>2. CASE IsCreate(r) /\ WaitsFor(r) = {} /\ KeysApart(RowsOf(r), table)
  <2>1. inserted[r] = 0 /\ Len(fresh[r]) = 1
    BY <1>2 DEF IntakeInv, OnCourse
  <2>2. RowsOf(r) = {NextRow(r)} /\ Inserting(r)
    BY <2>1 DEF RowsOf, NextRow, Inserting
  <2>3. \A s \in Requests \ {r} : NextRow(r).key \notin KeysIn(RowsHeld(s))
    BY <1>2, <2>2 DEF WaitsFor
  <2>4. OneRowPerKey(RowsOf(r))
    BY <2>2 DEF OneRowPerKey
  <2>5. KeysIn(RowsOf(r)) \subseteq {NextRow(r).key}
    BY <2>2 DEF KeysIn
  <2> QED  BY <1>2, <2>3, <2>4, <2>5 DEF KeysApart
<1> QED  BY <1>1, <1>2

LEMMA NewItemInv ==
  ASSUME IntakeInv, NEW r \in Requests, ItemsLeft(r), Validate(CurrentItem(r)), NewItem(r),
         UNCHANGED <<table, call, inserted, outcome>>,
         FaultsTypeOK', disruptions' = 0 => disruptions = 0
  PROVE  IntakeInv'
<1>1. CASE IsCreate(r) /\ HasTemplate(CurrentItem(r))
  <2>1. CurrentItem(r) = call[r].items[1] /\ pc[r] = "items"
    BY <1>1 DEF IntakeInv, OnCourse, ItemsLeft, CurrentItem, Index
  <2>2. Goto(r, "template") /\ UNCHANGED <<answers, fresh>>
    BY <1>1 DEF NewItem
  <2> QED  BY <1>1, <2>1, <2>2, MovesOn
<1>2. CASE ~(IsCreate(r) /\ HasTemplate(CurrentItem(r)))
  <2>1. /\ Accepted(r, CurrentItem(r).content)
        /\ IF IsCreate(r) THEN Goto(r, "insert") ELSE UNCHANGED pc
    BY <1>2 DEF NewItem
  <2>2. pc[r] \in {"items", "template"}
    BY DEF ItemsLeft
  <2>3. CurrentItem(r).content \in Text
    BY ItemOfCall DEF IsItem
  <2>4. Asks(call[r], CurrentItem(r), CurrentItem(r).content)
    BY <1>2 DEF Asks, IsCreate
  <2> QED  BY <2>1, <2>2, <2>3, <2>4, ItemOfCall, AcceptsRow
<1> QED  BY <1>1, <1>2

LEMMA ProceedInv ==
  ASSUME IntakeInv, NEW r \in Requests, Proceed(r)
  PROVE  IntakeInv'
<1>0. FaultsTypeOK
  BY DEF IntakeInv, ShapeOK
<1>1. ASSUME NEW kind, Disrupt(kind)
      PROVE  FaultsTypeOK' /\ disruptions' # 0
  BY <1>0, <1>1, MaxDisruptionsAssumption DEF Disrupt, FaultsTypeOK
<1>2. ASSUME UNCHANGED disruptions
      PROVE  FaultsTypeOK' /\ (disruptions' = 0 => disruptions = 0)
  BY <1>0, <1>2 DEF FaultsTypeOK
<1>3. CASE Reject(r)
  <2>1. CASE IsCreate(r)
    BY <1>2, <1>3, <2>1, EndsRefused DEF Reject, ItemsLeft
  <2>2. CASE ~IsCreate(r)
    BY <1>3, <2>2, AnswersOnly DEF Reject
  <2> QED  BY <2>1, <2>2
<1>4. CASE Hit(r)
  <2>1. PICK row \in table : row.key = CurrentItem(r).key /\ Answer(r, "accepted", row.id)
    BY <1>4 DEF Hit
  <2>2. row.id \in Id
    BY DEF IntakeInv, ShapeOK, TableRow
  <2> QED  BY <1>4, <2>1, <2>2, AnswersOnly DEF Hit
<1>5. CASE Miss(r)
  BY <1>2, <1>5, NewItemInv DEF Miss
<1>6. CASE LookupFails(r)
  <2>1. CASE IsCreate(r)
    BY <1>1, <1>6, <2>1, EndsRefused DEF LookupFails, ItemsLeft
  <2>2. CASE ~IsCreate(r)
    BY <1>1, <1>6, <2>2, NewItemInv DEF LookupFails
  <2> QED  BY <2>1, <2>2
<1>7. CASE TemplateUnusable(r)
  <2>1. FaultsTypeOK' /\ (disruptions' = 0 => disruptions = 0)
    BY <1>1, <1>2, <1>7 DEF TemplateUnusable
  <2> QED  BY <1>7, <2>1, EndsRefused DEF TemplateUnusable
<1>8. CASE ResolveTemplate(r)
  <2> DEFINE item == call[r].items[1]
  <2>1. PICK content \in Renderings(Definition[item.template].body, item.variables) :
          Accepted(r, content)
    BY <1>8 DEF ResolveTemplate
  <2>2. item.template \in TemplateIds /\ pc[r] = "template"
    BY <1>8 DEF ResolveTemplate, Stored
  <2>3. /\ IsCreate(r) /\ HasTemplate(item) /\ answers[r] = <<>> /\ call[r] \in Calls
    BY <2>2 DEF IntakeInv, OnCourse
  <2>4. CurrentItem(r) = item
    BY <2>3 DEF CurrentItem, Index
  <2>5. IsItem(item)
    BY <2>3, CallsAssumption
  <2>6. content \in Text
    <3>1. content \in Renderings(Definition[item.template].body, item.variables)
      BY <2>1
    <3> HIDE DEF item
    <3> QED  BY <2>2, <2>5, <3>1, RenderedAsAsked
  <2>7. Asks(call[r], item, content)
    BY <2>1, <2>3 DEF Asks, IsCreate
  <2> HIDE DEF item
  <2> QED
    BY <1>2, <1>8, <2>1, <2>2, <2>3, <2>4, <2>5, <2>6, <2>7, AcceptsRow DEF ResolveTemplate
<1>9. CASE Begin(r)
  <2>1. CASE fresh[r] = <<>>
    BY <1>9, <2>1, EndsEmpty DEF Begin
  <2>2. CASE fresh[r] # <<>>
    <3>1. ~IsCreate(r)
      BY <1>9, <2>2 DEF Begin, IntakeInv, OnCourse
    <3> QED  BY <1>2, <1>9, <2>2, <3>1, MovesOn DEF Begin
  <2> QED  BY <2>1, <2>2
<1>10. CASE Insert(r)
  <2>1. CASE IsCreate(r)
    <3>1. pc[r] = "insert" /\ inserted[r] = 0 /\ Len(fresh[r]) = 1
      BY <1>10, <2>1 DEF Insert, Inserting, IntakeInv, OnCourse
    <3>2. RowsOf(r) = {NextRow(r)}
      BY <3>1 DEF RowsOf, NextRow
    <3>3. KeysApart(RowsOf(r), table)
      BY <1>10, <3>2 DEF Insert, KeysApart, KeysIn
    <3> QED
      BY <1>2, <1>10, <2>1, <3>1, <3>2, <3>3, OwnKeys, Stores DEF Insert
  <2>2. CASE ~IsCreate(r)
    BY <1>10, <2>2, HoldsRow DEF Insert
  <2> QED  BY <2>1, <2>2
<1>11. CASE DuplicateKey(r) \/ StatementFails(r)
  BY <1>1, <1>2, <1>11, EndsRefused DEF DuplicateKey, StatementFails, Inserting
<1>12. CASE DeadlockVictim(r)
  <2>1. pc[r] = "insert"
    BY <1>12 DEF DeadlockVictim, Deadlocked, WaitsFor, Inserting
  <2> QED  BY <1>2, <1>12, <2>1, EndsRefused DEF DeadlockVictim
<1>13. CASE Commit(r)
  <2>1. pc[r] = "insert" /\ inserted[r] = Len(fresh[r])
    BY <1>13 DEF Commit, Inserting, IntakeInv, ShapeOK, OnCourse
  <2> QED  BY <1>2, <1>13, <2>1, OwnKeys, Stores DEF Commit
<1>14. CASE CommitUnknown(r)
  <2>1. pc[r] = "insert" /\ (~IsCreate(r) => inserted[r] = Len(fresh[r]))
    BY <1>14 DEF CommitUnknown, IntakeInv, ShapeOK
  <2>2. WaitsFor(r) = {} /\ KeysApart(RowsOf(r), table)
    BY <1>14 DEF CommitUnknown, KeysApart
  <2> QED  BY <1>1, <1>14, <2>1, <2>2, OwnKeys, Stores DEF CommitUnknown
<1> QED
  BY <1>3, <1>4, <1>5, <1>6, <1>7, <1>8, <1>9, <1>10, <1>11, <1>12, <1>13, <1>14 DEF Proceed

LEMMA IntakeInitInv == IntakeInit => IntakeInv
<1> SUFFICES ASSUME IntakeInit  PROVE IntakeInv
  OBVIOUS
<1>1. ShapeOK
  BY MaxDisruptionsAssumption DEF IntakeInit, ShapeOK, FaultsTypeOK
<1>2. \A r \in Requests :
        /\ call[r] = NoCall /\ pc[r] = "idle" /\ answers[r] = <<>> /\ fresh[r] = <<>>
        /\ inserted[r] = 0 /\ outcome[r] = "none" /\ RowsOf(r) = {} /\ RowsHeld(r) = {}
  BY DEF IntakeInit, RowsOf, RowsHeld
<1>3. \A r \in Requests : OnCourse(r) /\ RowsAsked(r) /\ AnswersTrue(r)
  BY <1>2 DEF OnCourse, RowsAsked, AnswersTrue
<1>4. UniqueIndex
  BY <1>2 DEF IntakeInit, UniqueIndex, OneRowPerKey, KeysApart, KeysIn
<1>5. RowsAreOfCalls /\ OkIsStored /\ BatchAtomic /\ RefusedLeavesNothing
  BY <1>2 DEF IntakeInit, RowsAreOfCalls, OkIsStored, BatchAtomic, RefusedLeavesNothing
<1> QED  BY <1>1, <1>3, <1>4, <1>5 DEF IntakeInv

LEMMA IntakeInvariant == IntakeSpec => []IntakeInv
<1>1. ASSUME IntakeInv, [IntakeNext]_intakeVars  PROVE IntakeInv'
  <2>1. CASE IntakeCrash
    BY <1>1, <2>1, Crashed
  <2>2. ASSUME NEW r \in Requests, Receive(r) \/ Proceed(r)  PROVE IntakeInv'
    BY <1>1, <2>2, Received, ProceedInv
  <2>3. CASE UNCHANGED callVars
    <3>1. \A r \in Requests : RowsOf(r)' = RowsOf(r) /\ RowsHeld(r)' = RowsHeld(r)
      BY <2>3 DEF callVars, RowsOf, RowsHeld
    <3>2. ShapeOK'
      BY <1>1, <2>3 DEF callVars, IntakeInv, ShapeOK, FaultsTypeOK
    <3>3. \A r \in Requests : OnCourse(r)' /\ RowsAsked(r)' /\ AnswersTrue(r)'
      BY <1>1, <2>3, <3>1
      DEF callVars, IntakeInv, OnCourse, IsCreate, RowsAsked, AnswersTrue, IsRowOf
    <3>4. UniqueIndex'
      BY <1>1, <2>3, <3>1 DEF callVars, IntakeInv, UniqueIndex, OneRowPerKey, KeysApart, KeysIn
    <3>5. RowsAreOfCalls' /\ OkIsStored' /\ BatchAtomic' /\ RefusedLeavesNothing'
      BY <1>1, <2>3, <3>1
      DEF callVars, IntakeInv, RowsAreOfCalls, OkIsStored, BatchAtomic, RefusedLeavesNothing
    <3> QED  BY <3>2, <3>3, <3>4, <3>5 DEF IntakeInv
  <2> QED
    BY <1>1, <2>1, <2>2, <2>3 DEF IntakeNext, CallStep, intakeVars
<1> QED  BY <1>1, IntakeInitInv, PTL DEF IntakeSpec

-----------------------------------------------------------------------------
(***************************************************************************)
(* Idempotency: clients that are told of a notification under one key are  *)
(* told of the same one, and it is in the table under that key, whether    *)
(* they race, come in one batch or meet a rolled-back transaction.         *)
(***************************************************************************)
THEOREM KeysAreIdempotent == IntakeSpec => []AnswersAgree
<1>1. ASSUME IntakeInv  PROVE AnswersAgree
  <2>1. ASSUME NEW t \in Told
        PROVE  \E row \in table : row.id = IdTold(t) /\ row.key = KeyAsked(t)
    <3>1. PICK r \in Requests : \E i \in DOMAIN answers[r] : t = <<r, i>>
      BY DEF Told, AnsweredItems
    <3>2. PICK i \in DOMAIN answers[r] : t = <<r, i>>
      BY <3>1
    <3>3. outcome[r] = "ok" /\ answers[r][i].status = "accepted"
      BY <3>2 DEF Told
    <3>4. i \in 1 .. Len(answers[r])
      <4>1. answers[r] \in Seq(AnyAnswer)
        BY <1>1 DEF IntakeInv, ShapeOK
      <4> QED  BY <3>2, <4>1
    <3>5. PICK row \in RowsOf(r) \cup table : IsRowOf(row, r, i)
      BY <1>1, <3>3, <3>4 DEF IntakeInv, AnswersTrue
    <3>6. row \in table
      BY <1>1, <3>3 DEF IntakeInv, OkIsStored
    <3> QED  BY <3>2, <3>5, <3>6 DEF IsRowOf, IdTold, KeyAsked
  <2>2. ASSUME NEW t \in Told, NEW u \in Told, KeyAsked(t) = KeyAsked(u), KeyAsked(t) # NoKey
        PROVE  IdTold(t) = IdTold(u)
    <3>1. PICK p \in table : p.id = IdTold(t) /\ p.key = KeyAsked(t)
      BY <2>1
    <3>2. PICK q \in table : q.id = IdTold(u) /\ q.key = KeyAsked(u)
      BY <2>1
    <3>3. p = q
      BY <1>1, <2>2, <3>1, <3>2 DEF IntakeInv, UniqueIndex, OneRowPerKey
    <3> QED  BY <3>1, <3>2, <3>3
  <2> QED  BY <2>1, <2>2 DEF AnswersAgree
<1> QED  BY <1>1, IntakeInvariant, PTL

(***************************************************************************)
(* A batch is stored whole or not at all, whenever the API is killed or    *)
(* loses its COMMIT.                                                       *)
(***************************************************************************)
THEOREM BatchesAreAtomic == IntakeSpec => []BatchAtomic
<1>1. IntakeInv => BatchAtomic
  BY DEF IntakeInv
<1> QED  BY <1>1, IntakeInvariant, PTL

(***************************************************************************)
(* What was refused has left nothing behind, unless the database failed.   *)
(***************************************************************************)
THEOREM RefusalIsClean == IntakeSpec => []RefusedLeavesNothing
<1>1. IntakeInv => RefusedLeavesNothing
  BY DEF IntakeInv
<1> QED  BY <1>1, IntakeInvariant, PTL

(***************************************************************************)
(* Content that Validate would refuse comes from templates only.           *)
(***************************************************************************)
THEOREM OnlyTemplatesUnfit == IntakeSpec => []UnfitOnlyByTemplate
<1>1. ASSUME IntakeInv  PROVE UnfitOnlyByTemplate
  <2> SUFFICES ASSUME NEW row \in table, ~HasTemplate(ItemOf(row))
               PROVE  ~(row.content = <<>> \/ Len(row.content) > MaxLength[ItemOf(row).channel])
    BY DEF UnfitOnlyByTemplate
  <2>1. PICK r \in Requests : row \in RowsOf(r) /\ RowsAsked(r)
    BY <1>1 DEF IntakeInv, RowsAreOfCalls
  <2>2. PICK i : row.id = <<r, i>> /\ Fits(row, call[r], call[r].items[i])
    BY <2>1 DEF RowsOf, RowsAsked
  <2> DEFINE item == call[r].items[i]
  <2>3. ItemOf(row) = item
    BY <2>2 DEF ItemOf
  <2> HIDE DEF item
  <2>4. IsItem(item) /\ row.content = item.content /\ Validate(item) /\ ~HasTemplate(item)
    BY <2>2, <2>3 DEF Fits, Asks, item
  <2>5. item.content # <<>> /\ Len(item.content) <= MaxLength[item.channel]
    BY <2>4 DEF Validate
  <2>6. MaxLength[item.channel] \in Nat /\ Len(item.content) \in Nat
    BY <2>4, MaxLengthAssumption DEF IsItem, Text
  <2> QED  BY <2>3, <2>4, <2>5, <2>6
<1> QED  BY <1>1, IntakeInvariant, PTL

(***************************************************************************)
(* What a row says is what its item asked for: with a template, a tidy     *)
(* body and plain variables, the text with every placeholder replaced, for *)
(* texts and values of any length and whatever the order in which the map  *)
(* is gone through.                                                        *)
(***************************************************************************)
THEOREM RowsSayWhatWasAsked == IntakeSpec => []ContentAsAsked
<1>1. ASSUME IntakeInv  PROVE ContentAsAsked
  <2> SUFFICES ASSUME NEW row \in table
               PROVE  LET item == ItemOf(row) IN
                      IF IsCreate(row.id[1]) /\ HasTemplate(item)
                      THEN /\ PlainVariables(item.variables)
                           /\ Tidy(Definition[item.template].body)
                           => row.content =
                                Substituted(Definition[item.template].body, item.variables)
                      ELSE row.content = item.content
    BY DEF ContentAsAsked
  <2>1. PICK r \in Requests : row \in RowsOf(r) /\ RowsAsked(r)
    BY <1>1 DEF IntakeInv, RowsAreOfCalls
  <2>2. PICK i : row.id = <<r, i>> /\ Fits(row, call[r], call[r].items[i])
    BY <2>1 DEF RowsOf, RowsAsked
  <2> DEFINE item == call[r].items[i]
  <2>3. ItemOf(row) = item /\ row.id[1] = r
    BY <2>2 DEF ItemOf
  <2>4. IsItem(item) /\ Asks(call[r], item, row.content)
    BY <2>2 DEF Fits
  <2> HIDE DEF item
  <2>5. CASE IsCreate(r) /\ HasTemplate(item)
    <3>1. row.content \in Renderings(Definition[item.template].body, item.variables)
      BY <2>4, <2>5 DEF Asks, IsCreate
    <3>2. item.template \in TemplateIds
      BY <2>4, <2>5 DEF IsItem, HasTemplate
    <3> QED  BY <2>3, <2>4, <2>5, <3>1, <3>2, RenderedAsAsked
  <2>6. CASE ~(IsCreate(r) /\ HasTemplate(item))
    <3>1. row.content = item.content
      BY <2>4, <2>6 DEF Asks, IsCreate
    <3> QED  BY <2>3, <2>6, <3>1
  <2> QED  BY <2>5, <2>6
<1> QED  BY <1>1, IntakeInvariant, PTL

(***************************************************************************)
(* Type correctness; texts are texts, however they were rendered, and only *)
(* a call that goes on has a transaction open.                             *)
(***************************************************************************)
THEOREM IntakeTypes == IntakeSpec => []IntakeTypeOK
<1>1. IntakeInit => TemplatesTypeOK
  BY DEF IntakeInit, TemplatesInit, TemplatesTypeOK
<1>2. ASSUME TemplatesTypeOK, [IntakeNext]_intakeVars  PROVE TemplatesTypeOK'
  <2>1. CASE TemplatesNext
    <3>1. PICK t \in TemplateIds : CreateTemplate(t) \/ DeleteTemplate(t)
      BY <2>1 DEF TemplatesNext
    <3>2. templates' = [templates EXCEPT ![t] = "stored"] \/
          templates' = [templates EXCEPT ![t] = "deleted"]
      BY <3>1 DEF CreateTemplate, DeleteTemplate
    <3> QED  BY <1>2, <3>2 DEF TemplatesTypeOK
  <2>2. CASE UNCHANGED templates
    BY <1>2, <2>2 DEF TemplatesTypeOK
  <2> QED  BY <1>2, <2>1, <2>2 DEF IntakeNext, intakeVars
<1>3. IntakeSpec => []TemplatesTypeOK
  BY <1>1, <1>2, PTL DEF IntakeSpec
<1>4. ASSUME IntakeInv, TemplatesTypeOK  PROVE IntakeTypeOK
  <2>1. \A r \in Requests :
          inserted[r] <= Len(fresh[r]) /\ (inserted[r] > 0 => pc[r] = "insert")
    BY <1>4 DEF IntakeInv, ShapeOK, OnCourse
  <2> QED  BY <1>4, <2>1 DEF IntakeInv, ShapeOK, AnyAnswer, IntakeTypeOK
<1> QED  BY <1>3, <1>4, IntakeInvariant, PTL

=============================================================================
