------------------------- MODULE AuthHeadersProofs -------------------------
(***************************************************************************)
(* Theorems about AuthHeaders, for all calls, words and resolutions.       *)
(*                                                                         *)
(* Texts are decoded token after token, and lines of a header are joined   *)
(* one after another: both are functions defined by recursion.  UpTo is    *)
(* the induction over their arguments.                                     *)
(***************************************************************************)
EXTENDS AuthHeaders, SequenceTheorems, WellFoundedInduction, TLAPS

-----------------------------------------------------------------------------
(***************************************************************************)
(* Induction up to a number.                                               *)
(***************************************************************************)

LEMMA Least ==
    ASSUME NEW T \in SUBSET Nat, T # {}
    PROVE  \E x \in T : \A y \in T : x <= y
<1>1. PICK x \in T : \A y \in T : <<y, x>> \notin OpToRel(<, Nat)
    BY NatLessThanWellFounded, WFMin
<1>2. \A y \in T : ~(y < x)
    BY <1>1 DEF OpToRel
<1>. QED  BY <1>2

LEMMA UpTo ==
    ASSUME NEW n \in Nat, NEW T, 0 \in T,
           \A k \in 0 .. n : k \in T /\ k < n => k + 1 \in T
    PROVE  \A k \in 0 .. n : k \in T
<1> DEFINE U == {k \in 0 .. n : k \notin T}
<1>1. SUFFICES ASSUME U # {} PROVE FALSE
    OBVIOUS
<1>2. U \in SUBSET Nat
    OBVIOUS
<1>. HIDE DEF U
<1>3. PICK x \in U : \A y \in U : x <= y
    BY <1>1, <1>2, Least
<1>4. x \in 0 .. n /\ x \notin T /\ x # 0
    BY DEF U
<1>5. x - 1 \in 0 .. n /\ x - 1 < x /\ x - 1 < n /\ x - 1 + 1 = x
    BY <1>4
<1>6. x - 1 \in T
    BY <1>3, <1>5 DEF U
<1>. QED  BY <1>4, <1>5, <1>6

LEMMA Greatest ==
    ASSUME NEW n \in Nat, NEW S \in SUBSET (0 .. n), S # {}
    PROVE  \E x \in S : \A y \in S : y <= x
<1> DEFINE T == {k \in 0 .. n :
                   (\E y \in S : y <= k) =>
                     \E x \in S : x <= k /\ \A y \in S : y <= k => y <= x}
<1>1. 0 \in T
    OBVIOUS
<1>2. ASSUME NEW k \in 0 .. n, k \in T, k < n PROVE k + 1 \in T
  <2>1. CASE k + 1 \in S
    <3>1. \A y \in S : y <= k + 1 => y <= k + 1
        OBVIOUS
    <3>. QED  BY <1>2, <2>1, <3>1
  <2>2. CASE k + 1 \notin S
    <3>1. \A y \in S : y <= k + 1 <=> y <= k
        BY <1>2, <2>2
    <3>. QED  BY <1>2, <3>1
  <2>. QED  BY <2>1, <2>2
<1>. HIDE DEF T
<1>3. n \in T
    BY <1>1, <1>2, UpTo
<1>4. \A y \in S : y <= n
    OBVIOUS
<1>. QED  BY <1>3, <1>4 DEF T

-----------------------------------------------------------------------------
(***************************************************************************)
(* The functions that are defined by recursion.                            *)
(***************************************************************************)

\* The first k of a sequence of texts, joined.
FlatTo(f, s, k) ==
    f = [i \in 1 .. k |-> IF i = 1 THEN s[i] ELSE f[i - 1] \o s[i]]

LEMMA FlatMeans ==
    ASSUME NEW f, NEW s, NEW k, FlatTo(f, s, k), NEW i \in 1 .. k
    PROVE  f[i] = IF i = 1 THEN s[i] ELSE f[i - 1] \o s[i]
BY Zenon DEF FlatTo

LEMMA FlatExists ==
    ASSUME NEW n \in Nat, NEW s
    PROVE  \E f : FlatTo(f, s, n)
<1> DEFINE T == {k \in 0 .. n : \E f : FlatTo(f, s, k)}
<1>1. 0 \in T
  <2>1. PICK f : f = [i \in 1 .. 0 |-> <<>>]
      OBVIOUS
  <2>2. FlatTo(f, s, 0)
      BY <2>1 DEF FlatTo
  <2>. QED  BY <2>2
<1>2. ASSUME NEW k \in 0 .. n, k \in T, k < n PROVE k + 1 \in T
  <2>1. PICK f : FlatTo(f, s, k)
      BY <1>2
  <2>2. PICK g : g = [i \in 1 .. (k + 1) |->
                        IF i = k + 1 THEN IF i = 1 THEN s[i] ELSE f[i - 1] \o s[i]
                        ELSE f[i]]
      OBVIOUS
  <2>3. \A i \in 1 .. k : g[i] = f[i]
      BY <2>2
  <2>4. \A i \in 1 .. (k + 1) : i # 1 => g[i - 1] = f[i - 1]
    <3>1. ASSUME NEW i \in 1 .. (k + 1), i # 1 PROVE i - 1 \in 1 .. k
        BY <3>1
    <3>. QED  BY <2>3, <3>1
  <2>5. ASSUME NEW i \in 1 .. (k + 1)
        PROVE  g[i] = IF i = 1 THEN s[i] ELSE g[i - 1] \o s[i]
    <3>1. CASE i = k + 1
        BY <2>2, <2>4, <3>1
    <3>2. CASE i \in 1 .. k
        BY <2>1, <2>3, <2>4, <3>2, FlatMeans
    <3>3. i = k + 1 \/ i \in 1 .. k
        OBVIOUS
    <3>. QED  BY <3>1, <3>2, <3>3
  <2>6. g = [i \in 1 .. (k + 1) |-> g[i]]
      BY <2>2
  <2>7. FlatTo(g, s, k + 1)
      BY <2>5, <2>6 DEF FlatTo
  <2>. QED  BY <1>2, <2>7
<1>. HIDE DEF T
<1>3. n \in T
    BY <1>1, <1>2, UpTo
<1>. QED  BY <1>3 DEF T

\* Joining texts one after another is what FlattenSeq() does.
Joins(f, s) ==
    /\ f[0] = <<>>
    /\ \A i \in 1 .. Len(s) : f[i] = f[i - 1] \o s[i]
    /\ FlattenSeq(s) = f[Len(s)]

LEMMA FlattenSteps ==
    ASSUME NEW S, NEW s \in Seq(Seq(S))
    PROVE  \E f \in [0 .. Len(s) -> Seq(S)] : Joins(f, s)
<1>0. PICK n \in Nat : n = Len(s)
    OBVIOUS
<1>1. <<>> \in Seq(S)
    OBVIOUS
<1>2. CASE n = 0
  <2>1. s = <<>>
      BY <1>0, <1>2, EmptySeq
  <2>2. PICK f : f = [i \in 0 .. 0 |-> <<>>]
      OBVIOUS
  <2>3. f \in [0 .. 0 -> Seq(S)] /\ f[0] = <<>>
      BY <1>1, <2>2
  <2>4. FlattenSeq(s) = <<>>
      BY <1>0, <1>2, <2>1 DEF FlattenSeq
  <2>. QED  BY <1>0, <1>2, <2>3, <2>4 DEF Joins
<1>3. CASE n # 0
  <2>1. FlattenSeq(s) = (CHOOSE f : FlatTo(f, s, Len(s)))[Len(s)]
      BY <1>0, <1>3 DEF FlattenSeq, FlatTo
  <2>2. PICK f : f = CHOOSE g : FlatTo(g, s, n)
      OBVIOUS
  <2>3. FlatTo(f, s, n)
      BY <2>2, FlatExists
  <2>4. /\ f[1] = s[1] /\ FlattenSeq(s) = f[n]
        /\ \A i \in 2 .. n : f[i] = f[i - 1] \o s[i]
    <3>1. FlattenSeq(s) = f[n]
        BY <1>0, <2>1, <2>2
    <3>2. 1 \in 1 .. n
        BY <1>3
    <3>3. f[1] = s[1]
        BY <2>3, <3>2, FlatMeans
    <3>4. ASSUME NEW i \in 2 .. n PROVE f[i] = f[i - 1] \o s[i]
      <4>1. PICK j \in 1 .. n : j = i /\ j # 1
          OBVIOUS
      <4>2. f[j] = IF j = 1 THEN s[j] ELSE f[j - 1] \o s[j]
          BY <2>3, FlatMeans
      <4>3. f[j] = f[j - 1] \o s[j]
          BY <4>1, <4>2
      <4>. QED  BY <4>1, <4>3
    <3>. QED  BY <3>1, <3>3, <3>4
  <2>5. PICK g : g = [i \in 0 .. n |-> IF i = 0 THEN <<>> ELSE f[i]]
      OBVIOUS
  <2>6. g[0] = <<>> /\ g[n] = FlattenSeq(s) /\ \A i \in 1 .. n : g[i] = f[i]
      BY <1>3, <2>4, <2>5
  <2>7. \A i \in 1 .. n : s[i] \in Seq(S)
      BY <1>0
  <2>8. \A i \in 1 .. n : g[i] = g[i - 1] \o s[i]
    <3>1. 1 \in 1 .. n /\ s[1] = <<>> \o s[1]
        BY <1>3, <2>7, ConcatEmptySeq
    <3>2. \A i \in 2 .. n : i \in 1 .. n /\ i - 1 \in 1 .. n
        OBVIOUS
    <3>3. ASSUME NEW i \in 1 .. n PROVE g[i] = g[i - 1] \o s[i]
      <4>1. CASE i = 1
        <5>1. i - 1 = 0 /\ g[i] = s[1]
            BY <2>4, <2>6, <3>1, <4>1
        <5>2. g[i] = g[0] \o s[1]
            BY <2>6, <3>1, <5>1
        <5>. QED  BY <4>1, <5>1, <5>2
      <4>2. CASE i \in 2 .. n
        <5>1. f[i] = f[i - 1] \o s[i]
            BY Zenon, <2>4, <4>2
        <5>2. g[i] = f[i] /\ g[i - 1] = f[i - 1]
            BY <2>6, <3>2, <4>2
        <5>. QED  BY <5>1, <5>2
      <4>3. i = 1 \/ i \in 2 .. n
          OBVIOUS
      <4>. QED  BY <4>1, <4>2, <4>3
    <3>. QED  BY <3>3
  <2>9. \A i \in 0 .. n : g[i] \in Seq(S)
    <3> DEFINE T == {k \in 0 .. n : g[k] \in Seq(S)}
    <3>1. 0 \in T
      <4>1. g[0] \in Seq(S)
          BY <1>1, <2>6
      <4>. QED  BY <4>1
    <3>2. ASSUME NEW k \in 0 .. n, k \in T, k < n PROVE k + 1 \in T
      <4>1. k + 1 \in 1 .. n /\ k + 1 - 1 = k
          BY <3>2
      <4>2. g[k + 1] = g[k] \o s[k + 1]
        <5>1. PICK j \in 1 .. n : j = k + 1
            BY <4>1
        <5>2. g[j] = g[j - 1] \o s[j]
            BY Zenon, <2>8
        <5>3. j - 1 = k
            BY <5>1
        <5>. QED  BY <5>1, <5>2, <5>3
      <4>3. g[k] \in Seq(S) /\ s[k + 1] \in Seq(S)
          BY <2>7, <3>2, <4>1
      <4>4. g[k + 1] \in Seq(S)
          BY <4>2, <4>3, ConcatProperties
      <4>. QED  BY <3>2, <4>4
    <3>. HIDE DEF T
    <3>3. \A k \in 0 .. n : k \in T
        BY <3>1, <3>2, UpTo
    <3>. QED  BY <3>3 DEF T
  <2>10. g \in [0 .. n -> Seq(S)]
      BY <2>5, <2>9
  <2>. QED  BY <1>0, <2>6, <2>8, <2>10 DEF Joins
<1>. QED  BY <1>2, <1>3

\* The tokens of a text, decoded up to place k.
DecodedTo(d, text, k) ==
    d = [i \in 0 .. k |-> IF i = 0 THEN NothingDecoded ELSE DecodeToken(d[i - 1], text[i])]

LEMMA DecodedMeans ==
    ASSUME NEW d, NEW text, NEW k, DecodedTo(d, text, k), NEW i \in 0 .. k
    PROVE  d[i] = IF i = 0 THEN NothingDecoded ELSE DecodeToken(d[i - 1], text[i])
BY Zenon DEF DecodedTo

LEMMA DecodedExists ==
    ASSUME NEW n \in Nat, NEW text
    PROVE  \E d : DecodedTo(d, text, n)
<1> DEFINE T == {k \in 0 .. n : \E d : DecodedTo(d, text, k)}
<1>1. 0 \in T
  <2>1. PICK d : d = [i \in 0 .. 0 |-> NothingDecoded]
      OBVIOUS
  <2>2. \A i \in 0 .. 0 : i = 0
      OBVIOUS
  <2>3. d = [i \in 0 .. 0 |-> d[i]] /\ \A i \in 0 .. 0 : d[i] = NothingDecoded
      BY <2>1
  <2>4. DecodedTo(d, text, 0)
      BY <2>2, <2>3 DEF DecodedTo
  <2>. QED  BY <2>4
<1>2. ASSUME NEW k \in 0 .. n, k \in T, k < n PROVE k + 1 \in T
  <2>1. PICK f : DecodedTo(f, text, k)
      BY <1>2
  <2>2. PICK g : g = [i \in 0 .. (k + 1) |->
                        IF i = k + 1 THEN DecodeToken(f[i - 1], text[i]) ELSE f[i]]
      OBVIOUS
  <2>3. \A i \in 0 .. k : g[i] = f[i]
      BY <2>2
  <2>4. ASSUME NEW i \in 0 .. (k + 1), i # 0 PROVE g[i - 1] = f[i - 1]
    <3>1. i - 1 \in 0 .. k
        BY <2>4
    <3>. QED  BY <2>3, <3>1
  <2>5. ASSUME NEW i \in 0 .. (k + 1)
        PROVE  g[i] = IF i = 0 THEN NothingDecoded ELSE DecodeToken(g[i - 1], text[i])
    <3>1. CASE i = k + 1
      <4>1. i # 0
          BY <3>1
      <4>2. g[i] = DecodeToken(f[i - 1], text[i])
          BY <2>2, <3>1
      <4>3. g[i - 1] = f[i - 1]
          BY <2>4, <4>1
      <4>. QED  BY <4>1, <4>2, <4>3
    <3>2. CASE i \in 0 .. k
      <4>1. f[i] = IF i = 0 THEN NothingDecoded ELSE DecodeToken(f[i - 1], text[i])
          BY <2>1, <3>2, DecodedMeans
      <4>2. g[i] = f[i]
          BY <2>3, <3>2
      <4>3. i # 0 => g[i - 1] = f[i - 1]
          BY <2>4
      <4>. QED  BY <4>1, <4>2, <4>3
    <3>3. i = k + 1 \/ i \in 0 .. k
        OBVIOUS
    <3>. QED  BY <3>1, <3>2, <3>3
  <2>6. g = [i \in 0 .. (k + 1) |-> g[i]]
      BY <2>2
  <2>7. DecodedTo(g, text, k + 1)
      BY <2>5, <2>6 DEF DecodedTo
  <2>. QED  BY <1>2, <2>7
<1>. HIDE DEF T
<1>3. n \in T
    BY <1>1, <1>2, UpTo
<1>. QED  BY <1>3 DEF T

Decodes(d, text) ==
    /\ d[0] = NothingDecoded
    /\ \A i \in 1 .. Len(text) : d[i] = DecodeToken(d[i - 1], text[i])
    /\ Decoded(text) = d[Len(text)].text

LEMMA DecodeSteps ==
    ASSUME NEW text, Len(text) \in Nat
    PROVE  \E d : Decodes(d, text)
<1>1. PICK n \in Nat : n = Len(text)
    OBVIOUS
<1>2. PICK d : d = CHOOSE g : DecodedTo(g, text, n)
    OBVIOUS
<1>3. DecodedTo(d, text, n)
    BY <1>2, DecodedExists
<1>4. Decoded(text) = (CHOOSE g : DecodedTo(g, text, Len(text)))[Len(text)].text
    BY DEF Decoded, DecodedTo
<1>5. Decoded(text) = d[n].text
    BY <1>1, <1>2, <1>4
<1>6. d[0] = NothingDecoded
  <2>1. 0 \in 0 .. n
      OBVIOUS
  <2>. QED  BY <1>3, <2>1, DecodedMeans
<1>7. ASSUME NEW i \in 1 .. n PROVE d[i] = DecodeToken(d[i - 1], text[i])
  <2>1. PICK j \in 0 .. n : j = i /\ j # 0
      OBVIOUS
  <2>2. d[j] = IF j = 0 THEN NothingDecoded ELSE DecodeToken(d[j - 1], text[j])
      BY <1>3, DecodedMeans
  <2>. QED  BY <2>1, <2>2
<1>. QED  BY <1>1, <1>5, <1>6, <1>7 DEF Decodes

-----------------------------------------------------------------------------
(***************************************************************************)
(* A value is decoded as it should be shown.                               *)
(***************************************************************************)

\* w is the place of the last word among the first k tokens, 0 without one.
IsLastWord(text, k, w) ==
    /\ w \in 0 .. k
    /\ w # 0 => text[w] \notin White
    /\ \A j \in 1 .. k : text[j] \notin White => j <= w

LEMMA WordBeforeFound ==
    ASSUME NEW n \in Nat, NEW text, DOMAIN text = 1 .. n, NEW k \in 0 .. n
    PROVE  IsLastWord(text, k, WordBefore(text, k + 1))
<1> DEFINE B == {j \in Words(text) : j < k + 1}
<1>1. B = {j \in 1 .. k : text[j] \notin White}
    BY DEF Words
<1>2. B \in SUBSET (0 .. n)
    BY <1>1
<1>3. WordBefore(text, k + 1) =
        IF B = {} THEN 0 ELSE CHOOSE j \in B : \A i \in B : i <= j
    BY DEF WordBefore
<1>. HIDE DEF B
<1>4. CASE B = {}
  <2>1. WordBefore(text, k + 1) = 0
      BY <1>3, <1>4
  <2>2. \A j \in 1 .. k : text[j] \in White
      BY <1>1, <1>4
  <2>. QED  BY <2>1, <2>2 DEF IsLastWord
<1>5. CASE B # {}
  <2>1. \E j \in B : \A i \in B : i <= j
      BY <1>2, <1>5, Greatest
  <2>2. PICK w : w = CHOOSE j \in B : \A i \in B : i <= j
      OBVIOUS
  <2>3. w \in B /\ \A i \in B : i <= w
      BY <2>1, <2>2
  <2>4. WordBefore(text, k + 1) = w
      BY <1>3, <1>5, <2>2
  <2>. QED  BY <1>1, <2>3, <2>4 DEF IsLastWord
<1>. QED  BY <1>4, <1>5

LEMMA LastWordUnique ==
    ASSUME NEW text, NEW k \in Nat, NEW v, NEW w,
           IsLastWord(text, k, v), IsLastWord(text, k, w)
    PROVE  v = w
<1>1. v \in 0 .. k /\ w \in 0 .. k
    BY DEF IsLastWord
<1>2. v # 0 => v <= w
    BY <1>1 DEF IsLastWord
<1>3. w # 0 => w <= v
    BY <1>1 DEF IsLastWord
<1>. QED  BY <1>1, <1>2, <1>3

Decoder == [text : Text, white : BOOLEAN, encoded : BOOLEAN]

Piece(text, k) ==
    IF k \notin Words(text) THEN <<>>
    ELSE IF Apart(text, k) THEN <<Space, text[k]>> ELSE <<text[k]>>

\* What the decoder holds after k tokens, the last word being at place w.
DecodedSoFar(d, f, text, k, w) ==
    /\ d[k] \in Decoder
    /\ d[k].text = f[k]
    /\ d[k].text # <<>> <=> w # 0
    /\ d[k].white <=> k > 0 /\ text[k] \in White
    /\ w # 0 => (d[k].encoded <=> text[w] \in Encoded)

LEMMA DecodeWhite ==
    ASSUME NEW d \in Decoder, NEW t \in White
    PROVE  /\ DecodeToken(d, t) \in Decoder
           /\ DecodeToken(d, t).text = d.text
           /\ DecodeToken(d, t).white
           /\ DecodeToken(d, t).encoded = d.encoded
BY DEF DecodeToken, Decoder

LEMMA PairOfSingles ==
    ASSUME NEW S, NEW a \in S, NEW b \in S
    PROVE  <<a>> \o <<b>> = <<a, b>>
<1>1. PICK p, q, r : p = <<a>> /\ q = <<b>> /\ r = <<a, b>>
    OBVIOUS
<1>2. /\ p \in Seq(S) /\ Len(p) = 1 /\ p[1] = a
      /\ q \in Seq(S) /\ Len(q) = 1 /\ q[1] = b
      /\ r \in Seq(S) /\ Len(r) = 2 /\ r[1] = a /\ r[2] = b
    BY <1>1
<1>3. PICK c : c = p \o q
    OBVIOUS
<1>4. /\ c \in Seq(S) /\ Len(c) = 2
      /\ \A i \in 1 .. 2 : c[i] = IF i <= 1 THEN p[i] ELSE q[i - 1]
    BY <1>2, <1>3, ConcatProperties
<1>5. c[1] = a /\ c[2] = b
    BY <1>2, <1>4
<1>6. \A i \in 1 .. 2 : c[i] = r[i]
    BY <1>2, <1>5
<1>7. c = r
    BY <1>2, <1>4, <1>6, SeqEqual
<1>. QED  BY <1>1, <1>3, <1>7

LEMMA DecodeWord ==
    ASSUME NEW d \in Decoder, NEW t \in Token, t \notin White
    PROVE  /\ DecodeToken(d, t) \in Decoder
           /\ DecodeToken(d, t).text =
                d.text \o (IF d.white /\ d.text # <<>> /\ ~(d.encoded /\ t \in Encoded)
                           THEN <<Space, t>> ELSE <<t>>)
           /\ DecodeToken(d, t).text # <<>>
           /\ ~DecodeToken(d, t).white
           /\ DecodeToken(d, t).encoded <=> t \in Encoded
<1>1. d.text \in Seq(Token)
    BY DEF Decoder, Text
<1>2. Space \in Token
    BY DEF Token, White
<1>3. PICK one : one = <<t>>
    OBVIOUS
<1>4. one \in Seq(Token) /\ Len(one) = 1
    BY <1>3
<1>5. PICK gap : gap = Gap(d, t)
    OBVIOUS
<1>6. gap \in Seq(Token)
  <2>1. gap = <<Space>> \/ gap = <<>>
      BY <1>5 DEF Gap
  <2>2. <<Space>> \in Seq(Token) /\ <<>> \in Seq(Token)
      BY <1>2
  <2>. QED  BY <2>1, <2>2
<1>7. gap \o one = IF d.white /\ d.text # <<>> /\ ~(d.encoded /\ t \in Encoded)
                   THEN <<Space, t>> ELSE <<t>>
  <2>1. <<Space>> \o <<t>> = <<Space, t>>
      BY <1>2, PairOfSingles
  <2>2. <<>> \o <<t>> = <<t>>
      BY <1>3, <1>4, ConcatEmptySeq
  <2>. QED  BY <1>3, <1>5, <2>1, <2>2 DEF Gap
<1>8. (d.text \o gap) \o one = d.text \o (gap \o one)
  <2>1. PICK p \in Seq(Token) : p = d.text
      BY <1>1
  <2>2. (p \o gap) \o one = p \o (gap \o one)
      BY <1>4, <1>6, ConcatAssociative
  <2>. QED  BY <2>1, <2>2
<1>9. PICK q : q = (d.text \o gap) \o one
    OBVIOUS
<1>10. DecodeToken(d, t) = [text |-> q, white |-> FALSE, encoded |-> t \in Encoded]
    BY <1>3, <1>5, <1>9 DEF DecodeToken
<1>11. q \in Seq(Token) /\ q # <<>>
  <2>1. d.text \o gap \in Seq(Token)
      BY <1>1, <1>6, ConcatProperties
  <2>2. PICK p \in Seq(Token) : p = d.text \o gap
      BY <2>1
  <2>3. q = p \o one
      BY <1>9, <2>2
  <2>7. p \o one \in Seq(Token) /\ Len(p \o one) = Len(p) + Len(one)
      BY Zenon, <1>4, ConcatProperties
  <2>4. q \in Seq(Token) /\ Len(q) = Len(p) + 1
      BY Zenon, <1>4, <2>3, <2>7
  <2>5. Len(p) \in Nat
      OBVIOUS
  <2>6. Len(q) # 0
      BY <2>4, <2>5
  <2>. QED  BY <2>4, <2>6, EmptySeq
<1>12. DecodeToken(d, t).text = q
    BY <1>10
<1>13. DecodeToken(d, t) \in Decoder
    BY <1>10, <1>11 DEF Decoder, Text
<1>14. ~DecodeToken(d, t).white
    BY DEF DecodeToken
<1>15. DecodeToken(d, t).encoded <=> t \in Encoded
    BY DEF DecodeToken
<1>. QED  BY <1>7, <1>8, <1>9, <1>11, <1>12, <1>13, <1>14, <1>15

LEMMA DecodedIsShown ==
    ASSUME NEW text \in Text
    PROVE  Decoded(text) = Shown(text) /\ Decoded(text) \in Text
<1>0. PICK n \in Nat : n = Len(text) /\ DOMAIN text = 1 .. n
    BY DEF Text
<1>1. PICK s : s = [k \in 1 .. n |-> Piece(text, k)]
    OBVIOUS
<1>2. Shown(text) = FlattenSeq(s)
    BY <1>0, <1>1 DEF Shown, Piece
<1>3. Space \in Token /\ \A k \in 1 .. n : text[k] \in Token
    BY <1>0 DEF Token, White, Text
<1>4. \A k \in 1 .. n : Piece(text, k) \in Seq(Token)
  <2>1. ASSUME NEW k \in 1 .. n PROVE Piece(text, k) \in Seq(Token)
    <3>1. text[k] \in Token
        BY <1>3
    <3>2. /\ <<>> \in Seq(Token) /\ <<text[k]>> \in Seq(Token)
          /\ <<Space, text[k]>> \in Seq(Token)
        BY <1>3, <3>1
    <3>. QED  BY <3>2 DEF Piece
  <2>. QED  BY <2>1
<1>5. s \in Seq(Seq(Token)) /\ Len(s) = n /\ \A k \in 1 .. n : s[k] = Piece(text, k)
  <2>1. s \in [1 .. n -> Seq(Token)]
      BY <1>1, <1>4
  <2>. QED  BY <1>1, <2>1
<1>6. PICK f \in [0 .. n -> Seq(Token)] : Joins(f, s)
    BY <1>5, FlattenSteps
<1>7. PICK d : Decodes(d, text)
    BY <1>0, DecodeSteps
<1>8. /\ f[0] = <<>> /\ FlattenSeq(s) = f[n]
      /\ \A i \in 1 .. n : f[i] = f[i - 1] \o Piece(text, i)
    BY <1>5, <1>6 DEF Joins
<1>9. /\ d[0] = NothingDecoded /\ Decoded(text) = d[n].text
      /\ \A i \in 1 .. n : d[i] = DecodeToken(d[i - 1], text[i])
    BY <1>0, <1>7 DEF Decodes
<1> DEFINE T == {k \in 0 .. n :
                   \E w : IsLastWord(text, k, w) /\ DecodedSoFar(d, f, text, k, w)}
<1>10. 0 \in T
  <2>1. IsLastWord(text, 0, 0)
      BY DEF IsLastWord
  <2>2. /\ NothingDecoded \in Decoder /\ NothingDecoded.text = <<>>
        /\ NothingDecoded.white = FALSE
    <3>1. <<>> \in Text
        BY DEF Text
    <3>. QED  BY <3>1 DEF NothingDecoded, Decoder
  <2>3. DecodedSoFar(d, f, text, 0, 0)
      BY <1>8, <1>9, <2>2 DEF DecodedSoFar
  <2>. QED  BY <2>1, <2>3
<1>11. ASSUME NEW k \in 0 .. n, k \in T, k < n PROVE k + 1 \in T
  <2>1. PICK w : IsLastWord(text, k, w) /\ DecodedSoFar(d, f, text, k, w)
      BY <1>11
  <2>. HIDE DEF T
  <2>2. PICK j \in 1 .. n : j = k + 1 /\ j - 1 = k
      BY <1>11
  <2>3. PICK t \in Token : t = text[j]
      BY <1>3
  <2>4. f[j] = f[k] \o Piece(text, j)
      BY <1>8, <2>2
  <2>5. d[j] = DecodeToken(d[k], t)
      BY <1>9, <2>2, <2>3
  <2>6. d[k] \in Decoder /\ d[k].text = f[k] /\ f[k] \in Seq(Token)
      BY <1>6, <2>1 DEF DecodedSoFar
  <2>7. CASE t \in White
    <3>1. IsLastWord(text, j, w)
      <4>1. w \in 0 .. j
          BY <2>1, <2>2 DEF IsLastWord
      <4>2. ASSUME NEW i \in 1 .. j, text[i] \notin White PROVE i <= w
        <5>1. i # j
            BY <2>3, <2>7, <4>2
        <5>2. i \in 1 .. k
            BY <2>2, <5>1
        <5>. QED  BY <2>1, <4>2, <5>2 DEF IsLastWord
      <4>. QED  BY <2>1, <4>1, <4>2 DEF IsLastWord
    <3>2. f[j] = f[k]
      <4>1. Piece(text, j) = <<>>
          BY <2>3, <2>7 DEF Piece, Words
      <4>. QED  BY <2>4, <2>6, <4>1, ConcatEmptySeq
    <3>3. /\ d[j] \in Decoder /\ d[j].text = d[k].text /\ d[j].white
          /\ d[j].encoded = d[k].encoded
        BY <2>5, <2>6, <2>7, DecodeWhite
    <3>4. DecodedSoFar(d, f, text, j, w)
        BY <2>1, <2>3, <2>7, <3>2, <3>3 DEF DecodedSoFar
    <3>. QED  BY <2>2, <3>1, <3>4 DEF T
  <2>8. CASE t \notin White
    <3>1. IsLastWord(text, j, j)
        BY <2>3, <2>8 DEF IsLastWord
    <3>2. WordBefore(text, j) = w
      <4>1. IsLastWord(text, k, WordBefore(text, k + 1))
          BY <1>0, WordBeforeFound
      <4>. QED  BY <2>1, <2>2, <4>1, LastWordUnique
    <3>3. w # 0 => (w < k <=> d[k].white)
      <4>1. ASSUME w # 0 PROVE w < k <=> text[k] \in White
          BY <2>1, <4>1 DEF IsLastWord
      <4>2. w # 0 => k > 0
          BY <2>1 DEF IsLastWord
      <4>. QED  BY <2>1, <4>1, <4>2 DEF DecodedSoFar
    <3>4. Apart(text, j) <=> /\ d[k].white /\ d[k].text # <<>>
                             /\ ~(d[k].encoded /\ t \in Encoded)
        BY <2>1, <2>2, <2>3, <3>2, <3>3 DEF Apart, DecodedSoFar
    <3>5. Piece(text, j) = IF Apart(text, j) THEN <<Space, t>> ELSE <<t>>
      <4>1. j \in Words(text)
          BY <1>0, <2>3, <2>8 DEF Words
      <4>. QED  BY <2>3, <4>1 DEF Piece
    <3>6. /\ d[j] \in Decoder /\ d[j].text # <<>> /\ ~d[j].white
          /\ d[j].encoded <=> t \in Encoded
      <4>1. PICK e \in Decoder : e = d[k]
          BY <2>6
      <4>2. /\ DecodeToken(e, t) \in Decoder /\ DecodeToken(e, t).text # <<>>
            /\ ~DecodeToken(e, t).white
            /\ DecodeToken(e, t).encoded <=> t \in Encoded
          BY <2>8, DecodeWord
      <4>. QED  BY <2>5, <4>1, <4>2
    <3>7. d[j].text = f[j]
      <4>1. d[j].text = d[k].text \o (IF d[k].white /\ d[k].text # <<>>
                                         /\ ~(d[k].encoded /\ t \in Encoded)
                                      THEN <<Space, t>> ELSE <<t>>)
          BY <2>5, <2>6, <2>8, DecodeWord
      <4>. QED  BY <2>4, <2>6, <3>4, <3>5, <4>1
    <3>8. DecodedSoFar(d, f, text, j, j)
        BY <2>3, <2>8, <3>6, <3>7 DEF DecodedSoFar
    <3>. QED  BY <2>2, <3>1, <3>8 DEF T
  <2>. QED  BY <2>7, <2>8
<1>. HIDE DEF T
<1>12. n \in T
  <2>1. \A k \in 0 .. n : k \in T
      BY <1>10, <1>11, UpTo
  <2>. QED  BY <2>1
<1>13. d[n] \in Decoder /\ d[n].text = f[n]
    BY <1>12 DEF T, DecodedSoFar
<1>. QED  BY <1>2, <1>8, <1>9, <1>13 DEF Decoder

-----------------------------------------------------------------------------
(***************************************************************************)
(* The lines of a head.                                                    *)
(***************************************************************************)

Framed(h) ==
    /\ h \in Seq(HeadLine) /\ h # <<>>
    /\ \A n \in 1 .. Len(h) : h[n].kind = "separator" <=> n = Len(h)

LEMMA LineParts ==
    ASSUME NEW l \in HeadLine
    PROVE  /\ l.kind \in {"header", "continuation", "separator"}
           /\ l.kind # "separator" => l.text \in Text
           /\ l.kind = "header" => l.name \in STRING
BY DEF HeadLine

LEMMA CallParts ==
    ASSUME NEW c \in Calls
    PROVE  /\ Len(c) \in Nat
           /\ \A e \in 1 .. Len(c) :
                /\ Len(c[e]) \in Nat \ {0}
                /\ \A i \in 1 .. Len(c[e]) : Framed(c[e][i])
<1>1. c \in Seq(Seq(Seq(HeadLine)))
    BY CallsAssumption
<1>2. Len(c) \in Nat /\ DOMAIN c = 1 .. Len(c)
    BY <1>1
<1>3. ASSUME NEW e \in 1 .. Len(c)
      PROVE  /\ Len(c[e]) \in Nat \ {0}
             /\ \A i \in 1 .. Len(c[e]) : Framed(c[e][i])
  <2>1. PICK heads \in Seq(Seq(HeadLine)) : heads = c[e]
      BY <1>1, <1>3
  <2>2. heads # <<>> /\ DOMAIN heads = 1 .. Len(heads)
      BY <1>2, <2>1, CallsAssumption
  <2>3. Len(heads) \in Nat \ {0}
      BY <2>2, EmptySeq
  <2>4. ASSUME NEW i \in 1 .. Len(heads) PROVE Framed(heads[i])
    <3>1. PICK h \in Seq(HeadLine) : h = heads[i]
        BY <2>1, <2>4
    <3>2. h # <<>> /\ \A n \in DOMAIN h : h[n].kind = "separator" <=> n = Len(h)
        BY <1>2, <2>1, <2>2, <3>1, CallsAssumption
    <3>3. DOMAIN h = 1 .. Len(h)
        OBVIOUS
    <3>. QED  BY <3>1, <3>2, <3>3 DEF Framed
  <2>. QED  BY <2>1, <2>3, <2>4
<1>. QED  BY <1>2, <1>3

\* The texts of a set of lines, joined in their order.
Joined(h, K) == FlattenSeq([k \in DOMAIN h |-> IF k \in K THEN h[k].text ELSE <<>>])

\* What f holds for k is the texts of the lines up to k.
JoinsLines(f, h, n, K) ==
    /\ f \in [0 .. n -> Text]
    /\ f[0] = <<>> /\ Joined(h, K) = f[n]
    /\ \A i \in 1 .. n : i \in K => f[i] = f[i - 1] \o h[i].text
    /\ \A i \in 1 .. n : i \notin K => f[i] = f[i - 1] \o <<>>

LEMMA JoinedSteps ==
    ASSUME NEW h, NEW n \in Nat, DOMAIN h = 1 .. n, NEW K, \A k \in K : h[k].text \in Text
    PROVE  \E f : JoinsLines(f, h, n, K)
<1>1. PICK s : s = [k \in 1 .. n |-> IF k \in K THEN h[k].text ELSE <<>>]
    OBVIOUS
<1>2. <<>> \in Seq(Token)
    OBVIOUS
<1>3. s \in [1 .. n -> Seq(Token)]
    BY <1>1, <1>2 DEF Text
<1>4. s \in Seq(Seq(Token)) /\ Len(s) = n
    BY <1>3
<1>5. \A k \in 1 .. n : s[k] = IF k \in K THEN h[k].text ELSE <<>>
    BY <1>1
<1>6. Joined(h, K) = FlattenSeq(s)
    BY <1>1 DEF Joined
<1>7. PICK f \in [0 .. n -> Seq(Token)] : Joins(f, s)
    BY <1>4, FlattenSteps
<1>8. f[0] = <<>> /\ Joined(h, K) = f[n]
    BY <1>4, <1>6, <1>7 DEF Joins
<1>9. ASSUME NEW i \in 1 .. n
      PROVE  /\ i \in K => f[i] = f[i - 1] \o h[i].text
             /\ i \notin K => f[i] = f[i - 1] \o <<>>
  <2>1. f[i] = f[i - 1] \o s[i]
      BY <1>4, <1>7 DEF Joins
  <2>. QED  BY <1>5, <2>1
<1>10. f \in [0 .. n -> Text]
    BY <1>7 DEF Text
<1>. QED  BY <1>8, <1>9, <1>10 DEF JoinsLines

LEMMA JoinedNone ==
    ASSUME NEW h, NEW n \in Nat, DOMAIN h = 1 .. n
    PROVE  Joined(h, {}) = <<>>
<1>0. PICK K : K = {}
    OBVIOUS
<1>1. PICK f : JoinsLines(f, h, n, K)
    BY <1>0, JoinedSteps
<1> DEFINE T == {k \in 0 .. n : f[k] = <<>>}
<1>2. 0 \in T
    BY <1>1 DEF JoinsLines
<1>3. ASSUME NEW k \in 0 .. n, k \in T, k < n PROVE k + 1 \in T
  <2>1. PICK j \in 1 .. n : j = k + 1 /\ j - 1 = k
      BY <1>3
  <2>2. f[j] = f[k] \o <<>>
      BY <1>0, <1>1, <2>1 DEF JoinsLines
  <2>3. f[k] = <<>>
      BY <1>3
  <2>4. <<>> \in Seq(Token) /\ <<>> \o <<>> = <<>>
      BY EmptySeq, ConcatEmptySeq
  <2>5. f[j] = <<>>
      BY <2>2, <2>3, <2>4
  <2>. QED  BY <2>1, <2>5
<1>. HIDE DEF T
<1>4. \A k \in 0 .. n : k \in T
    BY <1>2, <1>3, UpTo
<1>5. f[n] = <<>>
    BY <1>4 DEF T
<1>. QED  BY <1>0, <1>1, <1>5 DEF JoinsLines

\* One line more, behind all others.
LEMMA JoinedMore ==
    ASSUME NEW h, NEW n \in Nat, DOMAIN h = 1 .. n, NEW p \in 1 .. n,
           NEW K \in SUBSET (1 .. (p - 1)), \A k \in K : h[k].text \in Text,
           h[p].text \in Text
    PROVE  Joined(h, K \cup {p}) = Joined(h, K) \o h[p].text /\ Joined(h, K) \in Text
<1>1. PICK f : JoinsLines(f, h, n, K)
    BY JoinedSteps
<1>2. PICK L : L = K \cup {p}
    OBVIOUS
<1>3. \A k \in L : h[k].text \in Text
    BY <1>2
<1>4. PICK g : JoinsLines(g, h, n, L)
    BY <1>3, JoinedSteps
<1>5. PICK t \in Text : t = h[p].text
    OBVIOUS
<1> DEFINE T == {k \in 0 .. n : g[k] = IF k < p THEN f[k] ELSE f[k] \o t}
<1>6. 0 \in T
    BY <1>1, <1>4 DEF JoinsLines
<1>7. ASSUME NEW k \in 0 .. n, k \in T, k < n PROVE k + 1 \in T
  <2>1. PICK j \in 1 .. n : j = k + 1 /\ j - 1 = k
      BY <1>7
  <2>2. g[k] = IF k < p THEN f[k] ELSE f[k] \o t
      BY <1>7
  <2>3. f[k] \in Seq(Token) /\ g[k] \in Seq(Token) /\ t \in Seq(Token)
      BY <1>1, <1>4 DEF Text, JoinsLines
  <2>. HIDE DEF T
  <2>4. CASE j < p
    <3>1. k < p /\ (j \in L <=> j \in K) /\ g[k] = f[k]
        BY <1>2, <2>1, <2>2, <2>4
    <3>2. CASE j \in K
      <4>1. f[j] = f[k] \o h[j].text /\ g[j] = g[k] \o h[j].text
          BY <1>1, <1>4, <2>1, <3>1, <3>2 DEF JoinsLines
      <4>2. f[j] = g[j]
          BY <3>1, <4>1, Zenon
      <4>. QED  BY <2>1, <2>4, <4>2 DEF T
    <3>3. CASE j \notin K
      <4>1. f[j] = f[k] \o <<>> /\ g[j] = g[k] \o <<>>
          BY <1>1, <1>4, <2>1, <3>1, <3>3 DEF JoinsLines
      <4>. QED  BY <2>1, <2>4, <3>1, <4>1 DEF T
    <3>. QED  BY <3>2, <3>3
  <2>5. CASE j = p
    <3>1. j \notin K /\ j \in L /\ k < p /\ g[k] = f[k]
        BY <1>2, <2>1, <2>2, <2>5
    <3>2. f[j] = f[k] \o <<>>
        BY <1>1, <2>1, <3>1 DEF JoinsLines
    <3>3. g[j] = f[k] \o t
        BY <1>4, <1>5, <2>1, <2>5, <3>1 DEF JoinsLines
    <3>4. f[j] = f[k]
        BY <2>3, <3>2, ConcatEmptySeq
    <3>5. g[j] = f[j] \o t /\ ~(j < p)
        BY <2>5, <3>3, <3>4
    <3>. QED  BY <2>1, <3>5 DEF T
  <2>6. CASE j > p
    <3>1. j \notin K /\ j \notin L /\ ~(k < p) /\ g[k] = f[k] \o t
        BY <1>2, <2>1, <2>2, <2>6
    <3>2. f[j] = f[k] \o <<>> /\ g[j] = g[k] \o <<>>
        BY <1>1, <1>4, <2>1, <3>1 DEF JoinsLines
    <3>3. f[j] = f[k] /\ g[j] = g[k]
        BY <2>3, <3>2, ConcatEmptySeq
    <3>4. g[j] = f[j] \o t /\ ~(j < p)
        BY <2>6, <3>1, <3>3
    <3>. QED  BY <2>1, <3>4 DEF T
  <2>. QED  BY <2>4, <2>5, <2>6
<1>8. n \in T
  <2>. HIDE DEF T
  <2>1. \A k \in 0 .. n : k \in T
      BY <1>6, <1>7, UpTo
  <2>. QED  BY <2>1
<1>9. ~(n < p)
    OBVIOUS
<1>10. g[n] = f[n] \o t
    BY <1>8, <1>9 DEF T
<1>11. f[n] = Joined(h, K) /\ g[n] = Joined(h, L) /\ f[n] \in Text
    BY <1>1, <1>4 DEF JoinsLines
<1>. QED  BY <1>2, <1>5, <1>10, <1>11

-----------------------------------------------------------------------------
(***************************************************************************)
(* What is known of a header when the lines of the head up to l are read.  *)
(***************************************************************************)

IsHeader(h, n, name) == h[n].kind = "header" /\ h[n].name = name

\* The value of the header that line n starts.
ValueAt(h, n) == Shown(Joined(h, Continued(h, n)))

\* v is the value of the last header of that name that starts in the lines up to l.
Says(v, h, name, l) ==
    \/ v = Null /\ \A j \in 1 .. l : ~IsHeader(h, j, name)
    \/ \E n \in 1 .. l : /\ IsHeader(h, n, name)
                         /\ \A j \in (n + 1) .. l : ~IsHeader(h, j, name)
                         /\ v = ValueAt(h, n)

LEMMA SaysMore ==
    ASSUME NEW v, NEW h, NEW name, NEW l \in Nat, NEW m \in Nat, l <= m,
           Says(v, h, name, l), \A j \in (l + 1) .. m : ~IsHeader(h, j, name)
    PROVE  Says(v, h, name, m)
<1>1. CASE v = Null /\ \A j \in 1 .. l : ~IsHeader(h, j, name)
    BY <1>1 DEF Says
<1>2. CASE \E n \in 1 .. l : /\ IsHeader(h, n, name)
                             /\ \A j \in (n + 1) .. l : ~IsHeader(h, j, name)
                             /\ v = ValueAt(h, n)
  <2>1. PICK n \in 1 .. l : /\ IsHeader(h, n, name)
                            /\ \A j \in (n + 1) .. l : ~IsHeader(h, j, name)
                            /\ v = ValueAt(h, n)
      BY <1>2
  <2>2. n \in 1 .. m /\ \A j \in (n + 1) .. m : ~IsHeader(h, j, name)
      BY <2>1
  <2>. QED  BY <2>1, <2>2 DEF Says
<1>. QED  BY <1>1, <1>2 DEF Says

LEMMA SaysNew ==
    ASSUME NEW h, NEW l \in Nat, NEW n \in 1 .. l, NEW name, IsHeader(h, n, name),
           \A j \in (n + 1) .. l : ~IsHeader(h, j, name)
    PROVE  Says(ValueAt(h, n), h, name, l)
BY DEF Says

\* With all lines read that is what the head says.
LEMMA SaysSaid ==
    ASSUME NEW v, NEW h, NEW N \in Nat, DOMAIN h = 1 .. N, NEW name, Says(v, h, name, N)
    PROVE  v = Said(h, name)
<1>1. \A j \in 1 .. N : j \in Starts(h, name) <=> IsHeader(h, j, name)
    BY DEF Starts, IsHeader
<1>2. Starts(h, name) \subseteq 1 .. N
    BY DEF Starts
<1>3. CASE v = Null /\ \A j \in 1 .. N : ~IsHeader(h, j, name)
  <2>1. Starts(h, name) = {}
      BY <1>1, <1>2, <1>3
  <2>. QED  BY <1>3, <2>1 DEF Said
<1>4. CASE \E n \in 1 .. N : /\ IsHeader(h, n, name)
                             /\ \A j \in (n + 1) .. N : ~IsHeader(h, j, name)
                             /\ v = ValueAt(h, n)
  <2>1. PICK n \in 1 .. N : /\ IsHeader(h, n, name)
                            /\ \A j \in (n + 1) .. N : ~IsHeader(h, j, name)
                            /\ v = ValueAt(h, n)
      BY <1>4
  <2>2. n \in Starts(h, name)
      BY <1>1, <2>1
  <2>3. \A j \in Starts(h, name) : j <= n
    <3>1. ASSUME NEW j \in Starts(h, name), ~(j <= n) PROVE FALSE
      <4>1. j \in (n + 1) .. N /\ IsHeader(h, j, name)
          BY <1>1, <1>2, <3>1
      <4>. QED  BY <2>1, <4>1
    <3>. QED  BY <3>1
  <2>4. PICK m : m = CHOOSE k \in Starts(h, name) : \A j \in Starts(h, name) : j <= k
      OBVIOUS
  <2>5. m \in Starts(h, name) /\ \A j \in Starts(h, name) : j <= m
      BY <2>2, <2>3, <2>4
  <2>6. m = n
    <3>1. m \in 1 .. N /\ m <= n /\ n <= m
        BY <1>2, <2>2, <2>3, <2>5
    <3>. QED  BY <3>1
  <2>7. Starts(h, name) # {}
      BY <2>2
  <2>8. Said(h, name) = ValueAt(h, m)
      BY <2>4, <2>7, Zenon DEF Said, ValueAt, Joined
  <2>. QED  BY <2>1, <2>6, <2>8
<1>. QED  BY <1>3, <1>4 DEF Says

\* The three fields.
FieldsSay(r, h, l) ==
    /\ Says(r.method, h, "WWW-Authenticate", l)
    /\ Says(r.code, h, "X-Response-message-code", l)
    /\ Says(r.message, h, "X-Response-message-text", l)

-----------------------------------------------------------------------------
(***************************************************************************)
(* The headers.                                                            *)
(***************************************************************************)

Resolutions == {"SUCCESS", "UNKNOWN"} \cup {Resolution[c] : c \in DOMAIN Resolution}

HeadersType ==
    [complete : BOOLEAN, last : Pending \cup {Null}, method : Text \cup {Null},
     code : Text \cup {Null}, message : Text \cup {Null}, resolution : Resolutions]

LEMMA FreedType ==
    ASSUME NEW r \in HeadersType
    PROVE  /\ Freed(r) \in HeadersType
           /\ Freed(r).last = Null /\ Freed(r).method = Null
           /\ Freed(r).code = Null /\ Freed(r).message = Null
           /\ Freed(r).complete <=> r.complete
           /\ Freed(r).resolution = r.resolution
BY DEF Freed, HeadersType

LEMMA DecodedLastType ==
    ASSUME NEW r \in HeadersType
    PROVE  /\ DecodedLast(r) \in HeadersType
           /\ DecodedLast(r).last = r.last
           /\ DecodedLast(r).complete <=> r.complete
           /\ DecodedLast(r).resolution = r.resolution
<1>1. CASE r.last = Null
    BY <1>1 DEF DecodedLast
<1>2. CASE r.last # Null
  <2>1. r.last.name \in STRING /\ r.last.text \in Text
      BY <1>2 DEF HeadersType, Pending
  <2>2. PICK v : v = Decoded(r.last.text)
      OBVIOUS
  <2>3. v \in Text
      BY <2>1, <2>2, DecodedIsShown
  <2>4. DecodedLast(r) \in {r, [r EXCEPT !.method = v], [r EXCEPT !.code = v],
                           [r EXCEPT !.message = v]}
      BY <1>2, <2>2 DEF DecodedLast
  <2>. QED  BY <2>3, <2>4 DEF HeadersType
<1>. QED  BY <1>1, <1>2

\* Only the field of the header's name changes.
LEMMA DecodedLastFields ==
    ASSUME NEW r \in HeadersType, r.last # Null
    PROVE  /\ DecodedLast(r).method = IF r.last.name = "WWW-Authenticate"
                                      THEN Shown(r.last.text) ELSE r.method
           /\ DecodedLast(r).code = IF r.last.name = "X-Response-message-code"
                                    THEN Shown(r.last.text) ELSE r.code
           /\ DecodedLast(r).message = IF r.last.name = "X-Response-message-text"
                                       THEN Shown(r.last.text) ELSE r.message
<1>1. r.last.name \in STRING /\ r.last.text \in Text
    BY DEF HeadersType, Pending
<1>2. PICK v : v = Decoded(r.last.text)
    OBVIOUS
<1>3. v = Shown(r.last.text)
    BY <1>1, <1>2, DecodedIsShown
<1>4. PICK d : d = DecodedLast(r)
    OBVIOUS
<1>5. CASE r.last.name = "WWW-Authenticate"
  <2>1. d = [r EXCEPT !.method = v]
      BY <1>2, <1>4, <1>5 DEF DecodedLast
  <2>. QED  BY <1>3, <1>4, <1>5, <2>1 DEF HeadersType
<1>6. CASE r.last.name = "X-Response-message-code"
  <2>1. d = [r EXCEPT !.code = v]
      BY <1>2, <1>4, <1>6 DEF DecodedLast
  <2>. QED  BY <1>3, <1>4, <1>6, <2>1 DEF HeadersType
<1>7. CASE r.last.name = "X-Response-message-text"
  <2>1. d = [r EXCEPT !.message = v]
      BY <1>2, <1>4, <1>7 DEF DecodedLast
  <2>. QED  BY <1>3, <1>4, <1>7, <2>1 DEF HeadersType
<1>8. CASE r.last.name \notin Header
  <2>1. d = r
      BY <1>4, <1>8 DEF DecodedLast, Header
  <2>. QED  BY <1>4, <1>8, <2>1 DEF Header
<1>. QED  BY <1>5, <1>6, <1>7, <1>8 DEF Header

-----------------------------------------------------------------------------
(***************************************************************************)
(* The first head, l lines of which are read: the header that may go on,   *)
(* and the fields of those before it.                                      *)
(***************************************************************************)

\* Line n starts the header that may go on behind line l.
Opens(h, n, l) ==
    h[n].kind = "header" /\ \A j \in (n + 1) .. l : h[j].kind = "continuation"

NoneOpen(r, h, l) ==
    /\ r.last = Null
    /\ \A j \in 1 .. l : h[j].kind # "header"
    /\ FieldsSay(r, h, 0)

OneOpen(r, h, l, n) ==
    /\ r.last # Null
    /\ Opens(h, n, l)
    /\ r.last.name = h[n].name
    /\ r.last.text = Joined(h, n .. l)
    /\ FieldsSay(r, h, n - 1)

Collecting(r, h, l) ==
    ~r.complete /\ (NoneOpen(r, h, l) \/ \E n \in 1 .. l : OneOpen(r, h, l, n))

Collected(r, h) == r.complete /\ FieldsSay(r, h, Len(h))

LEMMA StartCollects ==
    ASSUME NEW h
    PROVE  Collecting(NoHeaders, h, 0)
<1>1. \A name : Says(Null, h, name, 0)
    BY DEF Says
<1>2. FieldsSay(NoHeaders, h, 0)
    BY <1>1 DEF FieldsSay, NoHeaders
<1>. QED  BY <1>2 DEF Collecting, NoneOpen, NoHeaders

LEMMA FramedLines ==
    ASSUME NEW h, Framed(h)
    PROVE  /\ Len(h) \in Nat \ {0} /\ DOMAIN h = 1 .. Len(h)
           /\ \A n \in 1 .. Len(h) : h[n] \in HeadLine
           /\ h[Len(h)].kind = "separator"
           /\ \A n \in 1 .. Len(h) : n < Len(h) => h[n].text \in Text
<1>1. h \in Seq(HeadLine) /\ h # <<>>
    BY DEF Framed
<1>2. Len(h) \in Nat \ {0} /\ DOMAIN h = 1 .. Len(h)
    BY <1>1, EmptySeq
<1>3. \A n \in 1 .. Len(h) : h[n] \in HeadLine
    BY <1>1
<1>4. \A n \in 1 .. Len(h) : (h[n].kind = "separator") <=> (n = Len(h))
    BY Zenon DEF Framed
<1>5. PICK N \in Nat \ {0} : N = Len(h)
    BY <1>2
<1>6. \A n \in 1 .. N : (h[n].kind = "separator") <=> (n = N)
    BY <1>4, <1>5, Zenon
<1>7. h[N].kind = "separator"
    BY <1>6
<1>8. ASSUME NEW n \in 1 .. N, n < N PROVE h[n].text \in Text
  <2>1. h[n].kind # "separator"
      BY <1>6, <1>8
  <2>. QED  BY <1>3, <1>5, <2>1, LineParts
<1>. QED  BY <1>2, <1>3, <1>5, <1>7, <1>8

\* Where the next header or the end of the head is, the lines that continue a
\* header end.
LEMMA ClosedLines ==
    ASSUME NEW h, Framed(h), NEW l \in Nat, l < Len(h), NEW n \in 1 .. l, Opens(h, n, l),
           h[l + 1].kind # "continuation"
    PROVE  Continued(h, n) = n .. l
<1>1. Len(h) \in Nat
    BY FramedLines
<1>2. PICK m \in Nat : m = l + 1
    OBVIOUS
<1>3. ASSUME NEW k \in n .. l PROVE k \in Continued(h, n)
    BY <1>1, <1>3 DEF Opens, Continued
<1>4. ASSUME NEW k \in Continued(h, n) PROVE k \in n .. l
  <2>1. k \in n .. Len(h) /\ \A j \in (n + 1) .. k : h[j].kind = "continuation"
      BY <1>4 DEF Continued
  <2>2. ~(k >= m)
    <3>1. SUFFICES ASSUME k >= m PROVE FALSE
        OBVIOUS
    <3>2. m \in (n + 1) .. k
        BY <1>1, <1>2, <2>1, <3>1
    <3>. QED  BY <1>2, <2>1, <3>2
  <2>. QED  BY <1>1, <1>2, <2>1, <2>2
<1>. QED  BY <1>3, <1>4

\* The fields with the header that was open decoded.
LEMMA ClosedSays ==
    ASSUME NEW h, Framed(h), NEW l \in Nat, l < Len(h), NEW r \in HeadersType,
           Collecting(r, h, l), h[l + 1].kind # "continuation"
    PROVE  FieldsSay(DecodedLast(r), h, l)
<1>1. CASE NoneOpen(r, h, l)
  <2>1. DecodedLast(r) = r
      BY <1>1 DEF NoneOpen, DecodedLast
  <2>2. \A name : \A j \in (0 + 1) .. l : ~IsHeader(h, j, name)
      BY <1>1 DEF NoneOpen, IsHeader
  <2>3. FieldsSay(r, h, 0)
      BY <1>1 DEF NoneOpen
  <2>4. FieldsSay(r, h, l)
      BY <2>2, <2>3, SaysMore DEF FieldsSay
  <2>. QED  BY <2>1, <2>4
<1>2. ASSUME NEW n \in 1 .. l, OneOpen(r, h, l, n) PROVE FieldsSay(DecodedLast(r), h, l)
  <2>1. Continued(h, n) = n .. l
      BY <1>2, ClosedLines DEF OneOpen
  <2>2. Shown(r.last.text) = ValueAt(h, n)
      BY <1>2, <2>1 DEF OneOpen, ValueAt
  <2>3. r.last # Null /\ Opens(h, n, l) /\ r.last.name = h[n].name /\ FieldsSay(r, h, n - 1)
      BY <1>2 DEF OneOpen
  <2>4. \A name : \A j \in (n + 1) .. l : ~IsHeader(h, j, name)
      BY <2>3 DEF Opens, IsHeader
  <2>5. ASSUME NEW name, r.last.name = name
        PROVE  Says(Shown(r.last.text), h, name, l)
    <3>1. IsHeader(h, n, name)
        BY <2>3, <2>5 DEF Opens, IsHeader
    <3>. QED  BY <2>2, <2>4, <3>1, SaysNew
  <2>6. ASSUME NEW v, NEW name, r.last.name # name, Says(v, h, name, n - 1)
        PROVE  Says(v, h, name, l)
    <3>1. PICK i \in Nat : i = n - 1 /\ i + 1 = n /\ i <= l
        OBVIOUS
    <3>2. ~IsHeader(h, n, name)
        BY <2>3, <2>6 DEF IsHeader
    <3>3. \A j \in (i + 1) .. l : ~IsHeader(h, j, name)
        BY <2>4, <3>1, <3>2
    <3>4. Says(v, h, name, i)
        BY <2>6, <3>1
    <3>. QED  BY <3>1, <3>3, <3>4, SaysMore
  <2>7. PICK d : d = DecodedLast(r)
      OBVIOUS
  <2>8. Says(d.method, h, "WWW-Authenticate", l)
    <3>1. CASE r.last.name = "WWW-Authenticate"
        BY <2>3, <2>5, <2>7, <3>1, DecodedLastFields
    <3>2. CASE r.last.name # "WWW-Authenticate"
      <4>1. d.method = r.method /\ Says(r.method, h, "WWW-Authenticate", n - 1)
          BY <2>3, <2>7, <3>2, DecodedLastFields DEF FieldsSay
      <4>. QED  BY <2>6, <3>2, <4>1
    <3>. QED  BY <3>1, <3>2
  <2>9. Says(d.code, h, "X-Response-message-code", l)
    <3>1. CASE r.last.name = "X-Response-message-code"
        BY <2>3, <2>5, <2>7, <3>1, DecodedLastFields
    <3>2. CASE r.last.name # "X-Response-message-code"
      <4>1. d.code = r.code /\ Says(r.code, h, "X-Response-message-code", n - 1)
          BY <2>3, <2>7, <3>2, DecodedLastFields DEF FieldsSay
      <4>. QED  BY <2>6, <3>2, <4>1
    <3>. QED  BY <3>1, <3>2
  <2>10. Says(d.message, h, "X-Response-message-text", l)
    <3>1. CASE r.last.name = "X-Response-message-text"
        BY <2>3, <2>5, <2>7, <3>1, DecodedLastFields
    <3>2. CASE r.last.name # "X-Response-message-text"
      <4>1. d.message = r.message /\ Says(r.message, h, "X-Response-message-text", n - 1)
          BY <2>3, <2>7, <3>2, DecodedLastFields DEF FieldsSay
      <4>. QED  BY <2>6, <3>2, <4>1
    <3>. QED  BY <3>1, <3>2
  <2>. QED  BY <2>7, <2>8, <2>9, <2>10 DEF FieldsSay
<1>. QED  BY <1>1, <1>2 DEF Collecting

\* The next line, by its kind.
LEMMA ContinuationCollects ==
    ASSUME NEW h, Framed(h), NEW l \in Nat, l < Len(h), NEW r \in HeadersType,
           Collecting(r, h, l), h[l + 1].kind = "continuation",
           NEW q, q = IF r.last = Null THEN r
                      ELSE [r EXCEPT !.last.text = @ \o h[l + 1].text]
    PROVE  q \in HeadersType /\ Collecting(q, h, l + 1)
<1>1. PICK m \in 1 .. Len(h) : m = l + 1
    BY FramedLines
<1>2. h[m].text \in Text /\ h[m].kind = "continuation" /\ l + 1 < Len(h)
  <2>1. Len(h) \in Nat /\ h[Len(h)].kind = "separator" /\ h[m] \in HeadLine
      BY FramedLines
  <2>2. m # Len(h) /\ h[m].kind = "continuation"
      BY <1>1, <2>1
  <2>. QED  BY <1>1, <2>1, <2>2, LineParts
<1>3. ~r.complete
    BY DEF Collecting
<1>4. CASE NoneOpen(r, h, l)
  <2>1. q = r
      BY <1>4 DEF NoneOpen
  <2>2. \A j \in 1 .. m : h[j].kind # "header"
      BY <1>1, <1>2, <1>4 DEF NoneOpen
  <2>3. NoneOpen(r, h, m)
      BY <1>4, <2>2 DEF NoneOpen
  <2>. QED  BY <1>1, <1>3, <2>1, <2>3 DEF Collecting
<1>5. ASSUME NEW n \in 1 .. l, OneOpen(r, h, l, n)
      PROVE  q \in HeadersType /\ Collecting(q, h, l + 1)
  <2>1. PICK t \in Text : t = h[m].text
      BY <1>2
  <2>2. r.last \in Pending /\ r.last # Null
      BY <1>5 DEF OneOpen, HeadersType
  <2>3. r.last.text \in Text /\ r.last.name \in STRING
      BY <2>2 DEF Pending
  <2>4. PICK u : u = r.last.text \o t
      OBVIOUS
  <2>5. u \in Text
      BY <2>1, <2>3, <2>4, ConcatProperties DEF Text
  <2>6. q = [r EXCEPT !.last.text = u]
      BY <1>1, <2>1, <2>2, <2>4
  <2>7. PICK p \in Pending : p = [r.last EXCEPT !.text = u]
      BY <2>2, <2>5 DEF Pending
  <2>8. p.name = r.last.name /\ p.text = u
      BY <2>2, <2>7 DEF Pending
  <2>9. q = [r EXCEPT !.last = p]
      BY <2>6, <2>7
  <2>10. q \in HeadersType /\ q.last = p /\ q.method = r.method /\ q.code = r.code
        /\ q.message = r.message /\ (q.complete <=> r.complete)
      BY <2>9 DEF HeadersType
  <2>11. q.last # Null
      BY <2>10, NullAssumption
  <2>12. Opens(h, n, m)
      BY <1>1, <1>2, <1>5 DEF OneOpen, Opens
  <2>13. q.last.name = h[n].name
      BY <1>5, <2>8, <2>10 DEF OneOpen
  <2>14. q.last.text = Joined(h, n .. m)
    <3>1. PICK K : K = n .. l
        OBVIOUS
    <3>2. K \in SUBSET (1 .. (m - 1)) /\ K \cup {m} = n .. m
        BY <1>1, <3>1
    <3>3. \A k \in K : h[k].text \in Text
        BY <3>1, FramedLines
    <3>4. Joined(h, K \cup {m}) = Joined(h, K) \o h[m].text
        BY <1>2, <3>2, <3>3, JoinedMore, FramedLines
    <3>5. r.last.text = Joined(h, K)
        BY <1>5, <3>1 DEF OneOpen
    <3>. QED  BY <2>1, <2>4, <2>8, <2>10, <3>2, <3>4, <3>5
  <2>15. FieldsSay(q, h, n - 1)
      BY <1>5, <2>10 DEF OneOpen, FieldsSay
  <2>16. OneOpen(q, h, m, n)
      BY <2>11, <2>12, <2>13, <2>14, <2>15, Zenon DEF OneOpen
  <2>17. n \in 1 .. m
      BY <1>1
  <2>. QED  BY <1>1, <1>3, <2>10, <2>16, <2>17 DEF Collecting
<1>. QED  BY <1>4, <1>5, <1>3 DEF Collecting

LEMMA HeaderCollects ==
    ASSUME NEW h, Framed(h), NEW l \in Nat, l < Len(h), NEW r \in HeadersType,
           Collecting(r, h, l), h[l + 1].kind = "header",
           NEW q, q = [DecodedLast(r) EXCEPT !.last = [name |-> h[l + 1].name,
                                                       text |-> h[l + 1].text]]
    PROVE  q \in HeadersType /\ Collecting(q, h, l + 1)
<1>1. PICK m \in 1 .. Len(h) : m = l + 1
    BY FramedLines
<1>2. h[m].kind = "header" /\ h[m].text \in Text /\ h[m].name \in STRING
    BY <1>1, FramedLines, LineParts
<1>3. PICK d : d = DecodedLast(r)
    OBVIOUS
<1>4. d \in HeadersType /\ (d.complete <=> r.complete)
    BY <1>3, DecodedLastType
<1>5. FieldsSay(d, h, l)
    BY <1>1, <1>2, <1>3, ClosedSays
<1>6. PICK p \in Pending : p = [name |-> h[m].name, text |-> h[m].text]
    BY <1>2 DEF Pending
<1>7. q = [d EXCEPT !.last = p]
    BY <1>1, <1>3, <1>6
<1>8. q \in HeadersType /\ q.last = p /\ q.method = d.method /\ q.code = d.code
      /\ q.message = d.message /\ (q.complete <=> d.complete)
    BY <1>4, <1>7 DEF HeadersType
<1>9. q.last # Null
    BY <1>8, NullAssumption
<1>10. Opens(h, m, m)
    BY <1>2 DEF Opens
<1>11. Joined(h, m .. m) = h[m].text
  <2>1. PICK K : K = {}
      OBVIOUS
  <2>2. Joined(h, K \cup {m}) = Joined(h, K) \o h[m].text
      BY <1>2, <2>1, JoinedMore, FramedLines
  <2>3. Joined(h, K) = <<>>
      BY <2>1, JoinedNone, FramedLines
  <2>4. <<>> \o h[m].text = h[m].text
      BY <1>2, ConcatEmptySeq DEF Text
  <2>5. K \cup {m} = m .. m
      BY <2>1
  <2>. QED  BY <2>2, <2>3, <2>4, <2>5
<1>12. FieldsSay(q, h, m - 1)
    BY <1>1, <1>5, <1>8 DEF FieldsSay
<1>13. OneOpen(q, h, m, m)
    BY <1>6, <1>8, <1>9, <1>10, <1>11, <1>12 DEF OneOpen
<1>14. ~r.complete
    BY DEF Collecting
<1>. QED  BY <1>1, <1>4, <1>8, <1>13, <1>14 DEF Collecting

LEMMA SeparatorCollected ==
    ASSUME NEW h, Framed(h), NEW l \in Nat, l < Len(h), NEW r \in HeadersType,
           Collecting(r, h, l), h[l + 1].kind = "separator",
           NEW q, q = [DecodedLast(r) EXCEPT !.last = Null, !.complete = TRUE]
    PROVE  q \in HeadersType /\ l + 1 = Len(h) /\ Collected(q, h)
<1>1. PICK m \in 1 .. Len(h) : m = l + 1
    BY FramedLines
<1>2. m = Len(h)
    BY <1>1 DEF Framed
<1>3. PICK d : d = DecodedLast(r)
    OBVIOUS
<1>4. d \in HeadersType
    BY <1>3, DecodedLastType
<1>5. FieldsSay(d, h, l)
    BY <1>1, <1>3, ClosedSays
<1>6. q \in HeadersType /\ q.complete /\ q.method = d.method /\ q.code = d.code
      /\ q.message = d.message
    BY <1>3, <1>4 DEF HeadersType
<1>7. \A name : \A j \in (l + 1) .. m : ~IsHeader(h, j, name)
    BY <1>1 DEF IsHeader
<1>8. FieldsSay(q, h, m)
    BY <1>1, <1>5, <1>6, <1>7, SaysMore DEF FieldsSay
<1>. QED  BY <1>1, <1>2, <1>6, <1>8 DEF Collected

-----------------------------------------------------------------------------
(***************************************************************************)
(* The inductive invariant.  The first head is collected; of a later one   *)
(* nothing is kept, because complete is never reset: each line of it frees *)
(* what was known, so that no code is left when its exchange ends.         *)
(***************************************************************************)

Position ==
    /\ call \in Calls
    /\ exchange \in 1 .. (Len(call) + 1)
    /\ exchange <= Len(call) =>
         head \in 1 .. Len(call[exchange]) /\ line \in 0 .. Len(call[exchange][head])

InFirst == exchange <= Len(call) /\ exchange = 1 /\ head = 1
InLater == exchange <= Len(call) /\ ~(exchange = 1 /\ head = 1)

FirstInv ==
    InFirst =>
        /\ line < Len(call[1][1]) => Collecting(headers, call[1][1], line)
        /\ line = Len(call[1][1]) => Collected(headers, call[1][1])

LaterInv == InLater => headers.complete /\ (line > 0 => headers.code = Null)

CodeSaid(h) == ResolutionOf(Said(h, "X-Response-message-code"))

ToldInv ==
    /\ exchange > 1 =>
         otp \in {"UNKNOWN", CodeSaid(call[exchange - 1][Len(call[exchange - 1])])}
    /\ exchange = 2 /\ Len(call[1]) = 1 => otp = CodeSaid(call[1][1])

IInv == Position /\ headers \in HeadersType /\ FirstInv /\ LaterInv /\ ToldInv

LEMMA InitInv == Init => IInv
<1>. SUFFICES ASSUME Init PROVE IInv
    OBVIOUS
<1>1. Len(call) \in Nat
    BY CallParts DEF Init
<1>2. Position
  <2>1. CASE exchange <= Len(call)
    <3>1. 1 \in 1 .. Len(call)
        BY <1>1, <2>1 DEF Init
    <3>2. Len(call[1]) \in Nat \ {0} /\ \A i \in 1 .. Len(call[1]) : Framed(call[1][i])
        BY <3>1, CallParts DEF Init
    <3>3. Len(call[1][1]) \in Nat
        BY <3>2, FramedLines
    <3>. QED  BY <1>1, <3>2, <3>3 DEF Init, Position
  <2>2. CASE ~(exchange <= Len(call))
      BY <1>1, <2>2 DEF Init, Position
  <2>. QED  BY <2>1, <2>2
<1>3. headers \in HeadersType
    BY DEF Init, NoHeaders, HeadersType, Resolutions
<1>4. FirstInv
  <2>1. SUFFICES ASSUME InFirst PROVE FirstInv
      BY DEF FirstInv
  <2>2. Framed(call[1][1])
    <3>1. 1 \in 1 .. Len(call)
        BY <1>1, <2>1 DEF InFirst
    <3>2. Len(call[1]) \in Nat \ {0} /\ \A i \in 1 .. Len(call[1]) : Framed(call[1][i])
        BY <3>1, CallParts DEF Init
    <3>. QED  BY <3>2
  <2>3. Len(call[1][1]) # 0
      BY <2>2, FramedLines
  <2>. QED  BY <2>3, StartCollects DEF Init, FirstInv
<1>5. LaterInv /\ ToldInv
    BY DEF Init, LaterInv, InLater, ToldInv
<1>. QED  BY <1>2, <1>3, <1>4, <1>5 DEF IInv

\* The head that is read, and its next line.
LEMMA ReceiveParts ==
    ASSUME IInv, Receive
    PROVE  \E h : /\ h = call[exchange][head] /\ Framed(h) /\ Heads[head] = h
                  /\ line \in Nat /\ line < Len(h) /\ Line = h[line + 1]
<1>1. exchange \in 1 .. Len(call)
    BY CallParts DEF IInv, Position, Receive
<1>2. head \in 1 .. Len(call[exchange]) /\ line \in 0 .. Len(call[exchange][head])
    BY <1>1 DEF IInv, Position
<1>3. PICK h : h = call[exchange][head]
    OBVIOUS
<1>4. Framed(h)
    BY <1>1, <1>2, <1>3, CallParts DEF IInv, Position
<1>5. line \in Nat /\ line < Len(h)
    BY <1>2, <1>3 DEF Receive, Heads
<1>. QED  BY <1>3, <1>4, <1>5 DEF Heads, Line

\* Nothing but the headers and the number of lines changes with a line.
LineRead(q) ==
    headers' = q /\ line' = line + 1 /\ UNCHANGED <<call, exchange, head, otp>>

LEMMA LineReadInv ==
    ASSUME IInv, Receive, NEW q, LineRead(q), q \in HeadersType,
           FirstInv', InLater => q.complete /\ q.code = Null
    PROVE  IInv'
<1>1. PICK h : /\ h = call[exchange][head] /\ Framed(h)
               /\ line \in Nat /\ line < Len(h)
    BY ReceiveParts
<1>2. line + 1 \in 0 .. Len(h)
    BY <1>1, FramedLines
<1>3. Position'
    BY <1>1, <1>2 DEF IInv, Position, LineRead
<1>4. LaterInv'
    BY DEF LaterInv, InLater, LineRead
<1>5. ToldInv'
    BY DEF IInv, ToldInv, LineRead
<1>. QED  BY <1>3, <1>4, <1>5 DEF IInv, LineRead

LEMMA FirstLine ==
    ASSUME IInv, Receive, InFirst, Continuation \/ NewHeader \/ Separator
    PROVE  IInv'
<1>1. PICK h : /\ h = call[exchange][head] /\ Framed(h)
               /\ line \in Nat /\ line < Len(h) /\ Line = h[line + 1]
    BY ReceiveParts
<1>2. h = call[1][1]
    BY <1>1 DEF InFirst
<1>3. Collecting(headers, h, line) /\ headers \in HeadersType
    BY <1>1, <1>2 DEF IInv, FirstInv
<1>4. Current = headers
    BY <1>3 DEF Collecting, Current
<1>5. Len(h) \in Nat /\ h[Len(h)].kind = "separator"
    BY <1>1, FramedLines
<1>6. ASSUME NEW q, LineRead(q), q \in HeadersType, Collecting(q, h, line + 1),
             Line.kind # "separator"
      PROVE  IInv'
  <2>1. line + 1 < Len(h)
      BY <1>1, <1>5, <1>6
  <2>2. FirstInv'
      BY <1>1, <1>2, <1>6, <2>1 DEF FirstInv, LineRead
  <2>. QED  BY <1>6, <2>2, LineReadInv DEF InFirst, InLater
<1>7. ASSUME NEW q, LineRead(q), q \in HeadersType, Collected(q, h), line + 1 = Len(h)
      PROVE  IInv'
  <2>1. FirstInv'
      BY <1>1, <1>2, <1>7 DEF FirstInv, LineRead
  <2>. QED  BY <1>7, <2>1, LineReadInv DEF InFirst, InLater
<1>8. CASE Continuation
  <2>1. PICK q : q = IF headers.last = Null THEN headers
                     ELSE [headers EXCEPT !.last.text = @ \o h[line + 1].text]
      OBVIOUS
  <2>2. LineRead(q) /\ Line.kind = "continuation"
      BY <1>1, <1>4, <1>8, <2>1 DEF Continuation, Took, LineRead
  <2>3. q \in HeadersType /\ Collecting(q, h, line + 1)
      BY <1>1, <1>3, <2>1, <2>2, ContinuationCollects
  <2>. QED  BY <1>6, <2>2, <2>3
<1>9. CASE NewHeader
  <2>1. PICK q : q = [DecodedLast(headers) EXCEPT !.last = [name |-> h[line + 1].name,
                                                            text |-> h[line + 1].text]]
      OBVIOUS
  <2>2. LineRead(q) /\ Line.kind = "header"
      BY <1>1, <1>4, <1>9, <2>1 DEF NewHeader, Took, LineRead
  <2>3. q \in HeadersType /\ Collecting(q, h, line + 1)
      BY <1>1, <1>3, <2>1, <2>2, HeaderCollects
  <2>. QED  BY <1>6, <2>2, <2>3
<1>10. CASE Separator
  <2>1. PICK q : q = [DecodedLast(headers) EXCEPT !.last = Null, !.complete = TRUE]
      OBVIOUS
  <2>2. LineRead(q) /\ Line.kind = "separator"
      BY <1>1, <1>4, <1>10, <2>1 DEF Separator, Took, LineRead
  <2>3. q \in HeadersType /\ line + 1 = Len(h) /\ Collected(q, h)
      BY <1>1, <1>3, <2>1, <2>2, SeparatorCollected
  <2>. QED  BY <1>7, <2>2, <2>3
<1>. QED  BY <1>8, <1>9, <1>10

\* A line of a later head leaves no code.
LEMMA LaterLine ==
    ASSUME IInv, Receive, InLater, Continuation \/ NewHeader \/ Separator
    PROVE  IInv'
<1>1. PICK h : /\ h = call[exchange][head] /\ Framed(h)
               /\ line \in Nat /\ line < Len(h) /\ Line = h[line + 1]
    BY ReceiveParts
<1>2. PICK r : r = Freed(headers)
    OBVIOUS
<1>3. Current = r
    BY <1>2 DEF Current, IInv, LaterInv
<1>4. r \in HeadersType /\ r.last = Null /\ r.code = Null /\ r.complete
    BY <1>2, FreedType DEF IInv, LaterInv
<1>5. DecodedLast(r) = r
    BY <1>4 DEF DecodedLast
<1>6. Line \in HeadLine
    BY <1>1, FramedLines
<1>7. ASSUME NEW q, LineRead(q), q \in HeadersType, q.complete, q.code = Null
      PROVE  IInv'
  <2>1. FirstInv'
      BY <1>7 DEF InLater, FirstInv, InFirst, LineRead
  <2>. QED  BY <1>7, <2>1, LineReadInv
<1>8. CASE Continuation
  <2>1. LineRead(r)
      BY <1>3, <1>4, <1>8 DEF Continuation, Took, LineRead
  <2>. QED  BY <1>4, <1>7, <2>1
<1>9. CASE NewHeader
  <2>1. PICK p : p = [name |-> Line.name, text |-> Line.text]
      OBVIOUS
  <2>2. p \in Pending
      BY <1>6, <1>9, <2>1, LineParts DEF NewHeader, Pending
  <2>3. PICK q : q = [r EXCEPT !.last = p]
      OBVIOUS
  <2>4. LineRead(q)
      BY <1>3, <1>5, <1>9, <2>1, <2>3 DEF NewHeader, Took, LineRead
  <2>5. q \in HeadersType /\ q.complete /\ q.code = Null
      BY <1>4, <2>2, <2>3 DEF HeadersType
  <2>. QED  BY <1>7, <2>4, <2>5
<1>10. CASE Separator
  <2>1. PICK q : q = [r EXCEPT !.last = Null, !.complete = TRUE]
      OBVIOUS
  <2>2. LineRead(q)
      BY <1>3, <1>5, <1>10, <2>1 DEF Separator, Took, LineRead
  <2>3. q \in HeadersType /\ q.complete /\ q.code = Null
      BY <1>4, <2>1 DEF HeadersType
  <2>. QED  BY <1>7, <2>2, <2>3
<1>. QED  BY <1>8, <1>9, <1>10

\* With a head read, what is known of it.
LEMMA ReadParts ==
    ASSUME IInv, HeadRead
    PROVE  /\ exchange \in 1 .. Len(call) /\ Len(call) \in Nat
           /\ head \in 1 .. Len(call[exchange]) /\ Len(call[exchange]) \in Nat
           /\ \A i \in 1 .. Len(call[exchange]) : Framed(call[exchange][i])
           /\ line = Len(call[exchange][head]) /\ line \in Nat /\ line > 0
<1>1. exchange \in 1 .. Len(call) /\ Len(call) \in Nat
    BY CallParts DEF IInv, Position, HeadRead
<1>2. head \in 1 .. Len(call[exchange])
    BY <1>1 DEF IInv, Position
<1>3. /\ Len(call[exchange]) \in Nat
      /\ \A i \in 1 .. Len(call[exchange]) : Framed(call[exchange][i])
    BY <1>1, CallParts DEF IInv, Position
<1>4. line = Len(call[exchange][head])
    BY DEF HeadRead, Heads
<1>5. Len(call[exchange][head]) \in Nat \ {0}
    BY <1>2, <1>3, FramedLines
<1>. QED  BY <1>1, <1>2, <1>3, <1>4, <1>5

LEMMA ReadComplete ==
    ASSUME IInv, HeadRead
    PROVE  headers.complete
<1>1. CASE InFirst
    BY <1>1, ReadParts DEF IInv, FirstInv, InFirst, Collected
<1>2. CASE ~InFirst
    BY <1>2 DEF IInv, LaterInv, InLater, InFirst, HeadRead
<1>. QED  BY <1>1, <1>2

LEMMA NextHeadInv ==
    ASSUME IInv, NextHead
    PROVE  IInv'
<1>1. HeadRead /\ head < Len(call[exchange]) /\ head' = head + 1 /\ line' = 0
      /\ UNCHANGED <<call, exchange, headers, otp>>
    BY DEF NextHead, Heads
<1>2. PICK j \in 1 .. Len(call[exchange]) : j = head + 1 /\ j # 1
    BY <1>1, ReadParts
<1>3. Len(call[exchange][j]) \in Nat
    BY <1>1, <1>2, ReadParts, FramedLines
<1>4. Position'
    BY <1>1, <1>2, <1>3 DEF IInv, Position
<1>5. FirstInv'
    BY <1>1, <1>2 DEF FirstInv, InFirst
<1>6. LaterInv'
    BY <1>1, ReadComplete DEF LaterInv
<1>7. ToldInv'
    BY <1>1 DEF IInv, ToldInv
<1>8. (headers \in HeadersType)'
    BY <1>1 DEF IInv
<1>. QED  BY <1>4, <1>5, <1>6, <1>7, <1>8 DEF IInv

LEMMA ResolutionType ==
    ASSUME NEW code
    PROVE  ResolutionOf(code) \in Resolutions
BY DEF ResolutionOf, Resolutions

LEMMA NoCodeUnknown == ResolutionOf(Null) = "UNKNOWN"
BY NullAssumption, ResolutionAssumption DEF ResolutionOf

LEMMA AnsweredInv ==
    ASSUME IInv, Answered
    PROVE  IInv'
<1>1. HeadRead /\ head = Len(call[exchange]) /\ exchange' = exchange + 1
      /\ head' = 1 /\ line' = 0 /\ call' = call
    BY DEF Answered, Heads
<1>2. PICK v : v = ResolutionOf(headers.code)
    OBVIOUS
<1>3. otp' = v /\ headers' = Freed([headers EXCEPT !.resolution = v])
    BY <1>1, <1>2, ReadComplete DEF Answered
<1>4. PICK r : r = [headers EXCEPT !.resolution = v]
    OBVIOUS
<1>5. r \in HeadersType /\ r.complete
    BY <1>1, <1>2, <1>4, ReadComplete, ResolutionType DEF IInv, HeadersType
<1>6. headers' \in HeadersType /\ headers'.complete /\ headers'.code = Null
    BY <1>3, <1>4, <1>5, FreedType
<1>7. PICK e \in Nat : e = exchange + 1 /\ e # 1 /\ e - 1 = exchange /\ e > 1
    BY <1>1, ReadParts
<1>8. Position'
  <2>1. e \in 1 .. (Len(call) + 1)
      BY <1>1, <1>7, ReadParts
  <2>2. ASSUME e <= Len(call)
        PROVE  1 \in 1 .. Len(call[e]) /\ 0 \in 0 .. Len(call[e][1])
    <3>1. e \in 1 .. Len(call)
        BY <1>1, <2>1, <2>2, ReadParts
    <3>2. Len(call[e]) \in Nat \ {0} /\ \A i \in 1 .. Len(call[e]) : Framed(call[e][i])
        BY <3>1, CallParts DEF IInv, Position
    <3>3. Len(call[e][1]) \in Nat
        BY <3>2, FramedLines
    <3>. QED  BY <3>2, <3>3
  <2>. QED  BY <1>1, <1>7, <2>1, <2>2 DEF IInv, Position
<1>9. FirstInv' /\ LaterInv'
    BY <1>1, <1>6, <1>7 DEF FirstInv, InFirst, LaterInv
<1>10. ToldInv'
  <2>1. PICK h : h = call[exchange][head]
      OBVIOUS
  <2>2. CASE InFirst
    <3>1. h = call[1][1] /\ Framed(h) /\ line = Len(h)
        BY <1>1, <2>1, <2>2, ReadParts DEF InFirst
    <3>2. FieldsSay(headers, h, Len(h))
        BY <2>2, <3>1 DEF IInv, FirstInv, Collected
    <3>3. headers.code = Said(h, "X-Response-message-code")
        BY <3>1, <3>2, SaysSaid, FramedLines DEF FieldsSay
    <3>4. v = CodeSaid(h)
        BY <1>2, <3>3 DEF CodeSaid
    <3>. QED  BY <1>1, <1>3, <1>7, <2>1, <3>1, <3>4 DEF ToldInv
  <2>3. CASE ~InFirst
    <3>1. headers.code = Null
        BY <1>1, <2>3, ReadParts DEF IInv, LaterInv, InLater, InFirst
    <3>2. v = "UNKNOWN"
        BY <1>2, <3>1, NoCodeUnknown
    <3>3. ASSUME e = 2, Len(call[1]) = 1 PROVE FALSE
      <4>1. exchange = 1
          BY <1>7, <3>3, ReadParts, <1>1
      <4>2. head = 1 /\ exchange <= Len(call)
          BY <1>1, <3>3, <4>1, ReadParts
      <4>. QED  BY <2>3, <4>1, <4>2 DEF InFirst
    <3>. QED  BY <1>1, <1>3, <1>7, <3>2, <3>3 DEF ToldInv
  <2>. QED  BY <2>2, <2>3
<1>. QED  BY <1>6, <1>8, <1>9, <1>10 DEF IInv

LEMMA NextInv ==
    ASSUME IInv, [Next]_vars
    PROVE  IInv'
<1>1. CASE Continuation \/ NewHeader \/ Separator
  <2>1. Receive
      BY <1>1 DEF Continuation, NewHeader, Separator
  <2>2. InFirst \/ InLater
      BY <2>1 DEF Receive, InFirst, InLater
  <2>. QED  BY <1>1, <2>1, <2>2, FirstLine, LaterLine
<1>2. CASE NextHead
    BY <1>2, NextHeadInv
<1>3. CASE Answered
    BY <1>3, AnsweredInv
<1>4. CASE UNCHANGED vars
    BY <1>4 DEF vars, IInv, Position, FirstInv, InFirst, LaterInv, InLater, ToldInv
<1>. QED  BY <1>1, <1>2, <1>3, <1>4 DEF Next

LEMMA InvHolds == Spec => []IInv
BY InitInv, NextInv, PTL DEF Spec

-----------------------------------------------------------------------------
(***************************************************************************)
(* Theorems.                                                               *)
(***************************************************************************)

LEMMA InvTypes == ASSUME IInv PROVE TypeOK
<1>1. headers \in HeadersType /\ call \in Calls /\ exchange \in 1 .. (Len(call) + 1)
    BY DEF IInv, Position
<1>2. /\ headers.complete \in BOOLEAN
      /\ headers.last = Null \/ headers.last \in Pending
      /\ headers.method \in Text \cup {Null} /\ headers.code \in Text \cup {Null}
      /\ headers.message \in Text \cup {Null}
      /\ headers.resolution \in Resolutions
    BY <1>1 DEF HeadersType
<1>. QED  BY <1>1, <1>2 DEF TypeOK, Fields, Resolutions

LEMMA InvFirst == ASSUME IInv PROVE FirstHeadDecoded
<1>1. ASSUME exchange = 1, head = 1, HeadRead
      PROVE  /\ headers.complete
             /\ headers.method = Said(call[1][1], "WWW-Authenticate")
             /\ headers.code = Said(call[1][1], "X-Response-message-code")
             /\ headers.message = Said(call[1][1], "X-Response-message-text")
  <2>1. PICK h : h = call[1][1]
      OBVIOUS
  <2>2. InFirst /\ Framed(h) /\ line = Len(h)
      BY <1>1, <2>1, ReadParts DEF InFirst, HeadRead
  <2>3. headers.complete /\ FieldsSay(headers, h, Len(h))
      BY <2>1, <2>2 DEF IInv, FirstInv, Collected
  <2>. QED  BY <2>1, <2>2, <2>3, SaysSaid, FramedLines DEF FieldsSay
<1>2. exchange = 2 /\ Len(call[1]) = 1 =>
        otp = ResolutionOf(Said(call[1][1], "X-Response-message-code"))
    BY DEF IInv, ToldInv, CodeSaid
<1>. QED  BY <1>1, <1>2 DEF FirstHeadDecoded

LEMMA InvFresh == ASSUME IInv PROVE NoStaleResolution
BY DEF IInv, ToldInv, CodeSaid, NoStaleResolution

\* struct auth_headers and what is told of it have their types, whatever the
\* server answers.
THEOREM HeadersTyped == Spec => []TypeOK
<1>1. IInv => TypeOK
    BY InvTypes
<1>. QED  BY <1>1, InvHolds, PTL

\* write_header() decodes the first head of a call as it was sent, for heads of
\* any length, folded and encoded in any way, and _isds_soap() tells what its
\* code means.
THEOREM FirstHeadRead == Spec => []FirstHeadDecoded
<1>1. IInv => FirstHeadDecoded
    BY InvFirst
<1>. QED  BY <1>1, InvHolds, PTL

\* However many exchanges a call makes and heads they have, the resolution told
\* is never an earlier head's.
THEOREM ResolutionFresh == Spec => []NoStaleResolution
<1>1. IInv => NoStaleResolution
    BY InvFresh
<1>. QED  BY <1>1, InvHolds, PTL

=============================================================================
