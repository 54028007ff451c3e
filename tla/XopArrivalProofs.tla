-------------------------- MODULE XopArrivalProofs --------------------------
(***************************************************************************)
(* The proof that the parts of a multipart response arrive as the server   *)
(* sent them (PartsArrive), that nothing is made up of a response that     *)
(* breaks off (NothingInvented), and that a download ends as the server    *)
(* meant it to (DownloadedAsSent), however CURL cuts the response.         *)
(***************************************************************************)
EXTENDS XopDownloadProofs, FiniteSetTheorems

-----------------------------------------------------------------------------
(***************************************************************************)
(* Pieces of a text.                                                       *)
(***************************************************************************)

LEMMA UpTo ==
    ASSUME NEW n \in Nat, NEW T, 0 \in T,
           \A k \in 0 .. n : k \in T /\ k < n => k + 1 \in T
    PROVE  \A k \in 0 .. n : k \in T
<1> DEFINE U == {k \in 0 .. n : k \notin T}
<1>1. SUFFICES ASSUME U # {} PROVE FALSE
    OBVIOUS
<1>2. PICK x \in U : \A y \in U : x <= y
  <2>1. U \in SUBSET Nat
      OBVIOUS
  <2>. QED  BY <1>1, <2>1, Least
<1>3. x # 0
    OBVIOUS
<1>4. PICK k \in 0 .. n : k = x - 1 /\ k + 1 = x /\ k < n
    BY <1>3
<1>5. k \notin U
    BY <1>2, <1>4
<1>6. k \in T
    BY <1>5
<1>. QED  BY <1>4, <1>6

LinksTo(f, s, end, n, k) ==
    f = [i \in 0 .. k |-> IF i = 0 THEN end ELSE s[n - i + 1] \o f[i - 1]]

LEMMA LinksMean ==
    ASSUME NEW f, NEW s, NEW end, NEW n, NEW k, LinksTo(f, s, end, n, k), NEW i \in 0 .. k
    PROVE  f[i] = IF i = 0 THEN end ELSE s[n - i + 1] \o f[i - 1]
BY Zenon DEF LinksTo

LEMMA LinksExist ==
    ASSUME NEW n \in Nat, NEW s, NEW end
    PROVE  \E f : LinksTo(f, s, end, n, n)
<1> DEFINE T == {k \in 0 .. n : \E f : LinksTo(f, s, end, n, k)}
<1>1. 0 \in T
  <2>1. PICK f : f = [i \in 0 .. 0 |-> end]
      OBVIOUS
  <2>2. f = [i \in 0 .. 0 |-> IF i = 0 THEN end ELSE s[n - i + 1] \o f[i - 1]]
      BY <2>1
  <2>3. LinksTo(f, s, end, n, 0)
      BY <2>2 DEF LinksTo
  <2>. QED  BY <2>3
<1>2. ASSUME NEW k \in 0 .. n, k \in T, k < n PROVE k + 1 \in T
  <2>1. PICK f : LinksTo(f, s, end, n, k)
      BY <1>2
  <2>2. PICK g : g = [i \in 0 .. (k + 1) |->
                        IF i = k + 1 THEN s[n - i + 1] \o f[i - 1] ELSE f[i]]
      OBVIOUS
  <2>3. \A i \in 0 .. k : g[i] = f[i]
      BY <2>2
  <2>4. \A i \in 0 .. (k + 1) : i # 0 => g[i - 1] = f[i - 1]
    <3>1. ASSUME NEW i \in 0 .. (k + 1), i # 0 PROVE i - 1 \in 0 .. k
        BY <3>1
    <3>. QED  BY <2>3, <3>1
  <2>5. ASSUME NEW i \in 0 .. (k + 1)
        PROVE  g[i] = IF i = 0 THEN end ELSE s[n - i + 1] \o g[i - 1]
    <3>1. CASE i = k + 1
        BY <2>2, <2>4, <3>1
    <3>2. CASE i \in 0 .. k
      <4>1. g[i] = f[i]
          BY <2>3, <3>2
      <4>2. f[i] = IF i = 0 THEN end ELSE s[n - i + 1] \o f[i - 1]
          BY <2>1, <3>2, LinksMean
      <4>. QED  BY <2>4, <4>1, <4>2
    <3>3. i = k + 1 \/ i \in 0 .. k
        OBVIOUS
    <3>. QED  BY <3>1, <3>2, <3>3
  <2>6. g = [i \in 0 .. (k + 1) |-> g[i]]
      BY <2>2
  <2>7. LinksTo(g, s, end, n, k + 1)
      BY <2>5, <2>6 DEF LinksTo
  <2>. QED  BY <1>2, <2>7
<1>. HIDE DEF T
<1>3. n \in T
    BY <1>1, <1>2, UpTo
<1>. QED  BY <1>3 DEF T

\* From behind one piece to behind the next.
Linked(f, s, end, n) ==
    /\ \A i \in 0 .. n : f[i] \in Text
    /\ f[n] = end
    /\ \A i \in 1 .. n : f[i - 1] = s[i] \o f[i]

LEMMA LinkSteps ==
    ASSUME NEW n \in Nat, NEW s, Len(s) = n, \A i \in 1 .. n : s[i] \in Text,
           NEW end \in Text
    PROVE  Linked(Links(s, end), s, end, n)
<1>1. PICK f : f = CHOOSE g : LinksTo(g, s, end, Len(s), Len(s))
    OBVIOUS
<1>2. LinksTo(f, s, end, n, n)
    BY <1>1, LinksExist
<1>3. Links(s, end) = [i \in 0 .. n |-> f[n - i]]
  <2>1. Links(s, end) = [i \in 0 .. Len(s) |->
                           (CHOOSE g : LinksTo(g, s, end, Len(s), Len(s)))[Len(s) - i]]
      BY DEF Links, LinksTo
  <2>. QED  BY <1>1, <2>1
<1> DEFINE T == {k \in 0 .. n : f[k] \in Text}
<1>4. 0 \in T
  <2>1. f[0] = end
      BY <1>2, LinksMean
  <2>. QED  BY <2>1
<1>5. ASSUME NEW k \in 0 .. n, k \in T, k < n PROVE k + 1 \in T
  <2>1. PICK j \in 0 .. n : j = k + 1 /\ j # 0 /\ j - 1 = k
      BY <1>5
  <2>2. PICK i \in 1 .. n : i = n - j + 1
      BY <2>1
  <2>3. f[j] = s[i] \o f[k]
    <3>1. f[j] = IF j = 0 THEN end ELSE s[n - j + 1] \o f[j - 1]
        BY <1>2, LinksMean
    <3>. QED  BY <2>1, <2>2, <3>1
  <2>4. f[k] \in Text /\ s[i] \in Text
      BY <1>5
  <2>5. f[j] \in Text
      BY <2>3, <2>4, ConcatProperties DEF Text
  <2>. QED  BY <2>1, <2>5
<1>. HIDE DEF T
<1>6. \A k \in 0 .. n : f[k] \in Text
  <2>1. \A k \in 0 .. n : k \in T
      BY <1>4, <1>5, UpTo
  <2>. QED  BY <2>1 DEF T
<1>7. ASSUME NEW i \in 0 .. n PROVE Links(s, end)[i] = f[n - i] /\ n - i \in 0 .. n
    BY <1>3
<1>8. Links(s, end)[n] = end
  <2>1. n - n = 0 /\ n \in 0 .. n
      OBVIOUS
  <2>2. f[0] = end
      BY <1>2, LinksMean
  <2>. QED  BY <1>7, <2>1, <2>2
<1>9. ASSUME NEW i \in 1 .. n
      PROVE  Links(s, end)[i - 1] = s[i] \o Links(s, end)[i]
  <2>1. PICK j \in 0 .. n : j = i - 1
      OBVIOUS
  <2>2. PICK k \in 0 .. n : k = n - j /\ k # 0 /\ k - 1 = n - i /\ n - k + 1 = i
      BY <2>1
  <2>3. f[k] = s[i] \o f[k - 1]
    <3>1. f[k] = IF k = 0 THEN end ELSE s[n - k + 1] \o f[k - 1]
        BY <1>2, LinksMean
    <3>. QED  BY <2>2, <3>1
  <2>4. Links(s, end)[j] = f[k]
      BY <1>7, <2>2
  <2>5. Links(s, end)[i] = f[k - 1]
      BY <1>7, <2>2
  <2>. QED  BY <2>1, <2>3, <2>4, <2>5
<1>10. \A i \in 0 .. n : Links(s, end)[i] \in Text
    BY <1>6, <1>7
<1>. QED  BY <1>8, <1>9, <1>10 DEF Linked

LEMMA SameText ==
    ASSUME NEW a \in Text, NEW b \in Text, Len(a) = Len(b), \A i \in 1 .. Len(a) : a[i] = b[i]
    PROVE  a = b
BY SeqEqual DEF Text

LEMMA ByteOfText == ASSUME NEW a \in Text, NEW i \in 1 .. Len(a) PROVE a[i] \in Byte
BY ElementOfSeq DEF Text

LEMMA JoinedBytes ==
    ASSUME NEW a \in Text, NEW b \in Text
    PROVE  /\ \A i \in 1 .. Len(a) : (a \o b)[i] = a[i]
           /\ \A i \in 1 .. Len(b) : (a \o b)[Len(a) + i] = b[i]
<1>1. /\ Len(a) \in Nat /\ Len(b) \in Nat
      /\ \A i \in 1 .. Len(a) + Len(b) : (a \o b)[i] = IF i <= Len(a) THEN a[i] ELSE b[i - Len(a)]
    BY ConcatProperties DEF Text
<1>2. ASSUME NEW i \in 1 .. Len(b) PROVE (a \o b)[Len(a) + i] = b[i]
  <2>1. PICK k \in 1 .. Len(a) + Len(b) : k = Len(a) + i /\ k - Len(a) = i /\ ~(k <= Len(a))
      BY <1>1
  <2>. QED  BY <1>1, <2>1
<1>. QED  BY <1>1, <1>2

\* What stands behind the first k bytes of a text.
Behind(text, k) == SubSeq(text, k + 1, Len(text))

LEMMA BehindStands ==
    ASSUME NEW text \in Text, NEW k \in 0 .. Len(text)
    PROVE  /\ Behind(text, k) \in Text /\ Len(Behind(text, k)) = Len(text) - k
           /\ \A i \in 1 .. (Len(text) - k) : Behind(text, k)[i] = text[k + i]
<1>1. Len(text) \in Nat
    BY DEF Text
<1>2. PICK m \in Nat \ {0} : m = k + 1
    BY <1>1
<1>3. /\ SubSeq(text, m, Len(text)) \in Text
      /\ Len(SubSeq(text, m, Len(text))) = IF m <= Len(text) THEN Len(text) - m + 1 ELSE 0
      /\ \A i \in 1 .. (Len(text) - m + 1) : SubSeq(text, m, Len(text))[i] = text[m + i - 1]
    BY <1>1, <1>2, Slice
<1>4. PICK t \in Text : t = SubSeq(text, m, Len(text))
    BY <1>3
<1>5. Behind(text, k) = t
    BY <1>2, <1>4 DEF Behind
<1>6. Len(t) = Len(text) - k
    BY <1>1, <1>2, <1>3, <1>4
<1>7. ASSUME NEW i \in 1 .. (Len(text) - k) PROVE t[i] = text[k + i]
  <2>1. i \in 1 .. (Len(text) - m + 1) /\ m + i - 1 = k + i
      BY <1>1, <1>2
  <2>. QED  BY <1>3, <1>4, <2>1
<1>. QED  BY <1>5, <1>6, <1>7

LEMMA BehindNothing ==
    ASSUME NEW text \in Text
    PROVE  Behind(text, 0) = text /\ Behind(text, Len(text)) = <<>>
<1>1. Len(text) \in Nat
    BY DEF Text
<1>2. Behind(text, Len(text)) = <<>>
    BY <1>1, SubSeqEmpty DEF Behind
<1>. QED  BY <1>2, SubSeqFull DEF Behind, Text

\* A step over the first of what is ahead.
LEMMA Passed ==
    ASSUME NEW text \in Text, NEW k \in 0 .. Len(text), NEW a \in Text, NEW b \in Text,
           Behind(text, k) = a \o b
    PROVE  /\ k + Len(a) \in 0 .. Len(text) /\ Behind(text, k + Len(a)) = b
           /\ \A i \in 1 .. Len(a) : text[k + i] = a[i]
<1>1. /\ Len(text) \in Nat /\ Len(a) \in Nat /\ Len(b) \in Nat
      /\ Len(a \o b) = Len(a) + Len(b)
    BY Joined DEF Text
<1>2. Len(a) + Len(b) = Len(text) - k
    BY <1>1, BehindStands
<1>3. PICK m \in 0 .. Len(text) : m = k + Len(a)
    BY <1>1, <1>2
<1>4. ASSUME NEW i \in 1 .. Len(a) PROVE text[k + i] = a[i]
  <2>1. i \in 1 .. (Len(text) - k)
      BY <1>1, <1>2
  <2>. QED  BY <2>1, BehindStands, JoinedBytes
<1>5. Behind(text, m) = b
  <2>1. /\ Behind(text, m) \in Text /\ Len(Behind(text, m)) = Len(text) - m
        /\ \A i \in 1 .. (Len(text) - m) : Behind(text, m)[i] = text[m + i]
      BY BehindStands
  <2>0. Len(text) - m = Len(b)
      BY <1>1, <1>2, <1>3
  <2>2. ASSUME NEW i \in 1 .. Len(b) PROVE Behind(text, m)[i] = b[i]
    <3>1. i \in 1 .. (Len(text) - m)
        BY <1>1, <1>2, <1>3
    <3>2. PICK n \in 1 .. (Len(text) - k) : n = Len(a) + i /\ k + n = m + i
        BY <1>1, <1>2, <1>3
    <3>3. Behind(text, k)[n] = text[k + n]
        BY BehindStands
    <3>4. (a \o b)[n] = b[i]
        BY <3>2, JoinedBytes
    <3>. QED  BY <2>1, <3>1, <3>2, <3>3, <3>4
  <2>. QED  BY <2>0, <2>1, <2>2, SameText
<1>. QED  BY <1>3, <1>4, <1>5

LEMMA OneText == ASSUME NEW b \in Byte PROVE <<b>> \in Text /\ Len(<<b>>) = 1 /\ <<b>>[1] = b
BY DEF Text

\* The same from the front of a text.
LEMMA FrontPassed ==
    ASSUME NEW text \in Text, NEW a \in Text, NEW b \in Text, Behind(text, 0) = a \o b
    PROVE  Behind(text, Len(a)) = b /\ \A i \in 1 .. Len(a) : text[i] = a[i]
<1>. HIDE DEF Behind
<1>1. Len(text) \in Nat /\ Len(a) \in Nat
    BY DEF Text
<1>2. PICK k \in 0 .. Len(text) : k = 0
    BY <1>1
<1>3. Behind(text, k) = a \o b
    BY <1>2
<1>4. /\ k + Len(a) \in 0 .. Len(text) /\ Behind(text, k + Len(a)) = b
      /\ \A i \in 1 .. Len(a) : text[k + i] = a[i]
    BY <1>3, Passed
<1>5. k + Len(a) = Len(a) /\ \A i \in 1 .. Len(a) : k + i = i
    BY <1>1, <1>2
<1>6. Behind(text, Len(a)) = b
    BY <1>4, <1>5
<1>7. ASSUME NEW i \in 1 .. Len(a) PROVE text[i] = a[i]
    BY <1>4, <1>5
<1>. QED  BY <1>6, <1>7

LEMMA BytePassed ==
    ASSUME NEW text \in Text, NEW k \in 0 .. Len(text), NEW c \in Byte, NEW b \in Text,
           Behind(text, k) = <<c>> \o b
    PROVE  k + 1 \in 1 .. Len(text) /\ Behind(text, k + 1) = b /\ text[k + 1] = c
<1>1. PICK a \in Text : a = <<c>> /\ Len(a) = 1 /\ a[1] = c
    BY OneText
<1>2. /\ k + Len(a) \in 0 .. Len(text) /\ Behind(text, k + Len(a)) = b
      /\ \A i \in 1 .. Len(a) : text[k + i] = a[i]
  <2>1. Behind(text, k) = a \o b
      BY <1>1
  <2>. HIDE DEF Behind
  <2>. QED  BY <2>1, Passed
<1>3. Behind(text, k + 1) = b /\ text[k + 1] = c /\ k + 1 \in 0 .. Len(text)
    BY <1>1, <1>2
<1>4. Len(text) \in Nat
    BY DEF Text
<1>. QED  BY <1>3, <1>4

LEMMA FirstBehind ==
    ASSUME NEW text \in Text, NEW k \in Nat, k < Len(text)
    PROVE  /\ k + 1 \in 1 .. Len(text)
           /\ Behind(text, k) = <<text[k + 1]>> \o Behind(text, k + 1)
<1>1. Len(text) \in Nat
    BY DEF Text
<1>2. PICK m \in 1 .. Len(text) : m = k + 1
    BY <1>1
<1>3. SubSeq(text, m, Len(text)) = <<text[m]>> \o SubSeq(text, m + 1, Len(text))
    BY <1>1, <1>2, SubSeqRecursiveFirst DEF Text
<1>. QED  BY <1>2, <1>3 DEF Behind

\* The first k + 1 bytes of a text.
LEMMA UpToNext ==
    ASSUME NEW text \in Text, NEW k \in Nat, k < Len(text)
    PROVE  /\ SubSeq(text, 1, k) \in Text /\ SubSeq(text, 1, k + 1) \in Text
           /\ SubSeq(text, 1, k + 1) = SubSeq(text, 1, k) \o <<text[k + 1]>>
<1>1. Len(text) \in Nat
    BY DEF Text
<1>2. PICK m \in 1 .. Len(text) : m = k + 1 /\ m - 1 = k
    BY <1>1
<1>3. SubSeq(text, 1, m) = SubSeq(text, 1, m - 1) \o <<text[m]>>
    BY <1>1, <1>2, SubSeqRecursiveSecond DEF Text
<1>4. k <= Len(text) /\ m \in Nat /\ m <= Len(text)
    BY <1>1, <1>2
<1>5. SubSeq(text, 1, k) \in Text /\ SubSeq(text, 1, m) \in Text
    BY <1>4, Slice
<1>. QED  BY <1>2, <1>3, <1>5

LEMMA LowerJoined ==
    ASSUME NEW a \in Text, NEW b \in Text
    PROVE  Lower(a \o b) = Lower(a) \o Lower(b)
<1>. DEFINE low(c) == IF c \in DOMAIN LowerCase THEN LowerCase[c] ELSE c
<1>1. \A t \in Text : /\ Len(Lower(t)) = Len(t) /\ Lower(t) \in Text
                      /\ \A i \in 1 .. Len(t) : Lower(t)[i] = low(t[i])
  <2>1. ASSUME NEW t \in Text PROVE Len(Lower(t)) = Len(t)
    <3>1. Lower(t) \in Text /\ Len(t) \in Nat /\ DOMAIN Lower(t) = 1 .. Len(t)
        BY LowerIsText DEF Lower, Text
    <3>. QED  BY <3>1 DEF Text
  <2>2. ASSUME NEW t \in Text, NEW i \in 1 .. Len(t) PROVE Lower(t)[i] = low(t[i])
      BY DEF Lower
  <2>. QED  BY <2>1, <2>2, LowerIsText
<1>. HIDE DEF low
<1>2. PICK t \in Text : t = a \o b /\ Len(t) = Len(a) + Len(b)
    BY Joined
<1>3. PICK u \in Text : u = Lower(a) \o Lower(b) /\ Len(u) = Len(t)
  <2>1. /\ Lower(a) \in Text /\ Lower(b) \in Text
        /\ Len(Lower(a)) = Len(a) /\ Len(Lower(b)) = Len(b)
      BY <1>1
  <2>2. /\ Lower(a) \o Lower(b) \in Text
        /\ Len(Lower(a) \o Lower(b)) = Len(Lower(a)) + Len(Lower(b))
      BY <2>1, Joined
  <2>3. Len(Lower(a) \o Lower(b)) = Len(t)
      BY <1>2, <2>1, <2>2
  <2>. QED  BY <2>2, <2>3
<1>4. ASSUME NEW i \in 1 .. Len(t) PROVE Lower(t)[i] = u[i]
  <2>1. Len(a) \in Nat /\ Len(b) \in Nat
      BY DEF Text
  <2>2. CASE i \in 1 .. Len(a)
    <3>1. t[i] = a[i] /\ u[i] = Lower(a)[i]
        BY <1>1, <1>2, <1>3, <2>2, JoinedBytes
    <3>. QED  BY <1>1, <2>2, <3>1
  <2>3. CASE i \notin 1 .. Len(a)
    <3>1. PICK k \in 1 .. Len(b) : i = Len(a) + k
        BY <1>2, <2>1, <2>3
    <3>2. t[i] = b[k] /\ u[i] = Lower(b)[k]
        BY <1>1, <1>2, <1>3, <3>1, JoinedBytes
    <3>. QED  BY <1>1, <3>2
  <2>. QED  BY <2>2, <2>3
<1>5. Lower(t) = u
    BY <1>1, <1>3, <1>4, SameText
<1>. QED  BY <1>2, <1>3, <1>5

-----------------------------------------------------------------------------
(***************************************************************************)
(* Where in the text the server sent the reader is.                        *)
(***************************************************************************)
Sent == response.sent
Limit == Delimiter(response.boundary)
SentText == Encoded(Sent, response.boundary)

Headers(n) == Sent[n].headers
Data(n) == Sent[n].data

\* What follows a content, a header, the name and the colon of a header.
NextLeft(n) == EOL \o (Limit \o BodyFrom(Sent, response.boundary)[n])
HeadersLeft(n, j) == PartFrom(Sent[n])[j] \o NextLeft(n)
ValueLeft(n, j) == Headers(n)[j].value \o (EOL \o HeadersLeft(n, j))
ColonLeft(n, j) == <<COLON, SP>> \o ValueLeft(n, j)

\* What is ahead of the reader.
Ahead == Behind(SentText, pos - 1)

\* The first j headers of a part are read: a field has the value of the first
\* header of its name and is invalid if there is another.
Reflects(part, n, j) ==
    \A f \in Field :
        /\ \A i \in Values(Sent[n], f) :
              i <= j /\ (\A k \in Values(Sent[n], f) : k <= j => k = i) =>
                  part[f] = Headers(n)[i].value /\ f \notin part.invalid
        /\ \A i, k \in Values(Sent[n], f) : i < k /\ k <= j => f \in part.invalid
        /\ (\E i \in Values(Sent[n], f) : i <= j) <=> part[f] # Null
        /\ f \in part.invalid => part[f] # Null

\* The first n parts are read.
Roots(n) == {m \in Identified(Sent) : m <= n /\ Worth(Sent[m], "id") = response.root}

Listed(n) ==
    /\ Len(parts.list) = Rank(Sent, n)
    /\ \A m \in Identified(Sent) : m <= n =>
         /\ Rank(Sent, m) \in 1 .. Len(parts.list)
         /\ Plain(parts.list[Rank(Sent, m)]) = Meant(Sent[m])
    /\ \A i \in 1 .. Len(parts.list) : \E m \in Identified(Sent) :
         m <= n /\ Plain(parts.list[i]) = Meant(Sent[m])
    /\ parts.root = IF Roots(n) = {} THEN 0 ELSE Rank(Sent, Earliest(Roots(n)))

NoField == interm.hfld = <<>> /\ interm.hval = <<>>

\* Between parts, and within part n with j of its headers read.
Between(n) == Listed(n) /\ parts.processed = Null /\ NoField
Within(n, j) ==
    /\ n \in 1 .. Len(Sent) /\ j \in 0 .. Len(Headers(n))
    /\ Listed(n - 1) /\ Reflects(Current, n, j)

AtFirst == parser.state = "start_boundary" /\ pos = parser.index + 1 /\ Between(0)

AtHeaders(n, j) ==
    parser.state = "header_field_start" /\ Within(n, j) /\ NoField /\ Ahead = HeadersLeft(n, j)

InNameOf(n, j, k) ==
    LET name == Headers(n)[j].name
    IN  /\ parser.state = "header_field" /\ Within(n, j - 1)
        /\ j \in 1 .. Len(Headers(n)) /\ k \in 0 .. Len(name)
        /\ interm.hfld \o Lower(Run(mark)) = Lower(SubSeq(name, 1, k)) /\ interm.hval = <<>>
        /\ Ahead = Behind(name, k) \o ColonLeft(n, j)

AtValue(n, j) ==
    /\ parser.state = "header_value_start" /\ Within(n, j - 1)
    /\ j \in 1 .. Len(Headers(n))
    /\ interm.hfld = Lower(Headers(n)[j].name) /\ interm.hval = <<>>
    /\ Ahead \in {ValueLeft(n, j), <<SP>> \o ValueLeft(n, j)}

InValueOf(n, j, k) ==
    LET value == Headers(n)[j].value
    IN  /\ parser.state = "header_value" /\ Within(n, j - 1)
        /\ j \in 1 .. Len(Headers(n)) /\ k \in 0 .. Len(value)
        /\ interm.hfld = Lower(Headers(n)[j].name)
        /\ interm.hval \o Run(mark) = SubSeq(value, 1, k)
        /\ Ahead = Behind(value, k) \o (EOL \o HeadersLeft(n, j))

AtLineEnd(n, j) ==
    /\ parser.state = "header_value_almost_done" /\ Within(n, j) /\ NoField
    /\ Ahead = <<LF>> \o HeadersLeft(n, j)

AtBlank(n) ==
    /\ parser.state = "headers_almost_done" /\ Within(n, Len(Headers(n))) /\ NoField
    /\ Ahead = <<LF>> \o (Data(n) \o NextLeft(n))

AtData(n) ==
    /\ parser.state = "part_data_start" /\ Within(n, Len(Headers(n))) /\ NoField
    /\ Ahead = Data(n) \o NextLeft(n)

InData(n) ==
    /\ InContent /\ Within(n, Len(Headers(n))) /\ NoField
    /\ Behind(SentText, Beginning - 1) = Data(n) \o NextLeft(n)

BehindPart(n) ==
    /\ parser.state = "part_data_almost_end" /\ n \in 1 .. Len(Sent) /\ Between(n)
    /\ Ahead = BodyFrom(Sent, response.boundary)[n]

AtNext(n) ==
    /\ parser.state = "part_data_end" /\ n \in 1 .. Len(Sent) /\ Between(n - 1)
    /\ Ahead = <<LF>> \o HeadersLeft(n, 0)

AtHyphen ==
    parser.state = "part_data_final_hyphen" /\ Between(Len(Sent)) /\ Ahead = <<HY>>

AtEnd == parser.state = "end" /\ Between(Len(Sent)) /\ Ahead = <<>>

Somewhere ==
    \/ AtFirst \/ AtHyphen \/ AtEnd
    \/ \E n \in 1 .. Len(Sent) :
         \/ AtBlank(n) \/ AtData(n) \/ InData(n) \/ BehindPart(n) \/ AtNext(n)
         \/ \E j \in 0 .. Len(Headers(n)) :
              \/ AtHeaders(n, j) \/ AtValue(n, j) \/ AtLineEnd(n, j)
              \/ \E k \in Nat : InNameOf(n, j, k) \/ InValueOf(n, j, k)

\* The parts of the response are those in the list.
AllArrived ==
    LET sent == response.sent
        roots == Bearing(sent, response.root)
    IN  /\ Len(parts.list) = Cardinality(Identified(sent))
        /\ \A n \in Identified(sent) : Plain(parts.list[Rank(sent, n)]) = Meant(sent[n])
        /\ parts.root = IF roots = {} THEN 0 ELSE Rank(sent, Earliest(roots))

Framed == response.framed /\ response.sent # <<>>

\* The state of the reader of a response framed as it should be.
Fresh ==
    /\ parts = [NewParts EXCEPT !.expected = IF line = 0 THEN Null ELSE response.root]
    /\ NoField /\ line <= 1 /\ (multi <=> line = 1)
    /\ parser = IF line = 0 THEN Null ELSE NewParser(response.boundary)

Arriving ==
    /\ body = response.body
    /\ Framed =>
         /\ phase = "headers" => Fresh
         /\ phase = "body" =>
              /\ multi /\ parser # Null /\ parser.boundary = Limit
              /\ parts.expected = response.root /\ Somewhere
    /\ response.framed /\ response.sent = <<>> => ~multi
    /\ phase \notin {"headers", "body"} => PartsArrive /\ NothingInvented

-----------------------------------------------------------------------------
(***************************************************************************)
(* The layout of the text the server sent.                                 *)
(***************************************************************************)
Sending == response \in Responses /\ Framed

LEMMA SentFramed ==
    ASSUME Sending
    PROVE  /\ Announced(response)
           /\ Sent \in Seq(SentPart) /\ Len(Sent) \in Nat \ {0} /\ DOMAIN Sent = 1 .. Len(Sent)
           /\ response.boundary \in Text /\ Framable(Sent, response.boundary)
           /\ IF response.whole THEN response.body = SentText
              ELSE \E n \in 0 .. Len(SentText) : response.body = SubSeq(SentText, 1, n)
           /\ response.body \in Text
<1>1. Announced(response) /\ FramedAsSent(response)
    BY FramingAssumption DEF Sending, Framed
<1>2. /\ Sent \in Seq(SentPart) /\ response.boundary \in Text /\ Framable(Sent, response.boundary)
      /\ IF response.whole THEN response.body = SentText
         ELSE \E n \in 0 .. Len(SentText) : response.body = SubSeq(SentText, 1, n)
    BY <1>1 DEF FramedAsSent, Sent, SentText
<1>3. Len(Sent) \in Nat \ {0} /\ DOMAIN Sent = 1 .. Len(Sent)
  <2>1. Sent # <<>>
      BY DEF Sending, Framed, Sent
  <2>. QED  BY <1>2, <2>1, EmptySeq, LenProperties
<1>4. response.body \in Text
    BY ResponsesAssumption DEF Sending
<1>. QED  BY <1>1, <1>2, <1>3, <1>4

LEMMA SentParts ==
    ASSUME Sending, NEW n \in 1 .. Len(Sent)
    PROVE  /\ Headers(n) \in Seq(SentHeader) /\ Len(Headers(n)) \in Nat
           /\ DOMAIN Headers(n) = 1 .. Len(Headers(n))
           /\ Data(n) \in Text /\ Len(Data(n)) \in Nat
<1>1. Sent[n] \in SentPart
    BY SentFramed, ElementOfSeq
<1>2. Headers(n) \in Seq(SentHeader) /\ Data(n) \in Text
    BY <1>1 DEF Headers, Data, SentPart
<1>3. Len(Headers(n)) \in Nat /\ DOMAIN Headers(n) = 1 .. Len(Headers(n))
    BY <1>2, LenProperties
<1>. QED  BY <1>2, <1>3 DEF Text

LEMMA SentHeaders ==
    ASSUME Sending, NEW n \in 1 .. Len(Sent), NEW j \in 1 .. Len(Headers(n))
    PROVE  /\ Headers(n)[j].name \in Text /\ Headers(n)[j].value \in Text
           /\ \A i \in 1 .. Len(Headers(n)[j].name) : Headers(n)[j].name[i] \in Letter \cup {HY}
           /\ \A i \in 1 .. Len(Headers(n)[j].value) : Headers(n)[j].value[i] # CR
           /\ Headers(n)[j].value # <<>> => Headers(n)[j].value[1] # SP
<1>1. Headers(n)[j] \in SentHeader
    BY SentParts, ElementOfSeq
<1>2. Headers(n)[j].name \in Seq(Letter \cup {HY}) /\ Headers(n)[j].value \in Text
    BY <1>1 DEF SentHeader
<1>3. Letter \cup {HY} \subseteq Byte
    BY BytesAssumption
<1>4. Headers(n)[j].name \in Text
    BY <1>2, <1>3, SeqMonotonic DEF Text
<1>5. \A i \in 1 .. Len(Headers(n)[j].name) : Headers(n)[j].name[i] \in Letter \cup {HY}
    BY <1>2, ElementOfSeq
<1>6. Framable(Sent, response.boundary) /\ n \in DOMAIN Sent /\ j \in DOMAIN Headers(n)
    BY SentFramed, SentParts
<1>7. /\ \A i \in DOMAIN Headers(n)[j].value : Headers(n)[j].value[i] # CR
      /\ Headers(n)[j].value # <<>> => Headers(n)[j].value[1] # SP
    BY <1>6 DEF Framable, Headers
<1>8. DOMAIN Headers(n)[j].value = 1 .. Len(Headers(n)[j].value)
    BY <1>2 DEF Text
<1>. QED  BY <1>2, <1>4, <1>5, <1>7, <1>8

LEMMA Signs ==
    /\ EOL \in Text /\ <<HY, HY>> \in Text /\ <<COLON, SP>> \in Text
    /\ <<CR>> \in Text /\ <<LF>> \in Text /\ <<SP>> \in Text /\ <<COLON>> \in Text /\ <<HY>> \in Text
    /\ <<>> \in Text
    /\ EOL = <<CR>> \o <<LF>> /\ <<COLON, SP>> = <<COLON>> \o <<SP>>
    /\ <<HY, HY>> = <<HY>> \o <<HY>>
    /\ {CR, LF, SP, HY, COLON} \subseteq Byte
<1>1. {CR, LF, SP, HY, COLON} \subseteq Byte
    BY BytesAssumption
<1>2. \A a, b \in Byte : <<a>> \o <<b>> = <<a, b>> /\ <<a, b>> \in Text /\ <<a>> \in Text
  <2>1. TAKE a, b \in Byte
  <2>2. <<a, b>> \in Text /\ <<a>> \in Text
      BY DEF Text
  <2>. QED  BY <2>2, TwoBytes
<1>3. <<>> \in Text
    BY DEF Text
<1>. QED  BY <1>1, <1>2, <1>3 DEF EOL

LEMMA LimitIsText ==
    ASSUME Sending
    PROVE  Limit \in Text /\ Limit = <<HY, HY>> \o response.boundary
BY SentFramed, Signs, Joined DEF Limit, Delimiter

LEMMA PartSteps ==
    ASSUME Sending, NEW n \in 1 .. Len(Sent)
    PROVE  /\ \A j \in 0 .. Len(Headers(n)) : PartFrom(Sent[n])[j] \in Text
           /\ PartFrom(Sent[n])[Len(Headers(n))] = EOL \o Data(n)
           /\ \A j \in 1 .. Len(Headers(n)) :
                PartFrom(Sent[n])[j - 1] = HeaderText(Headers(n)[j]) \o PartFrom(Sent[n])[j]
<1>. DEFINE s == [i \in DOMAIN Headers(n) |-> HeaderText(Headers(n)[i])]
<1>1. ASSUME NEW i \in 1 .. Len(Headers(n)) PROVE HeaderText(Headers(n)[i]) \in Text
  <2>1. Headers(n)[i].name \in Text /\ Headers(n)[i].value \in Text
      BY SentHeaders
  <2>2. Headers(n)[i].value \o EOL \in Text
      BY <2>1, Signs, Joined
  <2>3. <<COLON, SP>> \o (Headers(n)[i].value \o EOL) \in Text
      BY <2>2, Signs, Joined
  <2>. QED  BY <2>1, <2>3, Joined DEF HeaderText
<1>2. s = [i \in 1 .. Len(Headers(n)) |-> HeaderText(Headers(n)[i])]
    BY SentParts
<1>3. \A i \in 1 .. Len(Headers(n)) : s[i] = HeaderText(Headers(n)[i])
    BY <1>2
<1>4. Len(s) = Len(Headers(n)) /\ Len(Headers(n)) \in Nat
  <2>1. Len(Headers(n)) \in Nat
      BY SentParts
  <2>2. s \in [1 .. Len(Headers(n)) -> Text]
      BY <1>1, <1>2
  <2>. QED  BY <1>2, <2>1, <2>2
<1>5. EOL \o Data(n) \in Text
    BY SentParts, Signs, Joined
<1>6. PartFrom(Sent[n]) = Links(s, EOL \o Data(n))
    BY DEF PartFrom, Headers, Data
<1>. HIDE DEF s
<1>7. \A i \in 1 .. Len(Headers(n)) : s[i] \in Text
    BY <1>1, <1>3
<1>8. /\ \A j \in 0 .. Len(Headers(n)) : Links(s, EOL \o Data(n))[j] \in Text
      /\ Links(s, EOL \o Data(n))[Len(Headers(n))] = EOL \o Data(n)
      /\ \A i \in 1 .. Len(Headers(n)) :
           Links(s, EOL \o Data(n))[i - 1] = s[i] \o Links(s, EOL \o Data(n))[i]
  <2>1. PICK m \in Nat : m = Len(Headers(n))
      BY <1>4
  <2>2. PICK end \in Text : end = EOL \o Data(n)
      BY <1>5
  <2>3. Len(s) = m /\ \A i \in 1 .. m : s[i] \in Text
      BY <1>4, <1>7, <2>1
  <2>4. PICK t : t = s
      OBVIOUS
  <2>5. Len(t) = m /\ \A i \in 1 .. m : t[i] \in Text
      BY <2>3, <2>4
  <2>6. Linked(Links(t, end), t, end, m)
      BY <2>5, LinkSteps
  <2>7. Linked(Links(s, end), s, end, m)
      BY <2>4, <2>6
  <2>. QED  BY <2>1, <2>2, <2>7 DEF Linked
<1>. QED  BY <1>3, <1>6, <1>8

LEMMA BodySteps ==
    ASSUME Sending
    PROVE  /\ \A n \in 0 .. Len(Sent) : BodyFrom(Sent, response.boundary)[n] \in Text
           /\ BodyFrom(Sent, response.boundary)[Len(Sent)] = <<HY, HY>>
           /\ \A n \in 1 .. Len(Sent) :
                BodyFrom(Sent, response.boundary)[n - 1] =
                    Piece(Sent[n], response.boundary) \o BodyFrom(Sent, response.boundary)[n]
           /\ \A n \in 1 .. Len(Sent) : Piece(Sent[n], response.boundary) \in Text
<1>. DEFINE s == [i \in DOMAIN Sent |-> Piece(Sent[i], response.boundary)]
<1>1. ASSUME NEW n \in 1 .. Len(Sent) PROVE Piece(Sent[n], response.boundary) \in Text
  <2>1. PartFrom(Sent[n])[0] \in Text
    <3>1. 0 \in 0 .. Len(Headers(n))
        BY SentParts
    <3>. QED  BY <3>1, PartSteps
  <2>2. EOL \o Limit \in Text
      BY LimitIsText, Signs, Joined
  <2>3. PartFrom(Sent[n])[0] \o (EOL \o Limit) \in Text
      BY <2>1, <2>2, Joined
  <2>4. EOL \o (PartFrom(Sent[n])[0] \o (EOL \o Limit)) \in Text
      BY <2>3, Signs, Joined
  <2>. QED  BY <2>4 DEF Piece, Limit
<1>2. s = [i \in 1 .. Len(Sent) |-> Piece(Sent[i], response.boundary)] /\ Len(Sent) \in Nat
    BY SentFramed
<1>3. \A i \in 1 .. Len(Sent) : s[i] = Piece(Sent[i], response.boundary)
    BY <1>2
<1>4. Len(s) = Len(Sent)
  <2>1. s \in [1 .. Len(Sent) -> Text]
      BY <1>1, <1>2
  <2>. QED  BY <1>2, <2>1
<1>6. BodyFrom(Sent, response.boundary) = Links(s, <<HY, HY>>)
    BY DEF BodyFrom
<1>. HIDE DEF s
<1>7. \A i \in 1 .. Len(Sent) : s[i] \in Text
    BY <1>1, <1>3
<1>8. /\ \A j \in 0 .. Len(Sent) : Links(s, <<HY, HY>>)[j] \in Text
      /\ Links(s, <<HY, HY>>)[Len(Sent)] = <<HY, HY>>
      /\ \A i \in 1 .. Len(Sent) :
           Links(s, <<HY, HY>>)[i - 1] = s[i] \o Links(s, <<HY, HY>>)[i]
  <2>1. PICK m \in Nat : m = Len(Sent)
      BY <1>2
  <2>2. PICK end \in Text : end = <<HY, HY>>
      BY Signs
  <2>3. Len(s) = m /\ \A i \in 1 .. m : s[i] \in Text
      BY <1>4, <1>7, <2>1
  <2>4. PICK t : t = s
      OBVIOUS
  <2>5. Len(t) = m /\ \A i \in 1 .. m : t[i] \in Text
      BY <2>3, <2>4
  <2>6. Linked(Links(t, end), t, end, m)
      BY <2>5, LinkSteps
  <2>7. Linked(Links(s, end), s, end, m)
      BY <2>4, <2>6
  <2>. QED  BY <2>1, <2>2, <2>7 DEF Linked
<1>. QED  BY <1>1, <1>3, <1>6, <1>8

LEMMA NextLeftIsText ==
    ASSUME Sending, NEW n \in 0 .. Len(Sent)
    PROVE  Limit \o BodyFrom(Sent, response.boundary)[n] \in Text /\ NextLeft(n) \in Text
<1>1. Limit \o BodyFrom(Sent, response.boundary)[n] \in Text
    BY BodySteps, LimitIsText, Joined
<1>. QED  BY <1>1, Signs, Joined DEF NextLeft

LEMMA HeadersLeftIsText ==
    ASSUME Sending, NEW n \in 1 .. Len(Sent), NEW j \in 0 .. Len(Headers(n))
    PROVE  HeadersLeft(n, j) \in Text /\ Data(n) \o NextLeft(n) \in Text
<1>1. n \in 0 .. Len(Sent)
    BY SentFramed
<1>2. NextLeft(n) \in Text
    BY <1>1, NextLeftIsText
<1>. QED  BY <1>2, PartSteps, SentParts, Joined DEF HeadersLeft

LEMMA HeaderIsText ==
    ASSUME Sending, NEW n \in 1 .. Len(Sent), NEW j \in 1 .. Len(Headers(n))
    PROVE  /\ HeadersLeft(n, j) \in Text /\ EOL \o HeadersLeft(n, j) \in Text
           /\ ValueLeft(n, j) \in Text /\ ColonLeft(n, j) \in Text
<1>1. j \in 0 .. Len(Headers(n))
    BY SentParts
<1>2. HeadersLeft(n, j) \in Text /\ EOL \o HeadersLeft(n, j) \in Text
    BY <1>1, HeadersLeftIsText, Signs, Joined
<1>3. ValueLeft(n, j) \in Text
    BY <1>2, SentHeaders, Joined DEF ValueLeft
<1>. QED  BY <1>2, <1>3, Signs, Joined DEF ColonLeft

Regroups(a, b, c, d, e) ==
    (a \o (b \o (c \o d))) \o e = a \o (b \o (c \o (d \o e)))

LEMMA Regrouped ==
    ASSUME NEW a \in Text, NEW b \in Text, NEW c \in Text, NEW d \in Text, NEW e \in Text
    PROVE  Regroups(a, b, c, d, e)
<1>1. (c \o d) \o e = c \o (d \o e)
    BY Associative
<1>2. \A x \in Text : (b \o x) \o e = b \o (x \o e)
    BY Associative
<1>3. \A y \in Text : (a \o y) \o e = a \o (y \o e)
    BY Associative
<1>4. c \o d \in Text /\ b \o (c \o d) \in Text
    BY Joined
<1>5. (b \o (c \o d)) \o e = b \o ((c \o d) \o e)
    BY <1>2, <1>4
<1>6. (a \o (b \o (c \o d))) \o e = a \o ((b \o (c \o d)) \o e)
    BY <1>3, <1>4
<1>. QED  BY <1>1, <1>5, <1>6 DEF Regroups

\* In front of a header, and behind the last one.
LEMMA HeaderAhead ==
    ASSUME Sending, NEW n \in 1 .. Len(Sent), NEW j \in 1 .. Len(Headers(n))
    PROVE  HeadersLeft(n, j - 1) = Headers(n)[j].name \o ColonLeft(n, j)
<1>1. PICK name \in Text, value \in Text, rest \in Text, left \in Text :
        /\ name = Headers(n)[j].name /\ value = Headers(n)[j].value
        /\ rest = PartFrom(Sent[n])[j] /\ left = NextLeft(n)
  <2>1. j \in 0 .. Len(Headers(n)) /\ n \in 0 .. Len(Sent)
      BY SentParts, SentFramed
  <2>. QED  BY <2>1, SentHeaders, PartSteps, NextLeftIsText
<1>2. PICK colon \in Text, eol \in Text : colon = <<COLON, SP>> /\ eol = EOL
    BY Signs
<1>3. HeadersLeft(n, j - 1) = ((name \o (colon \o (value \o eol))) \o rest) \o left
  <2>1. PartFrom(Sent[n])[j - 1] = (name \o (colon \o (value \o eol))) \o rest
      BY <1>1, <1>2, PartSteps DEF HeaderText
  <2>. QED  BY <1>1, <2>1 DEF HeadersLeft
<1>4. ColonLeft(n, j) = colon \o (value \o (eol \o (rest \o left)))
    BY <1>1, <1>2 DEF ColonLeft, ValueLeft, HeadersLeft
<1>5. PICK header \in Text : header = name \o (colon \o (value \o eol))
  <2>1. value \o eol \in Text
      BY Joined
  <2>2. colon \o (value \o eol) \in Text
      BY <2>1, Joined
  <2>. QED  BY <2>2, Joined
<1>6. (header \o rest) \o left = header \o (rest \o left)
    BY Associative
<1>7. PICK right \in Text : right = rest \o left
    BY Joined
<1>8. (name \o (colon \o (value \o eol))) \o right
        = name \o (colon \o (value \o (eol \o right)))
  <2>1. Regroups(name, colon, value, eol, right)
      BY Regrouped
  <2>. QED  BY <2>1 DEF Regroups
<1>9. HeadersLeft(n, j - 1) = name \o ColonLeft(n, j)
    BY <1>3, <1>4, <1>5, <1>6, <1>7, <1>8
<1>. QED  BY <1>1, <1>9

LEMMA BlankAhead ==
    ASSUME Sending, NEW n \in 1 .. Len(Sent)
    PROVE  /\ HeadersLeft(n, Len(Headers(n))) = EOL \o (Data(n) \o NextLeft(n))
           /\ Data(n) \o NextLeft(n) \in Text
<1>1. PICK data \in Text, left \in Text, eol \in Text :
        data = Data(n) /\ left = NextLeft(n) /\ eol = EOL
  <2>1. n \in 0 .. Len(Sent)
      BY SentFramed
  <2>. QED  BY <2>1, SentParts, NextLeftIsText, Signs
<1>2. HeadersLeft(n, Len(Headers(n))) = (eol \o data) \o left
    BY <1>1, PartSteps DEF HeadersLeft
<1>3. (eol \o data) \o left = eol \o (data \o left) /\ data \o left \in Text
    BY Associative, Joined
<1>. QED  BY <1>1, <1>2, <1>3

LEMMA PartAhead ==
    ASSUME Sending, NEW n \in 1 .. Len(Sent)
    PROVE  BodyFrom(Sent, response.boundary)[n - 1] = EOL \o HeadersLeft(n, 0)
<1>1. PICK part \in Text, from \in Text, eol \in Text, limit \in Text :
        /\ part = PartFrom(Sent[n])[0] /\ from = BodyFrom(Sent, response.boundary)[n]
        /\ eol = EOL /\ limit = Limit
  <2>1. 0 \in 0 .. Len(Headers(n)) /\ n \in 0 .. Len(Sent)
      BY SentParts, SentFramed
  <2>2. PartFrom(Sent[n])[0] \in Text /\ BodyFrom(Sent, response.boundary)[n] \in Text
      BY <2>1, PartSteps, BodySteps
  <2>. QED  BY <2>2, LimitIsText, Signs
<1>2. BodyFrom(Sent, response.boundary)[n - 1] = (eol \o (part \o (eol \o limit))) \o from
    BY <1>1, BodySteps DEF Piece, Limit
<1>3. HeadersLeft(n, 0) = part \o (eol \o (limit \o from))
    BY <1>1 DEF HeadersLeft, NextLeft
<1>4. (eol \o (part \o (eol \o limit))) \o from = eol \o (part \o (eol \o (limit \o from)))
  <2>1. Regroups(eol, part, eol, limit, from)
      BY Regrouped
  <2>. QED  BY <2>1 DEF Regroups
<1>8. BodyFrom(Sent, response.boundary)[n - 1] = eol \o HeadersLeft(n, 0)
    BY <1>2, <1>3, <1>4
<1>. QED  BY <1>1, <1>8

LEMMA SentTextIsText ==
    ASSUME Sending
    PROVE  /\ SentText \in Text /\ Len(SentText) \in Nat
           /\ SentText = (Limit \o EOL) \o HeadersLeft(1, 0)
<1>1. 1 \in 1 .. Len(Sent) /\ 0 \in 0 .. Len(Sent)
    BY SentFramed
<1>2. 0 \in 0 .. Len(Headers(1))
    BY <1>1, SentParts
<1>3. HeadersLeft(1, 0) \in Text /\ Limit \in Text /\ EOL \in Text
    BY <1>1, <1>2, HeadersLeftIsText, LimitIsText, Signs
<1>4. BodyFrom(Sent, response.boundary)[0] = EOL \o HeadersLeft(1, 0)
  <2>1. BodyFrom(Sent, response.boundary)[1 - 1] = EOL \o HeadersLeft(1, 0)
      BY <1>1, PartAhead
  <2>. QED  BY <2>1
<1>5. SentText = Limit \o (EOL \o HeadersLeft(1, 0))
    BY <1>4 DEF SentText, Encoded, Limit
<1>6. SentText = (Limit \o EOL) \o HeadersLeft(1, 0)
  <2>1. PICK a \in Text, b \in Text, c \in Text :
          a = Limit /\ b = EOL /\ c = HeadersLeft(1, 0)
      BY <1>3
  <2>2. (a \o b) \o c = a \o (b \o c)
      BY Associative
  <2>. QED  BY <1>5, <2>1, <2>2
<1>7. SentText \in Text
  <2>1. Limit \o EOL \in Text
      BY <1>3, Joined
  <2>. QED  BY <1>3, <1>6, <2>1, Joined
<1>. QED  BY <1>6, <1>7 DEF Text

-----------------------------------------------------------------------------
(***************************************************************************)
(* Reading the text the server sent.                                       *)
(***************************************************************************)
Receiving ==
    /\ Sending /\ Inv /\ body = response.body /\ phase = "body"
    /\ parser # Null /\ parser.boundary = Limit /\ parts.expected = response.root

LEMMA BodyOfSent ==
    ASSUME Sending, body = response.body
    PROVE  /\ Len(body) \in Nat /\ Len(body) <= Len(SentText)
           /\ \A i \in 1 .. Len(body) : body[i] = SentText[i]
           /\ response.whole => Len(body) = Len(SentText)
<1>1. SentText \in Text /\ Len(SentText) \in Nat
    BY SentTextIsText
<1>2. CASE response.whole
  <2>1. body = SentText
      BY <1>2, SentFramed
  <2>. QED  BY <1>1, <2>1
<1>3. CASE ~response.whole
  <2>1. PICK n \in 0 .. Len(SentText) : body = SubSeq(SentText, 1, n)
      BY <1>3, SentFramed
  <2>2. /\ Len(SubSeq(SentText, 1, n)) = IF 1 <= n THEN n - 1 + 1 ELSE 0
        /\ \A i \in 1 .. (n - 1 + 1) : SubSeq(SentText, 1, n)[i] = SentText[1 + i - 1]
      BY <1>1, Slice
  <2>3. Len(body) = n
      BY <1>1, <2>1, <2>2
  <2>4. ASSUME NEW i \in 1 .. n PROVE body[i] = SentText[i]
    <3>1. i \in 1 .. (n - 1 + 1) /\ 1 + i - 1 = i
        BY <1>1
    <3>. QED  BY <2>1, <2>2, <3>1
  <2>. QED  BY <1>1, <1>3, <2>3, <2>4
<1>. QED  BY <1>2, <1>3

LEMMA ReadingSent ==
    ASSUME Receiving
    PROVE  /\ Reader /\ pos \in Nat \ {0} /\ pos - 1 \in 0 .. Len(SentText)
           /\ SentText \in Text /\ Ahead \in Text
           /\ pos <= Len(body) =>
                 /\ pos \in 1 .. Len(SentText) /\ body[pos] = SentText[pos]
                 /\ Ahead = <<body[pos]>> \o Behind(SentText, pos)
                 /\ Behind(SentText, pos) \in Text
                 /\ body[pos] \in Byte
<1>1. /\ Len(body) \in Nat /\ Len(body) <= Len(SentText)
      /\ \A i \in 1 .. Len(body) : body[i] = SentText[i]
    BY BodyOfSent DEF Receiving
<1>2. SentText \in Text /\ Len(SentText) \in Nat
    BY SentTextIsText DEF Receiving
<1>3. Reader
    BY InvReader DEF Receiving
<1>4. pos \in Nat \ {0} /\ pos <= Len(body) + 1
    BY <1>3, BodyNumbers
<1>5. PICK k \in 0 .. Len(SentText) : k = pos - 1 /\ k + 1 = pos
    BY <1>1, <1>2, <1>4
<1>6. Ahead = Behind(SentText, k) /\ Ahead \in Text
    BY <1>2, <1>5, BehindStands DEF Ahead
<1>7. ASSUME pos <= Len(body)
      PROVE  /\ pos \in 1 .. Len(SentText) /\ body[pos] = SentText[pos]
             /\ Ahead = <<body[pos]>> \o Behind(SentText, pos)
             /\ Behind(SentText, pos) \in Text
             /\ body[pos] \in Byte
  <2>1. pos \in 1 .. Len(SentText) /\ body[pos] = SentText[pos] /\ k < Len(SentText)
      BY <1>1, <1>2, <1>4, <1>5, <1>7
  <2>2. Behind(SentText, k) = <<SentText[k + 1]>> \o Behind(SentText, k + 1)
      BY <1>2, <1>5, <2>1, FirstBehind
  <2>3. Behind(SentText, pos) \in Text
      BY <1>2, <2>1, BehindStands
  <2>4. body[pos] \in Byte
      BY <1>2, <2>1, ByteOfText
  <2>. QED  BY <1>5, <1>6, <2>1, <2>2, <2>3, <2>4
<1>. QED  BY <1>2, <1>3, <1>4, <1>5, <1>6, <1>7

\* One byte is read.
Onward == pos <= Len(body) /\ pos' = pos + 1 /\ body' = body /\ response' = response

LEMMA SameSent ==
    ASSUME response' = response
    PROVE  /\ Sent' = Sent /\ Limit' = Limit /\ SentText' = SentText
           /\ \A n : Headers(n)' = Headers(n) /\ Data(n)' = Data(n) /\ NextLeft(n)' = NextLeft(n)
           /\ \A n, j : /\ HeadersLeft(n, j)' = HeadersLeft(n, j)
                        /\ ValueLeft(n, j)' = ValueLeft(n, j)
                        /\ ColonLeft(n, j)' = ColonLeft(n, j)
           /\ BodyFrom(Sent, response.boundary)' = BodyFrom(Sent, response.boundary)
<1>1. Sent' = Sent /\ Limit' = Limit
    BY DEF Sent, Limit
<1>2. SentText' = SentText /\ BodyFrom(Sent, response.boundary)' = BodyFrom(Sent, response.boundary)
    BY <1>1 DEF SentText
<1>3. \A n : Headers(n)' = Headers(n) /\ Data(n)' = Data(n)
    BY <1>1 DEF Headers, Data
<1>4. \A n : NextLeft(n)' = NextLeft(n)
    BY <1>1, <1>2 DEF NextLeft
<1>5. \A n, j : HeadersLeft(n, j)' = HeadersLeft(n, j)
    BY <1>1, <1>4 DEF HeadersLeft
<1>6. \A n, j : ValueLeft(n, j)' = ValueLeft(n, j)
    BY <1>3, <1>5 DEF ValueLeft
<1>7. \A n, j : ColonLeft(n, j)' = ColonLeft(n, j)
    BY <1>6 DEF ColonLeft
<1>. QED  BY <1>1, <1>2, <1>3, <1>4, <1>5, <1>6, <1>7

LEMMA SignRead ==
    ASSUME Receiving, Onward, NEW c \in Byte, NEW rest \in Text, Ahead = <<c>> \o rest
    PROVE  body[pos] = c /\ Ahead' = rest
<1>1. PICK k \in 0 .. Len(SentText) : k = pos - 1 /\ k + 1 = pos
    BY ReadingSent
<1>2. SentText \in Text /\ Behind(SentText, k) = <<c>> \o rest
    BY <1>1, ReadingSent DEF Ahead
<1>3. Behind(SentText, k + 1) = rest /\ SentText[k + 1] = c
    BY <1>2, BytePassed
<1>4. pos' - 1 = pos /\ body[pos] = SentText[pos]
    BY <1>1, ReadingSent DEF Onward
<1>5. Ahead' = Behind(SentText, pos)
    BY <1>4, SameSent DEF Ahead, Onward
<1>. QED  BY <1>1, <1>3, <1>4, <1>5

LEMMA SignAhead ==
    ASSUME Receiving, pos <= Len(body), NEW c \in Byte, NEW rest \in Text, Ahead = <<c>> \o rest
    PROVE  body[pos] = c
<1>1. PICK k \in 0 .. Len(SentText) : k = pos - 1 /\ k + 1 = pos
    BY ReadingSent
<1>2. SentText \in Text /\ Behind(SentText, k) = <<c>> \o rest
    BY <1>1, ReadingSent DEF Ahead
<1>3. SentText[k + 1] = c
    BY <1>2, BytePassed
<1>. QED  BY <1>1, <1>3, ReadingSent

\* Of a line end, and of a longer text, the first byte is read.
LEMMA LineEndRead ==
    ASSUME Receiving, NEW rest \in Text, Ahead = EOL \o rest, pos <= Len(body)
    PROVE  body[pos] = CR /\ (Onward => Ahead' = <<LF>> \o rest)
<1>1. PICK cr \in Text, lf \in Text : cr = <<CR>> /\ lf = <<LF>> /\ EOL = cr \o lf
    BY Signs
<1>2. (cr \o lf) \o rest = cr \o (lf \o rest)
    BY Associative
<1>3. PICK left \in Text : left = lf \o rest
    BY Joined
<1>4. CR \in Byte /\ Ahead = <<CR>> \o left
    BY <1>1, <1>2, <1>3, Signs
<1>5. body[pos] = CR
    BY <1>4, SignAhead
<1>6. Onward => Ahead' = left
    BY <1>4, SignRead
<1>. QED  BY <1>1, <1>3, <1>5, <1>6

LEMMA TextRead ==
    ASSUME Receiving, NEW text \in Text, NEW k \in Nat, k < Len(text), NEW rest \in Text,
           Ahead = Behind(text, k) \o rest, pos <= Len(body)
    PROVE  /\ k + 1 \in 1 .. Len(text) /\ body[pos] = text[k + 1]
           /\ Onward => Ahead' = Behind(text, k + 1) \o rest
<1>1. PICK m \in 1 .. Len(text) : m = k + 1
    BY FirstBehind
<1>2. Behind(text, k) = <<text[m]>> \o Behind(text, m)
    BY <1>1, FirstBehind
<1>3. text[m] \in Byte
    BY ByteOfText
<1>4. PICK first \in Text, left \in Text : first = <<text[m]>> /\ left = Behind(text, m)
  <2>1. m \in 0 .. Len(text)
      BY <1>1
  <2>. QED  BY <1>3, <2>1, OneText, BehindStands
<1>5. (first \o left) \o rest = first \o (left \o rest)
    BY Associative
<1>6. PICK more \in Text : more = left \o rest
    BY Joined
<1>7. Ahead = <<text[m]>> \o more
    BY <1>2, <1>4, <1>5, <1>6
<1>8. body[pos] = text[m]
    BY <1>3, <1>7, SignAhead
<1>9. Onward => Ahead' = more
    BY <1>3, <1>7, SignRead
<1>. QED  BY <1>1, <1>4, <1>6, <1>8, <1>9

LEMMA SameParts ==
    ASSUME response' = response, parts' = parts
    PROVE  /\ \A n : Listed(n)' <=> Listed(n)
           /\ \A n, j : Within(n, j)' <=> Within(n, j)
<1>1. Sent' = Sent /\ \A n : Headers(n)' = Headers(n)
    BY SameSent
<1>2. \A n : Roots(n)' = Roots(n)
    BY <1>1 DEF Roots
<1>3. \A n : Listed(n)' <=> Listed(n)
    BY <1>1, <1>2 DEF Listed
<1>4. \A n, j : Reflects(Current, n, j)' <=> Reflects(Current, n, j)
    BY <1>1 DEF Reflects, Current
<1>5. \A n, j : Within(n, j)' <=> Within(n, j)
    BY <1>1, <1>3, <1>4 DEF Within
<1>. QED  BY <1>3, <1>5

LEMMA SameWhole ==
    ASSUME response' = response, parts' = parts, NEW n
    PROVE  Within(n, Len(Headers(n)))' <=> Within(n, Len(Headers(n)))
<1>1. Headers(n)' = Headers(n) /\ \A i, j : Within(i, j)' <=> Within(i, j)
    BY SameSent, SameParts
<1>2. PICK j : j = Len(Headers(n))
    OBVIOUS
<1>3. j = Len(Headers(n)')
    BY <1>1, <1>2
<1>4. Within(n, j)' <=> Within(n, j)
    BY <1>1
<1>. QED  BY <1>2, <1>3, <1>4 DEF Within

LEMMA SameFields ==
    ASSUME interm'.hfld = interm.hfld, interm'.hval = interm.hval
    PROVE  NoField' <=> NoField
BY DEF NoField

LEMMA StepOn ==
    ASSUME Receiving, NEW m, NEW last, Past(m, last), pos <= Len(body), body' = body,
           response' = response
    PROVE  Onward
BY DEF Past, Onward

\* Where the reader is by the state of the parser.
LEMMA Places ==
    ASSUME Somewhere
    PROVE  /\ parser.state = "start_boundary" => AtFirst
           /\ parser.state = "header_field_start" =>
                \E n \in 1 .. Len(Sent) : \E j \in 0 .. Len(Headers(n)) : AtHeaders(n, j)
           /\ parser.state = "header_field" =>
                \E n \in 1 .. Len(Sent) : \E j \in 0 .. Len(Headers(n)) :
                    \E k \in Nat : InNameOf(n, j, k)
           /\ parser.state = "header_value_start" =>
                \E n \in 1 .. Len(Sent) : \E j \in 0 .. Len(Headers(n)) : AtValue(n, j)
           /\ parser.state = "header_value" =>
                \E n \in 1 .. Len(Sent) : \E j \in 0 .. Len(Headers(n)) :
                    \E k \in Nat : InValueOf(n, j, k)
           /\ parser.state = "header_value_almost_done" =>
                \E n \in 1 .. Len(Sent) : \E j \in 0 .. Len(Headers(n)) : AtLineEnd(n, j)
           /\ parser.state = "headers_almost_done" => \E n \in 1 .. Len(Sent) : AtBlank(n)
           /\ parser.state = "part_data_start" => \E n \in 1 .. Len(Sent) : AtData(n)
           /\ parser # Null /\ parser.state \in ContentState =>
                \E n \in 1 .. Len(Sent) : InData(n)
           /\ parser.state = "part_data_almost_end" => \E n \in 1 .. Len(Sent) : BehindPart(n)
           /\ parser.state = "part_data_end" => \E n \in 1 .. Len(Sent) : AtNext(n)
           /\ parser.state = "part_data_final_hyphen" => AtHyphen
           /\ parser.state = "end" => AtEnd
<1>1. /\ AtFirst => parser.state = "start_boundary"
      /\ AtHyphen => parser.state = "part_data_final_hyphen"
      /\ AtEnd => parser.state = "end"
    BY DEF AtFirst, AtHyphen, AtEnd
<1>2. \A n : /\ AtBlank(n) => parser.state = "headers_almost_done"
             /\ AtData(n) => parser.state = "part_data_start"
             /\ InData(n) => parser.state \in ContentState
             /\ BehindPart(n) => parser.state = "part_data_almost_end"
             /\ AtNext(n) => parser.state = "part_data_end"
    BY DEF AtBlank, AtData, InData, BehindPart, AtNext, InContent, ContentState
<1>3. \A n, j : /\ AtHeaders(n, j) => parser.state = "header_field_start"
                /\ AtValue(n, j) => parser.state = "header_value_start"
                /\ AtLineEnd(n, j) => parser.state = "header_value_almost_done"
    BY DEF AtHeaders, AtValue, AtLineEnd
<1>4. \A n, j, k : /\ InNameOf(n, j, k) => parser.state = "header_field"
                   /\ InValueOf(n, j, k) => parser.state = "header_value"
    BY DEF InNameOf, InValueOf
<1>5. CASE AtFirst \/ AtHyphen \/ AtEnd
    BY <1>1, <1>5 DEF ContentState
<1>6. CASE \E n \in 1 .. Len(Sent) :
             AtBlank(n) \/ AtData(n) \/ InData(n) \/ BehindPart(n) \/ AtNext(n)
    BY <1>2, <1>6 DEF ContentState
<1>7. CASE \E n \in 1 .. Len(Sent) : \E j \in 0 .. Len(Headers(n)) :
             AtHeaders(n, j) \/ AtValue(n, j) \/ AtLineEnd(n, j)
    BY <1>3, <1>7 DEF ContentState
<1>8. CASE \E n \in 1 .. Len(Sent) : \E j \in 0 .. Len(Headers(n)) :
             \E k \in Nat : InNameOf(n, j, k) \/ InValueOf(n, j, k)
    BY <1>4, <1>8 DEF ContentState
<1>. QED  BY <1>5, <1>6, <1>7, <1>8 DEF Somewhere

LEMMA GoneTo ==
    ASSUME Receiving, NEW state \in ParserState, GoTo(state)
    PROVE  parser'.state = state /\ parser'.boundary = parser.boundary /\ parser' # Null
<1>1. parser \in Parser
    BY ReadingSent, ParserKnown DEF Receiving
<1>2. parser' = [parser EXCEPT !.state = state]
    BY DEF GoTo
<1>3. parser'.state = state /\ parser'.boundary = parser.boundary /\ parser' \in Parser
    BY <1>1, <1>2 DEF Parser
<1>. QED  BY <1>3, NullAssumption

-----------------------------------------------------------------------------
(***************************************************************************)
(* Headers.                                                                *)
(***************************************************************************)
\* The reader is in the name of a header, or in front of the blank line.
NamePlace(n, j, k) ==
    LET name == Headers(n)[j].name
    IN  /\ n \in 1 .. Len(Sent) /\ Within(n, j - 1)
        /\ j \in 1 .. Len(Headers(n)) /\ k \in 0 .. Len(name)
        /\ interm.hfld \o Lower(Run(NameMark)) = Lower(SubSeq(name, 1, k)) /\ interm.hval = <<>>
        /\ Ahead = Behind(name, k) \o ColonLeft(n, j)

BlankPlace(n) ==
    /\ n \in 1 .. Len(Sent) /\ Within(n, Len(Headers(n))) /\ NoField
    /\ Ahead = EOL \o (Data(n) \o NextLeft(n))

LEMMA NoRun ==
    ASSUME Receiving, pos <= Len(body)
    PROVE  /\ Run(pos) = <<>> /\ Lower(<<>>) = <<>>
           /\ \A s : SubSeq(s, 1, 0) = <<>>
<1>1. Run(pos) = <<>>
    BY ReadingSent, RunGrows
<1>2. Lower(<<>>) = <<>>
  <2>1. Lower(<<>>) \in Text /\ DOMAIN Lower(<<>>) = 1 .. 0
      BY Signs, LowerIsText DEF Lower
  <2>2. Len(Lower(<<>>)) = 0
      BY <2>1 DEF Text
  <2>. QED  BY <2>1, <2>2, Signs, EmptySeq DEF Text
<1>. QED  BY <1>1, <1>2, SubSeqEmpty

LEMMA NameCases ==
    ASSUME Receiving, Somewhere, InName
    PROVE  \/ \E n \in Nat : BlankPlace(n)
           \/ \E n, j, k \in Nat : NamePlace(n, j, k)
<1>1. pos <= Len(body) /\ parser.state \in {"header_field_start", "header_field"}
    BY DEF InName, At, ReadingBody
<1>2. Len(Sent) \in Nat
    BY SentFramed DEF Receiving
<1>3. CASE parser.state = "header_field_start"
  <2>1. PICK n \in 1 .. Len(Sent) : \E j \in 0 .. Len(Headers(n)) : AtHeaders(n, j)
      BY <1>3, Places
  <2>0. PICK j \in 0 .. Len(Headers(n)) : AtHeaders(n, j)
      BY <2>1
  <2>2. Len(Headers(n)) \in Nat
      BY SentParts DEF Receiving
  <2>3. CASE j = Len(Headers(n))
    <3>1. BlankPlace(n)
        BY <2>0, <2>3, BlankAhead DEF AtHeaders, BlankPlace, Receiving
    <3>. QED  BY <1>2, <3>1
  <2>4. CASE j # Len(Headers(n))
    <3>1. PICK i \in 1 .. Len(Headers(n)) : i = j + 1 /\ i - 1 = j
        BY <2>2, <2>4
    <3>2. PICK name \in Text, left \in Text : name = Headers(n)[i].name /\ left = ColonLeft(n, i)
        BY SentHeaders, HeaderIsText DEF Receiving
    <3>3. Ahead = name \o left
        BY <2>0, <3>1, <3>2, HeaderAhead DEF AtHeaders, Receiving
    <3>4. Behind(name, 0) = name /\ 0 \in 0 .. Len(name)
        BY BehindNothing DEF Text
    <3>5. interm.hfld \o Lower(Run(NameMark)) = Lower(SubSeq(name, 1, 0))
      <4>1. NameMark = pos
          BY <1>3 DEF NameMark
      <4>. QED  BY <1>1, <2>0, <4>1, NoRun, Signs, EmptyAdded DEF AtHeaders, NoField
    <3>6. NamePlace(n, i, 0)
        BY <2>0, <3>1, <3>2, <3>3, <3>4, <3>5 DEF AtHeaders, NamePlace, NoField
    <3>7. n \in Nat /\ i \in Nat /\ 0 \in Nat
        BY <1>2, <2>2
    <3>. QED  BY <3>6, <3>7
  <2>. QED  BY <2>3, <2>4
<1>4. CASE parser.state = "header_field"
  <2>0. PICK n \in 1 .. Len(Sent) :
          \E j \in 0 .. Len(Headers(n)) : \E k \in Nat : InNameOf(n, j, k)
      BY <1>4, Places
  <2>1. PICK j \in 0 .. Len(Headers(n)), k \in Nat : InNameOf(n, j, k)
      BY <2>0
  <2>2. NameMark = mark
      BY <1>4 DEF NameMark
  <2>3. NamePlace(n, j, k)
      BY <2>1, <2>2 DEF InNameOf, NamePlace
  <2>4. n \in Nat /\ j \in Nat
    <3>1. Len(Headers(n)) \in Nat
        BY SentParts DEF Receiving
    <3>. QED  BY <1>2, <3>1
  <2>. QED  BY <2>3, <2>4
<1>. QED  BY <1>1, <1>3, <1>4

\* What is cut off a run and what is left of it are the run and the byte read.
LEMMA RunOn ==
    ASSUME Receiving, NEW m \in 1 .. pos, NEW last \in BOOLEAN, Past(m, last), pos <= Len(body),
           body' = body
    PROVE  /\ Cut(m, last) \in Text /\ Run(mark)' \in Text /\ Run(m) \in Text
           /\ <<body[pos]>> \in Text
           /\ Cut(m, last) \o Run(mark)' = Run(m) \o <<body[pos]>>
<1>1. /\ SubSeq(body, m, pos) = Run(m) \o <<body[pos]>>
      /\ SubSeq(body, pos + 1, pos) = <<>>
      /\ <<body[pos]>> \in Text /\ SubSeq(body, m, pos) \in Text
    BY ReadingSent, RunGrows
<1>2. Run(m) \in Text /\ Cut(m, last) \in Text
    BY ReadingSent, RunIsText
<1>3. Run(mark)' = SubSeq(body, mark', pos)
  <2>1. pos' - 1 = pos
      BY ReadingSent DEF Past
  <2>. QED  BY <2>1 DEF Run
<1>4. CASE last
  <2>1. Cut(m, last) = SubSeq(body, m, pos) /\ mark' = pos + 1
      BY <1>4 DEF Cut, Past
  <2>2. Run(mark)' = <<>>
      BY <1>1, <1>3, <2>1
  <2>. QED  BY <1>1, <1>2, <2>1, <2>2, Signs, EmptyAdded
<1>5. CASE ~last
  <2>1. Cut(m, last) = <<>> /\ mark' = m
      BY <1>5 DEF Cut, Past
  <2>2. Run(mark)' = SubSeq(body, m, pos)
      BY <1>3, <2>1
  <2>. QED  BY <1>1, <1>2, <2>1, <2>2, Signs, EmptyAdded
<1>. QED  BY <1>4, <1>5

Grouped(a, b, c) == (a \o b) \o c = a \o (b \o c)

LEMMA Grouping ==
    ASSUME NEW a \in Text, NEW b \in Text, NEW c \in Text
    PROVE  Grouped(a, b, c)
BY Associative DEF Grouped

Grown(field, cut, new, before, byte) ==
    (field \o Lower(cut)) \o Lower(new) = Lower(before \o byte)

LEMMA LowerGrows ==
    ASSUME NEW field \in Text, NEW cut \in Text, NEW new \in Text, NEW run \in Text,
           NEW byte \in Text, NEW before \in Text,
           cut \o new = run \o byte, field \o Lower(run) = Lower(before)
    PROVE  Grown(field, cut, new, before, byte)
<1>1. PICK c \in Text, w \in Text, r \in Text, b \in Text :
        c = Lower(cut) /\ w = Lower(new) /\ r = Lower(run) /\ b = Lower(byte)
    BY LowerIsText
<1>2. Grouped(field, c, w) /\ Grouped(field, r, b)
    BY Grouping
<1>3. c \o w = r \o b
  <2>1. Lower(cut \o new) = c \o w
      BY <1>1, LowerJoined
  <2>2. Lower(run \o byte) = r \o b
      BY <1>1, LowerJoined
  <2>. QED  BY <2>1, <2>2
<1>4. Lower(before \o byte) = Lower(before) \o b
    BY <1>1, LowerJoined
<1>. QED  BY <1>1, <1>2, <1>3, <1>4 DEF Grouped, Grown

LEMMA NameMarkBehind ==
    ASSUME Receiving
    PROVE  /\ NameMark \in 1 .. pos /\ ValueMark \in 1 .. pos
           /\ interm.hfld \in Text /\ interm.hval \in Text
<1>1. mark \in 1 .. pos /\ pos \in 1 .. pos
    BY ReadingSent, MarkBehind
<1>2. interm \in Interm
    BY ReadingSent DEF Reader, MultipartTypeOK
<1>. QED  BY <1>1, <1>2 DEF NameMark, ValueMark, Interm

LEMMA NamePlaceByte ==
    ASSUME Receiving, pos <= Len(body), NEW n \in Nat, NEW j \in Nat, NEW k \in Nat,
           NamePlace(n, j, k)
    PROVE  LET name == Headers(n)[j].name
           IN  /\ name \in Text
               /\ k < Len(name) =>
                    /\ k + 1 \in 1 .. Len(name) /\ body[pos] = name[k + 1]
                    /\ body[pos] \in Letter \cup {HY}
                    /\ Onward => Ahead' = Behind(name, k + 1) \o ColonLeft(n, j)
               /\ k = Len(name) =>
                    /\ body[pos] = COLON
                    /\ Onward => Ahead' = <<SP>> \o ValueLeft(n, j)
               /\ k < Len(name) \/ k = Len(name)
<1>1. PICK name \in Text, left \in Text, value \in Text :
        name = Headers(n)[j].name /\ left = ColonLeft(n, j) /\ value = ValueLeft(n, j)
    BY SentHeaders, HeaderIsText DEF NamePlace, Receiving
<1>2. /\ Ahead = Behind(name, k) \o left /\ k \in 0 .. Len(name) /\ Len(name) \in Nat
    BY <1>1 DEF NamePlace, Text
<1>3. ASSUME k < Len(name)
      PROVE  /\ k + 1 \in 1 .. Len(name) /\ body[pos] = name[k + 1]
             /\ body[pos] \in Letter \cup {HY}
             /\ Onward => Ahead' = Behind(name, k + 1) \o left
  <2>1. /\ k + 1 \in 1 .. Len(name) /\ body[pos] = name[k + 1]
        /\ Onward => Ahead' = Behind(name, k + 1) \o left
      BY <1>2, <1>3, TextRead
  <2>2. \A i \in 1 .. Len(name) : name[i] \in Letter \cup {HY}
      BY <1>1, SentHeaders DEF NamePlace, Receiving
  <2>. QED  BY <2>1, <2>2
<1>4. ASSUME k = Len(name)
      PROVE  body[pos] = COLON /\ (Onward => Ahead' = <<SP>> \o value)
  <2>1. Ahead = left
      BY <1>2, <1>4, BehindNothing, EmptyAdded
  <2>2. PICK colon \in Text, space \in Text :
          colon = <<COLON>> /\ space = <<SP>> /\ <<COLON, SP>> = colon \o space
      BY Signs
  <2>3. left = (colon \o space) \o value
      BY <1>1, <2>2 DEF ColonLeft
  <2>4. (colon \o space) \o value = colon \o (space \o value)
      BY Associative
  <2>5. PICK rest \in Text : rest = space \o value
      BY Joined
  <2>6. Ahead = <<COLON>> \o rest /\ COLON \in Byte
      BY <2>1, <2>2, <2>3, <2>4, <2>5, Signs
  <2>7. body[pos] = COLON
      BY <2>6, SignAhead
  <2>8. Onward => Ahead' = rest
      BY <2>6, SignRead
  <2>. QED  BY <2>2, <2>5, <2>7, <2>8
<1>. QED  BY <1>1, <1>2, <1>3, <1>4

LEMMA Signed ==
    /\ COLON \notin Letter \cup {HY} /\ CR \notin Letter \cup {HY} /\ CR # COLON
    /\ SP \notin Letter /\ LF \notin Letter
BY NamesAssumption DEF COLON, CR, HY, LF, SP

LEMMA NameByteArrives ==
    ASSUME Receiving, Somewhere, response' = response, NEW last \in BOOLEAN, NameByte(last)
    PROVE  Somewhere'
<1>1. /\ InName /\ pos <= Len(body) /\ body[pos] \in Letter \cup {HY} /\ Past(NameMark, last)
      /\ GoTo("header_field") /\ body' = body /\ parts' = parts
      /\ interm' = [interm EXCEPT !.hfld = @ \o Lower(Cut(NameMark, last))]
    BY DEF NameByte, InName, At, ReadingBody
<1>2. Onward
    BY <1>1, StepOn
<1>3. PICK n \in Nat, j \in Nat, k \in Nat : NamePlace(n, j, k)
  <2>1. ASSUME NEW n \in Nat, BlankPlace(n) PROVE FALSE
    <3>1. Data(n) \o NextLeft(n) \in Text /\ Ahead = EOL \o (Data(n) \o NextLeft(n))
        BY <2>1, BlankAhead DEF BlankPlace, Receiving
    <3>2. body[pos] = CR
        BY <1>1, <3>1, LineEndRead
    <3>. QED  BY <1>1, <3>2, Signed
  <2>. QED  BY <1>1, <2>1, NameCases
<1>4. PICK name \in Text : name = Headers(n)[j].name
    BY <1>1, <1>3, NamePlaceByte
<1>5. /\ k < Len(name) /\ k + 1 \in 1 .. Len(name) /\ body[pos] = name[k + 1]
      /\ Ahead' = Behind(name, k + 1) \o ColonLeft(n, j)
    BY <1>1, <1>2, <1>3, <1>4, NamePlaceByte, Signed
<1>6. PICK m \in 1 .. pos : m = NameMark
    BY NameMarkBehind
<1>7. PICK cut \in Text, run \in Text, new \in Text, byte \in Text, field \in Text :
        /\ cut = Cut(m, last) /\ run = Run(m) /\ new = Run(mark)' /\ byte = <<body[pos]>>
        /\ field = interm.hfld /\ cut \o new = run \o byte
    BY <1>1, <1>6, RunOn, NameMarkBehind
<1>8. PICK before \in Text : before = SubSeq(name, 1, k) /\ SubSeq(name, 1, k + 1) = before \o byte
  <2>1. /\ SubSeq(name, 1, k) \in Text
        /\ SubSeq(name, 1, k + 1) = SubSeq(name, 1, k) \o <<name[k + 1]>>
      BY <1>5, UpToNext
  <2>. QED  BY <1>5, <1>7, <2>1
<1>9. field \o Lower(run) = Lower(before)
    BY <1>3, <1>4, <1>6, <1>7, <1>8 DEF NamePlace
<1>10. Grown(field, cut, new, before, byte)
    BY <1>7, <1>9, LowerGrows
<1>11. interm'.hfld = field \o Lower(cut) /\ interm'.hval = interm.hval
  <2>1. interm \in Interm
      BY ReadingSent DEF Reader, MultipartTypeOK
  <2>. QED  BY <1>1, <1>6, <1>7, <2>1 DEF Interm
<1>12. parser'.state = "header_field"
    BY <1>1, GoneTo DEF ParserState
<1>13. InNameOf(n, j, k + 1)'
  <2>1. interm'.hfld \o Lower(Run(mark)') = Lower(SubSeq(name, 1, k + 1))
      BY <1>7, <1>8, <1>10, <1>11 DEF Grown
  <2>2. Headers(n)' = Headers(n) /\ ColonLeft(n, j)' = ColonLeft(n, j)
        /\ (Within(n, j - 1)' <=> Within(n, j - 1))
      BY <1>1, SameSent, SameParts
  <2>3. k + 1 \in 0 .. Len(name)
      BY <1>5
  <2>. QED  BY <1>3, <1>4, <1>5, <1>11, <1>12, <2>1, <2>2, <2>3 DEF InNameOf, NamePlace
<1>14. Sent' = Sent /\ Headers(n)' = Headers(n)
    BY SameSent
<1>. QED  BY <1>3, <1>13, <1>14 DEF Somewhere, NamePlace

SetTo(new, part, g, value) ==
    /\ new.invalid = part.invalid
    /\ \A f \in Field : new[f] = IF f = g THEN value ELSE part[f]

LEMMA FieldSet ==
    ASSUME NEW part \in Part, NEW g \in Field, NEW value, NEW new,
           new = [part EXCEPT ![g] = value]
    PROVE  SetTo(new, part, g, value)
<1>1. DOMAIN part = {"id", "type", "encoding", "invalid", "data"}
    BY DEF Part
<1>2. Field \subseteq DOMAIN part /\ "invalid" \in DOMAIN part /\ "invalid" \notin Field
    BY <1>1 DEF Field
<1>3. new.invalid = part.invalid
    BY <1>2
<1>4. \A f \in Field : new[f] = IF f = g THEN value ELSE part[f]
    BY <1>2
<1>. QED  BY <1>3, <1>4 DEF SetTo

LEMMA FieldMarked ==
    ASSUME NEW part \in Part, NEW g \in Field, NEW new,
           new = [part EXCEPT !.invalid = @ \cup {g}]
    PROVE  /\ new.invalid = part.invalid \cup {g}
           /\ \A f \in Field : new[f] = part[f]
<1>1. DOMAIN part = {"id", "type", "encoding", "invalid", "data"}
    BY DEF Part
<1>2. Field \subseteq DOMAIN part /\ "invalid" \in DOMAIN part /\ "invalid" \notin Field
    BY <1>1 DEF Field
<1>3. new.invalid = part.invalid \cup {g}
    BY <1>2
<1>4. \A f \in Field : new[f] = part[f]
    BY <1>2
<1>. QED  BY <1>3, <1>4

\* What the reader knows of a field when j headers are read.
Known(part, f, n, j) ==
    /\ \A i \in Values(Sent[n], f) :
          i <= j /\ (\A k \in Values(Sent[n], f) : k <= j => k = i) =>
              part[f] = Headers(n)[i].value /\ f \notin part.invalid
    /\ \A i, k \in Values(Sent[n], f) : i < k /\ k <= j => f \in part.invalid
    /\ (\E i \in Values(Sent[n], f) : i <= j) <=> part[f] # Null
    /\ f \in part.invalid => part[f] # Null

LEMMA HeaderReflected ==
    ASSUME Sending, NEW n \in 1 .. Len(Sent), NEW j \in 1 .. Len(Headers(n)),
           NEW part \in Part, Reflects(part, n, j - 1)
    PROVE  Reflects(WithHeader(part, Lower(Headers(n)[j].name), Headers(n)[j].value), n, j)
<1>1. PICK name, value \in Text : name = Lower(Headers(n)[j].name) /\ value = Headers(n)[j].value
    BY SentHeaders, LowerIsText
<1>2. PICK new : new = WithHeader(part, name, value)
    OBVIOUS
<1>3. PICK i0 \in Nat : i0 = j - 1 /\ i0 < j /\ \A i \in Nat : i <= j <=> (i <= i0 \/ i = j)
    BY SentParts
<1>4. /\ \A f \in Field : Values(Sent[n], f) \subseteq Nat
      /\ \A f \in Field : j \in Values(Sent[n], f) <=> FieldName[f] = name
  <2>1. \A f \in Field : Values(Sent[n], f) = {i \in 1 .. Len(Headers(n)) :
                                                 Lower(Headers(n)[i].name) = FieldName[f]}
      BY SentParts DEF Values, Headers
  <2>. QED  BY <1>1, <2>1
<1>5. \A f \in Field : Known(part, f, n, i0)
    BY <1>3 DEF Reflects, Known
<1>6. value # Null
    BY NullAssumption
<1>7. ASSUME NEW f \in Field PROVE Known(new, f, n, j)
  <2>1. PICK values \in SUBSET Nat : values = Values(Sent[n], f)
      BY <1>4
  <2>2. CASE FieldName[f] # name
    <3>1. new[f] = part[f] /\ (f \in new.invalid <=> f \in part.invalid)
      <4>1. CASE \E g \in Field : FieldName[g] = name
        <5>1. PICK g \in Field : g = CHOOSE h \in Field : FieldName[h] = name
            BY <4>1
        <5>2. FieldName[g] = name /\ g # f
            BY <2>2, <4>1, <5>1
        <5>3. new = IF part[g] = Null THEN [part EXCEPT ![g] = value]
                                      ELSE [part EXCEPT !.invalid = @ \cup {g}]
            BY <1>2, <4>1, <5>1 DEF WithHeader
        <5>4. CASE part[g] = Null
          <6>1. new = [part EXCEPT ![g] = value]
              BY <5>3, <5>4
          <6>. QED  BY <5>2, <6>1, FieldSet DEF SetTo
        <5>5. CASE part[g] # Null
          <6>1. new = [part EXCEPT !.invalid = @ \cup {g}]
              BY <5>3, <5>5
          <6>. QED  BY <5>2, <6>1, FieldMarked
        <5>. QED  BY <5>4, <5>5
      <4>2. CASE ~\E g \in Field : FieldName[g] = name
        <5>1. new = part
            BY <1>2, <4>2 DEF WithHeader
        <5>. QED  BY <5>1
      <4>. QED  BY <4>1, <4>2
    <3>2. \A i \in values : i <= j <=> i <= i0
        BY <1>3, <1>4, <2>1, <2>2
    <3>3. Known(part, f, n, i0)
        BY <1>5
    <3>. QED  BY <2>1, <3>1, <3>2, <3>3 DEF Known
  <2>3. CASE FieldName[f] = name
    <3>1. j \in values
        BY <1>4, <2>1, <2>3
    <3>2. new = IF part[f] = Null THEN [part EXCEPT ![f] = value]
                                  ELSE [part EXCEPT !.invalid = @ \cup {f}]
      <4>1. PICK g \in Field : g = CHOOSE h \in Field : FieldName[h] = name
          BY <2>3
      <4>2. FieldName[g] = name
          BY <2>3, <4>1
      <4>3. g = f
          BY <2>3, <4>2, NamesAssumption
      <4>. QED  BY <1>2, <2>3, <4>1, <4>3 DEF WithHeader
    <3>3. Known(part, f, n, i0)
        BY <1>5
    <3>4. CASE part[f] = Null
      <4>1. /\ \A i \in values : ~(i <= i0)
            /\ f \notin part.invalid
          BY <2>1, <3>3, <3>4 DEF Known
      <4>2. \A i \in values : i <= j => i = j
          BY <1>3, <4>1
      <4>3. new[f] = value /\ f \notin new.invalid
        <5>1. new = [part EXCEPT ![f] = value]
            BY <3>2, <3>4
        <5>2. SetTo(new, part, f, value)
            BY <5>1, FieldSet
        <5>. QED  BY <4>1, <5>2 DEF SetTo
      <4>4. \A i, k \in values : ~(i < k /\ k <= j)
        <5>1. SUFFICES ASSUME NEW i \in values, NEW k \in values, i < k, k <= j PROVE FALSE
            OBVIOUS
        <5>2. i <= j
            BY <1>3, <5>1
        <5>. QED  BY <1>3, <4>2, <5>1, <5>2
      <4>. QED  BY <1>1, <1>3, <1>6, <2>1, <3>1, <4>2, <4>3, <4>4 DEF Known
    <3>5. CASE part[f] # Null
      <4>1. PICK i \in values : i <= i0
          BY <2>1, <3>3, <3>5 DEF Known
      <4>2. new[f] = part[f] /\ f \in new.invalid
        <5>1. new = [part EXCEPT !.invalid = @ \cup {f}]
            BY <3>2, <3>5
        <5>. QED  BY <5>1, FieldMarked
      <4>3. i # j /\ i <= j
          BY <1>3, <4>1
      <4>4. ~\E k \in values : \A l \in values : l <= j => l = k
          BY <1>3, <3>1, <4>1, <4>3
      <4>. QED  BY <1>3, <2>1, <3>1, <3>5, <4>1, <4>2, <4>3, <4>4 DEF Known
    <3>. QED  BY <3>4, <3>5
  <2>. QED  BY <2>2, <2>3
<1>8. Reflects(new, n, j)
    BY <1>7 DEF Known, Reflects
<1>. QED  BY <1>1, <1>2, <1>8

LEMMA SameList ==
    ASSUME response' = response, parts'.list = parts.list, parts'.root = parts.root
    PROVE  \A n : Listed(n)' <=> Listed(n)
<1>1. Sent' = Sent
    BY SameSent
<1>2. \A n : Roots(n)' = Roots(n)
    BY <1>1 DEF Roots
<1>. QED  BY <1>1, <1>2 DEF Listed

\* Numbers of parts and headers.
LEMMA WithinNumbers ==
    ASSUME Receiving, NEW n \in 1 .. Len(Sent)
    PROVE  n \in Nat /\ Len(Headers(n)) \in Nat /\ Sending /\ Len(Sent) \in Nat
BY SentFramed, SentParts DEF Receiving

LEMMA NameEndArrives ==
    ASSUME Receiving, Somewhere, response' = response, NEW last \in BOOLEAN, NameEnd(last)
    PROVE  Somewhere'
<1>1. /\ InName /\ pos <= Len(body) /\ body[pos] = COLON /\ Past(NameMark, last)
      /\ GoTo("header_value_start") /\ body' = body /\ parts' = parts
      /\ interm' = [interm EXCEPT !.hfld = @ \o Lower(Run(NameMark))]
    BY DEF NameEnd, InName, At, ReadingBody
<1>2. Onward
    BY <1>1, StepOn
<1>3. PICK n \in Nat, j \in Nat, k \in Nat : NamePlace(n, j, k)
  <2>1. ASSUME NEW n \in Nat, BlankPlace(n) PROVE FALSE
    <3>1. Data(n) \o NextLeft(n) \in Text /\ Ahead = EOL \o (Data(n) \o NextLeft(n))
        BY <2>1, BlankAhead DEF BlankPlace, Receiving
    <3>2. body[pos] = CR
        BY <1>1, <3>1, LineEndRead
    <3>. QED  BY <1>1, <3>2, Signed
  <2>. QED  BY <1>1, <2>1, NameCases
<1>4. PICK name \in Text : name = Headers(n)[j].name
    BY <1>1, <1>3, NamePlaceByte
<1>5. k = Len(name) /\ Ahead' = <<SP>> \o ValueLeft(n, j)
    BY <1>1, <1>2, <1>3, <1>4, NamePlaceByte, Signed
<1>6. interm'.hfld = Lower(name) /\ interm'.hval = <<>>
  <2>1. interm \in Interm
      BY ReadingSent DEF Reader, MultipartTypeOK
  <2>2. interm'.hfld = interm.hfld \o Lower(Run(NameMark)) /\ interm'.hval = interm.hval
      BY <1>1, <2>1 DEF Interm
  <2>3. interm.hfld \o Lower(Run(NameMark)) = Lower(SubSeq(name, 1, k)) /\ interm.hval = <<>>
      BY <1>3, <1>4 DEF NamePlace
  <2>4. SubSeq(name, 1, k) = name
      BY <1>5, SubSeqFull DEF Text
  <2>. QED  BY <2>2, <2>3, <2>4
<1>7. parser'.state = "header_value_start"
    BY <1>1, GoneTo DEF ParserState
<1>8. AtValue(n, j)'
  <2>1. Headers(n)' = Headers(n) /\ ValueLeft(n, j)' = ValueLeft(n, j)
        /\ (Within(n, j - 1)' <=> Within(n, j - 1))
      BY <1>1, SameSent, SameParts
  <2>. QED  BY <1>3, <1>4, <1>5, <1>6, <1>7, <2>1 DEF AtValue, NamePlace
<1>9. Sent' = Sent /\ Headers(n)' = Headers(n)
    BY SameSent
<1>. QED  BY <1>3, <1>8, <1>9 DEF Somewhere, NamePlace

LEMMA HeadersEndArrives ==
    ASSUME Receiving, Somewhere, response' = response, NEW last \in BOOLEAN,
           HeadersEnd(last) \/ HeadersDone(last)
    PROVE  Somewhere'
<1>1. CASE HeadersEnd(last)
  <2>1. /\ InName /\ pos <= Len(body) /\ body[pos] = CR /\ Past(NameMark, last)
        /\ GoTo("headers_almost_done") /\ body' = body /\ parts' = parts /\ interm' = interm
      BY <1>1 DEF HeadersEnd, InName, At, ReadingBody
  <2>2. Onward
      BY <2>1, StepOn
  <2>3. PICK n \in Nat : BlankPlace(n)
    <3>1. ASSUME NEW n \in Nat, NEW j \in Nat, NEW k \in Nat, NamePlace(n, j, k) PROVE FALSE
        BY <2>1, <3>1, NamePlaceByte, Signed
    <3>. QED  BY <2>1, <3>1, NameCases
  <2>4. Ahead' = <<LF>> \o (Data(n) \o NextLeft(n))
    <3>1. Data(n) \o NextLeft(n) \in Text /\ Ahead = EOL \o (Data(n) \o NextLeft(n))
        BY <2>3, BlankAhead DEF BlankPlace, Receiving
    <3>. QED  BY <2>1, <2>2, <3>1, LineEndRead
  <2>5. parser'.state = "headers_almost_done"
      BY <2>1, GoneTo DEF ParserState
  <2>6. /\ Sent' = Sent /\ Headers(n)' = Headers(n) /\ Data(n)' = Data(n)
        /\ NextLeft(n)' = NextLeft(n)
        /\ (Within(n, Len(Headers(n)))' <=> Within(n, Len(Headers(n))))
      BY <2>1, SameSent, SameWhole
  <2>7. AtBlank(n)'
      BY <2>1, <2>3, <2>4, <2>5, <2>6 DEF AtBlank, BlankPlace, NoField
  <2>. QED  BY <2>3, <2>6, <2>7 DEF Somewhere, BlankPlace
<1>2. CASE HeadersDone(last)
  <2>1. /\ parser.state = "headers_almost_done" /\ pos <= Len(body) /\ Past(mark, last)
        /\ GoTo("part_data_start") /\ body' = body /\ parts' = parts /\ interm' = interm
      BY <1>2 DEF HeadersDone, At, ReadingBody
  <2>2. Onward
      BY <2>1, StepOn
  <2>3. PICK n \in 1 .. Len(Sent) : AtBlank(n)
      BY <2>1, Places
  <2>4. Ahead' = Data(n) \o NextLeft(n)
    <3>1. Data(n) \o NextLeft(n) \in Text /\ LF \in Byte
        BY BlankAhead, Signs DEF Receiving
    <3>. QED  BY <2>2, <2>3, <3>1, SignRead DEF AtBlank
  <2>5. parser'.state = "part_data_start"
      BY <2>1, GoneTo DEF ParserState
  <2>6. /\ Sent' = Sent /\ Data(n)' = Data(n) /\ NextLeft(n)' = NextLeft(n)
        /\ (Within(n, Len(Headers(n)))' <=> Within(n, Len(Headers(n))))
      BY <2>1, SameSent, SameWhole
  <2>7. AtData(n)'
      BY <2>1, <2>3, <2>4, <2>5, <2>6 DEF AtBlank, AtData, NoField
  <2>. QED  BY <2>6, <2>7 DEF Somewhere
<1>. QED  BY <1>1, <1>2

\* The reader is in the value of a header.
ValuePlace(n, j, k) ==
    LET value == Headers(n)[j].value
    IN  /\ n \in 1 .. Len(Sent) /\ Within(n, j - 1)
        /\ j \in 1 .. Len(Headers(n)) /\ k \in 0 .. Len(value)
        /\ interm.hfld = Lower(Headers(n)[j].name)
        /\ interm.hval \o Run(ValueMark) = SubSeq(value, 1, k)
        /\ Ahead = Behind(value, k) \o (EOL \o HeadersLeft(n, j))

LEMMA ValuePlaceByte ==
    ASSUME Receiving, pos <= Len(body), NEW n \in Nat, NEW j \in Nat, NEW k \in Nat,
           ValuePlace(n, j, k)
    PROVE  LET value == Headers(n)[j].value
           IN  /\ value \in Text
               /\ k < Len(value) =>
                    /\ k + 1 \in 1 .. Len(value) /\ body[pos] = value[k + 1]
                    /\ body[pos] # CR /\ (k = 0 => body[pos] # SP)
                    /\ Onward => Ahead' = Behind(value, k + 1) \o (EOL \o HeadersLeft(n, j))
               /\ k = Len(value) =>
                    /\ body[pos] = CR
                    /\ Onward => Ahead' = <<LF>> \o HeadersLeft(n, j)
               /\ k < Len(value) \/ k = Len(value)
<1>1. PICK value \in Text, left \in Text, rest \in Text :
        value = Headers(n)[j].value /\ left = EOL \o HeadersLeft(n, j) /\ rest = HeadersLeft(n, j)
    BY SentHeaders, HeaderIsText DEF ValuePlace, Receiving
<1>2. /\ Ahead = Behind(value, k) \o left /\ k \in 0 .. Len(value) /\ Len(value) \in Nat
    BY <1>1 DEF ValuePlace, Text
<1>3. ASSUME k < Len(value)
      PROVE  /\ k + 1 \in 1 .. Len(value) /\ body[pos] = value[k + 1]
             /\ body[pos] # CR /\ (k = 0 => body[pos] # SP)
             /\ Onward => Ahead' = Behind(value, k + 1) \o left
  <2>1. /\ k + 1 \in 1 .. Len(value) /\ body[pos] = value[k + 1]
        /\ Onward => Ahead' = Behind(value, k + 1) \o left
      BY <1>2, <1>3, TextRead
  <2>2. /\ \A i \in 1 .. Len(value) : value[i] # CR
        /\ value # <<>> => value[1] # SP
      BY <1>1, SentHeaders DEF ValuePlace, Receiving
  <2>3. value # <<>>
      BY <1>2, <1>3
  <2>. QED  BY <2>1, <2>2, <2>3
<1>4. ASSUME k = Len(value)
      PROVE  body[pos] = CR /\ (Onward => Ahead' = <<LF>> \o rest)
  <2>1. Ahead = left
      BY <1>2, <1>4, BehindNothing, EmptyAdded
  <2>2. Ahead = EOL \o rest
      BY <1>1, <2>1
  <2>. QED  BY <2>2, LineEndRead
<1>. QED  BY <1>1, <1>2, <1>3, <1>4

\* In front of a value there may be a space.
LEMMA ValueStart ==
    ASSUME Receiving, pos <= Len(body), parser.state = "header_value_start",
           NEW n \in 1 .. Len(Sent), NEW j \in 0 .. Len(Headers(n)), AtValue(n, j)
    PROVE  /\ Ahead = <<SP>> \o ValueLeft(n, j) =>
                body[pos] = SP /\ (Onward => Ahead' = ValueLeft(n, j))
           /\ Ahead = ValueLeft(n, j) => ValuePlace(n, j, 0) /\ body[pos] # SP
<1>1. Sending /\ n \in Nat /\ j \in Nat
    BY WithinNumbers DEF Receiving
<1>2. j \in 1 .. Len(Headers(n))
    BY DEF AtValue
<1>3. ASSUME Ahead = <<SP>> \o ValueLeft(n, j)
      PROVE  body[pos] = SP /\ (Onward => Ahead' = ValueLeft(n, j))
  <2>1. ValueLeft(n, j) \in Text /\ SP \in Byte
      BY <1>1, <1>2, HeaderIsText, Signs
  <2>. QED  BY <1>3, <2>1, SignAhead, SignRead
<1>4. ASSUME Ahead = ValueLeft(n, j)
      PROVE  ValuePlace(n, j, 0) /\ body[pos] # SP
  <2>1. PICK value \in Text : value = Headers(n)[j].value
      BY <1>1, <1>2, SentHeaders
  <2>2. Behind(value, 0) = value /\ 0 \in 0 .. Len(value)
      BY BehindNothing DEF Text
  <2>3. Ahead = Behind(value, 0) \o (EOL \o HeadersLeft(n, j))
      BY <1>4, <2>1, <2>2 DEF ValueLeft
  <2>4. ValueMark = pos
      BY DEF ValueMark
  <2>5. interm.hval \o Run(ValueMark) = SubSeq(value, 1, 0)
      BY <2>4, NoRun, Signs, EmptyAdded DEF AtValue
  <2>6. ValuePlace(n, j, 0)
      BY <1>2, <2>1, <2>2, <2>3, <2>5 DEF AtValue, ValuePlace
  <2>7. body[pos] # SP
    <3>1. 0 \in Nat /\ (0 < Len(value) => body[pos] # SP)
        BY <1>1, <2>1, <2>6, ValuePlaceByte
    <3>2. 0 = Len(value) => body[pos] = CR
        BY <1>1, <2>1, <2>6, <3>1, ValuePlaceByte
    <3>3. 0 < Len(value) \/ 0 = Len(value)
        BY <2>2
    <3>. QED  BY <3>1, <3>2, <3>3 DEF CR, SP
  <2>. QED  BY <2>6, <2>7
<1>. QED  BY <1>3, <1>4

LEMMA ValueSpaceArrives ==
    ASSUME Receiving, Somewhere, response' = response, NEW last \in BOOLEAN, ValueSpace(last)
    PROVE  Somewhere'
<1>1. /\ parser.state = "header_value_start" /\ pos <= Len(body) /\ body[pos] = SP
      /\ Past(mark, last) /\ body' = body /\ parser' = parser /\ interm' = interm
      /\ parts' = parts
    BY DEF ValueSpace, At, ReadingBody
<1>2. Onward
    BY <1>1, StepOn
<1>3. PICK n \in 1 .. Len(Sent) : \E j \in 0 .. Len(Headers(n)) : AtValue(n, j)
    BY <1>1, Places
<1>4. PICK j \in 0 .. Len(Headers(n)) : AtValue(n, j)
    BY <1>3
<1>5. Ahead' = ValueLeft(n, j)
  <2>1. Ahead = ValueLeft(n, j) \/ Ahead = <<SP>> \o ValueLeft(n, j)
      BY <1>4 DEF AtValue
  <2>. QED  BY <1>1, <1>2, <1>4, <2>1, ValueStart
<1>6. /\ Sent' = Sent /\ Headers(n)' = Headers(n) /\ ValueLeft(n, j)' = ValueLeft(n, j)
      /\ (Within(n, j - 1)' <=> Within(n, j - 1))
    BY <1>1, SameSent, SameParts
<1>7. AtValue(n, j)'
    BY <1>1, <1>4, <1>5, <1>6 DEF AtValue
<1>. QED  BY <1>6, <1>7 DEF Somewhere

LEMMA ValueCases ==
    ASSUME Receiving, Somewhere, InValue
    PROVE  \E n, j, k \in Nat : ValuePlace(n, j, k)
<1>1. /\ pos <= Len(body)
      /\ \/ parser.state = "header_value"
         \/ parser.state = "header_value_start" /\ body[pos] # SP
    BY DEF InValue, At, ReadingBody
<1>2. CASE parser.state = "header_value"
  <2>1. PICK n \in 1 .. Len(Sent) :
          \E j \in 0 .. Len(Headers(n)) : \E k \in Nat : InValueOf(n, j, k)
      BY <1>2, Places
  <2>2. PICK j \in 0 .. Len(Headers(n)), k \in Nat : InValueOf(n, j, k)
      BY <2>1
  <2>3. ValueMark = mark
      BY <1>2 DEF ValueMark
  <2>4. ValuePlace(n, j, k)
      BY <2>2, <2>3 DEF InValueOf, ValuePlace
  <2>5. n \in Nat /\ j \in Nat
      BY WithinNumbers
  <2>. QED  BY <2>4, <2>5
<1>3. CASE parser.state = "header_value_start" /\ body[pos] # SP
  <2>1. PICK n \in 1 .. Len(Sent) : \E j \in 0 .. Len(Headers(n)) : AtValue(n, j)
      BY <1>3, Places
  <2>2. PICK j \in 0 .. Len(Headers(n)) : AtValue(n, j)
      BY <2>1
  <2>3. Ahead = ValueLeft(n, j) \/ Ahead = <<SP>> \o ValueLeft(n, j)
      BY <2>2 DEF AtValue
  <2>4. ValuePlace(n, j, 0)
      BY <1>1, <1>3, <2>2, <2>3, ValueStart
  <2>5. n \in Nat /\ j \in Nat /\ 0 \in Nat
      BY WithinNumbers
  <2>. QED  BY <2>4, <2>5
<1>. QED  BY <1>1, <1>2, <1>3

Lengthened(field, cut, new, before, byte) == (field \o cut) \o new = before \o byte

LEMMA ValueGrows ==
    ASSUME NEW field \in Text, NEW cut \in Text, NEW new \in Text, NEW run \in Text,
           NEW byte \in Text, NEW before \in Text,
           cut \o new = run \o byte, field \o run = before
    PROVE  Lengthened(field, cut, new, before, byte)
<1>1. Grouped(field, cut, new) /\ Grouped(field, run, byte)
    BY Grouping
<1>. QED  BY <1>1 DEF Grouped, Lengthened

LEMMA ValueByteArrives ==
    ASSUME Receiving, Somewhere, response' = response, NEW last \in BOOLEAN, ValueByte(last)
    PROVE  Somewhere'
<1>1. /\ InValue /\ pos <= Len(body) /\ body[pos] # CR /\ Past(ValueMark, last)
      /\ GoTo("header_value") /\ body' = body /\ parts' = parts
      /\ interm' = [interm EXCEPT !.hval = @ \o Cut(ValueMark, last)]
    BY DEF ValueByte, InValue, At, ReadingBody
<1>2. Onward
    BY <1>1, StepOn
<1>3. PICK n \in Nat, j \in Nat, k \in Nat : ValuePlace(n, j, k)
    BY <1>1, ValueCases
<1>4. PICK value \in Text : value = Headers(n)[j].value
    BY <1>1, <1>3, ValuePlaceByte
<1>5. /\ k < Len(value) /\ k + 1 \in 1 .. Len(value) /\ body[pos] = value[k + 1]
      /\ Ahead' = Behind(value, k + 1) \o (EOL \o HeadersLeft(n, j))
    BY <1>1, <1>2, <1>3, <1>4, ValuePlaceByte
<1>6. PICK m \in 1 .. pos : m = ValueMark
    BY NameMarkBehind
<1>7. PICK cut \in Text, run \in Text, new \in Text, byte \in Text, field \in Text :
        /\ cut = Cut(m, last) /\ run = Run(m) /\ new = Run(mark)' /\ byte = <<body[pos]>>
        /\ field = interm.hval /\ cut \o new = run \o byte
    BY <1>1, <1>6, RunOn, NameMarkBehind
<1>8. PICK before \in Text :
        before = SubSeq(value, 1, k) /\ SubSeq(value, 1, k + 1) = before \o byte
  <2>1. /\ SubSeq(value, 1, k) \in Text
        /\ SubSeq(value, 1, k + 1) = SubSeq(value, 1, k) \o <<value[k + 1]>>
      BY <1>5, UpToNext
  <2>. QED  BY <1>5, <1>7, <2>1
<1>9. field \o run = before
    BY <1>3, <1>4, <1>6, <1>7, <1>8 DEF ValuePlace
<1>10. Lengthened(field, cut, new, before, byte)
    BY <1>7, <1>9, ValueGrows
<1>11. interm'.hval = field \o cut /\ interm'.hfld = interm.hfld
  <2>1. interm \in Interm
      BY ReadingSent DEF Reader, MultipartTypeOK
  <2>. QED  BY <1>1, <1>6, <1>7, <2>1 DEF Interm
<1>12. parser'.state = "header_value"
    BY <1>1, GoneTo DEF ParserState
<1>13. InValueOf(n, j, k + 1)'
  <2>1. interm'.hval \o Run(mark)' = SubSeq(value, 1, k + 1)
      BY <1>7, <1>8, <1>10, <1>11 DEF Lengthened
  <2>2. Headers(n)' = Headers(n) /\ HeadersLeft(n, j)' = HeadersLeft(n, j)
        /\ (Within(n, j - 1)' <=> Within(n, j - 1))
      BY <1>1, SameSent, SameParts
  <2>3. k + 1 \in 0 .. Len(value)
      BY <1>5
  <2>. QED  BY <1>3, <1>4, <1>5, <1>11, <1>12, <2>1, <2>2, <2>3 DEF InValueOf, ValuePlace
<1>14. Sent' = Sent /\ Headers(n)' = Headers(n)
    BY SameSent
<1>. QED  BY <1>3, <1>13, <1>14 DEF Somewhere, ValuePlace

LEMMA ValueEndArrives ==
    ASSUME Receiving, Somewhere, response' = response, NEW last \in BOOLEAN, ValueEnd(last)
    PROVE  Somewhere'
<1>1. /\ InValue /\ pos <= Len(body) /\ body[pos] = CR /\ Past(ValueMark, last)
      /\ GoTo("header_value_almost_done") /\ body' = body
      /\ parts' = [parts EXCEPT !.processed =
                      WithHeader(Current, interm.hfld, interm.hval \o Run(ValueMark))]
      /\ interm' = [interm EXCEPT !.hfld = <<>>, !.hval = <<>>]
    BY DEF ValueEnd, InValue, At, ReadingBody
<1>2. Onward
    BY <1>1, StepOn
<1>3. PICK n \in Nat, j \in Nat, k \in Nat : ValuePlace(n, j, k)
    BY <1>1, ValueCases
<1>4. n \in 1 .. Len(Sent) /\ j \in 1 .. Len(Headers(n)) /\ Within(n, j - 1) /\ Sending
    BY <1>3 DEF ValuePlace, Receiving
<1>5. PICK name \in Text, value \in Text :
        name = Headers(n)[j].name /\ value = Headers(n)[j].value
    BY <1>4, SentHeaders
<1>6. k = Len(value) /\ Ahead' = <<LF>> \o HeadersLeft(n, j)
    BY <1>1, <1>2, <1>3, <1>5, ValuePlaceByte
<1>7. interm.hfld = Lower(name) /\ interm.hval \o Run(ValueMark) = value
  <2>1. SubSeq(value, 1, k) = value
      BY <1>6, SubSeqFull DEF Text
  <2>. QED  BY <1>3, <1>5, <2>1 DEF ValuePlace
<1>8. NoField'
  <2>1. interm \in Interm
      BY ReadingSent DEF Reader, MultipartTypeOK
  <2>. QED  BY <1>1, <2>1 DEF NoField, Interm
<1>9. parts \in Parts
    BY ReadingSent DEF Reader, MultipartTypeOK
<1>10. PICK part \in Part : part = WithHeader(Current, Lower(name), value)
    BY <1>9, CurrentIsPart, LowerIsText, WithHeaderIsPart
<1>11. /\ parts'.processed = part /\ parts'.list = parts.list /\ parts'.root = parts.root
    BY <1>1, <1>7, <1>9, <1>10 DEF Parts
<1>12. Current' = part
    BY <1>11, NullAssumption DEF Current
<1>13. Reflects(part, n, j)
    BY <1>4, <1>5, <1>9, <1>10, CurrentIsPart, HeaderReflected DEF Within
<1>14. /\ Sent' = Sent /\ \A i : Headers(i)' = Headers(i) /\ HeadersLeft(i, j)' = HeadersLeft(i, j)
       /\ (Listed(n - 1)' <=> Listed(n - 1))
    BY <1>11, SameSent, SameList
<1>15. Within(n, j)'
  <2>1. Reflects(Current, n, j)'
      BY <1>12, <1>13, <1>14 DEF Reflects
  <2>2. j \in 0 .. Len(Headers(n))
      BY <1>3, <1>4
  <2>. QED  BY <1>4, <1>14, <2>1, <2>2 DEF Within
<1>16. parser'.state = "header_value_almost_done"
    BY <1>1, GoneTo DEF ParserState
<1>17. AtLineEnd(n, j)'
    BY <1>6, <1>8, <1>14, <1>15, <1>16 DEF AtLineEnd
<1>18. j \in 0 .. Len(Headers(n))
    BY <1>3, <1>4
<1>. QED  BY <1>4, <1>14, <1>17, <1>18 DEF Somewhere

LEMMA HeaderDoneArrives ==
    ASSUME Receiving, Somewhere, response' = response, NEW last \in BOOLEAN, HeaderDone(last)
    PROVE  Somewhere'
<1>1. /\ parser.state = "header_value_almost_done" /\ pos <= Len(body) /\ Past(mark, last)
      /\ GoTo("header_field_start") /\ body' = body /\ parts' = parts /\ interm' = interm
    BY DEF HeaderDone, At, ReadingBody
<1>2. Onward
    BY <1>1, StepOn
<1>3. PICK n \in 1 .. Len(Sent) : \E j \in 0 .. Len(Headers(n)) : AtLineEnd(n, j)
    BY <1>1, Places
<1>4. PICK j \in 0 .. Len(Headers(n)) : AtLineEnd(n, j)
    BY <1>3
<1>5. Ahead' = HeadersLeft(n, j)
  <2>1. HeadersLeft(n, j) \in Text /\ LF \in Byte
      BY HeadersLeftIsText, Signs DEF Receiving
  <2>. QED  BY <1>2, <1>4, <2>1, SignRead DEF AtLineEnd
<1>6. parser'.state = "header_field_start"
    BY <1>1, GoneTo DEF ParserState
<1>7. /\ Sent' = Sent /\ Headers(n)' = Headers(n) /\ HeadersLeft(n, j)' = HeadersLeft(n, j)
      /\ (Within(n, j)' <=> Within(n, j))
    BY <1>1, SameSent, SameParts
<1>8. AtHeaders(n, j)'
    BY <1>1, <1>4, <1>5, <1>6, <1>7 DEF AtHeaders, AtLineEnd, NoField
<1>. QED  BY <1>7, <1>8 DEF Somewhere

-----------------------------------------------------------------------------
(***************************************************************************)
(* Around the parts.                                                       *)
(***************************************************************************)
LEMMA NothingRead ==
    ASSUME Sending, NEW n \in 1 .. Len(Sent)
    PROVE  Reflects(NewPart, n, 0)
<1>1. \A f \in Field : NewPart[f] = Null /\ f \notin NewPart.invalid
    BY DEF NewPart, Field
<1>2. ASSUME NEW f \in Field, NEW i \in Values(Sent[n], f) PROVE ~(i <= 0)
  <2>1. i \in 1 .. Len(Headers(n)) /\ Len(Headers(n)) \in Nat
      BY SentParts DEF Values, Headers
  <2>. QED  BY <2>1
<1>. QED  BY <1>1, <1>2 DEF Reflects

LEMMA FirstLineStands ==
    ASSUME Receiving, AtFirst, pos <= Len(body)
    PROVE  /\ parser.index \in Nat /\ Len(FirstLine) \in Nat /\ parser.index + 1 <= Len(FirstLine)
           /\ body[pos] = FirstLine[parser.index + 1]
           /\ Behind(SentText, Len(FirstLine)) = HeadersLeft(1, 0)
<1>1. /\ parser.index \in Nat /\ parser.index <= Len(parser.boundary) + 1
      /\ Len(parser.boundary) \in Nat
    BY ReadingSent, ParserKnown DEF Receiving
<1>2. PICK first \in Text, rest \in Text :
        first = FirstLine /\ rest = HeadersLeft(1, 0) /\ SentText = first \o rest
              /\ Len(first) = Len(parser.boundary) + 2
  <2>1. Limit \in Text /\ EOL \in Text /\ FirstLine = Limit \o EOL /\ Len(EOL) = 2
      BY LimitIsText, Signs DEF Receiving, FirstLine, EOL
  <2>2. FirstLine \in Text /\ Len(FirstLine) = Len(parser.boundary) + 2
      BY <2>1, Joined DEF Receiving
  <2>3. 1 \in 1 .. Len(Sent)
      BY SentFramed DEF Receiving
  <2>4. 0 \in 0 .. Len(Headers(1))
      BY <2>3, SentParts DEF Receiving
  <2>5. HeadersLeft(1, 0) \in Text
      BY <2>3, <2>4, HeadersLeftIsText DEF Receiving
  <2>. QED  BY <2>1, <2>2, <2>5, SentTextIsText DEF Receiving
<1>3. SentText \in Text
    BY SentTextIsText DEF Receiving
<1>4. ASSUME NEW text \in Text, Behind(text, 0) = first \o rest
      PROVE  Behind(text, Len(first)) = rest /\ \A i \in 1 .. Len(first) : text[i] = first[i]
    BY <1>4, FrontPassed
<1>5. Behind(SentText, Len(first)) = rest /\ \A i \in 1 .. Len(first) : SentText[i] = first[i]
  <2>. HIDE DEF Behind, SentText
  <2>1. Behind(SentText, 0) = SentText
      BY <1>3, BehindNothing
  <2>2. Behind(SentText, 0) = first \o rest
      BY <1>2, <2>1
  <2>. QED  BY <1>3, <1>4, <2>2
<1>6. PICK i \in 1 .. Len(first) : i = parser.index + 1 /\ i = pos
    BY <1>1, <1>2 DEF AtFirst
<1>7. body[pos] = SentText[pos]
    BY ReadingSent
<1>. QED  BY <1>1, <1>2, <1>5, <1>6, <1>7

LEMMA FirstBoundaryArrives ==
    ASSUME Receiving, Somewhere, response' = response, NEW last \in BOOLEAN, FirstBoundary(last)
    PROVE  Somewhere'
<1>1. /\ parser.state = "start_boundary" /\ pos <= Len(body) /\ Past(mark, last)
      /\ body' = body /\ parts' = parts
    BY DEF FirstBoundary, At, ReadingBody
<1>2. Onward
    BY <1>1, StepOn
<1>3. AtFirst
    BY <1>1, Places
<1>4. /\ parser.index \in Nat /\ Len(FirstLine) \in Nat /\ parser.index + 1 <= Len(FirstLine)
      /\ Behind(SentText, Len(FirstLine)) = HeadersLeft(1, 0)
    BY <1>1, <1>3, FirstLineStands
<1>5. parser \in Parser /\ interm \in Interm
    BY ReadingSent, ParserKnown DEF Receiving, Reader, MultipartTypeOK
<1>6. \A n : Listed(n)' <=> Listed(n)
    BY <1>1, SameParts
<1>7. CASE parser.index + 1 < Len(FirstLine)
  <2>1. parser' = [parser EXCEPT !.index = @ + 1] /\ interm' = interm
      BY <1>7 DEF FirstBoundary
  <2>2. parser'.state = "start_boundary" /\ parser'.index = parser.index + 1
      BY <1>1, <1>5, <2>1 DEF Parser
  <2>3. AtFirst'
      BY <1>1, <1>2, <1>3, <1>6, <2>1, <2>2 DEF AtFirst, Between, NoField, Onward
  <2>. QED  BY <2>3 DEF Somewhere
<1>8. CASE ~(parser.index + 1 < Len(FirstLine))
  <2>1. /\ parser' = [parser EXCEPT !.state = "header_field_start", !.index = 0]
        /\ interm' = [interm EXCEPT !.content = <<>>]
      BY <1>8 DEF FirstBoundary
  <2>2. parser'.state = "header_field_start"
      BY <1>5, <2>1 DEF Parser
  <2>3. NoField'
      BY <1>3, <1>5, <2>1 DEF AtFirst, Between, NoField, Interm
  <2>4. Ahead' = HeadersLeft(1, 0)
    <3>1. pos' - 1 = Len(FirstLine)
        BY <1>2, <1>3, <1>4, <1>8 DEF AtFirst, Onward
    <3>2. SentText' = SentText
        BY SameSent
    <3>3. Ahead' = Behind(SentText, Len(FirstLine))
        BY <3>1, <3>2 DEF Ahead
    <3>. QED  BY <1>4, <3>3
  <2>5. PICK n \in 1 .. Len(Sent) : n = 1 /\ n - 1 = 0
      BY SentFramed DEF Receiving
  <2>6. PICK j \in 0 .. Len(Headers(n)) : j = 0
      BY SentParts DEF Receiving
  <2>7. Current' = NewPart
      BY <1>1, <1>3 DEF AtFirst, Between, Current
  <2>8. /\ Sent' = Sent /\ Headers(n)' = Headers(n) /\ HeadersLeft(n, j)' = HeadersLeft(n, j)
      BY SameSent
  <2>9. Reflects(Current, n, j)'
    <3>1. Reflects(NewPart, n, j)
        BY <2>6, NothingRead DEF Receiving
    <3>. QED  BY <2>7, <2>8, <3>1 DEF Reflects
  <2>10. Listed(n - 1)'
      BY <1>3, <1>6, <2>5 DEF AtFirst, Between
  <2>11. AtHeaders(n, j)'
      BY <2>2, <2>3, <2>4, <2>5, <2>6, <2>8, <2>9, <2>10 DEF AtHeaders, Within
  <2>. QED  BY <2>8, <2>11 DEF Somewhere
<1>. QED  BY <1>7, <1>8

LEMMA NextPartArrives ==
    ASSUME Receiving, Somewhere, response' = response, NEW last \in BOOLEAN, NextPart(last)
    PROVE  Somewhere'
<1>1. /\ parser.state = "part_data_end" /\ pos <= Len(body) /\ Past(mark, last)
      /\ GoTo("header_field_start") /\ body' = body /\ parts' = parts
      /\ interm' = [interm EXCEPT !.content = <<>>]
    BY DEF NextPart, At, ReadingBody
<1>2. Onward
    BY <1>1, StepOn
<1>3. PICK n \in 1 .. Len(Sent) : AtNext(n)
    BY <1>1, Places
<1>4. PICK j \in 0 .. Len(Headers(n)) : j = 0
    BY SentParts DEF Receiving
<1>5. Ahead' = HeadersLeft(n, j)
  <2>1. HeadersLeft(n, j) \in Text /\ LF \in Byte
      BY HeadersLeftIsText, Signs DEF Receiving
  <2>. QED  BY <1>2, <1>3, <1>4, <2>1, SignRead DEF AtNext
<1>6. NoField'
  <2>1. interm \in Interm
      BY ReadingSent DEF Reader, MultipartTypeOK
  <2>. QED  BY <1>1, <1>3, <2>1 DEF AtNext, Between, NoField, Interm
<1>7. parser'.state = "header_field_start"
    BY <1>1, GoneTo DEF ParserState
<1>8. /\ Sent' = Sent /\ Headers(n)' = Headers(n) /\ HeadersLeft(n, j)' = HeadersLeft(n, j)
      /\ (Listed(n - 1)' <=> Listed(n - 1))
    BY <1>1, SameSent, SameParts
<1>9. Current' = NewPart
    BY <1>1, <1>3 DEF AtNext, Between, Current
<1>10. Reflects(Current, n, j)'
  <2>1. Reflects(NewPart, n, j)
      BY <1>4, NothingRead DEF Receiving
  <2>. QED  BY <1>8, <1>9, <2>1 DEF Reflects
<1>11. AtHeaders(n, j)'
    BY <1>3, <1>5, <1>6, <1>7, <1>8, <1>10 DEF AtHeaders, Within, AtNext, Between
<1>. QED  BY <1>8, <1>11 DEF Somewhere

LEMMA BehindPartByte ==
    ASSUME Receiving, pos <= Len(body), NEW n \in 1 .. Len(Sent), BehindPart(n)
    PROVE  /\ n = Len(Sent) => body[pos] = HY /\ (Onward => Ahead' = <<HY>>)
           /\ n # Len(Sent) =>
                /\ n + 1 \in 1 .. Len(Sent) /\ body[pos] = CR
                /\ Onward => Ahead' = <<LF>> \o HeadersLeft(n + 1, 0)
<1>1. CASE n = Len(Sent)
  <2>1. PICK hyphen \in Text : hyphen = <<HY>> /\ <<HY, HY>> = <<HY>> \o hyphen
      BY Signs
  <2>2. Ahead = <<HY>> \o hyphen
      BY <1>1, <2>1, BodySteps DEF BehindPart, Receiving
  <2>3. HY \in Byte
      BY Signs
  <2>4. body[pos] = HY
      BY <2>2, <2>3, SignAhead
  <2>5. Onward => Ahead' = hyphen
      BY <2>2, <2>3, SignRead
  <2>. QED  BY <1>1, <2>1, <2>4, <2>5
<1>2. CASE n # Len(Sent)
  <2>1. PICK m \in 1 .. Len(Sent) : m = n + 1 /\ m - 1 = n
      BY <1>2, WithinNumbers
  <2>2. BodyFrom(Sent, response.boundary)[m - 1] = EOL \o HeadersLeft(m, 0)
      BY PartAhead DEF Receiving
  <2>3. Ahead = EOL \o HeadersLeft(m, 0)
      BY <2>1, <2>2 DEF BehindPart
  <2>4. 0 \in 0 .. Len(Headers(m))
      BY SentParts DEF Receiving
  <2>5. HeadersLeft(m, 0) \in Text
      BY <2>4, HeadersLeftIsText DEF Receiving
  <2>6. body[pos] = CR /\ (Onward => Ahead' = <<LF>> \o HeadersLeft(m, 0))
      BY <2>3, <2>5, LineEndRead
  <2>. QED  BY <1>2, <2>1, <2>6
<1>. QED  BY <1>1, <1>2

LEMMA AfterBoundaryArrives ==
    ASSUME Receiving, Somewhere, response' = response, NEW last \in BOOLEAN, AfterBoundary(last)
    PROVE  Somewhere'
<1>1. /\ parser.state = "part_data_almost_end" /\ pos <= Len(body) /\ Past(mark, last)
      /\ \/ body[pos] = HY /\ GoTo("part_data_final_hyphen")
         \/ body[pos] = CR /\ GoTo("part_data_end")
      /\ body' = body /\ parts' = parts /\ interm' = interm
    BY DEF AfterBoundary, At, ReadingBody
<1>2. Onward
    BY <1>1, StepOn
<1>3. PICK n \in 1 .. Len(Sent) : BehindPart(n)
    BY <1>1, Places
<1>4. Sent' = Sent /\ \A i : Listed(i)' <=> Listed(i)
    BY <1>1, SameSent, SameParts
<1>5. CR # HY
    BY DEF CR, HY
<1>6. CASE n = Len(Sent)
  <2>1. body[pos] = HY /\ Ahead' = <<HY>>
      BY <1>1, <1>2, <1>3, <1>6, BehindPartByte
  <2>2. parser'.state = "part_data_final_hyphen"
      BY <1>1, <1>5, <2>1, GoneTo DEF ParserState
  <2>3. AtHyphen'
      BY <1>1, <1>3, <1>4, <1>6, <2>1, <2>2 DEF AtHyphen, BehindPart, Between, NoField
  <2>. QED  BY <2>3 DEF Somewhere
<1>7. CASE n # Len(Sent)
  <2>1. PICK m \in 1 .. Len(Sent) : m = n + 1 /\ m - 1 = n
      BY <1>7, WithinNumbers
  <2>2. body[pos] = CR /\ Ahead' = <<LF>> \o HeadersLeft(m, 0)
      BY <1>1, <1>2, <1>3, <1>7, <2>1, BehindPartByte
  <2>3. parser'.state = "part_data_end"
      BY <1>1, <1>5, <2>2, GoneTo DEF ParserState
  <2>4. HeadersLeft(m, 0)' = HeadersLeft(m, 0)
      BY SameSent
  <2>5. Listed(m - 1)'
      BY <1>3, <1>4, <2>1 DEF BehindPart, Between
  <2>6. AtNext(m)'
      BY <1>1, <1>3, <1>4, <2>2, <2>3, <2>4, <2>5 DEF AtNext, BehindPart, Between, NoField
  <2>. QED  BY <1>4, <2>6 DEF Somewhere
<1>. QED  BY <1>6, <1>7

LEMMA HyphenByte ==
    ASSUME Receiving, pos <= Len(body), AtHyphen
    PROVE  body[pos] = HY /\ (Onward => Ahead' = <<>>)
<1>1. PICK none \in Text : none = <<>>
    BY Signs
<1>2. Ahead = <<HY>> \o none /\ HY \in Byte
    BY <1>1, Signs, EmptyAdded DEF AtHyphen
<1>. QED  BY <1>1, <1>2, SignAhead, SignRead

LEMMA FinalHyphenArrives ==
    ASSUME Receiving, Somewhere, response' = response, NEW last \in BOOLEAN, FinalHyphen(last)
    PROVE  Somewhere'
<1>1. /\ parser.state = "part_data_final_hyphen" /\ pos <= Len(body) /\ Past(mark, last)
      /\ GoTo("end") /\ body' = body /\ parts' = parts /\ interm' = interm
    BY DEF FinalHyphen, At, ReadingBody
<1>2. Onward
    BY <1>1, StepOn
<1>3. AtHyphen
    BY <1>1, Places
<1>4. Ahead' = <<>>
    BY <1>1, <1>2, <1>3, HyphenByte
<1>5. parser'.state = "end"
    BY <1>1, GoneTo DEF ParserState
<1>6. Sent' = Sent /\ \A i : Listed(i)' <=> Listed(i)
    BY <1>1, SameSent, SameParts
<1>7. AtEnd'
    BY <1>1, <1>3, <1>4, <1>5, <1>6 DEF AtEnd, AtHyphen, Between, NoField
<1>. QED  BY <1>7 DEF Somewhere

LEMMA SomethingAhead ==
    ASSUME Receiving, pos <= Len(body)
    PROVE  Ahead # <<>>
<1>1. PICK one \in Text, more \in Text : Ahead = one \o more /\ Len(one) = 1
    BY ReadingSent, OneText
<1>2. Len(one \o more) = Len(one) + Len(more) /\ Len(more) \in Nat
    BY Joined DEF Text
<1>3. Len(<<>>) = 0
    OBVIOUS
<1>. QED  BY <1>1, <1>2, <1>3

LEMMA NoEpilogue ==
    ASSUME Receiving, Somewhere, NEW last \in BOOLEAN, Epilogue(last)
    PROVE  FALSE
<1>1. parser.state = "end" /\ pos <= Len(body)
    BY DEF Epilogue, At, ReadingBody
<1>. QED  BY <1>1, Places, SomethingAhead DEF AtEnd

\* A framed response has no byte the parser does not expect.
LEMMA NothingRefused ==
    ASSUME Receiving, Somewhere
    PROVE  ~Unexpected
<1>1. CASE At({"start_boundary"}) /\ body[pos] # FirstLine[parser.index + 1]
    BY <1>1, Places, FirstLineStands DEF At, ReadingBody
<1>2. CASE InName /\ body[pos] \notin Letter \cup {HY, COLON, CR}
  <2>1. pos <= Len(body)
      BY <1>2 DEF InName, At, ReadingBody
  <2>2. ASSUME NEW n \in Nat, BlankPlace(n) PROVE FALSE
    <3>1. Data(n) \o NextLeft(n) \in Text /\ Ahead = EOL \o (Data(n) \o NextLeft(n))
        BY <2>2, BlankAhead DEF BlankPlace, Receiving
    <3>2. body[pos] = CR
        BY <2>1, <3>1, LineEndRead
    <3>. QED  BY <1>2, <3>2
  <2>3. ASSUME NEW n \in Nat, NEW j \in Nat, NEW k \in Nat, NamePlace(n, j, k) PROVE FALSE
      BY <1>2, <2>1, <2>3, NamePlaceByte
  <2>. QED  BY <1>2, <2>2, <2>3, NameCases
<1>3. CASE At({"headers_almost_done", "header_value_almost_done", "part_data_end"})
             /\ body[pos] # LF
  <2>1. pos <= Len(body)
      BY <1>3 DEF At, ReadingBody
  <2>2. ASSUME NEW rest \in Text, Ahead = <<LF>> \o rest PROVE FALSE
      BY <1>3, <2>1, <2>2, SignAhead, Signs
  <2>3. CASE parser.state = "headers_almost_done"
    <3>1. PICK n \in 1 .. Len(Sent) : AtBlank(n)
        BY <2>3, Places
    <3>. QED  BY <2>2, <3>1, BlankAhead DEF AtBlank, Receiving
  <2>4. CASE parser.state = "header_value_almost_done"
    <3>1. PICK n \in 1 .. Len(Sent) : \E j \in 0 .. Len(Headers(n)) : AtLineEnd(n, j)
        BY <2>4, Places
    <3>. QED  BY <2>2, <3>1, HeadersLeftIsText DEF AtLineEnd, Receiving
  <2>5. CASE parser.state = "part_data_end"
    <3>1. PICK n \in 1 .. Len(Sent) : AtNext(n)
        BY <2>5, Places
    <3>2. 0 \in 0 .. Len(Headers(n))
        BY SentParts DEF Receiving
    <3>. QED  BY <2>2, <3>1, <3>2, HeadersLeftIsText DEF AtNext, Receiving
  <2>. QED  BY <1>3, <2>3, <2>4, <2>5 DEF At
<1>4. CASE At({"part_data_almost_end"}) /\ body[pos] \notin {HY, CR}
    BY <1>4, Places, BehindPartByte DEF At, ReadingBody
<1>5. CASE At({"part_data_final_hyphen"}) /\ body[pos] # HY
    BY <1>5, Places, HyphenByte DEF At, ReadingBody
<1>. QED  BY <1>1, <1>2, <1>3, <1>4, <1>5 DEF Unexpected

-----------------------------------------------------------------------------
(***************************************************************************)
(* Contents.                                                               *)
(***************************************************************************)
LEMMA InsideArrives ==
    ASSUME Receiving, Somewhere, response' = response, NEW last \in BOOLEAN, InsideSteps(last)
    PROVE  Somewhere'
<1>1. Reader /\ NothingLost
    BY ReadingSent DEF Receiving, Inv, Reading
<1>2. Inside
    BY <1>1, InsideReader
<1>3. NothingLost' /\ Len(Gathered)' = Len(Received) + 1
    BY <1>1, <1>2, InsideKeepsBytes
<1>4. pos' = pos + 1 /\ parts' = parts /\ InContent'
    BY <1>2 DEF Inside
<1>5. interm'.hfld = interm.hfld /\ interm'.hval = interm.hval
  <2>1. interm \in Interm
      BY <1>1 DEF Reader, MultipartTypeOK
  <2>2. CASE FirstDataByte(last) \/ DataByte(last) \/ NoBoundary(last)
    <3>1. PICK content, unfinished :
            interm' = [interm EXCEPT !.content = content, !.unfinished = unfinished]
        BY <2>2 DEF FirstDataByte, DataByte, NoBoundary, Content
    <3>. QED  BY <2>1, <3>1 DEF Interm
  <2>3. CASE AlmostBoundary(last) \/ BoundaryByte(last)
      BY <2>3 DEF AlmostBoundary, BoundaryByte
  <2>. QED  BY <2>2, <2>3 DEF InsideSteps
<1>6. Len(Received) \in Nat /\ pos \in Nat
  <2>1. Received \in Text
      BY <1>2 DEF Inside
  <2>. QED  BY <2>1, ReadingSent DEF Text
<1>7. Beginning' = pos - Len(Received)
  <2>1. Beginning' = pos' - Len(Gathered)'
      BY DEF Beginning
  <2>. QED  BY <1>3, <1>4, <1>6, <2>1
<1>8. PICK n \in 1 .. Len(Sent) :
        /\ Within(n, Len(Headers(n))) /\ NoField
        /\ Behind(SentText, pos - Len(Received) - 1) = Data(n) \o NextLeft(n)
  <2>1. CASE InContent
    <3>1. PICK n \in 1 .. Len(Sent) : InData(n)
        BY <2>1, Places DEF InContent, ContentState
    <3>2. Beginning = pos - Len(Received)
        BY <2>1 DEF Received, Beginning
    <3>. QED  BY <3>1, <3>2 DEF InData
  <2>2. CASE ~InContent
    <3>1. parser.state = "part_data_start"
        BY <1>2, <2>2 DEF Inside
    <3>2. PICK n \in 1 .. Len(Sent) : AtData(n)
        BY <3>1, Places
    <3>3. Len(Received) = 0
        BY <2>2 DEF Received
    <3>4. pos - Len(Received) - 1 = pos - 1
        BY <1>6, <3>3
    <3>. QED  BY <3>2, <3>4 DEF AtData, Ahead
  <2>. QED  BY <2>1, <2>2
<1>9. /\ Sent' = Sent /\ SentText' = SentText /\ Data(n)' = Data(n) /\ NextLeft(n)' = NextLeft(n)
      /\ (Within(n, Len(Headers(n)))' <=> Within(n, Len(Headers(n))))
    BY <1>4, SameSent, SameWhole
<1>10. InData(n)'
    BY <1>4, <1>5, <1>7, <1>8, <1>9 DEF InData, NoField
<1>. QED  BY <1>9, <1>10 DEF Somewhere

LEMMA LimitHasNoCR ==
    ASSUME Receiving
    PROVE  /\ Unbroken
           /\ ContentEnd = EOL \o Limit /\ ContentEnd \in Text
           /\ \A i \in 2 .. Len(ContentEnd) : ContentEnd[i] # CR
<1>1. PICK hyphens \in Text, boundary \in Text :
        /\ hyphens = <<HY, HY>> /\ boundary = response.boundary
        /\ Len(hyphens) = 2 /\ \A i \in 1 .. 2 : hyphens[i] # CR
        /\ Len(boundary) \in Nat /\ \A i \in 1 .. Len(boundary) : boundary[i] # CR
  <2>1. response.boundary \in Text /\ \A i \in DOMAIN response.boundary : response.boundary[i] # CR
      BY SentFramed DEF Framable, Receiving
  <2>2. DOMAIN response.boundary = 1 .. Len(response.boundary) /\ Len(response.boundary) \in Nat
      BY <2>1 DEF Text
  <2>3. Len(<<HY, HY>>) = 2 /\ \A i \in 1 .. 2 : <<HY, HY>>[i] # CR
      BY DEF HY, CR
  <2>. QED  BY <2>1, <2>2, <2>3, Signs
<1>2. /\ parser.boundary = hyphens \o boundary
      /\ Len(parser.boundary) = 2 + Len(boundary)
  <2>1. Len(hyphens \o boundary) = Len(hyphens) + Len(boundary)
      BY Joined
  <2>2. parser.boundary = hyphens \o boundary
      BY <1>1, LimitIsText DEF Receiving
  <2>. QED  BY <1>1, <2>1, <2>2
<1>3. ASSUME NEW i \in 1 .. Len(parser.boundary) PROVE parser.boundary[i] # CR
  <2>1. CASE i \in 1 .. 2
      BY <1>1, <1>2, <2>1, JoinedBytes
  <2>2. CASE i \notin 1 .. 2
    <3>1. PICK m \in Nat, n \in Nat, k \in Int :
            m = Len(parser.boundary) /\ n = Len(boundary) /\ k = i - 2 /\ m = 2 + n
        BY <1>1, <1>2
    <3>2. k \in 1 .. n /\ i = 2 + k
        BY <2>2, <3>1
    <3>3. k \in 1 .. Len(boundary) /\ i = Len(hyphens) + k
        BY <1>1, <3>1, <3>2
    <3>. QED  BY <1>1, <1>2, <3>3, JoinedBytes
  <2>. QED  BY <2>1, <2>2
<1>4. ContentEnd = EOL \o Limit /\ ContentEnd \in Text
  <2>1. Limit \in Text /\ parser.boundary = Limit
      BY LimitIsText DEF Receiving
  <2>. QED  BY <2>1, Signs, Joined DEF ContentEnd, EOL
<1>5. ASSUME NEW i \in 2 .. Len(ContentEnd) PROVE ContentEnd[i] # CR
  <2>1. /\ Len(ContentEnd) = Len(parser.boundary) + 2 /\ Len(parser.boundary) \in Nat
        /\ ContentEnd[2] = LF
        /\ \A k \in 1 .. Len(parser.boundary) : ContentEnd[k + 2] = parser.boundary[k]
      BY ReadingSent, EndBytes DEF Receiving
  <2>2. CASE i = 2
      BY <2>1, <2>2 DEF CR, LF
  <2>3. CASE i # 2
    <3>1. PICK k \in 1 .. Len(parser.boundary) : i = k + 2
        BY <2>1, <2>3
    <3>. QED  BY <1>3, <2>1, <3>1
  <2>. QED  BY <2>2, <2>3
<1>. QED  BY <1>3, <1>4, <1>5 DEF Unbroken

Stepped(text, k, a, b) ==
    /\ k + Len(a) \in 0 .. Len(text) /\ Behind(text, k + Len(a)) = b
    /\ \A i \in 1 .. Len(a) : text[k + i] = a[i]

LEMMA Stepping ==
    ASSUME NEW text \in Text, NEW k \in 0 .. Len(text), NEW a \in Text, NEW b \in Text,
           Behind(text, k) = a \o b
    PROVE  Stepped(text, k, a, b)
BY Passed DEF Stepped

\* Where a content ends in the text the server sent.
Stands(n, from, to) ==
    /\ from \in Nat /\ from > 1 /\ to \in Nat /\ to = from + Len(Data(n)) /\ from <= to
    /\ \A i \in 1 .. Len(Data(n)) : SentText[from + i - 1] = Data(n)[i]
    /\ \A i \in 1 .. Len(ContentEnd) : SentText[to + i - 1] = ContentEnd[i]
    /\ to + Len(ContentEnd) - 1 <= Len(SentText)
    /\ Behind(SentText, to + Len(ContentEnd) - 1) = BodyFrom(Sent, response.boundary)[n]

LEMMA DataStands ==
    ASSUME Receiving, NEW n \in 1 .. Len(Sent), InData(n)
    PROVE  \E to : Stands(n, Beginning, to)
<1>1. NothingLost /\ Reader
    BY ReadingSent DEF Receiving, Inv, Reading
<1>2. /\ Beginning \in Nat /\ Beginning > 1 /\ Beginning <= Len(SentText) + 1
      /\ Len(SentText) \in Nat /\ SentText \in Text
  <2>1. /\ Beginning \in Nat /\ Beginning > 1 /\ Ending \in Nat
        /\ Beginning <= Ending + 1 /\ Ending < pos
      BY <1>1, GatheredStands DEF InData
  <2>2. pos - 1 \in 0 .. Len(SentText) /\ pos \in Nat
      BY ReadingSent
  <2>3. Len(SentText) \in Nat /\ SentText \in Text
      BY SentTextIsText DEF Receiving
  <2>. QED  BY <2>1, <2>2, <2>3
<1>3. PICK start \in 0 .. Len(SentText) : start = Beginning - 1 /\ Beginning = start + 1
    BY <1>2
<1>4. PICK data \in Text, end \in Text, rest \in Text :
        /\ data = Data(n) /\ end = ContentEnd /\ rest = BodyFrom(Sent, response.boundary)[n]
        /\ NextLeft(n) = end \o rest /\ Len(data) \in Nat /\ Len(end) \in Nat
  <2>1. PICK eol \in Text, limit \in Text, rest \in Text :
          eol = EOL /\ limit = Limit /\ rest = BodyFrom(Sent, response.boundary)[n]
    <3>1. n \in 0 .. Len(Sent)
        BY SentFramed DEF Receiving
    <3>. QED  BY <3>1, Signs, LimitIsText, BodySteps DEF Receiving
  <2>2. PICK end \in Text : end = ContentEnd /\ end = eol \o limit
      BY <2>1, LimitHasNoCR
  <2>3. NextLeft(n) = end \o rest
    <3>1. Grouped(eol, limit, rest)
        BY Grouping
    <3>. QED  BY <2>1, <2>2, <3>1 DEF NextLeft, Grouped
  <2>4. PICK data \in Text : data = Data(n)
      BY SentParts DEF Receiving
  <2>5. Len(data) \in Nat /\ Len(end) \in Nat
      BY DEF Text
  <2>. QED  BY <2>1, <2>2, <2>3, <2>4, <2>5
<1>5. Behind(SentText, start) = data \o (end \o rest)
    BY <1>3, <1>4 DEF InData
<1>6. PICK more \in Text : more = end \o rest
    BY Joined
<1>7. /\ start + Len(data) \in 0 .. Len(SentText)
      /\ Behind(SentText, start + Len(data)) = more
      /\ \A i \in 1 .. Len(data) : SentText[start + i] = data[i]
  <2>1. Behind(SentText, start) = data \o more /\ SentText \in Text
      BY <1>2, <1>5, <1>6
  <2>2. Stepped(SentText, start, data, more)
      BY <2>1, Stepping
  <2>. QED  BY <2>2 DEF Stepped
<1>8. PICK mid \in 0 .. Len(SentText) : mid = start + Len(data)
    BY <1>7
<1>9. /\ mid + Len(end) \in 0 .. Len(SentText)
      /\ Behind(SentText, mid + Len(end)) = rest
      /\ \A i \in 1 .. Len(end) : SentText[mid + i] = end[i]
  <2>1. Behind(SentText, mid) = end \o rest /\ SentText \in Text
      BY <1>2, <1>6, <1>7, <1>8
  <2>2. Stepped(SentText, mid, end, rest)
      BY <2>1, Stepping
  <2>. QED  BY <2>2 DEF Stepped
<1>10. PICK to \in Nat : to = mid + 1
    BY <1>2
<1>11. \A i \in 1 .. Len(data) : SentText[Beginning + i - 1] = data[i]
  <2>1. \A i \in 1 .. Len(data) : Beginning + i - 1 = start + i
      BY <1>2, <1>3, <1>4
  <2>. QED  BY <1>7, <2>1
<1>12. \A i \in 1 .. Len(end) : SentText[to + i - 1] = end[i]
  <2>1. \A i \in 1 .. Len(end) : to + i - 1 = mid + i
      BY <1>2, <1>4, <1>10
  <2>. QED  BY <1>9, <2>1
<1>13. to = Beginning + Len(data) /\ to + Len(end) - 1 = mid + Len(end) /\ Beginning <= to
    BY <1>2, <1>3, <1>4, <1>8, <1>10
<1>14. Stands(n, Beginning, to)
  <2>1. \A i \in 1 .. Len(Data(n)) : SentText[Beginning + i - 1] = Data(n)[i]
      BY <1>4, <1>11
  <2>2. \A i \in 1 .. Len(ContentEnd) : SentText[to + i - 1] = ContentEnd[i]
      BY <1>4, <1>12
  <2>3. /\ to + Len(ContentEnd) - 1 <= Len(SentText)
        /\ Behind(SentText, to + Len(ContentEnd) - 1) = BodyFrom(Sent, response.boundary)[n]
    <3>1. PICK e \in 0 .. Len(SentText) : e = mid + Len(end) /\ Behind(SentText, e) = rest
        BY <1>9
    <3>2. to + Len(ContentEnd) - 1 = e
        BY <1>4, <1>13, <3>1
    <3>3. e <= Len(SentText)
        BY <1>2
    <3>4. to + Len(ContentEnd) - 1 <= Len(SentText)
        BY <3>2, <3>3
    <3>5. Behind(SentText, to + Len(ContentEnd) - 1) = Behind(SentText, e)
        BY <3>2
    <3>6. Behind(SentText, e) = BodyFrom(Sent, response.boundary)[n]
        BY <1>4, <3>1
    <3>. QED  BY <3>4, <3>5, <3>6
  <2>. QED  BY <1>2, <1>4, <1>13, <2>1, <2>2, <2>3 DEF Stands
<1>. QED  BY <1>14

\* What is gathered of a content is the beginning of it.
LEMMA ContentBegins ==
    ASSUME Receiving, NEW n \in 1 .. Len(Sent), InData(n), NEW to, Stands(n, Beginning, to)
    PROVE  /\ Ending \in Nat /\ Beginning <= Ending + 1 /\ Ending + 1 <= to
           /\ Ending + 1 = Beginning + Len(interm.content)
           /\ Len(interm.content) \in Nat /\ Len(interm.content) <= Len(Data(n))
           /\ interm.content = SubSeq(Data(n), 1, Len(interm.content))
<1>1. Reader /\ NothingLost /\ OneCandidate /\ InContent /\ parser # Null
    BY ReadingSent DEF Receiving, Inv, Reading, InData
<1>2. /\ pos \in Nat /\ Len(interm.content) \in Nat
      /\ Beginning \in Nat /\ Ending \in Nat /\ Beginning <= Ending + 1 /\ Ending < pos
      /\ interm.content = SubSeq(body, Beginning, Ending)
      /\ parser.state # "part_data" => Ending + Len(LookBehind) + 1 = pos
    BY <1>1, GatheredStands
<1>3. /\ pos <= Len(body) + 1 /\ Len(body) \in Nat /\ Len(ContentEnd) \in Nat
      /\ \A i \in 1 .. Len(body) : body[i] = SentText[i]
    BY <1>1, BodyNumbers, BodyOfSent DEF Receiving
<1>4. Ending + 1 = Beginning + Len(interm.content)
    BY <1>2 DEF Ending
<1>5. to \in Nat /\ Beginning <= to /\ to = Beginning + Len(Data(n)) /\ Len(Data(n)) \in Nat
    BY SentParts DEF Stands, Receiving
<1>6. Ending + 1 <= to
  <2>1. SUFFICES ASSUME to <= Ending PROVE FALSE
      BY <1>2, <1>5
  <2>2. to \in Beginning .. (pos - 1)
      BY <1>2, <1>5, <2>1
  <2>3. ASSUME NEW i \in 1 .. Len(ContentEnd), to + i - 1 < pos
        PROVE  body[to + i - 1] = ContentEnd[i]
    <3>1. to + i - 1 \in 1 .. Len(body)
        BY <1>2, <1>3, <1>5, <2>3 DEF Stands
    <3>. QED  BY <1>3, <3>1 DEF Stands
  <2>4. to = pos - Len(LookBehind)
      BY <1>1, <2>2, <2>3, LimitHasNoCR DEF OneCandidate
  <2>5. CASE parser.state = "part_data"
    <3>1. Len(LookBehind) = 0
        BY <1>1, <2>5, LookBehindLength
    <3>. QED  BY <1>2, <1>5, <2>1, <2>4, <3>1
  <2>6. CASE parser.state # "part_data"
    <3>1. Len(LookBehind) \in Nat
        BY <1>1, LookBehindIsText DEF Text
    <3>. QED  BY <1>2, <1>5, <2>1, <2>4, <2>6, <3>1
  <2>. QED  BY <2>5, <2>6
<1>7. Len(interm.content) <= Len(Data(n))
    BY <1>2, <1>4, <1>5, <1>6
<1>8. interm.content = SubSeq(Data(n), 1, Len(interm.content))
  <2>1. PICK data \in Text, content \in Text, first \in Text, length \in Nat :
          /\ data = Data(n) /\ content = interm.content /\ length = Len(content)
          /\ first = SubSeq(data, 1, length) /\ Len(first) = length
          /\ \A i \in 1 .. length : first[i] = data[i]
    <3>1. Data(n) \in Text /\ interm.content \in Text
        BY <1>1, SentParts DEF Receiving, Reader, MultipartTypeOK, Interm
    <3>2. PICK data \in Text, length \in Nat :
            data = Data(n) /\ length = Len(interm.content) /\ length <= Len(data)
        BY <1>2, <1>7, <3>1
    <3>3. /\ SubSeq(data, 1, length) \in Text
          /\ Len(SubSeq(data, 1, length)) = IF 1 <= length THEN length - 1 + 1 ELSE 0
          /\ \A i \in 1 .. (length - 1 + 1) : SubSeq(data, 1, length)[i] = data[1 + i - 1]
        BY <3>2, Slice
    <3>4. Len(SubSeq(data, 1, length)) = length
        BY <3>2, <3>3
    <3>5. \A i \in 1 .. length : SubSeq(data, 1, length)[i] = data[i]
        BY <3>2, <3>3
    <3>. QED  BY <3>1, <3>2, <3>3, <3>4, <3>5
  <2>2. ASSUME NEW i \in 1 .. length PROVE content[i] = first[i]
    <3>1. content[i] = body[Beginning + i - 1]
      <4>1. PICK m \in Nat \ {0}, e \in Nat : m = Beginning /\ e = Ending /\ e <= Len(body)
          BY <1>2, <1>3 DEF Stands
      <4>2. \A k \in 1 .. (e - m + 1) : SubSeq(body, m, e)[k] = body[m + k - 1]
          BY <1>1, <4>1, Slice DEF Reader, MultipartTypeOK
      <4>3. i \in 1 .. (e - m + 1)
          BY <1>2, <1>4, <2>1, <4>1
      <4>. QED  BY <1>2, <2>1, <4>1, <4>2, <4>3
    <3>2. Beginning + i - 1 \in 1 .. Len(body)
        BY <1>2, <1>3, <1>4, <2>1 DEF Stands
    <3>3. i \in 1 .. Len(Data(n))
        BY <1>5, <1>7, <2>1
    <3>. QED  BY <1>3, <2>1, <3>1, <3>2, <3>3 DEF Stands
  <2>. QED  BY <2>1, <2>2, SameText
<1>. QED  BY <1>2, <1>4, <1>6, <1>7, <1>8

\* The delimiter found is the one the server put behind the content.
LEMMA WholeContent ==
    ASSUME Receiving, NEW n \in 1 .. Len(Sent), InData(n), NEW to, Stands(n, Beginning, to),
           Delimits(Ending + 1)
    PROVE  Ending + 1 = to /\ interm.content = Data(n)
<1>1. /\ Ending \in Nat /\ Beginning <= Ending + 1 /\ Ending + 1 <= to
      /\ Ending + 1 = Beginning + Len(interm.content)
      /\ Len(interm.content) \in Nat /\ Len(interm.content) <= Len(Data(n))
      /\ interm.content = SubSeq(Data(n), 1, Len(interm.content))
    BY ContentBegins
<1>2. /\ Beginning \in Nat /\ Beginning > 1 /\ to \in Nat /\ to = Beginning + Len(Data(n))
    BY DEF Stands
<1>3. PICK data \in Text, end \in Text, length \in Nat, last \in Nat :
        /\ data = Data(n) /\ end = ContentEnd /\ length = Len(data)
        /\ Len(end) = last + 1 /\ last >= 1 /\ end[1] = CR
        /\ \A i \in 2 .. Len(end) : end[i] # CR
  <2>1. Data(n) \in Text /\ Len(Data(n)) \in Nat
      BY SentParts DEF Receiving
  <2>2. PICK end \in Text : end = ContentEnd /\ \A i \in 2 .. Len(end) : end[i] # CR
      BY LimitHasNoCR
  <2>3. /\ Len(end) = Len(parser.boundary) + 2 /\ Len(parser.boundary) \in Nat /\ end[1] = CR
      BY <2>2, ReadingSent, EndBytes DEF Receiving
  <2>4. PICK last \in Nat : last = Len(parser.boundary) + 1
      BY <2>3
  <2>5. Len(end) = last + 1 /\ last >= 1
      BY <2>3, <2>4
  <2>. QED  BY <2>1, <2>2, <2>3, <2>5
<1>4. ASSUME Ending + 1 < to PROVE FALSE
  <2>1. PICK k \in 1 .. length : k = Ending + 2 - Beginning /\ Beginning + k - 1 = Ending + 1
      BY <1>1, <1>2, <1>3, <1>4
  <2>2. /\ Ending + 1 + last <= Len(body) /\ Len(body) \in Nat
        /\ \A i \in 1 .. (last + 1) : body[Ending + i] = end[i]
    <3>1. Ending + 1 + (last + 1) - 1 <= Len(body) /\ Len(body) \in Nat
        BY <1>3, ReadingSent, BodyNumbers DEF Delimits
    <3>2. \A i \in 1 .. (last + 1) : body[Ending + 1 + i - 1] = end[i]
        BY <1>3 DEF Delimits
    <3>3. \A i \in 1 .. (last + 1) : Ending + 1 + i - 1 = Ending + i
        BY <1>1
    <3>. QED  BY <1>1, <1>3, <3>1, <3>2, <3>3
  <2>3. ASSUME NEW i \in 1 .. (last + 1) PROVE SentText[Ending + i] = end[i]
    <3>1. Ending + i \in 1 .. Len(body)
        BY <1>1, <1>3, <2>2
    <3>. QED  BY <2>2, <3>1, BodyOfSent DEF Receiving
  <2>4. CASE k + last <= length
    <3>1. /\ SubSeq(data, k, k + last) \in Text /\ Len(SubSeq(data, k, k + last)) = last + 1
          /\ \A i \in 1 .. (last + 1) : SubSeq(data, k, k + last)[i] = data[k + i - 1]
      <4>1. PICK m \in Nat \ {0}, e \in Nat : m = k /\ e = k + last /\ e <= Len(data)
          BY <1>3, <2>4
      <4>2. /\ SubSeq(data, m, e) \in Text
            /\ Len(SubSeq(data, m, e)) = IF m <= e THEN e - m + 1 ELSE 0
            /\ \A i \in 1 .. (e - m + 1) : SubSeq(data, m, e)[i] = data[m + i - 1]
          BY <4>1, Slice
      <4>3. m <= e /\ e - m + 1 = last + 1
          BY <1>3, <4>1
      <4>. QED  BY <4>1, <4>2, <4>3
    <3>2. ASSUME NEW i \in 1 .. (last + 1) PROVE data[k + i - 1] = end[i]
      <4>1. PICK j \in 1 .. length : j = k + i - 1
          BY <1>3, <2>1, <2>4
      <4>2. SentText[Beginning + j - 1] = data[j]
          BY <1>3 DEF Stands
      <4>3. Beginning + j - 1 = Ending + i
          BY <1>1, <1>2, <2>1, <4>1
      <4>. QED  BY <2>3, <4>1, <4>2, <4>3
    <3>3. SubSeq(data, k, k + last) = end
      <4>1. PICK part \in Text : part = SubSeq(data, k, k + last)
          BY <3>1
      <4>2. Len(part) = Len(end) /\ \A i \in 1 .. Len(part) : part[i] = end[i]
          BY <1>3, <3>1, <3>2, <4>1
      <4>. QED  BY <4>1, <4>2, SameText
    <3>4. SubSeq(data, k, k + last) # end
      <4>1. Framable(Sent, response.boundary) /\ n \in DOMAIN Sent
          BY SentFramed DEF Receiving
      <4>2. EOL \o Delimiter(response.boundary) = end
          BY <1>3, LimitHasNoCR DEF Limit
      <4>3. Len(end) - 1 = last /\ Sent[n].data = data /\ k \in DOMAIN data
          BY <1>3 DEF Data, Text
      <4>. QED  BY <2>4, <1>3, <4>1, <4>2, <4>3 DEF Framable
    <3>. QED  BY <3>3, <3>4
  <2>5. CASE ~(k + last <= length)
    <3>1. PICK i \in 2 .. (last + 1) : Ending + i = to
        BY <1>1, <1>2, <1>3, <1>4, <2>1, <2>5
    <3>2. SentText[to] = end[i] /\ end[i] # CR
        BY <1>3, <2>3, <3>1
    <3>3. SentText[to] = CR
      <4>1. 1 \in 1 .. Len(ContentEnd) /\ to + 1 - 1 = to
          BY <1>2, <1>3
      <4>2. SentText[to + 1 - 1] = ContentEnd[1]
          BY <4>1 DEF Stands
      <4>. QED  BY <1>3, <4>1, <4>2
    <3>. QED  BY <3>2, <3>3
  <2>. QED  BY <2>4, <2>5
<1>5. Ending + 1 = to
    BY <1>1, <1>2, <1>4
<1>6. Len(interm.content) = Len(Data(n))
    BY <1>1, <1>2, <1>3, <1>5
<1>7. SubSeq(Data(n), 1, Len(Data(n))) = Data(n)
    BY <1>3, SubSeqFull DEF Text
<1>. QED  BY <1>1, <1>5, <1>6, <1>7

\* What the reader kept of the headers is what they are worth.
LEMMA HeadersWorth ==
    ASSUME Sending, NEW n \in 1 .. Len(Sent), NEW part \in Part,
           Reflects(part, n, Len(Headers(n))), NEW f \in Field
    PROVE  Kept(part, f) = Worth(Sent[n], f)
<1>1. PICK values : values = Values(Sent[n], f)
    OBVIOUS
<1>2. values \subseteq 1 .. Len(Headers(n)) /\ Len(Headers(n)) \in Nat
    BY <1>1, SentParts DEF Values, Headers
<1>3. /\ \A i \in values : (\A k \in values : k = i) =>
            part[f] = Headers(n)[i].value /\ f \notin part.invalid
      /\ \A i, k \in values : i < k => f \in part.invalid
      /\ values = {} => part[f] = Null
    BY <1>1, <1>2 DEF Reflects
<1>4. CASE values = {}
    BY <1>1, <1>3, <1>4 DEF Kept, Worth
<1>5. ASSUME NEW i \in values, \A k \in values : k = i
      PROVE  Kept(part, f) = Worth(Sent[n], f)
  <2>1. values = {i}
      BY <1>5
  <2>2. part[f] = Headers(n)[i].value /\ f \notin part.invalid
      BY <1>3, <1>5
  <2>3. (CHOOSE k \in values : TRUE) = i
      BY <2>1
  <2>4. Worth(Sent[n], f) = Sent[n].headers[i].value
      BY <1>1, <2>1, <2>3 DEF Worth
  <2>. QED  BY <2>2, <2>4 DEF Kept, Headers
<1>6. ASSUME NEW i \in values, NEW k \in values, i # k
      PROVE  Kept(part, f) = Worth(Sent[n], f)
  <2>1. i < k \/ k < i
      BY <1>2, <1>6
  <2>2. f \in part.invalid
      BY <1>3, <2>1
  <2>3. ~\E l \in values : values = {l}
      BY <1>6
  <2>. QED  BY <1>1, <2>2, <2>3 DEF Kept, Worth
<1>. QED  BY <1>4, <1>5, <1>6

LEMMA PartMeant ==
    ASSUME Sending, NEW n \in 1 .. Len(Sent), NEW part \in Part,
           Reflects(part, n, Len(Headers(n)))
    PROVE  /\ Plain(Normalised(part, Data(n))) = Meant(Sent[n])
           /\ Normalised(part, Data(n)).id = Worth(Sent[n], "id")
<1>1. \A f \in Field : Kept(part, f) = Worth(Sent[n], f)
    BY HeadersWorth
<1>. QED  BY <1>1 DEF Normalised, Plain, Meant, Field, Data

-----------------------------------------------------------------------------
(***************************************************************************)
(* The list of parts.                                                      *)
(***************************************************************************)
UpToPart(n) == {k \in Identified(Sent) : k <= n}

LEMMA IdentifiedParts ==
    ASSUME Sending
    PROVE  /\ Identified(Sent) \subseteq 1 .. Len(Sent) /\ Len(Sent) \in Nat
           /\ \A n : IsFiniteSet(UpToPart(n)) /\ Rank(Sent, n) = Cardinality(UpToPart(n))
           /\ \A n : Rank(Sent, n) \in Nat
<1>1. Identified(Sent) \subseteq 1 .. Len(Sent) /\ Len(Sent) \in Nat
    BY SentFramed DEF Identified
<1>2. IsFiniteSet(1 .. Len(Sent))
    BY <1>1, FS_Interval
<1>3. ASSUME NEW n
      PROVE  /\ IsFiniteSet(UpToPart(n)) /\ Rank(Sent, n) = Cardinality(UpToPart(n))
             /\ Rank(Sent, n) \in Nat
  <2>1. UpToPart(n) \in SUBSET (1 .. Len(Sent))
      BY <1>1 DEF UpToPart
  <2>2. IsFiniteSet(UpToPart(n))
      BY <1>2, <2>1, FS_Subset
  <2>3. Rank(Sent, n) = Cardinality(UpToPart(n))
      BY DEF Rank, UpToPart
  <2>. QED  BY <2>2, <2>3, FS_CardinalityType
<1>. QED  BY <1>1, <1>3

LEMMA RankSteps ==
    ASSUME Sending, NEW n \in 1 .. Len(Sent)
    PROVE  /\ n \in Identified(Sent) => Rank(Sent, n) = Rank(Sent, n - 1) + 1
           /\ n \notin Identified(Sent) => Rank(Sent, n) = Rank(Sent, n - 1)
           /\ Rank(Sent, 0) = 0
<1>1. Identified(Sent) \subseteq 1 .. Len(Sent) /\ Len(Sent) \in Nat
    BY IdentifiedParts
<1>2. UpToPart(0) = {}
    BY <1>1 DEF UpToPart
<1>3. n \notin UpToPart(n - 1)
    BY <1>1 DEF UpToPart
<1>4. ASSUME n \in Identified(Sent) PROVE UpToPart(n) = UpToPart(n - 1) \cup {n}
    BY <1>1, <1>4 DEF UpToPart
<1>5. ASSUME n \notin Identified(Sent) PROVE UpToPart(n) = UpToPart(n - 1)
    BY <1>1, <1>5 DEF UpToPart
<1>6. ASSUME n \in Identified(Sent) PROVE Rank(Sent, n) = Rank(Sent, n - 1) + 1
  <2>1. PICK before : before = UpToPart(n - 1) /\ IsFiniteSet(before)
      BY IdentifiedParts
  <2>2. Cardinality(before \cup {n}) = Cardinality(before) + 1
      BY <1>3, <2>1, FS_AddElement
  <2>. QED  BY <1>4, <1>6, <2>1, <2>2, IdentifiedParts
<1>7. ASSUME n \notin Identified(Sent) PROVE Rank(Sent, n) = Rank(Sent, n - 1)
    BY <1>5, <1>7, IdentifiedParts
<1>8. Rank(Sent, 0) = 0
    BY <1>2, IdentifiedParts, FS_EmptySet
<1>. QED  BY <1>6, <1>7, <1>8

LEMMA EarliestFound ==
    ASSUME NEW T \in SUBSET Nat, T # {}
    PROVE  Earliest(T) \in T /\ \A k \in T : Earliest(T) <= k
BY Least DEF Earliest

LEMMA RootsGrow ==
    ASSUME Sending, NEW n \in 1 .. Len(Sent)
    PROVE  /\ Roots(n) \in SUBSET Nat /\ Roots(n - 1) \in SUBSET Nat
           /\ \A m \in Roots(n - 1) : m <= n - 1 /\ m \in Identified(Sent)
           /\ n \in Identified(Sent) /\ Worth(Sent[n], "id") = response.root =>
                Roots(n) = Roots(n - 1) \cup {n}
           /\ ~(n \in Identified(Sent) /\ Worth(Sent[n], "id") = response.root) =>
                Roots(n) = Roots(n - 1)
<1>1. Identified(Sent) \subseteq 1 .. Len(Sent) /\ Len(Sent) \in Nat
    BY IdentifiedParts
<1>2. \A m \in Identified(Sent) : m \in Nat /\ (m <= n <=> m <= n - 1 \/ m = n)
    BY <1>1
<1>. QED  BY <1>1, <1>2 DEF Roots

\* The root does not move when another part comes behind it.
LEMMA FirstRootStays ==
    ASSUME Sending, NEW n \in 1 .. Len(Sent), Roots(n - 1) # {}
    PROVE  Roots(n) # {} /\ Earliest(Roots(n)) = Earliest(Roots(n - 1))
<1>1. /\ Roots(n) \in SUBSET Nat /\ Roots(n - 1) \in SUBSET Nat
      /\ \A m \in Roots(n - 1) : m <= n - 1
      /\ Roots(n) \subseteq Roots(n - 1) \cup {n} /\ Roots(n - 1) \subseteq Roots(n)
    BY RootsGrow
<1>2. PICK x \in Nat : /\ x = Earliest(Roots(n - 1)) /\ x \in Roots(n - 1)
                       /\ \A k \in Roots(n - 1) : x <= k
    BY <1>1, EarliestFound
<1>3. PICK y \in Nat : /\ y = Earliest(Roots(n)) /\ y \in Roots(n)
                       /\ \A k \in Roots(n) : y <= k
    BY <1>1, EarliestFound
<1>4. y <= x /\ x <= n - 1 /\ n \in Nat
    BY <1>1, <1>2, <1>3
<1>5. y \in Roots(n - 1)
    BY <1>1, <1>3, <1>4
<1>6. x <= y
    BY <1>2, <1>5
<1>. QED  BY <1>1, <1>2, <1>3, <1>4, <1>6

LEMMA PartNotListed ==
    ASSUME Sending, NEW n \in 1 .. Len(Sent), n \notin Identified(Sent), Listed(n - 1),
           response' = response, parts'.list = parts.list, parts'.root = parts.root
    PROVE  Listed(n)'
<1>1. Rank(Sent, n) = Rank(Sent, n - 1) /\ Roots(n) = Roots(n - 1)
    BY RankSteps, RootsGrow
<1>2. \A m \in Identified(Sent) : m <= n <=> m <= n - 1
  <2>1. Identified(Sent) \subseteq 1 .. Len(Sent)
      BY IdentifiedParts
  <2>. QED  BY <2>1
<1>3. Listed(n)
    BY <1>1, <1>2 DEF Listed
<1>. QED  BY <1>3, SameList

LEMMA PartListed ==
    ASSUME Sending, NEW n \in 1 .. Len(Sent), n \in Identified(Sent), Listed(n - 1),
           response' = response, parts \in Parts, NEW part \in Part,
           Plain(part) = Meant(Sent[n]), part.id = Worth(Sent[n], "id"),
           parts'.list = Append(parts.list, part),
           parts'.root = IF parts.root = 0 /\ part.id = response.root
                         THEN Len(parts'.list) ELSE parts.root
    PROVE  Listed(n)'
<1>1. /\ Len(parts.list) \in Nat /\ Len(parts'.list) = Len(parts.list) + 1
      /\ \A i \in 1 .. Len(parts.list) : parts'.list[i] = parts.list[i]
      /\ parts'.list[Len(parts.list) + 1] = part
  <2>1. parts.list \in Seq(Part)
      BY DEF Parts
  <2>. QED  BY <2>1, AppendProperties
<1>2. PICK rank \in Nat : /\ rank = Len(parts.list) /\ rank = Rank(Sent, n - 1)
                          /\ Rank(Sent, n) = rank + 1
  <2>1. Rank(Sent, n - 1) = Len(parts.list)
      BY DEF Listed
  <2>. QED  BY <1>1, <2>1, RankSteps
<1>3. \A m \in Identified(Sent) : m <= n <=> m <= n - 1 \/ m = n
  <2>1. Identified(Sent) \subseteq 1 .. Len(Sent)
      BY IdentifiedParts
  <2>. QED  BY <2>1
<1>4. \A m \in Identified(Sent) : m <= n - 1 =>
          Rank(Sent, m) \in 1 .. rank /\ Plain(parts.list[Rank(Sent, m)]) = Meant(Sent[m])
    BY <1>2 DEF Listed
<1>5. ASSUME NEW m \in Identified(Sent), m <= n
      PROVE  /\ Rank(Sent, m) \in 1 .. Len(parts'.list)
             /\ Plain(parts'.list[Rank(Sent, m)]) = Meant(Sent[m])
  <2>1. CASE m <= n - 1
    <3>1. PICK i \in 1 .. rank : i = Rank(Sent, m) /\ Plain(parts.list[i]) = Meant(Sent[m])
        BY <1>4, <2>1
    <3>2. parts'.list[i] = parts.list[i] /\ i \in 1 .. Len(parts'.list)
        BY <1>1, <1>2
    <3>. QED  BY <3>1, <3>2
  <2>2. CASE m = n
    <3>1. Rank(Sent, m) = rank + 1 /\ rank + 1 \in 1 .. Len(parts'.list)
        BY <1>1, <1>2, <2>2
    <3>. QED  BY <1>1, <1>2, <2>2, <3>1
  <2>. QED  BY <1>3, <1>5, <2>1, <2>2
<1>6. ASSUME NEW i \in 1 .. Len(parts'.list)
      PROVE  \E m \in Identified(Sent) : m <= n /\ Plain(parts'.list[i]) = Meant(Sent[m])
  <2>1. CASE i \in 1 .. Len(parts.list)
    <3>1. PICK m \in Identified(Sent) : m <= n - 1 /\ Plain(parts.list[i]) = Meant(Sent[m])
        BY <2>1 DEF Listed
    <3>. QED  BY <1>1, <1>3, <2>1, <3>1
  <2>2. CASE i = Len(parts.list) + 1
      BY <1>1, <1>3, <2>2
  <2>. QED  BY <1>1, <2>1, <2>2
<1>7. parts'.root = IF Roots(n) = {} THEN 0 ELSE Rank(Sent, Earliest(Roots(n)))
  <2>1. parts.root = IF Roots(n - 1) = {} THEN 0 ELSE Rank(Sent, Earliest(Roots(n - 1)))
      BY DEF Listed
  <2>2. CASE Roots(n - 1) # {}
    <3>1. Earliest(Roots(n - 1)) \in Roots(n - 1)
        BY <2>2, RootsGrow, EarliestFound
    <3>2. Rank(Sent, Earliest(Roots(n - 1))) \in 1 .. rank
        BY <1>4, <3>1, RootsGrow
    <3>3. parts.root # 0
        BY <2>1, <2>2, <3>2
    <3>. QED  BY <2>1, <2>2, <3>3, FirstRootStays
  <2>3. CASE Roots(n - 1) = {} /\ part.id = response.root
    <3>1. Roots(n) = {n}
        BY <2>3, RootsGrow
    <3>2. Earliest({n}) = n
        BY DEF Earliest
    <3>3. parts'.root = rank + 1
        BY <1>1, <1>2, <2>1, <2>3
    <3>. QED  BY <1>2, <3>1, <3>2, <3>3
  <2>4. CASE Roots(n - 1) = {} /\ part.id # response.root
    <3>1. Roots(n) = {}
        BY <2>4, RootsGrow
    <3>. QED  BY <2>1, <2>4, <3>1
  <2>. QED  BY <2>2, <2>3, <2>4
<1>8. Sent' = Sent /\ Roots(n)' = Roots(n)
    BY SameSent DEF Roots
<1>9. Len(parts'.list) = Rank(Sent, n)
    BY <1>1, <1>2
<1>. QED  BY <1>5, <1>6, <1>7, <1>8, <1>9 DEF Listed

LEMMA ContentPut ==
    ASSUME parts \in Parts, NEW content, NEW part, part = Normalised(Current, content),
           NEW new, new = WithContent(content)
    PROVE  /\ new.processed = Null
           /\ part.id \in {Null, <<>>} => new.list = parts.list /\ new.root = parts.root
           /\ part.id \notin {Null, <<>>} =>
                /\ new.list = Append(parts.list, part)
                /\ new.root = IF parts.root = 0 /\ part.id = parts.expected
                              THEN Len(new.list) ELSE parts.root
<1>1. CASE part.id \in {Null, <<>>}
  <2>1. new = [parts EXCEPT !.processed = Null]
      BY <1>1 DEF WithContent
  <2>. QED  BY <1>1, <2>1 DEF Parts
<1>2. CASE part.id \notin {Null, <<>>}
  <2>1. PICK list, root :
          /\ list = Append(parts.list, part)
          /\ root = IF parts.root = 0 /\ part.id = parts.expected THEN Len(list) ELSE parts.root
          /\ new = [parts EXCEPT !.processed = Null, !.list = list, !.root = root]
      BY <1>2 DEF WithContent, Parts
  <2>2. new.processed = Null /\ new.list = list /\ new.root = root
      BY <2>1 DEF Parts
  <2>. QED  BY <1>2, <2>1, <2>2
<1>. QED  BY <1>1, <1>2

LEMMA BoundaryEndArrives ==
    ASSUME Receiving, Somewhere, response' = response, NEW last \in BOOLEAN, BoundaryEnd(last)
    PROVE  Somewhere'
<1>1. /\ parser # Null /\ parser.state = "part_data_boundary" /\ pos <= Len(body)
      /\ parser.index + 1 = Len(parser.boundary)
      /\ body[pos] = parser.boundary[parser.index + 1]
      /\ Past(mark, last) /\ body' = body
      /\ parser' = [parser EXCEPT !.state = "part_data_almost_end", !.index = @ + 1]
      /\ PartRead
    BY DEF BoundaryEnd, At, ReadingBody
<1>2. Onward
    BY <1>1, StepOn
<1>3. PICK n \in 1 .. Len(Sent) : InData(n)
    BY <1>1, Places DEF ContentState
<1>4. PICK to : Stands(n, Beginning, to)
    BY <1>3, DataStands
<1>5. Delimits(Ending + 1) /\ Ending + Len(ContentEnd) = pos
    BY <1>1, <1>3, ReadingSent, DelimiterRead DEF Receiving, Inv, Reading, InData
<1>6. Ending + 1 = to /\ interm.content = Data(n)
    BY <1>3, <1>4, <1>5, WholeContent
<1>7. Ahead' = BodyFrom(Sent, response.boundary)[n]
  <2>1. Ending \in Nat /\ to \in Nat /\ Len(ContentEnd) \in Nat /\ pos \in Nat
    <3>1. Ending \in Nat
        BY <1>3, <1>4, ContentBegins
    <3>2. Len(ContentEnd) \in Nat
        BY <1>1, ReadingSent, BodyNumbers
    <3>. QED  BY <1>4, <3>1, <3>2, ReadingSent DEF Stands
  <2>2. to + Len(ContentEnd) - 1 = pos
      BY <1>5, <1>6, <2>1
  <2>3. pos' - 1 = pos
      BY <1>2, <2>1 DEF Onward
  <2>4. Ahead' = Behind(SentText, pos)
      BY <2>3, SameSent DEF Ahead
  <2>. QED  BY <1>4, <2>2, <2>4 DEF Stands
<1>8. parts \in Parts /\ interm \in Interm /\ parser \in Parser
    BY <1>1, ReadingSent, ParserKnown DEF Reader, MultipartTypeOK
<1>9. PICK part \in Part : part = Normalised(Current, Data(n))
    BY <1>8, CurrentIsPart, NormalisedIsPart, SentParts DEF Receiving
<1>10. /\ parts'.processed = Null
       /\ part.id \in {Null, <<>>} => parts'.list = parts.list /\ parts'.root = parts.root
       /\ part.id \notin {Null, <<>>} =>
            /\ parts'.list = Append(parts.list, part)
            /\ parts'.root = IF parts.root = 0 /\ part.id = response.root
                             THEN Len(parts'.list) ELSE parts.root
  <2>1. PICK new : new = WithContent(Data(n)) /\ parts' = new
      BY <1>1, <1>6 DEF PartRead
  <2>. QED  BY <1>8, <1>9, <2>1, ContentPut DEF Receiving
<1>11. Plain(part) = Meant(Sent[n]) /\ part.id = Worth(Sent[n], "id")
  <2>1. Current \in Part /\ Reflects(Current, n, Len(Headers(n)))
      BY <1>3, <1>8, CurrentIsPart DEF InData, Within
  <2>. QED  BY <1>9, <2>1, PartMeant DEF Receiving
<1>12. n \in Identified(Sent) <=> part.id \notin {Null, <<>>}
    BY <1>11, SentFramed DEF Identified, Receiving
<1>13. Listed(n)'
  <2>1. Sending /\ Listed(n - 1)
      BY <1>3 DEF InData, Within, Receiving
  <2>2. CASE n \in Identified(Sent)
      BY <1>8, <1>10, <1>11, <1>12, <2>1, <2>2, PartListed
  <2>3. CASE n \notin Identified(Sent)
      BY <1>10, <1>12, <2>1, <2>3, PartNotListed
  <2>. QED  BY <2>2, <2>3
<1>14. NoField'
  <2>1. interm' = [interm EXCEPT !.content = <<>>, !.unfinished = FALSE]
      BY <1>1 DEF PartRead
  <2>. QED  BY <1>3, <1>8, <2>1 DEF InData, NoField, Interm
<1>15. parser'.state = "part_data_almost_end"
    BY <1>1, <1>8 DEF Parser
<1>16. Sent' = Sent /\ BodyFrom(Sent, response.boundary)' = BodyFrom(Sent, response.boundary)
    BY SameSent
<1>17. BehindPart(n)'
    BY <1>7, <1>10, <1>13, <1>14, <1>15, <1>16 DEF BehindPart, Between
<1>. QED  BY <1>16, <1>17 DEF Somewhere

\* Wherever the reader is, the next byte brings it on.
LEMMA ReadBodyArrives ==
    ASSUME Receiving, Somewhere, response' = response, ReadBody
    PROVE  Somewhere'
<1>1. ~Refuse
    BY NothingRefused DEF Refuse
<1>2. PICK last \in BOOLEAN : Accept(last)
    BY <1>1 DEF ReadBody
<1>3. CASE FirstBoundary(last)
    BY <1>3, FirstBoundaryArrives
<1>4. CASE NameByte(last)
    BY <1>4, NameByteArrives
<1>5. CASE NameEnd(last)
    BY <1>5, NameEndArrives
<1>6. CASE HeadersEnd(last) \/ HeadersDone(last)
    BY <1>6, HeadersEndArrives
<1>7. CASE ValueSpace(last)
    BY <1>7, ValueSpaceArrives
<1>8. CASE ValueByte(last)
    BY <1>8, ValueByteArrives
<1>9. CASE ValueEnd(last)
    BY <1>9, ValueEndArrives
<1>10. CASE HeaderDone(last)
    BY <1>10, HeaderDoneArrives
<1>11. CASE InsideSteps(last)
    BY <1>11, InsideArrives
<1>12. CASE BoundaryEnd(last)
    BY <1>12, BoundaryEndArrives
<1>13. CASE AfterBoundary(last)
    BY <1>13, AfterBoundaryArrives
<1>14. CASE NextPart(last)
    BY <1>14, NextPartArrives
<1>15. CASE FinalHyphen(last)
    BY <1>15, FinalHyphenArrives
<1>16. CASE Epilogue(last)
    BY <1>16, NoEpilogue
<1>. QED  BY <1>2, <1>3, <1>4, <1>5, <1>6, <1>7, <1>8, <1>9, <1>10, <1>11, <1>12, <1>13,
             <1>14, <1>15, <1>16
          DEF Accept, InsideSteps

-----------------------------------------------------------------------------
(***************************************************************************)
(* What is listed while the response is read, and when it is read.         *)
(***************************************************************************)
\* A part that was sent, or the beginning of one.
Began(part, n) ==
    /\ part.id = Worth(Sent[n], "id")
    /\ Len(part.data) <= Len(Data(n))
    /\ part.data = SubSeq(Data(n), 1, Len(part.data))

LEMMA SomePlace ==
    ASSUME Receiving, Somewhere
    PROVE  \E n \in 0 .. Len(Sent) : Listed(n)
<1>1. Len(Sent) \in Nat \ {0}
    BY SentFramed DEF Receiving
<1>2. \A n \in 1 .. Len(Sent) : n \in 0 .. Len(Sent) /\ n - 1 \in 0 .. Len(Sent)
    BY <1>1
<1>3. CASE AtFirst \/ AtHyphen \/ AtEnd
    BY <1>1, <1>3 DEF AtFirst, AtHyphen, AtEnd, Between
<1>4. CASE \E n \in 1 .. Len(Sent) :
             AtBlank(n) \/ AtData(n) \/ InData(n) \/ BehindPart(n) \/ AtNext(n)
    BY <1>2, <1>4 DEF AtBlank, AtData, InData, BehindPart, AtNext, Between, Within
<1>5. CASE \E n \in 1 .. Len(Sent) : \E j \in 0 .. Len(Headers(n)) :
             \/ AtHeaders(n, j) \/ AtValue(n, j) \/ AtLineEnd(n, j)
             \/ \E k \in Nat : InNameOf(n, j, k) \/ InValueOf(n, j, k)
  <2>1. PICK n \in 1 .. Len(Sent) : \E j : Within(n, j)
      BY <1>5 DEF AtHeaders, AtValue, AtLineEnd, InNameOf, InValueOf
  <2>. QED  BY <1>2, <2>1 DEF Within
<1>. QED  BY <1>3, <1>4, <1>5 DEF Somewhere

LEMMA ListedBegan ==
    ASSUME Receiving, Somewhere, NEW i \in 1 .. Len(parts.list)
    PROVE  \E n \in 1 .. Len(Sent) : Began(parts.list[i], n)
<1>1. PICK n \in 1 .. Len(Sent) : Plain(parts.list[i]) = Meant(Sent[n])
  <2>1. Identified(Sent) \subseteq 1 .. Len(Sent)
      BY IdentifiedParts DEF Receiving
  <2>. QED  BY <2>1, SomePlace DEF Listed
<1>2. parts.list[i].id = Worth(Sent[n], "id") /\ parts.list[i].data = Data(n)
    BY <1>1 DEF Plain, Meant, Data
<1>3. PICK data \in Text : data = Data(n) /\ Len(data) \in Nat
    BY SentParts DEF Receiving
<1>4. SubSeq(data, 1, Len(data)) = data
    BY SubSeqFull DEF Text
<1>. QED  BY <1>2, <1>3, <1>4 DEF Began

LEMMA BeganMeans ==
    ASSUME Sending, \A i \in 1 .. Len(parts.list) :
                      \E n \in 1 .. Len(Sent) : Began(parts.list[i], n),
           parts \in Parts
    PROVE  NothingInvented
<1>1. DOMAIN parts.list = 1 .. Len(parts.list)
    BY LenProperties DEF Parts
<1>2. DOMAIN Sent = 1 .. Len(Sent)
    BY SentFramed
<1>. QED  BY <1>1, <1>2 DEF NothingInvented, Began, Data, Sent

LEMMA SomewhereInvented ==
    ASSUME Receiving, Somewhere
    PROVE  NothingInvented
<1>1. parts \in Parts /\ Sending
    BY ReadingSent DEF Receiving, Reader, MultipartTypeOK
<1>. QED  BY <1>1, ListedBegan, BeganMeans

\* A content the body breaks off in makes a part as well.
LEMMA BrokenOff ==
    ASSUME Receiving, Somewhere, response' = response, PartRead, interm.unfinished
    PROVE  NothingInvented'
<1>1. Reader /\ parts \in Parts /\ interm \in Interm
    BY ReadingSent DEF Reader, MultipartTypeOK
<1>2. InContent
    BY <1>1 DEF Reader, InFront
<1>3. PICK n \in 1 .. Len(Sent) : InData(n)
    BY <1>2, Places DEF InContent, ContentState
<1>4. PICK content \in Text :
        /\ content = interm.content /\ Len(content) <= Len(Data(n))
        /\ content = SubSeq(Data(n), 1, Len(content))
    BY <1>1, <1>3, DataStands, ContentBegins DEF Interm
<1>5. PICK part \in Part : part = Normalised(Current, content) /\ part.data = content
    BY <1>1, CurrentIsPart, NormalisedIsPart
<1>6. /\ \/ parts'.list = parts.list
         \/ parts'.list = Append(parts.list, part)
  <2>1. PICK new : new = WithContent(content) /\ parts' = new
      BY <1>4 DEF PartRead
  <2>. QED  BY <1>1, <1>5, <2>1, ContentPut
<1>7. part.id = Worth(Sent[n], "id")
  <2>1. Current \in Part /\ Reflects(Current, n, Len(Headers(n)))
      BY <1>1, <1>3, CurrentIsPart DEF InData, Within
  <2>2. Kept(Current, "id") = Worth(Sent[n], "id")
      BY <2>1, HeadersWorth DEF Receiving, Field
  <2>. QED  BY <1>5, <2>2 DEF Normalised
<1>8. Began(part, n)
    BY <1>4, <1>5, <1>7 DEF Began
<1>9. ASSUME NEW i \in 1 .. Len(parts'.list)
      PROVE  \E m \in 1 .. Len(Sent) : Began(parts'.list[i], m)
  <2>1. CASE parts'.list = parts.list
      BY <1>9, <2>1, ListedBegan
  <2>2. CASE parts'.list = Append(parts.list, part)
    <3>1. /\ parts.list \in Seq(Part) /\ Len(parts.list) \in Nat
          /\ Len(parts'.list) = Len(parts.list) + 1
          /\ \A k \in 1 .. Len(parts.list) : parts'.list[k] = parts.list[k]
          /\ parts'.list[Len(parts.list) + 1] = part
      <4>1. parts.list \in Seq(Part)
          BY <1>1 DEF Parts
      <4>. QED  BY <2>2, <4>1, AppendProperties
    <3>2. CASE i \in 1 .. Len(parts.list)
        BY <3>1, <3>2, ListedBegan
    <3>3. CASE i = Len(parts.list) + 1
        BY <1>8, <3>1, <3>3
    <3>. QED  BY <3>1, <3>2, <3>3
  <2>. QED  BY <1>6, <2>1, <2>2
<1>10. DOMAIN parts'.list = 1 .. Len(parts'.list)
  <2>1. parts' \in Parts
      BY <1>1, PartReadTypes
  <2>. QED  BY <2>1, LenProperties DEF Parts
<1>11. DOMAIN Sent = 1 .. Len(Sent) /\ Sent' = Sent
    BY SentFramed, SameSent DEF Receiving
<1>. QED  BY <1>9, <1>10, <1>11 DEF NothingInvented, Began, Data, Sent

LEMMA EmptyEnds ==
    ASSUME NEW a \in Text, NEW b \in Text
    PROVE  a \o b = <<>> => a = <<>> /\ b = <<>>
<1>1. Len(a) \in Nat /\ Len(b) \in Nat /\ Len(a \o b) = Len(a) + Len(b)
    BY Joined DEF Text
<1>2. Len(<<>>) = 0
    OBVIOUS
<1>3. a \o b = <<>> => Len(a) = 0 /\ Len(b) = 0
    BY <1>1, <1>2
<1>. QED  BY <1>3, EmptySeq DEF Text

\* Something is left to be read in front of the end.
LEMMA SomethingLeft ==
    ASSUME Sending, NEW n \in 1 .. Len(Sent)
    PROVE  /\ NextLeft(n) # <<>> /\ Data(n) \o NextLeft(n) # <<>>
           /\ BodyFrom(Sent, response.boundary)[n] # <<>>
           /\ \A j \in 0 .. Len(Headers(n)) : HeadersLeft(n, j) # <<>>
           /\ \A j \in 1 .. Len(Headers(n)) : ValueLeft(n, j) # <<>> /\ ColonLeft(n, j) # <<>>
           /\ \A rest \in Text : EOL \o rest # <<>> /\ <<LF>> \o rest # <<>> /\ <<SP>> \o rest # <<>>
<1>1. EOL \in Text /\ EOL # <<>>
    BY Signs DEF EOL
<1>2. \A rest \in Text : EOL \o rest # <<>> /\ <<LF>> \o rest # <<>> /\ <<SP>> \o rest # <<>>
  <2>1. TAKE rest \in Text
  <2>2. PICK lf \in Text, sp \in Text : lf = <<LF>> /\ sp = <<SP>> /\ lf # <<>> /\ sp # <<>>
      BY Signs
  <2>. QED  BY <1>1, <2>2, EmptyEnds
<1>3. n \in 0 .. Len(Sent)
    BY SentFramed
<1>4. NextLeft(n) # <<>> /\ NextLeft(n) \in Text
    BY <1>2, <1>3, NextLeftIsText DEF NextLeft
<1>5. Data(n) \o NextLeft(n) # <<>>
    BY <1>4, SentParts, EmptyEnds
<1>6. ASSUME NEW j \in 0 .. Len(Headers(n)) PROVE HeadersLeft(n, j) # <<>>
    BY <1>4, PartSteps, EmptyEnds DEF HeadersLeft
<1>7. ASSUME NEW j \in 1 .. Len(Headers(n)) PROVE ValueLeft(n, j) # <<>> /\ ColonLeft(n, j) # <<>>
  <2>1. PICK value \in Text, left \in Text, row \in Text, all \in Text, colon \in Text :
          /\ value = Headers(n)[j].value /\ left = HeadersLeft(n, j) /\ row = EOL \o left
          /\ all = ValueLeft(n, j) /\ colon = <<COLON, SP>>
      BY SentHeaders, HeaderIsText, Signs
  <2>2. row # <<>> /\ all = value \o row
      BY <1>2, <2>1 DEF ValueLeft
  <2>3. all # <<>>
      BY <2>2, EmptyEnds
  <2>4. colon \o all # <<>>
      BY <2>3, EmptyEnds
  <2>. QED  BY <2>1, <2>3, <2>4 DEF ColonLeft
<1>8. BodyFrom(Sent, response.boundary)[n] # <<>>
  <2>1. CASE n = Len(Sent)
    <3>1. <<HY, HY>> # <<>>
        OBVIOUS
    <3>2. BodyFrom(Sent, response.boundary)[Len(Sent)] = <<HY, HY>>
        BY BodySteps
    <3>. QED  BY <2>1, <3>1, <3>2
  <2>2. CASE n # Len(Sent)
    <3>1. PICK m \in 1 .. Len(Sent) : m = n + 1 /\ m - 1 = n
      <4>1. Len(Sent) \in Nat
          BY SentFramed
      <4>. QED  BY <2>2, <4>1
    <3>2. 0 \in 0 .. Len(Headers(m))
        BY SentParts
    <3>3. HeadersLeft(m, 0) \in Text
        BY <3>2, HeadersLeftIsText
    <3>4. BodyFrom(Sent, response.boundary)[m - 1] = EOL \o HeadersLeft(m, 0)
        BY PartAhead
    <3>5. EOL \o HeadersLeft(m, 0) # <<>>
        BY <1>2, <3>3
    <3>. QED  BY <3>1, <3>4, <3>5
  <2>. QED  BY <2>1, <2>2
<1>. QED  BY <1>2, <1>4, <1>5, <1>6, <1>7, <1>8

\* The delimiter behind a content would have been found.
LEMMA NoContentLeft ==
    ASSUME Receiving, pos > Len(body), response.whole, NEW n \in 1 .. Len(Sent), InData(n)
    PROVE  FALSE
<1>1. Reader /\ NothingLost /\ OneCandidate /\ InContent /\ parser # Null
    BY ReadingSent DEF Receiving, Inv, Reading, InData
<1>2. /\ pos \in Nat /\ Len(body) \in Nat /\ pos = Len(body) + 1 /\ Len(body) = Len(SentText)
      /\ \A i \in 1 .. Len(body) : body[i] = SentText[i]
      /\ Len(ContentEnd) = Len(parser.boundary) + 2 /\ Len(parser.boundary) \in Nat
    BY <1>1, BodyNumbers, BodyOfSent, EndBytes DEF Receiving
<1>3. PICK to : Stands(n, Beginning, to)
    BY DataStands
<1>4. /\ to \in Nat /\ Beginning \in Nat /\ Beginning <= to /\ to > 1
      /\ to + Len(ContentEnd) <= pos
  <2>1. PICK length \in Nat, all \in Nat :
          length = Len(ContentEnd) /\ all = Len(SentText) /\ pos = all + 1
      BY <1>2
  <2>2. to \in Nat /\ Beginning \in Nat /\ Beginning <= to /\ to > 1 /\ to + length - 1 <= all
      BY <1>3, <2>1 DEF Stands
  <2>. QED  BY <2>1, <2>2
<1>5. to \in Beginning .. (pos - 1)
    BY <1>2, <1>4
<1>6. ASSUME NEW i \in 1 .. Len(ContentEnd) PROVE body[to + i - 1] = ContentEnd[i]
  <2>1. to + i - 1 \in 1 .. Len(body)
      BY <1>2, <1>4
  <2>. QED  BY <1>2, <1>3, <2>1 DEF Stands
<1>7. to = pos - Len(LookBehind)
    BY <1>1, <1>5, <1>6, LimitHasNoCR DEF OneCandidate
<1>8. Len(LookBehind) \in Nat /\ Len(LookBehind) < Len(ContentEnd)
  <2>1. parser.index \in Nat
      BY <1>1, ParserKnown
  <2>2. parser.state \in {"part_data", "part_data_almost_boundary", "part_data_boundary"}
      BY <1>1 DEF InContent
  <2>3. /\ parser.state = "part_data" => Len(LookBehind) = 0
        /\ parser.state = "part_data_almost_boundary" => Len(LookBehind) = 1
        /\ parser.state = "part_data_boundary" =>
             Len(LookBehind) = parser.index + 2 /\ parser.index < Len(parser.boundary)
      BY <1>1, LookBehindLength
  <2>4. PICK held : held = Len(LookBehind)
      OBVIOUS
  <2>5. held \in Nat /\ held < Len(parser.boundary) + 2
      BY <1>2, <2>1, <2>2, <2>3, <2>4
  <2>. QED  BY <1>2, <2>4, <2>5
<1>9. PICK place \in Nat, from \in Nat, held \in Nat, length \in Nat :
        place = pos /\ from = to /\ held = Len(LookBehind) /\ length = Len(ContentEnd)
  <2>1. Len(ContentEnd) \in Nat
      BY <1>2
  <2>. QED  BY <1>2, <1>4, <1>8, <2>1
<1>10. from = place - held
    BY <1>7, <1>9
<1>11. held < length /\ from + length <= place
    BY <1>4, <1>8, <1>9
<1>. QED  BY <1>10, <1>11

\* When a whole response is read, so is its last part.
LEMMA ReadToEnd ==
    ASSUME Receiving, Somewhere, pos > Len(body), response.whole
    PROVE  AtEnd
<1>1. /\ pos \in Nat /\ Len(body) \in Nat /\ pos = Len(body) + 1 /\ Len(body) = Len(SentText)
      /\ SentText \in Text /\ Reader /\ parser # Null /\ Sending
    BY ReadingSent, BodyNumbers, BodyOfSent DEF Receiving
<1>2. Ahead = <<>>
  <2>1. pos - 1 = Len(SentText)
      BY <1>1
  <2>. QED  BY <1>1, <2>1, BehindNothing DEF Ahead
<1>3. ~AtFirst
  <2>1. SUFFICES ASSUME AtFirst PROVE FALSE
      OBVIOUS
  <2>2. parser.index \in Nat /\ parser.index <= Len(Limit) + 1 /\ Len(Limit) \in Nat
      BY <1>1, ParserKnown DEF Receiving
  <2>3. PICK first \in Text, rest \in Text :
          SentText = first \o rest /\ Len(first) = Len(Limit) + 2
    <3>1. Limit \in Text /\ EOL \in Text /\ Len(EOL) = 2
        BY LimitIsText, Signs DEF Receiving, EOL
    <3>2. Limit \o EOL \in Text /\ Len(Limit \o EOL) = Len(Limit) + 2
        BY <3>1, Joined
    <3>3. 1 \in 1 .. Len(Sent)
        BY <1>1, SentFramed
    <3>4. 0 \in 0 .. Len(Headers(1))
        BY <1>1, <3>3, SentParts
    <3>5. HeadersLeft(1, 0) \in Text
        BY <1>1, <3>3, <3>4, HeadersLeftIsText
    <3>. QED  BY <1>1, <3>2, <3>5, SentTextIsText
  <2>4. Len(first \o rest) = Len(first) + Len(rest) /\ Len(rest) \in Nat
      BY Joined DEF Text
  <2>. QED  BY <1>1, <2>1, <2>2, <2>3, <2>4 DEF AtFirst
<1>4. ~AtHyphen
    BY <1>2 DEF AtHyphen
<1>5. ASSUME NEW n \in 1 .. Len(Sent)
      PROVE  ~(AtBlank(n) \/ AtData(n) \/ InData(n) \/ BehindPart(n) \/ AtNext(n))
  <2>1. Data(n) \o NextLeft(n) \in Text
      BY <1>1, BlankAhead
  <2>2. HeadersLeft(n, 0) \in Text
    <3>1. 0 \in 0 .. Len(Headers(n))
        BY <1>1, SentParts
    <3>. QED  BY <1>1, <3>1, HeadersLeftIsText
  <2>3. ~AtBlank(n) /\ ~AtNext(n)
      BY <1>1, <1>2, <2>1, <2>2, SomethingLeft DEF AtBlank, AtNext
  <2>4. ~AtData(n) /\ ~BehindPart(n)
      BY <1>1, <1>2, SomethingLeft DEF AtData, BehindPart
  <2>. QED  BY <2>3, <2>4, NoContentLeft
<1>6. ASSUME NEW n \in 1 .. Len(Sent), NEW j \in 0 .. Len(Headers(n))
      PROVE  ~(AtHeaders(n, j) \/ AtValue(n, j) \/ AtLineEnd(n, j))
  <2>1. ~AtHeaders(n, j)
      BY <1>1, <1>2, SomethingLeft DEF AtHeaders
  <2>2. ~AtValue(n, j)
    <3>1. SUFFICES ASSUME j \in 1 .. Len(Headers(n)) PROVE ~AtValue(n, j)
        BY DEF AtValue
    <3>2. ValueLeft(n, j) \in Text /\ ValueLeft(n, j) # <<>> /\ <<SP>> \o ValueLeft(n, j) # <<>>
        BY <1>1, <3>1, HeaderIsText, SomethingLeft
    <3>. QED  BY <1>2, <3>2 DEF AtValue
  <2>3. ~AtLineEnd(n, j)
    <3>1. <<LF>> \o HeadersLeft(n, j) # <<>>
        BY <1>1, HeadersLeftIsText, SomethingLeft
    <3>. QED  BY <1>2, <3>1 DEF AtLineEnd
  <2>. QED  BY <2>1, <2>2, <2>3
<1>7. ASSUME NEW n \in 1 .. Len(Sent), NEW j \in 0 .. Len(Headers(n)), NEW k \in Nat
      PROVE  ~(InNameOf(n, j, k) \/ InValueOf(n, j, k))
  <2>1. SUFFICES ASSUME j \in 1 .. Len(Headers(n))
                 PROVE  ~(InNameOf(n, j, k) \/ InValueOf(n, j, k))
      BY DEF InNameOf, InValueOf
  <2>2. PICK name \in Text, value \in Text, colon \in Text, left \in Text :
          /\ name = Headers(n)[j].name /\ value = Headers(n)[j].value
          /\ colon = ColonLeft(n, j) /\ colon # <<>>
          /\ left = EOL \o HeadersLeft(n, j) /\ left # <<>>
    <3>1. HeadersLeft(n, j) \in Text /\ ColonLeft(n, j) # <<>>
          /\ EOL \o HeadersLeft(n, j) # <<>>
        BY <1>1, <2>1, HeaderIsText, SomethingLeft
    <3>. QED  BY <1>1, <2>1, <3>1, SentHeaders, HeaderIsText
  <2>3. ~InNameOf(n, j, k)
    <3>1. SUFFICES ASSUME k \in 0 .. Len(name), Ahead = Behind(name, k) \o colon PROVE FALSE
        BY <2>2 DEF InNameOf
    <3>2. PICK part \in Text : part = Behind(name, k)
        BY <3>1, BehindStands
    <3>3. part \o colon # <<>>
        BY <2>2, EmptyEnds
    <3>. QED  BY <1>2, <3>1, <3>2, <3>3
  <2>4. ~InValueOf(n, j, k)
    <3>1. SUFFICES ASSUME k \in 0 .. Len(value), Ahead = Behind(value, k) \o left PROVE FALSE
        BY <2>2 DEF InValueOf
    <3>2. PICK part \in Text : part = Behind(value, k)
        BY <3>1, BehindStands
    <3>3. part \o left # <<>>
        BY <2>2, EmptyEnds
    <3>. QED  BY <1>2, <3>1, <3>2, <3>3
  <2>. QED  BY <2>3, <2>4
<1>. QED  BY <1>3, <1>4, <1>5, <1>6, <1>7 DEF Somewhere

LEMMA AllListed ==
    ASSUME Sending, Listed(Len(Sent))
    PROVE  AllArrived
<1>1. Identified(Sent) \subseteq 1 .. Len(Sent) /\ Len(Sent) \in Nat
    BY IdentifiedParts
<1>2. UpToPart(Len(Sent)) = Identified(Sent)
    BY <1>1 DEF UpToPart
<1>3. Rank(Sent, Len(Sent)) = Cardinality(Identified(Sent))
    BY <1>2, IdentifiedParts
<1>4. \A m \in Identified(Sent) : m <= Len(Sent)
    BY <1>1
<1>5. Roots(Len(Sent)) = Bearing(Sent, response.root)
    BY <1>4 DEF Roots, Bearing
<1>. QED  BY <1>3, <1>4, <1>5 DEF Listed, AllArrived, Sent

-----------------------------------------------------------------------------
(***************************************************************************)
(* The steps of the download.                                              *)
(***************************************************************************)
LEMMA NothingListed ==
    ASSUME response \in Responses, response.framed, response.sent = <<>>,
           parts.list = <<>>, parts.root = 0
    PROVE  AllArrived /\ NothingInvented
<1>1. Identified(response.sent) = {} /\ DOMAIN response.sent = {}
    BY DEF Identified
<1>2. Len(parts.list) = 0 /\ Cardinality(Identified(response.sent)) = 0
    BY <1>1, FS_EmptySet
<1>3. DOMAIN parts.list = {}
    OBVIOUS
<1>4. NothingInvented
    BY <1>3 DEF NothingInvented
<1>. QED  BY <1>1, <1>2, <1>4 DEF AllArrived, Bearing

\* Of a plain response there are no parts.
LEMMA PlainParts ==
    ASSUME Inv, ~multi, response.framed, response.sent = <<>>
    PROVE  AllArrived /\ NothingInvented
<1>1. parts.list = <<>> /\ parts.root \in Nat /\ parts.root <= Len(parts.list)
      /\ response \in Responses
    BY DEF Inv, Waiting, TypeOK, MultipartTypeOK, Parts
<1>2. parts.root = 0
    BY <1>1
<1>. QED  BY <1>1, <1>2, NothingListed

LEMMA NoneListed ==
    ASSUME parts.list = <<>>
    PROVE  NothingInvented
<1>1. DOMAIN parts.list = {}
    OBVIOUS
<1>. QED  BY <1>1 DEF NothingInvented

LEMMA FramingOf ==
    ASSUME Inv
    PROVE  /\ response \in Responses /\ (response.whole => response.framed)
           /\ Framed => Announced(response) /\ Sending
           /\ response.framed /\ response.sent = <<>> =>
                \A n \in DOMAIN response.lines : ~IsMultipart(response.lines[n])
           /\ response.framed => Framed \/ response.sent = <<>>
<1>1. response \in Responses
    BY DEF Inv, TypeOK
<1>2. Framed => Announced(response) /\ Sending
    BY <1>1, SentFramed DEF Sending
<1>3. response.framed /\ response.sent = <<>> =>
        \A n \in DOMAIN response.lines : ~IsMultipart(response.lines[n])
  <2>1. SUFFICES ASSUME response.framed, response.sent = <<>>, FramedAsSent(response) PROVE FALSE
      BY <1>1, FramingAssumption
  <2>. QED  BY <2>1 DEF FramedAsSent, Framable
<1>. QED  BY <1>1, <1>2, <1>3, FramingAssumption DEF Framed

LEMMA InitArrives == Init => Arriving
<1>. SUFFICES ASSUME Init PROVE Arriving
    OBVIOUS
<1>1. phase = "headers" /\ body = response.body /\ ~multi
    BY DEF Init
<1>2. Fresh
  <2>1. /\ parts = NewParts /\ line = 0 /\ ~multi /\ parser = Null
        /\ interm.hfld = <<>> /\ interm.hval = <<>>
      BY DEF Init, NewInterm
  <2>2. [NewParts EXCEPT !.expected = Null] = NewParts
      BY DEF NewParts
  <2>. QED  BY <2>1, <2>2 DEF Fresh, NoField
<1>. QED  BY <1>1, <1>2 DEF Arriving

LEMMA HeaderLineArrives ==
    ASSUME Inv, Arriving, HeaderLine
    PROVE  Arriving'
<1>1. /\ phase = "headers" /\ line < Len(response.lines) /\ phase' = phase
      /\ line' = line + 1 /\ line \in Nat
      /\ multi' = (multi \/ StartOf(FirstValue(Line), MultipartRelated))
      /\ parts' = [parts EXCEPT !.expected = IF LineStart = <<>> THEN @ ELSE LineStart]
      /\ parser' = IF LineBoundary = <<>> THEN parser ELSE NewParser(LineBoundary)
      /\ body' = body /\ interm' = interm /\ response' = response
    BY DEF HeaderLine, Inv, TypeOK
<1>2. Framed' <=> Framed
    BY <1>1 DEF Framed
<1>3. ASSUME Framed PROVE Fresh'
  <2>1. Announced(response) /\ Fresh
      BY <1>1, <1>3, FramingOf DEF Arriving
  <2>2. line = 0 /\ line' = 1
      BY <1>1, <2>1 DEF Announced
  <2>3. Line = response.lines[1] \o <<CR, LF>>
      BY <2>2 DEF Line
  <2>4. /\ LineStart = response.root /\ LineStart # <<>>
        /\ LineBoundary = response.boundary /\ LineBoundary # <<>>
        /\ StartOf(FirstValue(Line), MultipartRelated)
      BY <2>1, <2>3 DEF Announced, LineStart, LineBoundary, IsMultipart
  <2>5. parts' = [NewParts EXCEPT !.expected = response.root]
    <3>1. parts = [NewParts EXCEPT !.expected = Null]
        BY <2>1, <2>2 DEF Fresh
    <3>2. parts' = [parts EXCEPT !.expected = response.root]
        BY <1>1, <2>4
    <3>. QED  BY <3>1, <3>2 DEF NewParts
  <2>6. multi' = TRUE /\ parser' = NewParser(response'.boundary)
      BY <1>1, <2>4
  <2>7. parts' = [NewParts EXCEPT !.expected = IF line' = 0 THEN Null ELSE response'.root]
    <3>1. (IF line' = 0 THEN Null ELSE response'.root) = response.root
        BY <1>1, <2>2
    <3>. QED  BY <2>5, <3>1
  <2>8. parser' = IF line' = 0 THEN Null ELSE NewParser(response'.boundary)
      BY <2>2, <2>6
  <2>9. NoField' /\ line' <= 1 /\ (multi' <=> line' = 1)
      BY <1>1, <2>1, <2>2, <2>6 DEF Fresh, NoField
  <2>. QED  BY <2>7, <2>8, <2>9 DEF Fresh
<1>4. ASSUME response.framed, response.sent = <<>> PROVE ~multi'
  <2>1. ~multi
      BY <1>4 DEF Arriving
  <2>2. line + 1 \in DOMAIN response.lines
    <3>1. response.lines \in Seq(Text)
        BY FramingOf, ResponsesAssumption
    <3>. QED  BY <1>1, <3>1
  <2>3. ~StartOf(FirstValue(Line), MultipartRelated)
      BY <1>4, <2>2, FramingOf DEF IsMultipart, Line
  <2>. QED  BY <1>1, <2>1, <2>3
<1>5. body' = response'.body
    BY <1>1 DEF Arriving
<1>. QED  BY <1>1, <1>2, <1>3, <1>4, <1>5 DEF Arriving

LEMMA HeadersReadArrives ==
    ASSUME Inv, Arriving, HeadersRead
    PROVE  Arriving'
<1>1. /\ phase = "headers" /\ line = Len(response.lines) /\ phase' = "body"
      /\ body' = body /\ pos' = pos /\ parser' = parser /\ interm' = interm /\ parts' = parts
      /\ response' = response /\ line' = line /\ multi' = multi
    BY DEF HeadersRead, multipartVars
<1>2. Framed' <=> Framed
    BY <1>1 DEF Framed
<1>3. ASSUME Framed
      PROVE  /\ multi /\ parser # Null /\ parser.boundary = Limit
             /\ parts.expected = response.root /\ AtFirst
  <2>1. Announced(response) /\ Sending /\ Fresh
      BY <1>1, <1>3, FramingOf DEF Arriving
  <2>2. line = 1
      BY <1>1, <2>1 DEF Announced
  <2>3. /\ parts = [NewParts EXCEPT !.expected = response.root]
        /\ NoField /\ multi /\ parser = NewParser(response.boundary)
      BY <2>1, <2>2 DEF Fresh
  <2>4. /\ parts.expected = response.root /\ parts.list = <<>> /\ parts.root = 0
        /\ parts.processed = Null
      BY <2>3 DEF NewParts
  <2>5. parser.boundary = Limit /\ parser.state = "start_boundary" /\ parser.index = 0
      BY <2>3 DEF NewParser, Limit, Delimiter
  <2>6. parser # Null
    <3>1. Limit \in Text
        BY <2>1, LimitIsText
    <3>2. NewParser(response.boundary) \in Parser
        BY <2>3, <2>5, <3>1 DEF NewParser, Parser, ParserState
    <3>. QED  BY <2>3, <3>2, NullAssumption
  <2>7. Listed(0)
    <3>1. Identified(Sent) \subseteq 1 .. Len(Sent) /\ Len(Sent) \in Nat \ {0}
        BY <2>1, IdentifiedParts, SentFramed
    <3>2. Rank(Sent, 0) = 0
      <4>1. 1 \in 1 .. Len(Sent)
          BY <3>1
      <4>. QED  BY <2>1, <4>1, RankSteps
    <3>3. Roots(0) = {} /\ \A m \in Identified(Sent) : ~(m <= 0)
        BY <3>1 DEF Roots
    <3>4. Len(parts.list) = 0 /\ \A i \in 1 .. Len(parts.list) : FALSE
        BY <2>4
    <3>. QED  BY <2>4, <3>2, <3>3, <3>4 DEF Listed
  <2>8. AtFirst
    <3>1. pos = 1
        BY <1>1 DEF Inv, Waiting
    <3>. QED  BY <2>3, <2>4, <2>5, <2>7, <3>1 DEF AtFirst, Between
  <2>. QED  BY <2>3, <2>4, <2>5, <2>6, <2>8
<1>4. Limit' = Limit /\ (AtFirst => Somewhere')
  <2>1. Limit' = Limit /\ \A n : Listed(n)' <=> Listed(n)
      BY <1>1, SameSent, SameParts
  <2>2. AtFirst' <=> AtFirst
      BY <1>1, <2>1 DEF AtFirst, Between, NoField
  <2>. QED  BY <2>1, <2>2 DEF Somewhere
<1>. QED  BY <1>1, <1>2, <1>3, <1>4 DEF Arriving


LEMMA ReadKeeps ==
    ASSUME Reader, NothingLost, ReadBody
    PROVE  /\ body' = body /\ parser # Null /\ parser' # Null
           /\ parser'.boundary = parser.boundary /\ parts'.expected = parts.expected
<1>1. parser # Null
  <2>1. Refuse => parser # Null
      BY DEF Refuse, Unexpected, InName, At, ReadingBody
  <2>2. ASSUME NEW last \in BOOLEAN, Accept(last) PROVE parser # Null
      BY <2>2 DEF Accept, FirstBoundary, NameByte, NameEnd, HeadersEnd, HeadersDone,
         ValueSpace, ValueByte, ValueEnd, HeaderDone, FirstDataByte, DataByte,
         AlmostBoundary, NoBoundary, BoundaryByte, BoundaryEnd, AfterBoundary, NextPart,
         FinalHyphen, Epilogue, InName, InValue, At, ReadingBody
  <2>. QED  BY <2>1, <2>2 DEF ReadBody
<1>2. CASE Elsewhere
    BY <1>1, <1>2 DEF Elsewhere
<1>3. ASSUME NEW last \in BOOLEAN, InsideSteps(last)
      PROVE  /\ body' = body /\ parser' # Null
             /\ parser'.boundary = parser.boundary /\ parts'.expected = parts.expected
    BY <1>3, InsideReader DEF Inside
<1>4. ASSUME NEW last \in BOOLEAN, BoundaryEnd(last)
      PROVE  /\ body' = body /\ parser' # Null
             /\ parser'.boundary = parser.boundary /\ parts'.expected = parts.expected
    BY <1>4, BoundaryEndStep
<1>. QED  BY <1>1, <1>2, <1>3, <1>4, ReadCases

\* While the body of a framed response is read, the reader is somewhere in it.
LEMMA BodyPlace ==
    ASSUME Inv, Arriving, phase = "body"
    PROVE  /\ Framed => Receiving /\ Somewhere
           /\ response.framed /\ ~Framed => ~multi /\ response.sent = <<>>
BY FramingOf DEF Arriving, Receiving, Framed

LEMMA RootIsText ==
    ASSUME Sending, Announced(response)
    PROVE  response.root \in Text
<1>1. response.lines \in Seq(Text) /\ Len(response.lines) = 1
    BY ResponsesAssumption DEF Sending, Announced
<1>2. response.lines[1] \in Text
    BY <1>1, ElementOfSeq
<1>3. <<CR, LF>> \in Text
    BY BytesAssumption DEF Text
<1>4. response.lines[1] \o <<CR, LF>> \in Text
    BY <1>2, <1>3, Joined
<1>5. AssignedValue(response.lines[1] \o <<CR, LF>>, Start) = response.root
    BY DEF Announced
<1>. QED  BY <1>4, <1>5, AssignedIsText

LEMMA BodyByteArrives ==
    ASSUME Inv, Arriving, BodyByte
    PROVE  Arriving'
<1>1. /\ phase = "body" /\ multi /\ ReadBody /\ phase' = AfterPart
      /\ response' = response /\ multi' = multi
    BY DEF BodyByte
<1>2. phase' \in {"body", "crashed"}
    BY <1>1 DEF AfterPart
<1>3. Framed' <=> Framed
    BY <1>1 DEF Framed
<1>4. /\ body' = body /\ parser # Null /\ parser' # Null
      /\ parser'.boundary = parser.boundary /\ parts'.expected = parts.expected
    BY <1>1, InvReader, ReadKeeps DEF Inv, Reading
<1>5. body' = response'.body
    BY <1>1, <1>4 DEF Arriving
<1>6. CASE Framed
  <2>1. Receiving /\ Somewhere /\ Announced(response) /\ Sending
      BY <1>1, <1>6, BodyPlace, FramingOf
  <2>2. Somewhere'
      BY <1>1, <2>1, ReadBodyArrives
  <2>3. phase' = "body"
    <3>1. parts.expected # Null
        BY <2>1, RootIsText, NullAssumption DEF Receiving
    <3>. QED  BY <1>1, <3>1 DEF AfterPart
  <2>4. parser'.boundary = Limit' /\ parts'.expected = response'.root
      BY <1>1, <1>4, <2>1, SameSent DEF Receiving
  <2>5. response'.sent # <<>>
      BY <1>1, <1>6 DEF Framed
  <2>. QED  BY <1>1, <1>4, <1>5, <2>2, <2>3, <2>4, <2>5 DEF Arriving
<1>7. CASE ~Framed
  <2>1. ~response.framed
      BY <1>1, <1>7, BodyPlace
  <2>2. PartsArrive' /\ NothingInvented'
    <3>1. phase' # "answered"
        BY <1>2
    <3>. QED  BY <1>1, <2>1, <3>1 DEF PartsArrive, NothingInvented
  <2>3. ~Framed' /\ ~response'.framed
      BY <1>1, <1>3, <1>7, <2>1
  <2>. QED  BY <1>5, <2>2, <2>3 DEF Arriving
<1>. QED  BY <1>6, <1>7

\* What is said of the parts holds in every state.
LEMMA ArrivingTold ==
    ASSUME Inv, Arriving
    PROVE  PartsArrive /\ NothingInvented
<1>1. CASE phase = "headers"
  <2>1. parts.list = <<>>
      BY <1>1 DEF Inv, Waiting
  <2>. QED  BY <1>1, <2>1, NoneListed DEF PartsArrive
<1>2. CASE phase = "body"
  <2>1. CASE Framed
      BY <1>2, <2>1, BodyPlace, SomewhereInvented DEF PartsArrive
  <2>2. CASE ~response.framed
      BY <1>2, <2>2 DEF PartsArrive, NothingInvented
  <2>3. CASE response.framed /\ ~Framed
      BY <1>2, <2>3, BodyPlace, PlainParts DEF PartsArrive
  <2>. QED  BY <2>1, <2>2, <2>3
<1>3. CASE phase \notin {"headers", "body"}
    BY <1>3 DEF Arriving
<1>. QED  BY <1>1, <1>2, <1>3

\* A step that leaves the parts alone and does not answer.
LEMMA PartsStay ==
    ASSUME Inv, Arriving, UNCHANGED <<multipartVars, response, multi>>,
           phase' \notin {"headers", "body"},
           phase' = "answered" => phase = "answered"
    PROVE  Arriving'
<1>1. /\ body' = body /\ parts' = parts /\ response' = response /\ multi' = multi
    BY DEF multipartVars
<1>2. PartsArrive /\ NothingInvented
    BY ArrivingTold
<1>3. NothingInvented'
    BY <1>1, <1>2 DEF NothingInvented
<1>4. PartsArrive'
    BY <1>1, <1>2 DEF PartsArrive
<1>5. body' = response'.body /\ (response'.framed /\ response'.sent = <<>> => ~multi')
    BY <1>1 DEF Arriving
<1>. QED  BY <1>3, <1>4, <1>5 DEF Arriving

LEMMA PlainBodyArrives ==
    ASSUME Inv, Arriving, PlainBody
    PROVE  Arriving'
<1>1. /\ phase = "body" /\ ~multi /\ phase' = phase /\ body' = body
      /\ response' = response /\ multi' = multi
    BY DEF PlainBody
<1>2. ~Framed /\ (Framed' <=> Framed)
    BY <1>1 DEF Arriving, Framed
<1>. QED  BY <1>1, <1>2 DEF Arriving

LEMMA BodyReadArrives ==
    ASSUME Inv, Arriving, BodyRead
    PROVE  Arriving'
<1>1. /\ phase = "body" /\ pos > Len(body) /\ Finished
      /\ body' = body /\ parser' = parser /\ response' = response /\ multi' = multi
      /\ phase' \in {"answered", "crashed"}
    BY DEF BodyRead
<1>2. body' = response'.body /\ (response'.framed /\ response'.sent = <<>> => ~multi')
    BY <1>1 DEF Arriving
<1>3. CASE Framed
  <2>1. Receiving /\ Somewhere
      BY <1>1, <1>3, BodyPlace
  <2>2. NothingInvented'
    <3>1. CASE interm.unfinished /\ PartRead
        BY <1>1, <2>1, <3>1, BrokenOff
    <3>2. CASE parts' = parts
        BY <1>1, <2>1, <3>2, SomewhereInvented DEF NothingInvented
    <3>. QED  BY <1>1, <3>1, <3>2 DEF Finished
  <2>3. PartsArrive'
    <3>1. SUFFICES ASSUME response.whole PROVE PartsArrive'
        BY <1>1 DEF PartsArrive
    <3>2. AtEnd
        BY <1>1, <2>1, <3>1, ReadToEnd
    <3>3. AllArrived
        BY <2>1, <3>2, AllListed DEF AtEnd, Between, Receiving
    <3>4. ~interm.unfinished
        BY <3>2 DEF AtEnd, Receiving, Inv, InFront, InContent
    <3>5. parts' = parts
        BY <1>1, <3>4 DEF Finished
    <3>. QED  BY <1>1, <3>3, <3>5 DEF AllArrived, PartsArrive
  <2>. QED  BY <1>1, <1>2, <2>2, <2>3 DEF Arriving
<1>4. CASE ~response.framed
  <2>1. ~response'.framed /\ ~response'.whole
      BY <1>1, <1>4, FramingOf
  <2>2. PartsArrive' /\ NothingInvented'
      BY <2>1 DEF PartsArrive, NothingInvented
  <2>. QED  BY <1>1, <1>2, <2>2 DEF Arriving
<1>5. CASE response.framed /\ ~Framed
  <2>1. ~multi /\ response.sent = <<>>
      BY <1>1, <1>5, BodyPlace
  <2>2. NothingInvented /\ AllArrived
      BY <1>5, <2>1, PlainParts
  <2>3. parts' = parts
      BY <1>1, <2>1 DEF Finished, Inv, Waiting
  <2>4. NothingInvented' /\ PartsArrive'
    <3>1. NothingInvented'
        BY <1>1, <2>2, <2>3 DEF NothingInvented
    <3>2. PartsArrive'
        BY <1>1, <2>2, <2>3 DEF AllArrived, PartsArrive
    <3>. QED  BY <3>1, <3>2
  <2>. QED  BY <1>1, <1>2, <2>4 DEF Arriving
<1>. QED  BY <1>3, <1>4, <1>5

LEMMA SomewhereStays ==
    ASSUME UNCHANGED <<body, pos, mark, parser, interm, parts, response>>, Somewhere
    PROVE  Somewhere'
<1>1. /\ body' = body /\ pos' = pos /\ mark' = mark /\ parser' = parser
      /\ interm' = interm /\ parts' = parts /\ response' = response
    OBVIOUS
<1>2. /\ Sent' = Sent /\ SentText' = SentText /\ Ahead' = Ahead
      /\ BodyFrom(Sent, response.boundary)' = BodyFrom(Sent, response.boundary)
      /\ NoField' = NoField /\ Run(mark)' = Run(mark)
      /\ InContent' = InContent /\ Beginning' = Beginning
    BY <1>1, SameSent DEF Ahead, NoField, Run, InContent, Beginning, Gathered, LookBehind
<1>3. /\ \A n : /\ Headers(n)' = Headers(n) /\ Data(n)' = Data(n)
                 /\ NextLeft(n)' = NextLeft(n)
      /\ \A n, j : /\ HeadersLeft(n, j)' = HeadersLeft(n, j)
                    /\ ValueLeft(n, j)' = ValueLeft(n, j)
                    /\ ColonLeft(n, j)' = ColonLeft(n, j)
    BY <1>1, SameSent
<1>4. /\ \A n : (Listed(n)' <=> Listed(n)) /\ (Between(n)' <=> Between(n))
      /\ \A n, j : Within(n, j)' <=> Within(n, j)
    BY <1>1, <1>2, SameParts DEF Between
<1>5. /\ AtFirst => AtFirst'
      /\ AtHyphen => AtHyphen'
      /\ AtEnd => AtEnd'
    BY <1>1, <1>2, <1>4 DEF AtFirst, AtHyphen, AtEnd
<1>6. ASSUME NEW n
      PROVE  /\ AtBlank(n) => AtBlank(n)'
             /\ AtData(n) => AtData(n)'
             /\ InData(n) => InData(n)'
             /\ BehindPart(n) => BehindPart(n)'
             /\ AtNext(n) => AtNext(n)'
    BY <1>1, <1>2, <1>3, <1>4 DEF AtBlank, AtData, InData, BehindPart, AtNext
<1>7. ASSUME NEW n, NEW j
      PROVE  /\ AtHeaders(n, j) => AtHeaders(n, j)'
             /\ AtValue(n, j) => AtValue(n, j)'
             /\ AtLineEnd(n, j) => AtLineEnd(n, j)'
             /\ \A k : InNameOf(n, j, k) => InNameOf(n, j, k)'
             /\ \A k : InValueOf(n, j, k) => InValueOf(n, j, k)'
    BY <1>1, <1>2, <1>3, <1>4 DEF AtHeaders, AtValue, AtLineEnd, InNameOf, InValueOf
<1>8. CASE AtFirst \/ AtHyphen \/ AtEnd
    BY <1>5, <1>8 DEF Somewhere
<1>9. ASSUME NEW n \in 1 .. Len(Sent),
             AtBlank(n) \/ AtData(n) \/ InData(n) \/ BehindPart(n) \/ AtNext(n)
      PROVE  Somewhere'
  <2>1. n \in 1 .. Len(Sent')
      BY <1>2
  <2>2. AtBlank(n)' \/ AtData(n)' \/ InData(n)' \/ BehindPart(n)' \/ AtNext(n)'
      BY <1>6, <1>9
  <2>. QED  BY <2>1, <2>2 DEF Somewhere
<1>10. ASSUME NEW n \in 1 .. Len(Sent), NEW j \in 0 .. Len(Headers(n)),
              AtHeaders(n, j) \/ AtValue(n, j) \/ AtLineEnd(n, j)
       PROVE  Somewhere'
  <2>1. n \in 1 .. Len(Sent') /\ j \in 0 .. Len(Headers(n)')
      BY <1>2, <1>3
  <2>2. AtHeaders(n, j)' \/ AtValue(n, j)' \/ AtLineEnd(n, j)'
      BY <1>7, <1>10
  <2>. QED  BY <2>1, <2>2 DEF Somewhere
<1>11. ASSUME NEW n \in 1 .. Len(Sent), NEW j \in 0 .. Len(Headers(n)), NEW k \in Nat,
              InNameOf(n, j, k) \/ InValueOf(n, j, k)
       PROVE  Somewhere'
  <2>1. n \in 1 .. Len(Sent') /\ j \in 0 .. Len(Headers(n)')
      BY <1>2, <1>3
  <2>2. InNameOf(n, j, k)' \/ InValueOf(n, j, k)'
      BY <1>7, <1>11
  <2>. QED  BY <2>1, <2>2 DEF Somewhere
<1>. QED  BY <1>8, <1>9, <1>10, <1>11 DEF Somewhere

LEMMA NextArrives == Inv /\ Arriving /\ [Next]_vars => Arriving'
<1>. SUFFICES ASSUME Inv, Arriving, [Next]_vars PROVE Arriving'
    OBVIOUS
<1>1. CASE HeaderLine
    BY <1>1, HeaderLineArrives
<1>2. CASE HeadersRead
    BY <1>2, HeadersReadArrives
<1>3. CASE BodyByte
    BY <1>3, BodyByteArrives
<1>4. CASE PlainBody
    BY <1>4, PlainBodyArrives
<1>5. CASE BodyRead
    BY <1>5, BodyReadArrives
<1>6. CASE \/ HeaderLineRefused \/ BodyWithoutBoundary \/ ConnectionLost
           \/ CodeRefused \/ PlainAnswer \/ MultipartAnswer \/ OtherAnswer
  <2>1. UNCHANGED <<multipartVars, response, multi>> /\ phase' = "done"
      BY <1>6 DEF HeaderLineRefused, BodyWithoutBoundary, ConnectionLost, Fail, CodeRefused,
                  PlainAnswer, MultipartAnswer, OtherAnswer, Answered, Rest
  <2>. QED  BY <2>1, PartsStay
<1>7. CASE UNCHANGED vars
  <2>1. /\ UNCHANGED <<multipartVars, response, line, multi>> /\ phase' = phase
        /\ body' = body /\ pos' = pos /\ mark' = mark /\ parser' = parser
        /\ interm' = interm /\ parts' = parts
      BY <1>7 DEF vars, multipartVars
  <2>2. CASE phase \notin {"headers", "body"}
      BY <2>1, <2>2, PartsStay
  <2>3. CASE phase \in {"headers", "body"}
    <3>1. /\ Limit' = Limit /\ (Framed' <=> Framed) /\ (Fresh' <=> Fresh)
        BY <2>1, SameSent DEF Framed, Fresh, NoField
    <3>2. Framed /\ phase = "body" => Somewhere'
      <4>1. SUFFICES ASSUME Framed, phase = "body" PROVE Somewhere'
          OBVIOUS
      <4>2. Receiving /\ Somewhere
          BY <4>1, BodyPlace
      <4>. QED  BY <2>1, <4>2, SomewhereStays
    <3>. QED  BY <2>1, <2>3, <3>1, <3>2 DEF Arriving
  <2>. QED  BY <2>2, <2>3
<1>. QED  BY <1>1, <1>2, <1>3, <1>4, <1>5, <1>6, <1>7 DEF Next

-----------------------------------------------------------------------------
(***************************************************************************)
(* What is found by its identifier.                                        *)
(***************************************************************************)
LEMMA RanksOrdered ==
    ASSUME Sending, NEW k \in Nat, NEW m \in Nat, k <= m
    PROVE  Rank(Sent, k) <= Rank(Sent, m)
<1>1. Identified(Sent) \subseteq 1 .. Len(Sent) /\ Len(Sent) \in Nat
    BY IdentifiedParts
<1>2. UpToPart(k) \in SUBSET UpToPart(m)
    BY <1>1 DEF UpToPart
<1>3. IsFiniteSet(UpToPart(m))
    BY IdentifiedParts
<1>4. Cardinality(UpToPart(k)) <= Cardinality(UpToPart(m))
    BY <1>2, <1>3, FS_Subset
<1>. QED  BY <1>4, IdentifiedParts

LEMMA RankAll ==
    ASSUME Sending
    PROVE  /\ Len(Sent) \in Nat \ {0}
           /\ Rank(Sent, Len(Sent)) = Cardinality(Identified(Sent))
           /\ Cardinality(Identified(Sent)) \in Nat
<1>1. Identified(Sent) \subseteq 1 .. Len(Sent) /\ Len(Sent) \in Nat \ {0}
    BY IdentifiedParts, SentFramed
<1>2. UpToPart(Len(Sent)) = Identified(Sent)
    BY <1>1 DEF UpToPart
<1>. QED  BY <1>1, <1>2, IdentifiedParts

\* Each place of the list is that of a part.
LEMMA PlaceOfPart ==
    ASSUME Sending, NEW i \in 1 .. Cardinality(Identified(Sent))
    PROVE  \E m \in Identified(Sent) : Rank(Sent, m) = i
<1>1. PICK count \in Nat : count = Cardinality(Identified(Sent)) /\ i \in 1 .. count
    BY RankAll
<1> DEFINE T == {n \in 1 .. Len(Sent) : Rank(Sent, n) >= i}
<1>2. T # {} /\ T \in SUBSET Nat
  <2>1. Len(Sent) \in 1 .. Len(Sent) /\ Rank(Sent, Len(Sent)) >= i
      BY <1>1, RankAll
  <2>. QED  BY <2>1
<1>3. PICK n \in T : \A k \in T : n <= k
    BY <1>2, Least
<1>4. n \in 1 .. Len(Sent) /\ Rank(Sent, n) >= i /\ Len(Sent) \in Nat
    BY RankAll
<1>5. PICK before \in Nat, rank \in Nat :
        before = Rank(Sent, n - 1) /\ rank = Rank(Sent, n) /\ rank >= i
    BY <1>4, IdentifiedParts
<1>6. before < i
  <2>1. CASE n = 1
      BY <1>1, <1>4, <1>5, <2>1, RankSteps
  <2>2. CASE n # 1
    <3>1. n - 1 \in 1 .. Len(Sent) /\ ~(n <= n - 1)
        BY <1>4, <2>2
    <3>2. n - 1 \notin T
        BY <1>3, <3>1
    <3>3. ~(Rank(Sent, n - 1) >= i)
        BY <3>1, <3>2
    <3>. QED  BY <1>1, <1>5, <3>3
  <2>. QED  BY <2>1, <2>2
<1>7. n \in Identified(Sent) /\ rank = before + 1
    BY <1>4, <1>5, <1>6, RankSteps
<1>8. rank = i
    BY <1>1, <1>5, <1>6, <1>7
<1>. QED  BY <1>5, <1>7, <1>8

\* By an identifier the list gives what the parts that were sent do.
SameFinds(sent) ==
    \A id : /\ Found(id) = {} <=> Bearing(sent, id) = {}
            /\ Found(id) # {} =>
                 parts.list[First(Found(id))].data = sent[Earliest(Bearing(sent, id))].data

LEMMA ListedAsSent ==
    ASSUME Sending, AllArrived, parts \in Parts
    PROVE  /\ DOMAIN parts.list = 1 .. Cardinality(Identified(Sent))
           /\ \A m \in Identified(Sent) :
                /\ Rank(Sent, m) \in DOMAIN parts.list
                /\ parts.list[Rank(Sent, m)].id = Worth(Sent[m], "id")
                /\ parts.list[Rank(Sent, m)].data = Sent[m].data
<1>1. DOMAIN parts.list = 1 .. Len(parts.list)
    BY LenProperties DEF Parts
<1>2. Len(parts.list) = Cardinality(Identified(Sent))
    BY DEF AllArrived, Sent
<1>3. ASSUME NEW m \in Identified(Sent)
      PROVE  Rank(Sent, m) \in 1 .. Cardinality(Identified(Sent))
  <2>1. m \in 1 .. Len(Sent) /\ Len(Sent) \in Nat
      BY IdentifiedParts
  <2>2. PICK before \in Nat, rank \in Nat, count \in Nat :
          /\ before = Rank(Sent, m - 1) /\ rank = Rank(Sent, m)
          /\ count = Cardinality(Identified(Sent)) /\ rank <= count
    <3>1. Rank(Sent, m) <= Rank(Sent, Len(Sent))
        BY <2>1, RanksOrdered
    <3>. QED  BY <3>1, IdentifiedParts, RankAll
  <2>3. rank = before + 1
      BY <2>1, <2>2, RankSteps
  <2>. QED  BY <2>2, <2>3
<1>4. ASSUME NEW m \in Identified(Sent)
      PROVE  /\ parts.list[Rank(Sent, m)].id = Worth(Sent[m], "id")
             /\ parts.list[Rank(Sent, m)].data = Sent[m].data
  <2>1. Plain(parts.list[Rank(Sent, m)]) = Meant(Sent[m])
      BY DEF AllArrived, Sent
  <2>. QED  BY <2>1 DEF Plain, Meant
<1>. QED  BY <1>1, <1>2, <1>3, <1>4

LEMMA FoundAsSent ==
    ASSUME Sending, AllArrived, parts \in Parts
    PROVE  SameFinds(Sent)
<1>. SUFFICES ASSUME NEW id
              PROVE  /\ Found(id) = {} <=> Bearing(Sent, id) = {}
                     /\ Found(id) # {} => parts.list[First(Found(id))].data
                                            = Sent[Earliest(Bearing(Sent, id))].data
    BY DEF SameFinds
<1>1. /\ Identified(Sent) \subseteq Nat
      /\ Found(id) \in SUBSET Nat /\ Bearing(Sent, id) \in SUBSET Nat
  <2>1. Identified(Sent) \subseteq Nat
      BY IdentifiedParts
  <2>2. DOMAIN parts.list = 1 .. Cardinality(Identified(Sent))
      BY ListedAsSent
  <2>3. 1 .. Cardinality(Identified(Sent)) \subseteq Nat
      OBVIOUS
  <2>. QED  BY <2>1, <2>2, <2>3 DEF Found, Bearing
<1>2. ASSUME NEW m \in Bearing(Sent, id) PROVE m \in Identified(Sent) /\ Rank(Sent, m) \in Found(id)
  <2>1. m \in Identified(Sent) /\ Worth(Sent[m], "id") = id
      BY DEF Bearing
  <2>. QED  BY <2>1, ListedAsSent DEF Found
<1>3. ASSUME NEW i \in Found(id) PROVE \E m \in Bearing(Sent, id) : Rank(Sent, m) = i
  <2>1. i \in 1 .. Cardinality(Identified(Sent)) /\ parts.list[i].id = id
      BY ListedAsSent DEF Found
  <2>2. PICK m \in Identified(Sent) : Rank(Sent, m) = i
      BY <2>1, PlaceOfPart
  <2>3. Worth(Sent[m], "id") = id
      BY <2>1, <2>2, ListedAsSent
  <2>. QED  BY <2>2, <2>3 DEF Bearing
<1>4. ASSUME Found(id) # {}
      PROVE  parts.list[First(Found(id))].data = Sent[Earliest(Bearing(Sent, id))].data
  <2>1. PICK i \in Nat : i = First(Found(id)) /\ i \in Found(id) /\ \A k \in Found(id) : i <= k
      BY <1>1, <1>4, FirstFound
  <2>2. PICK m \in Bearing(Sent, id) : Rank(Sent, m) = i
      BY <1>3, <2>1
  <2>3. PICK e \in Nat : /\ e = Earliest(Bearing(Sent, id)) /\ e \in Bearing(Sent, id) /\ e <= m
      BY <1>1, <2>2, EarliestFound
  <2>4. e \in Identified(Sent) /\ Rank(Sent, e) \in Found(id) /\ m \in Nat
      BY <1>1, <1>2, <2>2, <2>3
  <2>5. i <= Rank(Sent, e) /\ Rank(Sent, e) <= i /\ Rank(Sent, e) \in Nat
      BY <2>1, <2>2, <2>3, <2>4, RanksOrdered, IdentifiedParts
  <2>6. Rank(Sent, e) = i
      BY <2>1, <2>5
  <2>. QED  BY <2>1, <2>3, <2>4, <2>6, ListedAsSent
<1>. QED  BY <1>2, <1>3, <1>4

LEMMA NothingFound ==
    ASSUME parts.list = <<>>
    PROVE  SameFinds(<<>>)
<1>1. \A id : Found(id) = {} /\ Bearing(<<>>, id) = {}
    BY DEF Found, Bearing, Identified
<1>. QED  BY <1>1 DEF SameFinds

LEMMA IncludedAsReplied ==
    ASSUME NEW sent, SameFinds(sent), NEW content
    PROVE  Included(content) = Replied(sent, content)
<1>1. CASE content \notin DOMAIN Documents
  <2>1. Document(content) = [err |-> "XML", href |-> Null]
      BY <1>1 DEF Document
  <2>. QED  BY <1>1, <2>1 DEF Included, Replied, Failure
<1>2. CASE content \in DOMAIN Documents
  <2>1. PICK document : document = Documents[content] /\ document = Document(content)
      BY <1>2 DEF Document
  <2>2. Included(content) =
          IF document.err # "SUCCESS" THEN [err |-> document.err, data |-> Null]
          ELSE IF document.href = Null THEN [err |-> "ISDS", data |-> Null]
          ELSE IF Found(document.href) = {} THEN [err |-> "ERROR", data |-> Null]
          ELSE [err |-> "SUCCESS", data |-> parts.list[First(Found(document.href))].data]
      BY <2>1 DEF Included
  <2>3. Replied(sent, content) =
          IF document.err # "SUCCESS" THEN Failure(document.err)
          ELSE IF document.href = Null THEN Failure("ISDS")
          ELSE IF Bearing(sent, document.href) = {} THEN Failure("ERROR")
          ELSE [err |-> "SUCCESS", data |-> sent[Earliest(Bearing(sent, document.href))].data]
      BY <1>2, <2>1 DEF Replied
  <2>4. /\ Found(document.href) = {} <=> Bearing(sent, document.href) = {}
        /\ Found(document.href) # {} =>
             parts.list[First(Found(document.href))].data
               = sent[Earliest(Bearing(sent, document.href))].data
      BY DEF SameFinds
  <2>. QED  BY <2>2, <2>3, <2>4 DEF Failure
<1>. QED  BY <1>1, <1>2

-----------------------------------------------------------------------------
(***************************************************************************)
(* The outcome of the download.                                            *)
(***************************************************************************)

\* A plain body is taken as a whole.
Delivering ==
    /\ phase = "headers" => raw = <<>>
    /\ phase = "body" /\ ~multi => raw = body \/ (raw = <<>> /\ pos = 1)
    /\ phase = "answered" /\ ~multi => raw = body
    /\ DownloadedAsSent

LEMMA TypeKnown ==
    ASSUME Inv, response.framed
    PROVE  /\ Framed => MimeType = MultipartRelated
           /\ ~Framed => response.sent = <<>> /\ MimeType # MultipartRelated
<1>1. response \in Responses
    BY DEF Inv, TypeOK
<1>2. /\ FramedAsSent(response) => response.sent # <<>>
    BY DEF FramedAsSent, Framable
<1>. QED  BY <1>1, <1>2, FramingAssumption DEF Framed, Announced, MimeType

LEMMA AnsweredAsMeant ==
    ASSUME Inv, Arriving, Delivering, response.whole,
           CodeRefused \/ PlainAnswer \/ MultipartAnswer \/ OtherAnswer
    PROVE  result' = response.meant
<1>1. phase = "answered" /\ response.framed /\ response.meant = Outcome(response)
  <2>1. response \in Responses /\ response.framed
      BY FramingOf
  <2>. QED  BY <2>1, MeaningAssumption
            DEF CodeRefused, PlainAnswer, MultipartAnswer, OtherAnswer, Answered
<1>2. AllArrived /\ parts \in Parts
  <2>1. PartsArrive
      BY ArrivingTold
  <2>. QED  BY <1>1, <2>1 DEF AllArrived, PartsArrive, Inv, TypeOK, MultipartTypeOK
<1>3. CASE CodeRefused
    BY <1>1, <1>3 DEF CodeRefused, Refused, Outcome, Failure
<1>4. ASSUME ~Refused, Framed
      PROVE  Outcome(response) =
               IF Bearing(Sent, response.root) = {} THEN Failure("HTTP")
               ELSE Replied(Sent, Sent[Earliest(Bearing(Sent, response.root))].data)
    BY <1>4 DEF Refused, Outcome, Framed, Sent
<1>5. ASSUME ~Refused, ~Framed
      PROVE  Outcome(response) = IF MimeType \in {<<>>, SoapType} THEN Replied(<<>>, response.body)
                                                                 ELSE Failure("SOAP")
  <2>1. response.sent = <<>>
      BY <1>1, <1>5, TypeKnown
  <2>. QED  BY <1>5, <2>1 DEF Refused, Outcome, MimeType
<1>6. CASE PlainAnswer
  <2>1. ~Refused /\ MimeType \in {<<>>, SoapType} /\ result' = Included(raw)
      BY <1>6 DEF PlainAnswer
  <2>2. ~Framed /\ response.sent = <<>>
      BY <1>1, <2>1, TypeKnown, TypesAssumption
  <2>3. ~multi /\ body = response.body
      BY <1>1, <2>2 DEF Arriving
  <2>4. raw = response.body /\ parts.list = <<>>
      BY <1>1, <2>3 DEF Delivering, Inv, Waiting
  <2>5. Included(raw) = Replied(<<>>, response.body)
      BY <2>4, NothingFound, IncludedAsReplied
  <2>. QED  BY <1>1, <1>5, <2>1, <2>2, <2>5
<1>7. CASE OtherAnswer
  <2>1. /\ ~Refused /\ MimeType \notin {<<>>, SoapType, MultipartRelated}
        /\ result' = [err |-> "SOAP", data |-> Null]
      BY <1>7 DEF OtherAnswer
  <2>2. ~Framed
      BY <1>1, <2>1, TypeKnown
  <2>. QED  BY <1>1, <1>5, <2>1, <2>2 DEF Failure
<1>8. CASE MultipartAnswer
  <2>1. /\ ~Refused /\ MimeType = MultipartRelated
        /\ result' = IF parts.root = 0 THEN [err |-> "HTTP", data |-> Null]
                     ELSE Included(parts.list[parts.root].data)
      BY <1>8 DEF MultipartAnswer
  <2>2. Framed /\ Sending
      BY <1>1, <2>1, TypeKnown, FramingOf
  <2>3. parts.root = IF Bearing(Sent, response.root) = {} THEN 0
                     ELSE Rank(Sent, Earliest(Bearing(Sent, response.root)))
      BY <1>2 DEF AllArrived, Sent
  <2>4. CASE Bearing(Sent, response.root) = {}
      BY <1>1, <1>4, <2>1, <2>2, <2>3, <2>4 DEF Failure
  <2>5. CASE Bearing(Sent, response.root) # {}
    <3>1. PICK e : e = Earliest(Bearing(Sent, response.root)) /\ e \in Identified(Sent)
      <4>1. Bearing(Sent, response.root) \in SUBSET Nat
          BY <2>2, IdentifiedParts DEF Bearing
      <4>. QED  BY <2>5, <4>1, EarliestFound DEF Bearing
    <3>2. /\ parts.root = Rank(Sent, e) /\ parts.root # 0
          /\ parts.list[parts.root].data = Sent[e].data
      <4>1. /\ Rank(Sent, e) \in 1 .. Cardinality(Identified(Sent))
            /\ parts.list[Rank(Sent, e)].data = Sent[e].data
          BY <1>2, <2>2, <3>1, ListedAsSent
      <4>2. Rank(Sent, e) # 0
          BY <4>1
      <4>. QED  BY <2>3, <2>5, <3>1, <4>1, <4>2
    <3>3. Included(Sent[e].data) = Replied(Sent, Sent[e].data)
        BY <1>2, <2>2, FoundAsSent, IncludedAsReplied
    <3>. QED  BY <1>1, <1>4, <2>1, <2>2, <2>5, <3>1, <3>2, <3>3
  <2>. QED  BY <2>4, <2>5
<1>. QED  BY <1>3, <1>6, <1>7, <1>8

LEMMA NextDelivers == Inv /\ Arriving /\ Delivering /\ [Next]_vars => Delivering'
<1>. SUFFICES ASSUME Inv, Arriving, Delivering, [Next]_vars PROVE Delivering'
    OBVIOUS
<1>1. CASE HeaderLine
    BY <1>1 DEF HeaderLine, Delivering, DownloadedAsSent
<1>2. CASE HeadersRead
    BY <1>2 DEF HeadersRead, Delivering, DownloadedAsSent, multipartVars, Inv, Waiting
<1>3. CASE BodyByte
    BY <1>3 DEF BodyByte, AfterPart, Delivering, DownloadedAsSent
<1>4. CASE PlainBody
    BY <1>4 DEF PlainBody, Delivering, DownloadedAsSent
<1>5. CASE BodyRead
  <2>1. /\ phase = "body" /\ pos > Len(body) /\ body' = body /\ raw' = raw /\ multi' = multi
        /\ phase' \in {"answered", "crashed"}
      BY <1>5 DEF BodyRead
  <2>2. ASSUME ~multi PROVE raw = body
    <3>1. SUFFICES ASSUME raw = <<>>, pos = 1 PROVE body = <<>>
        BY <2>1, <2>2 DEF Delivering
    <3>2. body \in Text
        BY DEF Inv, TypeOK, MultipartTypeOK
    <3>3. Len(body) \in Nat /\ Len(body) < 1
        BY <2>1, <3>1, <3>2 DEF Text
    <3>. QED  BY <3>2, <3>3, EmptySeq DEF Text
  <2>. QED  BY <2>1, <2>2 DEF Delivering, DownloadedAsSent
<1>6. CASE HeaderLineRefused \/ BodyWithoutBoundary \/ ConnectionLost
  <2>1. phase' = "done" /\ result' = [err |-> "NETWORK", data |-> Null]
      BY <1>6 DEF HeaderLineRefused, BodyWithoutBoundary, ConnectionLost, Fail
  <2>. QED  BY <2>1 DEF Delivering, DownloadedAsSent
<1>7. CASE CodeRefused \/ PlainAnswer \/ MultipartAnswer \/ OtherAnswer
  <2>1. phase' = "done" /\ response' = response
      BY <1>7 DEF CodeRefused, PlainAnswer, MultipartAnswer, OtherAnswer, Answered, Rest
  <2>2. response.whole => result' = response.meant
      BY <1>7, AnsweredAsMeant
  <2>. QED  BY <2>1, <2>2 DEF Delivering, DownloadedAsSent
<1>8. CASE UNCHANGED vars
    BY <1>8 DEF vars, multipartVars, Delivering, DownloadedAsSent
<1>. QED  BY <1>1, <1>2, <1>3, <1>4, <1>5, <1>6, <1>7, <1>8 DEF Next

LEMMA InitDelivers == Init => Delivering
BY DEF Init, Delivering, DownloadedAsSent

-----------------------------------------------------------------------------
(***************************************************************************)
(* The theorems.                                                           *)
(***************************************************************************)

LEMMA ArrivingHolds == Spec => [](Inv /\ Arriving)
<1>. QED  BY InitInv, NextInv, InitArrives, NextArrives, PTL DEF Spec

\* However http() hands a whole multipart response to write_multipart_body(),
\* the parts multipart_parts.c lists are those the server framed, in their
\* order, with their headers and their contents, and the root part is the first
\* with the identifier announced in the start parameter.
THEOREM AllPartsArrive == Spec => []PartsArrive
<1>. QED  BY ArrivingTold, ArrivingHolds, PTL

\* Wherever a framed response breaks off and however it is cut into chunks, no
\* part in the list of multipart_parts.c has anything but the beginning of a
\* content the server sent under its identifier.
THEOREM NothingMadeUp == Spec => []NothingInvented
<1>. QED  BY ArrivingTold, ArrivingHolds, PTL

\* A download of a whole response ends as the server meant it to: with the document in
\* the part that the reply in the root part includes, wherever the two stand
\* among the parts, or with the error the reply or the code is; or
\* it is lost on the network.
THEOREM DownloadsAsSent == Spec => []DownloadedAsSent
<1>1. Spec => [](Inv /\ Arriving /\ Delivering)
    BY InitInv, NextInv, InitArrives, NextArrives, InitDelivers, NextDelivers, PTL DEF Spec
<1>2. Delivering => DownloadedAsSent
    BY DEF Delivering
<1>. QED  BY <1>1, <1>2, PTL

=============================================================================
