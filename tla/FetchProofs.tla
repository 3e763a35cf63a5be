---------------------------- MODULE FetchProofs -----------------------------
(***************************************************************************)
(* Theorems about Fetch, for any replies a JSON decoder can hand over, any *)
(* ceilings on a message and a header, any number of lines and control     *)
(* frames interleaved, and any sizes of chunk, page and image.             *)
(***************************************************************************)
EXTENDS Fetch, SequenceTheorems, FiniteSetTheorems, WellFoundedInduction, TLAPS

(* What a document is read as *)

\* A set of naturals has a smallest member.
LEMMA SmallestOf ==
  ASSUME NEW S \in SUBSET Nat, S # {}
  PROVE  \E x \in S : \A y \in S : x <= y
<1> DEFINE R == OpToRel(<, Nat)
<1>1. IsWellFoundedOn(R, Nat)
  BY NatLessThanWellFounded
<1>2. \A x, y \in Nat : <<x, y>> \in R <=> x < y
  BY DEF OpToRel
<1> HIDE DEF R
<1>3. PICK x \in S : \A y \in S : ~(<<y, x>> \in R)
  BY <1>1, WFMin
<1>4. \A y \in S : x \in Nat /\ y \in Nat /\ ~(y < x)
  BY <1>2, <1>3
<1> QED
  BY <1>3, <1>4

\* One after the other, as FlattenSeq goes about it.
Joined(seqs, f, i) == IF i = 1 THEN seqs[i] ELSE f[i - 1] \o seqs[i]
Joining(seqs, f, n) == f = [i \in 1 .. n |-> Joined(seqs, f, i)]

LEMMA JoiningAt ==
  ASSUME NEW seqs, NEW f, NEW n, Joining(seqs, f, n), NEW i \in 1 .. n
  PROVE  f[i] = Joined(seqs, f, i)
BY DEF Joining

LEMMA FlattenIs ==
  ASSUME NEW seqs, Len(seqs) # 0
  PROVE  FlattenSeq(seqs) = (CHOOSE f : Joining(seqs, f, Len(seqs)))[Len(seqs)]
BY DEF FlattenSeq, Joining, Joined

\* What is joined is determined step by step,
LEMMA JoiningUnique ==
  ASSUME NEW seqs, NEW n \in Nat, NEW f, NEW g, Joining(seqs, f, n), Joining(seqs, g, n)
  PROVE  \A i \in 1 .. n : f[i] = g[i]
<1> DEFINE D == {i \in Nat : i \in 1 .. n /\ f[i] # g[i]}
<1>1. SUFFICES ASSUME D # {} PROVE FALSE
  OBVIOUS
<1>2. PICK i \in D : \A j \in D : i <= j
  BY <1>1, SmallestOf
<1>3. i \in 1 .. n /\ f[i] # g[i]
  OBVIOUS
<1>4. f[i] = Joined(seqs, f, i) /\ g[i] = Joined(seqs, g, i)
  BY <1>3, JoiningAt
<1>5. i # 1 => i - 1 \in Nat /\ i - 1 \in 1 .. n /\ i - 1 \notin D
  BY <1>2, <1>3
<1>6. i # 1 => f[i - 1] = g[i - 1]
  BY <1>5
<1> QED
  BY <1>3, <1>4, <1>6 DEF Joined

\* and there is always something to be joined.
LEMMA JoiningExists ==
  ASSUME NEW seqs, NEW n \in Nat
  PROVE  \E f : Joining(seqs, f, n)
<1> DEFINE D == {m \in Nat : ~\E f : Joining(seqs, f, m)}
<1>1. SUFFICES ASSUME D # {} PROVE FALSE
  OBVIOUS
<1>2. PICK m \in D : \A k \in D : m <= k
  BY <1>1, SmallestOf
<1>3. CASE m = 0
  <2>1. Joining(seqs, [i \in 1 .. 0 |-> 0], 0)
    BY DEF Joining
  <2> QED
    BY <1>2, <1>3, <2>1
<1>4. CASE m # 0
  <2>1. m - 1 \in Nat /\ m - 1 \notin D
    BY <1>2, <1>4
  <2>2. PICK f : Joining(seqs, f, m - 1)
    BY <2>1
  <2> DEFINE g == [i \in 1 .. m |-> Joined(seqs, f, i)]
  <2>3. \A i \in 1 .. m : g[i] = Joined(seqs, f, i)
    OBVIOUS
  <2>4. \A i \in 1 .. m - 1 : f[i] = Joined(seqs, f, i)
    BY <2>2, JoiningAt
  <2>5. \A i \in 1 .. m : i # 1 => g[i - 1] = f[i - 1]
    <3> HIDE DEF g
    <3>1. \A i \in 1 .. m : i # 1 => i - 1 \in 1 .. m - 1 /\ i - 1 \in 1 .. m
      BY <2>1
    <3> QED
      BY <2>3, <2>4, <3>1
  <2>6. \A i \in 1 .. m : Joined(seqs, f, i) = Joined(seqs, g, i)
    BY <2>5 DEF Joined
  <2>7. Joining(seqs, g, m)
    <3>1. g = [i \in 1 .. m |-> Joined(seqs, g, i)]
      BY <2>6
    <3> QED
      BY <3>1 DEF Joining
  <2> QED
    BY <1>2, <2>7
<1> QED
  BY <1>3, <1>4

\* So any way of joining ends in what FlattenSeq yields.
LEMMA FlattenJoins ==
  ASSUME NEW seqs, Len(seqs) \in Nat, Len(seqs) # 0, NEW g, Joining(seqs, g, Len(seqs))
  PROVE  FlattenSeq(seqs) = g[Len(seqs)]
<1> DEFINE f == CHOOSE f : Joining(seqs, f, Len(seqs))
<1>1. Joining(seqs, f, Len(seqs))
  OBVIOUS
<1>2. FlattenSeq(seqs) = f[Len(seqs)]
  BY FlattenIs
<1> HIDE DEF f
<1>3. f[Len(seqs)] = g[Len(seqs)]
  BY <1>1, JoiningUnique
<1> QED
  BY <1>2, <1>3

LEMMA FlattenTyped ==
  ASSUME NEW S, NEW seqs \in Seq(Seq(S)), seqs # <<>>
  PROVE  FlattenSeq(seqs) \in Seq(S)
<1> DEFINE n == Len(seqs)
<1>1. n \in Nat /\ n # 0 /\ \A i \in 1 .. n : seqs[i] \in Seq(S)
  OBVIOUS
<1> HIDE DEF n
<1>2. PICK f : Joining(seqs, f, n)
  BY <1>1, JoiningExists
<1> DEFINE D == {i \in Nat : i \in 1 .. n /\ f[i] \notin Seq(S)}
<1>3. D = {}
  <2>1. SUFFICES ASSUME D # {} PROVE FALSE
    OBVIOUS
  <2>2. PICK i \in D : \A j \in D : i <= j
    BY <1>1, <2>1, SmallestOf
  <2>3. i \in 1 .. n /\ f[i] \notin Seq(S) /\ seqs[i] \in Seq(S)
    BY <1>1, <2>2
  <2>4. f[i] = Joined(seqs, f, i)
    BY <1>2, <2>3, JoiningAt
  <2>5. i # 1 => i - 1 \in Nat /\ i - 1 \in 1 .. n /\ i - 1 \notin D
    BY <1>1, <2>2, <2>3
  <2>6. i # 1 => f[i - 1] \in Seq(S)
    BY <2>5
  <2> QED
    BY <2>3, <2>4, <2>6, ConcatProperties DEF Joined
<1>4. FlattenSeq(seqs) = f[n]
  BY <1>1, <1>2, FlattenJoins DEF n
<1> QED
  BY <1>1, <1>3, <1>4

\* The first bytes of an endless image, and its first pages.
FirstOf(B, n) == [j \in 1 .. n |-> B[j]]
Cut(B, n, size) == [k \in 1 .. n |-> [i \in 1 .. size |-> B[(k - 1) * size + i]]]

\* Pages of equal length, one after the other.
LEMMA FlattenPages ==
  ASSUME NEW n \in Nat \ {0}, NEW size \in Nat, NEW B, \A j \in Nat : B[j] \in Int
  PROVE  FlattenSeq(Cut(B, n, size)) = FirstOf(B, n * size)
<1> DEFINE pages == [k \in 1 .. n |-> [i \in 1 .. size |-> B[(k - 1) * size + i]]]
           g == [k \in 1 .. n |-> [j \in 1 .. k * size |-> B[j]]]
<1>1. Len(pages) = n
  OBVIOUS
<1>2. \A k \in 1 .. n : g[k] = IF k = 1 THEN pages[k] ELSE g[k - 1] \o pages[k]
  <2> TAKE k \in 1 .. n
  <2>1. CASE k = 1
    BY <2>1
  <2>2. CASE k # 1
    <3>1. k - 1 \in 1 .. n /\ (k - 1) * size \in Nat /\ k * size \in Nat /\ (k - 1) * size + size = k * size
      BY <2>2
    <3> DEFINE a == (k - 1) * size
               s == [j \in 1 .. a |-> B[j]]
               t == [i \in 1 .. size |-> B[a + i]]
    <3>2. g[k - 1] = s /\ pages[k] = t
      BY <3>1
    <3> HIDE DEF g, a
    <3>3. a \in Nat /\ a + size \in Nat
      BY <3>1 DEF a
    <3>4. s \o t = [j \in 1 .. a + size |-> B[j]]
      <4> DEFINE r == [j \in 1 .. a + size |-> B[j]]
      <4>1. s \in Seq(Int) /\ t \in Seq(Int) /\ Len(s) = a /\ Len(t) = size /\ r \in Seq(Int) /\ Len(r) = a + size
        BY <3>3
      <4>2. \A j \in 1 .. a : s[j] = r[j]
        BY <3>3
      <4>3. \A j \in a + 1 .. a + size : t[j - a] = r[j]
        BY <3>3
      <4> HIDE DEF s, t, r
      <4> DEFINE u == s \o t
      <4>4. u \in Seq(Int) /\ Len(u) = a + size
        BY <3>3, <4>1, ConcatProperties
      <4>5. \A j \in 1 .. a + size : u[j] = IF j <= a THEN s[j] ELSE t[j - a]
        BY <3>3, <4>1, ConcatProperties
      <4> HIDE DEF u
      <4>6. \A j \in 1 .. a + size : u[j] = r[j]
        BY <3>3, <4>2, <4>3, <4>5
      <4>7. u = r
        BY <4>1, <4>4, <4>6, SeqEqual
      <4> QED
        BY <4>7 DEF r, u
    <3>5. g[k] = [j \in 1 .. a + size |-> B[j]]
      BY <3>1 DEF g, a
    <3> QED
      BY <2>2, <3>2, <3>4, <3>5
  <2> QED
    BY <2>1, <2>2
<1>3. Joining(pages, g, n)
  BY <1>2 DEF Joining, Joined
<1>4. FlattenSeq(pages) = g[n]
  BY <1>1, <1>3, FlattenJoins
<1> QED
  BY <1>4 DEF Cut, FirstOf

LEMMA Bytes == 0 .. 255 \subseteq Int
<1>1. \A a, b \in Int : a .. b \subseteq Int
  OBVIOUS
<1> QED
  BY <1>1

\* As many characters as n bytes take in base64 are read back as n bytes.
LEMMA DigitsHold ==
  ASSUME NEW n \in Nat
  PROVE  /\ (4 * n + 2) \div 3 \in Nat /\ (n # 0 => (4 * n + 2) \div 3 # 0)
         /\ ((4 * n + 2) \div 3) % 4 # 1
         /\ (3 * ((4 * n + 2) \div 3)) \div 4 = n
         /\ (3 * ((4 * n + 2) \div 3 - 1)) \div 4 <= n
<1> DEFINE k == n \div 3
<1>1. k \in Nat /\ n \in {3 * k, 3 * k + 1, 3 * k + 2}
  OBVIOUS
<1> HIDE DEF k
<1>2. CASE n = 3 * k
  <2>1. (4 * n + 2) \div 3 = 4 * k
    BY <1>1, <1>2
  <2> QED
    BY <1>1, <1>2, <2>1
<1>3. CASE n = 3 * k + 1
  <2>1. (4 * n + 2) \div 3 = 4 * k + 2
    BY <1>1, <1>3
  <2> QED
    BY <1>1, <1>3, <2>1
<1>4. CASE n = 3 * k + 2
  <2>1. (4 * n + 2) \div 3 = 4 * k + 3
    BY <1>1, <1>4
  <2> QED
    BY <1>1, <1>4, <2>1
<1> QED
  BY <1>1, <1>2, <1>3, <1>4

\* What base64 yields is bytes of the text, all of them if nothing was cut off.
LEMMA Base64Decodes ==
  ASSUME NEW s, s.bytes \in Seq(Int), s.cut \in BOOLEAN, DecodeBase64(s).ok
  PROVE  /\ DecodeBase64(s).bytes \in Seq(Int)
         /\ ~s.cut => DecodeBase64(s).bytes = s.bytes
<1> DEFINE n == Len(s.bytes)
           m == DigitsLeft(s)
           j == (3 * m) \div 4
<1>1. DecodeBase64(s).bytes = SubSeq(s.bytes, 1, j)
  BY DEF DecodeBase64, Yes, No
<1>2. n \in Nat
  OBVIOUS
<1>3. m \in {(4 * n + 2) \div 3, (4 * n + 2) \div 3 - 1} /\ (~s.cut => m = (4 * n + 2) \div 3)
  <2> DEFINE x == (4 * n + 2) \div 3
             y == IF s.cut /\ Padding(s) = 0 THEN 1 ELSE 0
  <2>1. m = x - y /\ y \in {0, 1} /\ (~s.cut => y = 0)
    BY DEF DigitsLeft
  <2>2. x \in Int
    BY <1>2
  <2> HIDE DEF x, y
  <2>3. m \in {x, x - 1} /\ (~s.cut => m = x)
    BY <2>1, <2>2
  <2> QED
    BY <2>3 DEF x
<1> HIDE DEF n, m
<1>4. j \in Int /\ j <= n /\ (~s.cut => j = n)
  BY <1>2, <1>3, DigitsHold
<1> HIDE DEF j
<1>5. SubSeq(s.bytes, 1, j) \in Seq(Int)
  BY <1>2, <1>4 DEF n
<1>6. SubSeq(s.bytes, 1, n) = s.bytes
  BY DEF n
<1> QED
  BY <1>1, <1>4, <1>5, <1>6

\* What hex yields is numbers.
LEMMA HexDecodes ==
  ASSUME NEW s, Len(s.bytes) \in Nat, SpellsHex(s), DecodeHex(HexBody(Digits(s))).ok
  PROVE  DecodeHex(HexBody(Digits(s))).bytes \in Seq(Int)
<1> DEFINE d == Digits(s)
           h == HexBody(d)
           X == {Sextet(s.bytes, q - 1) : q \in 1 .. DigitsLeft(s)}
<1>1. DigitsLeft(s) \in Int
  BY DEF DigitsLeft
<1>2. d \in Seq(X)
  <2>1. CASE DigitsLeft(s) \in Nat
    <3>1. \A q \in 1 .. DigitsLeft(s) : Sextet(s.bytes, q - 1) \in X
      OBVIOUS
    <3> HIDE DEF X
    <3> QED
      BY <2>1, <3>1 DEF Digits
  <2>2. CASE DigitsLeft(s) \notin Nat
    <3>1. 1 .. DigitsLeft(s) = {}
      BY <1>1, <2>2
    <3>2. d = <<>>
      BY <3>1 DEF Digits
    <3> QED
      BY <3>2
  <2> QED
    BY <2>1, <2>2
<1>3. (\A i \in 1 .. Len(h) : h[i] \in HexDigit) /\ h # <<>>
  BY DEF SpellsHex
<1> HIDE DEF d, X
<1>4. Len(h) \in Nat
  <2>1. CASE h = d
    BY <1>2, <2>1
  <2>2. CASE h # d
    <3>1. h = SubSeq(d, 3, Len(d)) /\ Len(d) >= 2
      BY <2>2 DEF HexBody
    <3>2. h \in Seq(X)
      BY <1>2, <3>1
    <3> QED
      BY <3>2
  <2> QED
    BY <2>1, <2>2
<1>5. DecodeHex(h).bytes = [i \in 1 .. Len(h) \div 2 |-> 16 * Nibble(h[2 * i - 1]) + Nibble(h[2 * i])]
  BY DEF DecodeHex, Yes, No, d
<1> HIDE DEF h
<1>6. \A i \in 1 .. Len(h) \div 2 : 2 * i - 1 \in 1 .. Len(h) /\ 2 * i \in 1 .. Len(h)
  BY <1>4
<1>7. \A c \in HexDigit : Nibble(c) \in Int
  BY DEF HexDigit, Nibble
<1>8. \A i \in 1 .. Len(h) \div 2 : 16 * Nibble(h[2 * i - 1]) + Nibble(h[2 * i]) \in Int
  BY <1>3, <1>6, <1>7
<1>9. Len(h) \div 2 \in Nat
  BY <1>4
<1> QED
  BY <1>5, <1>8, <1>9 DEF h, d

\* A chunk that decodes is the bytes it states, unless its text is not told from another.
LEMMA ChunkDecodes ==
  ASSUME NEW v, IsChunk(v), DecodeChunk(v).ok
  PROVE  /\ v.t \in {"numbers", "text"} /\ DecodeChunk(v).bytes \in Seq(Int)
         /\ ~AmbiguousText(v) => DecodeChunk(v).bytes = Stated(v)
<1>1. \A b : Yes(b).ok = TRUE /\ Yes(b).bytes = b
  BY DEF Yes
<1>2. No.ok = FALSE
  BY DEF No
<1>3. CASE v.t = "numbers"
  <2>1. DecodeChunk(v) = Yes(v.v)
    BY <1>2, <1>3 DEF DecodeChunk, DecodeByteArray
  <2> QED
    BY <1>1, <1>3, <2>1 DEF IsChunk, Stated
<1>4. CASE v.t = "text"
  <2> DEFINE s == v.text
  <2>1. s \in Texts /\ DecodeChunk(v) = DecodeByteString(s) /\ Stated(v) = s.bytes
    BY <1>4 DEF IsChunk, DecodeChunk, Stated
  <2>2. s.bytes \in Seq(Int) /\ Len(s.bytes) \in Nat /\ s.cut \in BOOLEAN
    <3>1. s.bytes \in Seq(0 .. 255) /\ s.cut \in BOOLEAN
      BY <2>1 DEF Texts
    <3>2. ASSUME NEW b \in Seq(0 .. 255) PROVE b \in Seq(Int) /\ Len(b) \in Nat
      BY Bytes, SeqMonotonic, LenProperties
    <3> QED
      BY <3>1, <3>2
  <2>3. AmbiguousText(v) <=> \/ s.enc \in {"base64", "raw"} /\ (SpellsHex(s) \/ s.cut)
                             \/ s.enc = "marked" /\ s.bytes = <<>>
    BY <1>4 DEF AmbiguousText
  <2> HIDE DEF s
  <2>4. CASE s.enc = "marked" /\ s.bytes = <<>>
    <3>1. DecodeChunk(v) = Yes(<<211>>)
      BY <1>2, <2>1, <2>4 DEF DecodeByteString
    <3>2. <<211>> \in Seq(Int)
      OBVIOUS
    <3> QED
      BY <1>1, <1>4, <2>3, <2>4, <3>1, <3>2
  <2>5. CASE s.enc \in {"hex", "marked"} /\ s.bytes # <<>>
    <3>1. DecodeChunk(v) = Yes(s.bytes)
      BY <1>2, <2>1, <2>5 DEF DecodeByteString
    <3> QED
      BY <1>1, <1>4, <2>1, <2>2, <3>1
  <2>6. CASE s.enc \in {"base64", "raw"} /\ SpellsHex(s)
    <3>1. DecodeChunk(v) = DecodeHex(HexBody(Digits(s)))
      BY <1>2, <2>1, <2>6 DEF DecodeByteString
    <3> QED
      BY <1>4, <2>2, <2>3, <2>6, <3>1, HexDecodes
  <2>7. CASE s.enc \in {"base64", "raw"} /\ ~SpellsHex(s)
    <3>1. DecodeChunk(v) = DecodeBase64(s)
      BY <1>2, <2>1, <2>7 DEF DecodeByteString
    <3> QED
      BY <1>4, <2>1, <2>2, <2>3, <2>7, <3>1, Base64Decodes
  <2> QED
    BY <1>2, <2>1, <2>4, <2>5, <2>6, <2>7 DEF DecodeByteString
<1> QED
  BY <1>2, <1>3, <1>4 DEF DecodeChunk

LEMMA PageDecodes ==
  ASSUME NEW e, IsElement(e), DecodePage(e).ok
  PROVE  /\ DecodePage(e).bytes \in Seq(Int)
         /\ ~AmbiguousPage(e) => DecodePage(e).bytes = StatedPage(e)
<1>1. \A b : Yes(b).ok = TRUE /\ Yes(b).bytes = b
  BY DEF Yes
<1>2. No.ok = FALSE
  BY DEF No
<1>3. CASE e.t # "page"
  BY <1>3, ChunkDecodes DEF IsElement, DecodePage, AmbiguousPage, StatedPage
<1>4. CASE e.t = "page"
  <2> DEFINE chunk == [i \in DOMAIN e.chunks |-> DecodeChunk(e.chunks[i])]
             parts == [i \in 1 .. ChunksPerPage |-> chunk[i - 1].bytes]
  <2>1. /\ DOMAIN e.chunks = 0 .. ChunksPerPage - 1 /\ \A i \in DOMAIN e.chunks : DecodeChunk(e.chunks[i]).ok
        /\ DecodePage(e) = Yes(FlattenSeq(parts))
    BY <1>2, <1>4 DEF DecodePage, DecodeChunkedPage
  <2>2. ChunksPerPage \in Nat \ {0}
    BY ImageAssumption
  <2>3. \A i \in 1 .. ChunksPerPage : i - 1 \in DOMAIN e.chunks
    BY <2>1, <2>2
  <2>4. \A i \in DOMAIN e.chunks : /\ DecodeChunk(e.chunks[i]).bytes \in Seq(Int)
                                   /\ ~AmbiguousText(e.chunks[i]) => DecodeChunk(e.chunks[i]).bytes = Stated(e.chunks[i])
    BY <1>4, <2>1, ChunkDecodes DEF IsElement
  <2>5. \A i \in 1 .. ChunksPerPage : parts[i] = DecodeChunk(e.chunks[i - 1]).bytes
    BY <2>3
  <2>6. parts = [i \in 1 .. ChunksPerPage |-> DecodeChunk(e.chunks[i - 1]).bytes]
    BY <2>5
  <2> HIDE DEF parts
  <2>7. FlattenSeq(parts) \in Seq(Int)
    <3>1. \A i \in 1 .. ChunksPerPage : DecodeChunk(e.chunks[i - 1]).bytes \in Seq(Int)
      BY <2>3, <2>4
    <3>2. parts \in Seq(Seq(Int)) /\ Len(parts) = ChunksPerPage
      BY <2>2, <2>6, <3>1
    <3>3. parts # <<>>
      BY <2>2, <3>2
    <3> QED
      BY <3>2, <3>3, FlattenTyped
  <2>8. ~AmbiguousPage(e) => FlattenSeq(parts) = StatedPage(e)
    <3> SUFFICES ASSUME ~AmbiguousPage(e) PROVE FlattenSeq(parts) = StatedPage(e)
      OBVIOUS
    <3>1. \A i \in DOMAIN e.chunks : ~AmbiguousText(e.chunks[i])
      BY <1>4 DEF AmbiguousPage
    <3>2. \A i \in 1 .. ChunksPerPage : DecodeChunk(e.chunks[i - 1]).bytes = Stated(e.chunks[i - 1])
      BY <2>3, <2>4, <3>1
    <3>3. parts = [i \in 1 .. ChunksPerPage |-> Stated(e.chunks[i - 1])]
      BY <2>6, <3>2
    <3> QED
      BY <1>4, <3>3 DEF StatedPage
  <2> QED
    BY <1>1, <2>1, <2>7, <2>8
<1> QED
  BY <1>3, <1>4

\* If the numbers stated are those from 0 on, one for each page, no two are the same.
LEMMA OneOfEach ==
  ASSUME NEW n \in Nat, NEW ids, {ids[i] : i \in 1 .. n} = {{k} : k \in 0 .. n - 1},
         NEW i \in 1 .. n, NEW j \in 1 .. n, ids[i] = ids[j]
  PROVE  i = j
<1> DEFINE T == {{k} : k \in 0 .. n - 1}
           f == [m \in 1 .. n |-> ids[m]]
           g == [k \in 0 .. n - 1 |-> {k}]
<1>1. g \in Bijection(0 .. n - 1, T)
  BY DEF Bijection, Injection, Surjection, IsInjective
<1>2. f \in Surjection(1 .. n, T)
  BY DEF Surjection
<1>3. IsFiniteSet(0 .. n - 1) /\ Cardinality(0 .. n - 1) = n /\ IsFiniteSet(1 .. n) /\ Cardinality(1 .. n) = n
  BY FS_Interval
<1>4. Cardinality(T) = n
  BY <1>1, <1>3, FS_Bijection DEF ExistsBijection
<1>5. f \in Injection(1 .. n, T)
  BY <1>2, <1>3, <1>4, FS_SurjSameCardinalityImpliesInj
<1> QED
  BY <1>5 DEF Injection, IsInjective

\* Where no page states its number, they stay in the order given.
LEMMA StayInOrder ==
  ASSUME NEW n \in Nat \ {0}, NEW ids, NEW p, Len(ids) = n, \A i \in 1 .. n : ids[i] = {}
  PROVE  OrderByPageID(ids, p) = Pages(p)
<1>1. {ids[i] : i \in 1 .. n} # {{k} : k \in 0 .. n - 1}
  <2>1. 1 \in 1 .. n /\ ids[1] = {}
    OBVIOUS
  <2>2. {} \in {ids[i] : i \in 1 .. n}
    BY <2>1
  <2>3. {} \notin {{k} : k \in 0 .. n - 1}
    OBVIOUS
  <2> QED
    BY <2>2, <2>3
<1> QED
  BY <1>1 DEF OrderByPageID

\* Pages are put where they say, or stay in the order given.
\* Named, for the provers' sake.
PagesIn(n) == [1 .. n -> Seq(Int)]

LEMMA PagesOrdered ==
  ASSUME NEW n \in Nat \ {0}, NEW ids, NEW p, NEW q, Len(ids) = n, p \in PagesIn(n),
         OrderByPageID(ids, p).ok, q = OrderByPageID(ids, p).pages
  PROVE  /\ q \in PagesIn(n)
         /\ \A i \in 1 .. n : Place(ids[i], i) \in 1 .. n /\ q[Place(ids[i], i)] = p[i]
<1>1. No.ok = FALSE /\ \A x : Pages(x).pages = x
  BY DEF No, Pages
<1>2. CASE \A i \in 1 .. n : ids[i] = {}
  <2>2. OrderByPageID(ids, p) = Pages(p)
    BY <1>2, StayInOrder
  <2>3. \A i \in 1 .. n : Place(ids[i], i) = i
    BY <1>2 DEF Place
  <2>4. q = p
    BY <1>1, <2>2
  <2> QED
    BY <2>3, <2>4
<1>3. CASE ~\A i \in 1 .. n : ids[i] = {}
  <2> DEFINE At(k) == CHOOSE i \in 1 .. n : ids[i] = {k - 1}
             r == [k \in 1 .. n |-> p[At(k)]]
  <2>1. {ids[i] : i \in 1 .. n} = {{k} : k \in 0 .. n - 1}
    <3> SUFFICES ASSUME ~ ({ids[i] : i \in 1 .. n} = {{k} : k \in 0 .. n - 1}) PROVE FALSE
      OBVIOUS
    <3>1. OrderByPageID(ids, p) = No
      BY <1>3 DEF OrderByPageID
    <3> QED
      BY <1>1, <3>1
  <2>2. OrderByPageID(ids, p) = Pages(r)
    <3>1. OrderByPageID(ids, p) = Pages([k \in 1 .. Len(ids) |-> p[CHOOSE i \in 1 .. Len(ids) : ids[i] = {k - 1}]])
      BY <1>3, <2>1, Zenon DEF OrderByPageID
    <3> QED
      BY <3>1
  <2>3. \A k \in 1 .. n : At(k) \in 1 .. n /\ ids[At(k)] = {k - 1}
    <3> TAKE k \in 1 .. n
    <3>1. {k - 1} \in {{m} : m \in 0 .. n - 1}
      <4>1. k - 1 \in 0 .. n - 1
        OBVIOUS
      <4> QED
        BY <4>1
    <3>2. \E i \in 1 .. n : ids[i] = {k - 1}
      BY <2>1, <3>1
    <3> QED
      BY <3>2
  <2> HIDE DEF At
  <2>4. r \in PagesIn(n)
    BY <2>3 DEF PagesIn
  <2>5. ASSUME NEW i \in 1 .. n
        PROVE  Place(ids[i], i) \in 1 .. n /\ r[Place(ids[i], i)] = p[i]
    <3>1. ids[i] \in {{m} : m \in 0 .. n - 1}
      BY <2>1
    <3>2. PICK m \in 0 .. n - 1 : ids[i] = {m}
      BY <3>1
    <3>3. Place(ids[i], i) = 1 + m
      BY <3>2 DEF Place
    <3>4. 1 + m \in 1 .. n /\ (1 + m) - 1 = m
      OBVIOUS
    <3>5. At(1 + m) \in 1 .. n /\ ids[At(1 + m)] = ids[i]
      BY <2>3, <3>2, <3>4
    <3>6. At(1 + m) = i
      BY <2>1, <3>5, OneOfEach
    <3> QED
      BY <3>3, <3>4, <3>6
  <2>6. q = r
    BY <1>1, <2>2
  <2> QED
    BY <2>4, <2>5, <2>6
<1> QED
  BY <1>2, <1>3

LEMMA ElementsNormalise ==
  ASSUME NEW v, v.t = "list", IsPages(v), NormaliseElements(v.e).ok
  PROVE  /\ NormaliseElements(v.e).pages \in Seq(Seq(Int))
         /\ ~Ambiguous(v) => PagesAsStated(v, NormaliseElements(v.e).pages)
<1> DEFINE n == Len(v.e)
           ids == [i \in 1 .. n |-> StatedId(v.e[i])]
           p == [i \in 1 .. n |-> DecodePage(v.e[i]).bytes]
           q == NormaliseElements(v.e).pages
<1>1. No.ok = FALSE
  BY DEF No
<1>2. n \in Nat /\ DOMAIN v.e = 1 .. n
  BY DEF IsPages
<1>3. /\ \A i \in 1 .. n : DecodePage(v.e[i]).ok
      /\ NormaliseElements(v.e) = OrderByPageID(ids, p)
      /\ n # 0
  <2> DEFINE page == [i \in 1 .. n |-> DecodePage(v.e[i])]
  <2>1. (\A i \in 1 .. n : page[i].ok) /\ n # 0
    <3>1. (\A i \in 1 .. n : page[i].ok) /\ n \in 1 .. MaxPages
      BY <1>1, Zenon DEF NormaliseElements
    <3>2. MaxPages \in Nat
      BY ImageAssumption
    <3> HIDE DEF n, page
    <3> QED
      BY <3>1, <3>2
  <2>2. NormaliseElements(v.e) = OrderByPageID(ids, [i \in 1 .. n |-> page[i].bytes])
    BY <1>1 DEF NormaliseElements
  <2>3. [i \in 1 .. n |-> page[i].bytes] = p
    OBVIOUS
  <2> QED
    BY <2>1, <2>2, <2>3
<1>4. \A i \in 1 .. n : /\ p[i] \in Seq(Int)
                        /\ ~AmbiguousPage(v.e[i]) => p[i] = StatedPage(v.e[i])
  BY <1>2, <1>3, PageDecodes DEF IsPages
<1>5. Len(ids) = n /\ \A i \in 1 .. n : ids[i] = StatedId(v.e[i])
  BY <1>2
<1>10. p \in PagesIn(n)
  BY <1>4 DEF PagesIn
<1>6. OrderByPageID(ids, p).ok /\ q = OrderByPageID(ids, p).pages
  BY <1>3
<1> HIDE DEF p, q, ids, n
<1>7. /\ q \in PagesIn(n)
      /\ \A i \in 1 .. n : Place(ids[i], i) \in 1 .. n /\ q[Place(ids[i], i)] = p[i]
  <2>1. n \in Nat \ {0}
    BY <1>2, <1>3
  <2> QED
    BY <2>1, <1>5, <1>10, <1>6, PagesOrdered
<1>8. q \in Seq(Seq(Int)) /\ Len(q) = n /\ DOMAIN q = 1 .. n
  BY <1>2, <1>7 DEF PagesIn
<1>9. ~Ambiguous(v) => PagesAsStated(v, q)
  <2> SUFFICES ASSUME ~Ambiguous(v), NEW i \in 1 .. n
               PROVE  Place(StatedId(v.e[i]), i) \in 1 .. n /\ q[Place(StatedId(v.e[i]), i)] = StatedPage(v.e[i])
    BY <1>8 DEF PagesAsStated, n
  <2>1. ~AmbiguousPage(v.e[i])
    BY DEF Ambiguous, n
  <2> QED
    BY <1>4, <1>5, <1>7, <2>1
<1> QED
  BY <1>8, <1>9 DEF q

\* As many pages as it takes, the last one filled up.
LEMMA CountOfPages ==
  ASSUME NEW len \in Nat, NEW size \in Nat \ {0}, NEW count, count = (len + size - 1) \div size
  PROVE  /\ count \in Nat /\ count * size - len \in 0 .. size - 1
         /\ len = 0 <=> count = 0
<1>1. count \in Nat
  OBVIOUS
<1>2. count * size <= len + size - 1 /\ len + size - 1 < count * size + size
  OBVIOUS
<1>3. len = 0 => count = 0
  OBVIOUS
<1>4. count = 0 => count * size = 0
  OBVIOUS
<1>5. count * size \in Nat
  BY <1>1
<1> QED
  BY <1>1, <1>2, <1>3, <1>4, <1>5

LEMMA SplitIsFlat ==
  ASSUME NEW bytes \in Seq(Int), bytes # <<>>, NEW size \in Nat \ {0}
  PROVE  LET pages == SplitFlat(bytes, size)
             flat  == FlattenSeq(SplitFlat(bytes, size))
         IN  /\ pages \in Seq(Seq(Int)) /\ pages # <<>>
             /\ \A k \in 1 .. Len(pages) : Len(pages[k]) = size
             /\ IsPrefix(bytes, flat)
             /\ Len(flat) - Len(bytes) \in 0 .. size - 1
             /\ \A i \in Len(bytes) + 1 .. Len(flat) : flat[i] = RawImagePad
<1> DEFINE pages == SplitFlat(bytes, size)
           count == (Len(bytes) + size - 1) \div size
           B == [i \in Nat |-> IF i \in 1 .. Len(bytes) THEN bytes[i] ELSE RawImagePad]
           len == Len(bytes)
<1>1. len \in Nat /\ len # 0 /\ \A i \in 1 .. len : bytes[i] \in Int
  OBVIOUS
<1>2. count \in Nat \ {0} /\ count * size - len \in 0 .. size - 1
  <2> DEFINE c == (len + size - 1) \div size
  <2>1. count = c
    OBVIOUS
  <2> HIDE DEF B, pages, len, count
  <2>2. /\ c \in Nat /\ c * size - len \in 0 .. size - 1
        /\ len = 0 <=> c = 0
    BY ONLY <1>1, CountOfPages, size \in Nat \ {0}
  <2> HIDE DEF c
  <2> QED
    BY ONLY <1>1, <2>1, <2>2
<1>3. \A j \in Nat : B[j] \in Int
  BY <1>1 DEF RawImagePad
<1>4. pages = [k \in 1 .. count |-> [i \in 1 .. size |-> B[(k - 1) * size + i]]]
  <2>1. \A k \in 1 .. count, i \in 1 .. size :
          B[(k - 1) * size + i] = IF (k - 1) * size + i <= len THEN bytes[(k - 1) * size + i] ELSE RawImagePad
    <3> TAKE k \in 1 .. count, i \in 1 .. size
    <3> DEFINE m == (k - 1) * size + i
    <3>1. (k - 1) * size \in Nat
      BY <1>2
    <3>2. m \in Nat /\ m >= 1
      BY <3>1
    <3> HIDE DEF m
    <3>3. B[m] = IF m <= len THEN bytes[m] ELSE RawImagePad
      BY <1>1, <3>2
    <3> QED
      BY <3>3 DEF m
  <2>2. pages = [k \in 1 .. count |-> [i \in 1 .. size |->
                   IF (k - 1) * size + i <= len THEN bytes[(k - 1) * size + i] ELSE RawImagePad]]
    BY DEF SplitFlat
  <2> HIDE DEF B, pages, count, len
  <2> QED
    BY <2>1, <2>2
<1> HIDE DEF pages, count, len
<1>5. FlattenSeq(pages) = [j \in 1 .. count * size |-> B[j]]
  <2> HIDE DEF B
  <2> QED
    <3>1. pages = Cut(B, count, size)
      BY <1>4 DEF Cut
    <3> QED
      BY <1>2, <1>3, <3>1, FlattenPages DEF FirstOf
<1> DEFINE flat == [j \in 1 .. count * size |-> B[j]]
<1>6. /\ pages \in Seq(Seq(Int)) /\ pages # <<>>
      /\ \A k \in 1 .. Len(pages) : Len(pages[k]) = size
  <2>1. \A k \in 1 .. count, i \in 1 .. size : B[(k - 1) * size + i] \in Int
    <3> TAKE k \in 1 .. count, i \in 1 .. size
    <3>1. (k - 1) * size + i \in Nat
      BY <1>2
    <3> HIDE DEF B
    <3> QED
      BY <1>3, <3>1
  <2> HIDE DEF B
  <2>2. \A k \in 1 .. count : pages[k] = [i \in 1 .. size |-> B[(k - 1) * size + i]]
    BY <1>4
  <2>3. \A k \in 1 .. count : pages[k] \in Seq(Int) /\ Len(pages[k]) = size
    <3> TAKE k \in 1 .. count
    <3> DEFINE p == [i \in 1 .. size |-> B[(k - 1) * size + i]]
    <3>1. p \in [1 .. size -> Int]
      BY <2>1
    <3>2. pages[k] = p
      BY <2>2
    <3> HIDE DEF p
    <3> QED
      BY <3>1, <3>2
  <2>4. pages = [k \in 1 .. count |-> pages[k]]
    BY <1>4
  <2>5. pages \in [1 .. count -> Seq(Int)]
    BY <2>3, <2>4
  <2> QED
    BY <1>2, <2>3, <2>5
<1>7. count * size \in Nat /\ count * size >= len
  BY <1>1, <1>2
<1>8. Len(flat) = count * size
  BY <1>7
<1>9. IsPrefix(bytes, flat)
  <2>1. \A i \in 1 .. len : flat[i] = bytes[i]
    <3>1. \A i \in 1 .. len : i \in 1 .. count * size /\ i \in Nat
      BY <1>1, <1>7
    <3>2. \A i \in 1 .. len : B[i] = bytes[i]
      BY <3>1 DEF len
    <3> HIDE DEF B
    <3> QED
      BY <3>1, <3>2
  <2>2. SubSeq(bytes, 1, len) = [i \in 1 .. len |-> bytes[i]]
    BY <1>1 DEF len
  <2>3. SubSeq(flat, 1, len) = [i \in 1 .. len |-> flat[i]]
    <3>1. flat \in Seq(Int)
      <4>1. \A j \in 1 .. count * size : B[j] \in Int
        BY <1>3, <1>7
      <4> HIDE DEF B
      <4> QED
        BY <1>7, <4>1
    <3> HIDE DEF flat
    <3> QED
      BY <1>1, <1>7, <1>8, <3>1
  <2> HIDE DEF flat
  <2> QED
    BY <1>7, <1>8, <2>1, <2>2, <2>3 DEF IsPrefix, len
<1>10. \A i \in len + 1 .. Len(flat) : flat[i] = RawImagePad
  <2> TAKE i \in len + 1 .. Len(flat)
  <2>1. i \in 1 .. count * size /\ i \in Nat /\ ~(i \in 1 .. len)
    BY <1>1, <1>7, <1>8
  <2> QED
    BY <2>1 DEF len
<1> HIDE DEF flat
<1> QED
  BY <1>2, <1>5, <1>6, <1>8, <1>9, <1>10 DEF flat, pages, len

\* A set of places has a first one and a last one.
LEMMA Extremes ==
  ASSUME NEW n \in Nat, NEW P \in SUBSET (1 .. n), P # {}
  PROVE  /\ Min(P) \in P /\ \A i \in P : Min(P) <= i
         /\ Max(P) \in P /\ \A i \in P : i <= Max(P)
<1>1. \A i \in P : i \in Nat /\ i <= n /\ n - i \in Nat
  OBVIOUS
<1>2. \E a \in P : \A i \in P : a <= i
  <2>1. P \in SUBSET Nat
    BY <1>1
  <2> QED
    BY <2>1, SmallestOf
<1>3. \E b \in P : \A i \in P : i <= b
  <2> DEFINE Q == {n - i : i \in P}
  <2>1. Q \in SUBSET Nat /\ Q # {}
    BY <1>1
  <2>2. PICK q \in Q : \A r \in Q : q <= r
    BY <2>1, SmallestOf
  <2>3. PICK b \in P : q = n - b
    OBVIOUS
  <2>4. \A i \in P : n - b <= n - i
    BY <2>2, <2>3
  <2> HIDE DEF Q
  <2>5. \A i \in P : i <= b
    BY <1>1, <2>4
  <2> QED
    BY <2>5
<1>4. Max(P) = CHOOSE b \in P : \A i \in P : b >= i
  BY DEF Max
<1>5. Min(P) = CHOOSE a \in P : \A i \in P : a <= i
  BY DEF Min
<1>6. \E b \in P : \A i \in P : b >= i
  BY <1>1, <1>3
<1> QED
  BY <1>1, <1>2, <1>4, <1>5, <1>6

\* No blank at either end.
Trimmed(t) == t = <<>> \/ (t[1] # "blank" /\ t[Len(t)] # "blank")

\* TrimSpace takes from both ends and leaves no blank there,
LEMMA TrimSpaceTrims ==
  ASSUME NEW S, NEW t \in Seq(S)
  PROVE  TrimSpace(t) \in Seq(S) /\ Len(TrimSpace(t)) <= Len(t) /\ Trimmed(TrimSpace(t))
<1> DEFINE ends == {i \in 1 .. Len(t) : t[i] # "blank"}
           a == Min(ends)
           b == Max(ends)
<1>1. Len(t) \in Nat /\ TrimSpace(t) = IF ends = {} THEN <<>> ELSE SubSeq(t, a, b)
  BY DEF TrimSpace
<1>2. CASE ends = {}
  <2>1. TrimSpace(t) = <<>>
    BY <1>1, <1>2
  <2>2. <<>> \in Seq(S) /\ Len(<<>>) = 0 /\ 0 <= Len(t)
    BY <1>1
  <2> QED
    BY <2>1, <2>2, Zenon DEF Trimmed
<1>3. CASE ends # {}
  <2>1. a \in ends /\ b \in ends /\ a <= b
    <3>1. ends \in SUBSET (1 .. Len(t))
      OBVIOUS
    <3> HIDE DEF ends
    <3> QED
      BY <1>1, <1>3, <3>1, Extremes
  <2> HIDE DEF a, b
  <2> DEFINE r == SubSeq(t, a, b)
  <2>2. a \in 1 .. Len(t) /\ b \in 1 .. Len(t) /\ t[a] # "blank" /\ t[b] # "blank"
    BY <2>1
  <2>3. r \in Seq(S) /\ Len(r) = b - a + 1 /\ r[1] = t[a] /\ r[b - a + 1] = t[b]
    BY <1>1, <2>1, <2>2
  <2> HIDE DEF r
  <2>4. Len(r) <= Len(t)
    BY <1>1, <2>2, <2>3
  <2>5. Trimmed(r)
    BY <2>2, <2>3 DEF Trimmed
  <2> QED
    BY <1>1, <1>3, <2>3, <2>4, <2>5 DEF r
<1> QED
  BY <1>2, <1>3

\* and nothing if there is none.
LEMMA TrimSpaceKeeps ==
  ASSUME NEW S, NEW t \in Seq(S), Trimmed(t)
  PROVE  TrimSpace(t) = t
<1> DEFINE ends == {i \in 1 .. Len(t) : t[i] # "blank"}
           a == Min(ends)
           b == Max(ends)
<1>1. Len(t) \in Nat /\ TrimSpace(t) = IF ends = {} THEN <<>> ELSE SubSeq(t, a, b)
  BY DEF TrimSpace
<1>2. CASE t = <<>>
  BY <1>1, <1>2
<1>3. CASE t # <<>>
  <2>1. 1 \in ends /\ Len(t) \in ends
    <3>1. 1 \in 1 .. Len(t) /\ Len(t) \in 1 .. Len(t)
      BY <1>1, <1>3
    <3>2. t[1] # "blank" /\ t[Len(t)] # "blank"
      BY <1>3 DEF Trimmed
    <3> QED
      BY <3>1, <3>2
  <2>2. /\ a \in ends /\ \A i \in ends : a <= i
        /\ b \in ends /\ \A i \in ends : i <= b
    <3>1. ends \in SUBSET (1 .. Len(t)) /\ ends # {}
      BY <2>1
    <3> HIDE DEF ends
    <3> QED
      BY <1>1, <3>1, Extremes
  <2> HIDE DEF a, b
  <2>3. a = 1 /\ b = Len(t)
    BY <1>1, <2>1, <2>2
  <2>4. SubSeq(t, 1, Len(t)) = t
    OBVIOUS
  <2> QED
    BY <1>1, <2>1, <2>3, <2>4
<1> QED
  BY <1>2, <1>3

\* There is a place for every number up to how many there are,
LEMMA NthIsOne ==
  ASSUME NEW n \in Nat, NEW P \in SUBSET (1 .. n), NEW k \in 1 .. Cardinality(P)
  PROVE  Nth(P, k) \in P
<1> DEFINE Upto(i) == {j \in P : j <= i}
           D == {i \in 0 .. n : Cardinality(Upto(i)) >= k}
<1>1. /\ IsFiniteSet(P) /\ Cardinality(P) \in Nat /\ k \in Nat /\ k # 0
      /\ \A i \in 0 .. n : IsFiniteSet(Upto(i)) /\ Cardinality(Upto(i)) \in Nat
  <2>1. IsFiniteSet(1 .. n)
    BY FS_Interval
  <2>2. IsFiniteSet(P)
    BY <2>1, FS_Subset
  <2>3. \A i \in 0 .. n : IsFiniteSet(Upto(i))
    BY <2>2, FS_Subset
  <2> QED
    BY <2>2, <2>3, FS_CardinalityType
<1>2. \A j \in P : j \in Nat /\ 0 < j /\ j <= n
  OBVIOUS
<1>3. D \in SUBSET Nat /\ n \in D
  <2>1. Upto(n) = P
    BY <1>2
  <2>2. Cardinality(P) >= k /\ n \in 0 .. n
    BY <1>1
  <2> HIDE DEF Upto
  <2> QED
    BY <2>1, <2>2
<1>4. PICK i \in D : \A j \in D : i <= j
  BY <1>3, SmallestOf
<1>5. i \in 0 .. n /\ Cardinality(Upto(i)) >= k
  BY <1>4
<1>6. i # 0
  <2>1. Upto(0) = {}
    <3>1. \A j \in P : ~(j <= 0)
      BY <1>2
    <3> HIDE DEF D
    <3> QED
      BY <3>1
  <2>2. Cardinality(Upto(0)) = 0
    BY <2>1, FS_EmptySet
  <2> HIDE DEF Upto
  <2> QED
    BY <1>1, <1>5, <2>2
<1>7. i - 1 \in 0 .. n /\ ~(Cardinality(Upto(i - 1)) >= k)
  <2>1. i - 1 \in 0 .. n /\ ~(i <= i - 1)
    BY <1>5, <1>6
  <2>2. i - 1 \notin D
    <3> HIDE DEF D
    <3> QED
      BY <1>4, <2>1
  <2> QED
    BY <2>1, <2>2
<1>8. i \in P
  <2> SUFFICES ASSUME i \notin P PROVE Upto(i) = Upto(i - 1)
    BY <1>5, <1>7
  <2>1. \A j \in P : j <= i <=> j <= i - 1
    <3>1. \A j \in P : j # i
      OBVIOUS
    <3>2. i \in Int
      BY <1>5
    <3> HIDE DEF D
    <3> QED
      BY <1>2, <3>1, <3>2
  <2> QED
    BY <2>1
<1>9. Cardinality(Upto(i)) = k
  <2>1. Upto(i) = Upto(i - 1) \cup {i} /\ i \notin Upto(i - 1)
    <3>1. i \in Int
      BY <1>5
    <3>2. ~(i <= i - 1) /\ \A j \in P : j <= i <=> (j <= i - 1 \/ j = i)
      <4> HIDE DEF D
      <4> QED
        BY <1>2, <3>1
    <3>3. i <= i
      BY <3>1
    <3> HIDE DEF D
    <3> QED
      BY <1>8, <3>2, <3>3
  <2> HIDE DEF Upto
  <2>2. Cardinality(Upto(i)) = Cardinality(Upto(i - 1)) + 1
    BY <1>1, <1>7, <2>1, FS_AddElement
  <2> QED
    BY <1>1, <1>5, <1>7, <2>2
<1> HIDE DEF D
<1> QED
  BY <1>8, <1>9 DEF Nth

\* which is itself where every place is one.
LEMMA NthOfAll ==
  ASSUME NEW n \in Nat, NEW k \in 1 .. n
  PROVE  Nth(1 .. n, k) = k
<1>1. \A i \in 1 .. n : Cardinality({j \in 1 .. n : j <= i}) = i
  <2> TAKE i \in 1 .. n
  <2>1. {j \in 1 .. n : j <= i} = 1 .. i
    OBVIOUS
  <2>2. Cardinality(1 .. i) = i
    BY FS_Interval
  <2> QED
    BY <2>1, <2>2
<1> QED
  BY <1>1 DEF Nth

\* A version as it is kept: printable, trimmed, not too long but for the dots.
Dots == <<"dot", "dot", "dot">>
Clean(v) ==
  \E t \in Seq(Printable) : Len(t) <= MaxVersionLen /\ Trimmed(t) /\ v \in {t, t \o Dots}

LEMMA PrintableASCIICleans ==
  ASSUME NEW u \in Seq(Chars)
  PROVE  Clean(PrintableASCII(u, MaxVersionLen))
<1> DEFINE kept == {i \in 1 .. Len(u) : u[i] \in Printable}
           n == Cardinality(kept)
           m == IF n < MaxVersionLen THEN n ELSE MaxVersionLen
           head == [k \in 1 .. m |-> u[Nth(kept, k)]]
           text == TrimSpace(head)
<1>1. Len(u) \in Nat /\ kept \in SUBSET (1 .. Len(u)) /\ MaxVersionLen \in Nat \ {0}
  BY ImageAssumption
<1>2. n \in Nat
  <2>1. IsFiniteSet(kept)
    <3> HIDE DEF kept
    <3>1. IsFiniteSet(1 .. Len(u))
      BY <1>1, FS_Interval
    <3> QED
      BY <1>1, <3>1, FS_Subset
  <2> QED
    BY <2>1, FS_CardinalityType
<1>3. PrintableASCII(u, MaxVersionLen) \in {text, text \o Dots}
  BY DEF PrintableASCII, Dots
<1>4. \A k \in 1 .. n : Nth(kept, k) \in kept
  <2> TAKE k \in 1 .. n
  <2> HIDE DEF kept
  <2> QED
    BY <1>1, NthIsOne
<1>5. \A k \in 1 .. n : u[Nth(kept, k)] \in Printable
  BY <1>4
<1> HIDE DEF kept, n
<1>6. m \in Nat /\ m <= MaxVersionLen /\ m <= n
  BY <1>1, <1>2
<1> HIDE DEF m
<1>7. head \in Seq(Printable) /\ Len(head) = m
  BY <1>2, <1>5, <1>6
<1> HIDE DEF head
<1>8. text \in Seq(Printable) /\ Len(text) <= m /\ Trimmed(text)
  BY <1>7, TrimSpaceTrims
<1> HIDE DEF text
<1>9. Len(text) <= MaxVersionLen
  <2>1. Len(text) \in Nat
    BY <1>8
  <2> QED
    BY <1>1, <1>6, <1>8, <2>1
<1> QED
  BY <1>3, <1>8, <1>9 DEF Clean

\* Of printable characters it keeps all, or the first.
LEMMA PrintableKept ==
  ASSUME NEW v \in Seq(Printable)
  PROVE  PrintableASCII(v, MaxVersionLen) =
           IF Len(v) > MaxVersionLen THEN TrimSpace(SubSeq(v, 1, MaxVersionLen)) \o Dots ELSE TrimSpace(v)
<1> DEFINE n == Len(v)
           m == IF n < MaxVersionLen THEN n ELSE MaxVersionLen
           head == [k \in 1 .. m |-> v[Nth(1 .. n, k)]]
<1>1. n \in Nat /\ MaxVersionLen \in Nat \ {0}
  BY ImageAssumption
<1>2. {i \in 1 .. n : v[i] \in Printable} = 1 .. n /\ Cardinality(1 .. n) = n
  <2>1. \A i \in 1 .. n : v[i] \in Printable
    OBVIOUS
  <2> HIDE DEF n
  <2>2. Cardinality(1 .. n) = n
    BY <1>1, FS_Interval
  <2> QED
    BY <2>1, <2>2
<1>3. PrintableASCII(v, MaxVersionLen) = IF n > MaxVersionLen THEN TrimSpace(head) \o Dots ELSE TrimSpace(head)
  BY <1>2 DEF PrintableASCII, Dots
<1>4. m \in 0 .. n
  BY <1>1
<1>5. head = [k \in 1 .. m |-> v[k]]
  BY <1>1, <1>4, NthOfAll
<1>6. CASE n > MaxVersionLen
  <2>1. m = MaxVersionLen
    BY <1>1, <1>6
  <2>2. head = SubSeq(v, 1, MaxVersionLen)
    BY <1>1, <1>5, <1>6, <2>1
  <2> QED
    BY <1>3, <1>6, <2>2
<1>7. CASE ~(n > MaxVersionLen)
  <2>1. m = n
    BY <1>1, <1>7
  <2>2. head = v
    BY <1>5, <2>1
  <2> QED
    BY <1>3, <1>7, <2>2
<1> QED
  BY <1>6, <1>7

\* A version that was cleaned once is clean, unless it was cut at a blank.
LEMMA CleanStays ==
  ASSUME NEW v, Clean(v), ~ShortOfTheCut(v)
  PROVE  PrintableASCII(v, MaxVersionLen) = v
<1> DEFINE M == MaxVersionLen
<1>1. PICK t \in Seq(Printable) : Len(t) <= M /\ Trimmed(t) /\ v \in {t, t \o Dots}
  BY DEF Clean
<1>2. M \in Nat \ {0} /\ Len(t) \in Nat
  BY ImageAssumption
<1>3. CASE v = t
  BY <1>1, <1>2, <1>3, PrintableKept, TrimSpaceKeeps
<1>4. CASE v = t \o Dots
  <2>1. Dots \in Seq(Printable) /\ Len(Dots) = 3 /\ Dots[1] = "dot" /\ Dots[3] = "dot"
    BY DEF Dots, Printable, Chars
  <2> HIDE DEF Dots
  <2>2. /\ v \in Seq(Printable) /\ Len(v) = Len(t) + 3
        /\ \A i \in 1 .. Len(t) : v[i] = t[i]
        /\ v[Len(t) + 1] = "dot" /\ v[Len(t) + 3] = "dot"
    <3> DEFINE D == Dots
    <3>1. D \in Seq(Printable) /\ Len(D) = 3 /\ v = t \o D
      BY <1>4, <2>1
    <3>2. D[1] = "dot" /\ D[3] = "dot"
      BY <2>1
    <3> HIDE DEF D
    <3>3. /\ v \in Seq(Printable) /\ Len(v) = Len(t) + 3
          /\ \A i \in 1 .. Len(t) + 3 : v[i] = IF i <= Len(t) THEN t[i] ELSE D[i - Len(t)]
      <4>1. /\ t \o D \in Seq(Printable) /\ Len(t \o D) = Len(t) + Len(D)
            /\ \A i \in 1 .. Len(t) + Len(D) :
                 (t \o D)[i] = IF i <= Len(t) THEN t[i] ELSE D[i - Len(t)]
        BY <3>1, ConcatProperties, Zenon
      <4>2. Len(D) = 3 /\ v = t \o D
        BY <3>1
      <4> QED
        BY <4>1, <4>2, Zenon
    <3> DEFINE n == Len(t)
    <3>4. n \in Nat
      OBVIOUS
    <3> HIDE DEF n
    <3>5. /\ \A i \in 1 .. n : i \in 1 .. n + 3 /\ i <= n
          /\ \A k \in {1, 3} : n + k \in 1 .. n + 3 /\ ~(n + k <= n) /\ n + k - n = k
      BY <3>4
    <3>6. /\ \A i \in 1 .. n : v[i] = t[i]
          /\ v[n + 1] = D[1] /\ v[n + 3] = D[3]
      BY <3>3, <3>5 DEF n
    <3> QED
      BY <3>2, <3>3, <3>6 DEF n
  <2>3. Trimmed(v)
    BY <1>1, <1>2, <2>2 DEF Trimmed
  <2>4. CASE Len(v) <= M
    BY <1>2, <2>2, <2>3, <2>4, PrintableKept, TrimSpaceKeeps
  <2>5. CASE ~(Len(v) <= M)
    <3>1. Len(t) = M
      BY <1>1, <1>2, <2>2, <2>5 DEF ShortOfTheCut
    <3>2. SubSeq(v, 1, M) = t
      <4> DEFINE r == SubSeq(v, 1, M)
      <4>1. r \in Seq(Printable) /\ Len(r) = M /\ \A i \in 1 .. M : r[i] = v[i]
        BY <1>2, <2>2, <3>1
      <4> HIDE DEF r
      <4>2. \A i \in 1 .. Len(r) : r[i] = t[i]
        BY <2>2, <3>1, <4>1
      <4>3. r = t
        BY <3>1, <4>1, <4>2, SeqEqual
      <4> QED
        BY <4>3 DEF r
    <3>3. Len(v) > M
      BY <1>2, <2>2, <2>5
    <3>4. PrintableASCII(v, M) = TrimSpace(SubSeq(v, 1, M)) \o Dots
      BY <2>2, <3>3, PrintableKept
    <3>5. TrimSpace(t) = t
      BY <1>1, TrimSpaceKeeps
    <3> QED
      BY <1>4, <3>2, <3>4, <3>5
  <2> QED
    BY <2>4, <2>5
<1> QED
  BY <1>1, <1>3, <1>4

\* What can be written to a unit: equal pages, of a length that divides into chunks; and
\* a version as it is kept.
ValidImage(img) ==
  /\ img.pages \in Seq(Seq(Int))
  /\ Len(img.pages) \in 1 .. MaxPages
  /\ \A i \in 1 .. Len(img.pages) : Len(img.pages[i]) = Len(img.pages[1])
  /\ ValidPageSize(Len(img.pages[1]))
  /\ img.crc \subseteq 0 .. 255 /\ Clean(img.version)
  /\ img = [ok |-> TRUE, pages |-> img.pages, version |-> img.version, crc |-> img.crc]

\* The guard lets nothing else through, and changes no page.
LEMMA NewFirmwareGuards ==
  ASSUME NEW pages \in Seq(Seq(Int)), NEW version \in Seq(Chars), NEW crc \in SUBSET (0 .. 255),
         NewFirmware(pages, version, crc).ok
  PROVE  ValidImage(NewFirmware(pages, version, crc)) /\ NewFirmware(pages, version, crc).pages = pages
<1> DEFINE kept == PrintableASCII(version, MaxVersionLen)
           img == [ok |-> TRUE, pages |-> pages, version |-> kept, crc |-> crc]
<1>1. No.ok = FALSE
  BY DEF No
<1>2. /\ Len(pages) \in 1 .. MaxPages
      /\ \A i \in 1 .. Len(pages) : Len(pages[i]) = Len(pages[1])
      /\ ValidPageSize(Len(pages[1]))
      /\ NewFirmware(pages, version, crc) = img
  BY <1>1, Zenon DEF NewFirmware
<1>3. img.pages = pages /\ img.version = kept /\ img.crc = crc
  OBVIOUS
<1>4. img = [ok |-> TRUE, pages |-> img.pages, version |-> img.version, crc |-> img.crc]
  BY <1>3
<1>5. Clean(kept)
  BY PrintableASCIICleans
<1> HIDE DEF img, kept
<1> QED
  BY <1>2, <1>3, <1>4, <1>5 DEF ValidImage

LEMMA RawImageSplits ==
  ASSUME NEW bytes \in Seq(Int), NEW pageSize \in Int, ParseRawImage(bytes, pageSize).ok
  PROVE  /\ ParseRawImage(bytes, pageSize).pages = SplitFlat(bytes, EffectivePageSize(pageSize))
         /\ EffectivePageSize(pageSize) \in Nat \ {0}
         /\ bytes # <<>>
<1> DEFINE size == EffectivePageSize(pageSize)
           pages == SplitFlat(bytes, size)
<1>1. No.ok = FALSE
  BY DEF No
<1>2. ValidPageSize(size) /\ ParseRawImage(bytes, pageSize) = NewFirmware(pages, <<>>, {})
  BY <1>1 DEF ParseRawImage
<1>3. size \in Nat \ {0}
  <2>1. DefaultPageSize \in Int
    BY ImageAssumption
  <2>2. size \in Int
    BY <2>1 DEF EffectivePageSize
  <2>3. size > 0
    BY <1>2 DEF ValidPageSize
  <2> QED
    BY <2>2, <2>3
<1> HIDE DEF size
<1>4. Len(pages) # 0 /\ NewFirmware(pages, <<>>, {}).pages = pages
  <2> DEFINE img == [ok |-> TRUE, pages |-> pages, version |-> PrintableASCII(<<>>, MaxVersionLen), crc |-> {}]
  <2> HIDE DEF pages
  <2>1. Len(pages) \in 1 .. MaxPages /\ NewFirmware(pages, <<>>, {}) = img
    BY <1>1, <1>2, Zenon DEF NewFirmware
  <2>2. MaxPages \in Nat
    BY ImageAssumption
  <2>3. \A n \in 1 .. MaxPages : n # 0
    BY <2>2
  <2>4. Len(pages) # 0
    BY <2>1, <2>3
  <2>5. img.pages = pages
    OBVIOUS
  <2> HIDE DEF img
  <2> QED
    BY <2>1, <2>4, <2>5
<1>5. bytes # <<>>
  <2> SUFFICES ASSUME bytes = <<>> PROVE Len(pages) = 0
    BY <1>4
  <2>1. (Len(bytes) + size - 1) \div size = 0
    BY <1>3
  <2> HIDE DEF size
  <2> QED
    BY <2>1 DEF SplitFlat
<1> QED
  BY <1>2, <1>3, <1>4, <1>5 DEF size

\* A flat image is split as it is stated.
LEMMA FlatAsStated ==
  ASSUME NEW v, NEW bytes \in Seq(Int), NEW pageSize \in Int, v.t # "list",
         ParseRawImage(bytes, pageSize).ok
  PROVE  /\ ParseRawImage(bytes, pageSize).pages \in Seq(Seq(Int))
         /\ bytes = Stated(v) => PagesAsStated(v, ParseRawImage(bytes, pageSize).pages)
<1> DEFINE size == EffectivePageSize(pageSize)
           pages == SplitFlat(bytes, size)
<1>1. ParseRawImage(bytes, pageSize).pages = pages /\ size \in Nat \ {0} /\ bytes # <<>>
  BY RawImageSplits
<1> HIDE DEF size
<1>2. /\ pages \in Seq(Seq(Int)) /\ pages # <<>>
      /\ \A k \in 1 .. Len(pages) : Len(pages[k]) = size
      /\ IsPrefix(bytes, FlattenSeq(pages))
      /\ Len(FlattenSeq(pages)) - Len(bytes) \in 0 .. size - 1
      /\ \A i \in Len(bytes) + 1 .. Len(FlattenSeq(pages)) : FlattenSeq(pages)[i] = RawImagePad
  BY <1>1, SplitIsFlat
<1> HIDE DEF pages
<1>3. Len(pages[1]) = size
  BY <1>2
<1> QED
  BY <1>1, <1>2, <1>3, Zenon DEF PagesAsStated

LEMMA PagesNormalise ==
  ASSUME NEW v, NEW pageSize \in Int, IsPages(v), NormalisePages(v, pageSize).ok
  PROVE  /\ NormalisePages(v, pageSize).pages \in Seq(Seq(Int))
         /\ ~Ambiguous(v) => PagesAsStated(v, NormalisePages(v, pageSize).pages)
<1>1. No.ok = FALSE
  BY DEF No
<1>2. CASE v.t = "list"
  <2>1. NormalisePages(v, pageSize) = NormaliseElements(v.e)
    BY <1>2 DEF NormalisePages
  <2> QED
    BY <1>2, <2>1, ElementsNormalise
<1>3. CASE v.t = "text"
  <2>1. NormalisePages(v, pageSize) = NormaliseFlat(DecodeByteString(v.text), pageSize)
    BY <1>3 DEF NormalisePages
  <2>2. DecodeChunk(v) = DecodeByteString(v.text)
    BY <1>3 DEF DecodeChunk
  <2>3. DecodeChunk(v).ok /\ NormalisePages(v, pageSize) = ParseRawImage(DecodeChunk(v).bytes, pageSize)
    BY <1>1, <2>1, <2>2 DEF NormaliseFlat
  <2>4. IsChunk(v) /\ (Ambiguous(v) <=> AmbiguousText(v))
    BY <1>3 DEF IsPages, Ambiguous
  <2>5. DecodeChunk(v).bytes \in Seq(Int) /\ (~AmbiguousText(v) => DecodeChunk(v).bytes = Stated(v))
    BY <2>3, <2>4, ChunkDecodes
  <2> DEFINE bytes == DecodeChunk(v).bytes
  <2> HIDE DEF bytes
  <2>6. bytes \in Seq(Int) /\ ParseRawImage(bytes, pageSize).ok
    BY <2>3, <2>5 DEF bytes
  <2>7. /\ ParseRawImage(bytes, pageSize).pages \in Seq(Seq(Int))
        /\ bytes = Stated(v) => PagesAsStated(v, ParseRawImage(bytes, pageSize).pages)
    BY <1>3, <2>6, FlatAsStated
  <2> QED
    BY <2>3, <2>4, <2>5, <2>7 DEF bytes
<1>4. CASE v.t = "numbers"
  <2> DEFINE max == MaxPages * EffectivePageSize(pageSize)
  <2>1. NormalisePages(v, pageSize) = NormaliseFlat(DecodeByteArray(v.v, max), pageSize)
    BY <1>1, <1>4 DEF NormalisePages
  <2>2. DecodeByteArray(v.v, max).ok /\ NormalisePages(v, pageSize) = ParseRawImage(DecodeByteArray(v.v, max).bytes, pageSize)
    BY <1>1, <2>1 DEF NormaliseFlat
  <2>3. DecodeByteArray(v.v, max).bytes = v.v
    BY <1>1, <2>2 DEF DecodeByteArray, Yes
  <2>4. v.v \in Seq(Int) /\ v.v = Stated(v)
    BY <1>4 DEF IsPages, IsChunk, Stated
  <2>5. /\ ParseRawImage(v.v, pageSize).pages \in Seq(Seq(Int))
        /\ v.v = Stated(v) => PagesAsStated(v, ParseRawImage(v.v, pageSize).pages)
    BY <1>4, <2>2, <2>3, <2>4, FlatAsStated
  <2> QED
    BY <2>2, <2>3, <2>4, <2>5
<1>5. CASE v.t \notin {"list", "text", "numbers"}
  BY <1>1, <1>5 DEF NormalisePages
<1> QED
  BY <1>2, <1>3, <1>4, <1>5

\* What a document is read as is a valid image, and the one the document states.
LEMMA ParsedAsStated ==
  ASSUME NEW doc, IsDocument(doc), FetchParse(doc).ok
  PROVE  /\ ValidImage(FetchParse(doc)) /\ doc.t \in {"object", "array"}
         /\ Ambiguous(PagesOf(doc)) \/ PagesAsStated(PagesOf(doc), FetchParse(doc).pages)
<1>1. No.ok = FALSE
  BY DEF No
<1>2. LooksJSON(doc) /\ FetchParse(doc) = ParseImage(doc, 0)
  BY <1>1 DEF FetchParse
<1>3. CASE doc.t = "object"
  <2> DEFINE got == NormalisePages(PagesOf(doc), doc.page_size)
  <2>1. ParseImage(doc, 0) = ParseJSONPayload(doc)
    BY <1>3 DEF ParseImage
  <2>2. got.ok /\ doc.crc \subseteq 0 .. 255 /\ ParseJSONPayload(doc) = NewFirmware(got.pages, VersionOf(doc), doc.crc)
    BY <1>1, <1>2, <2>1 DEF ParseJSONPayload
  <2>3. IsPages(PagesOf(doc)) /\ doc.page_size \in Int
    <3>1. PagesOf(doc) \in {doc.app_bin, doc.app_bin_data, doc.firmware}
      BY <1>3 DEF PagesOf
    <3> QED
      BY <1>3, <3>1 DEF IsDocument
  <2>4. /\ got.pages \in Seq(Seq(Int))
        /\ ~Ambiguous(PagesOf(doc)) => PagesAsStated(PagesOf(doc), got.pages)
    BY <2>2, <2>3, PagesNormalise
  <2> HIDE DEF got
  <2>5. VersionOf(doc) \in Seq(Chars)
    BY <1>3 DEF IsDocument, VersionOf
  <2>6. NewFirmware(got.pages, VersionOf(doc), doc.crc).ok
    BY <1>2, <2>1, <2>2
  <2>7. /\ ValidImage(NewFirmware(got.pages, VersionOf(doc), doc.crc))
        /\ NewFirmware(got.pages, VersionOf(doc), doc.crc).pages = got.pages
    BY <2>2, <2>4, <2>6, <2>5, NewFirmwareGuards
  <2> QED
    BY <1>2, <1>3, <2>1, <2>2, <2>4, <2>7
<1>4. CASE doc.t = "array"
  <2> DEFINE got == NormalisePages(doc.value, 0)
  <2>1. ParseImage(doc, 0) = IF got.ok THEN NewFirmware(got.pages, <<>>, {}) ELSE No
    BY <1>4 DEF ParseImage
  <2>2. got.ok /\ ParseImage(doc, 0) = NewFirmware(got.pages, <<>>, {})
    BY <1>1, <1>2, <2>1
  <2>3. IsPages(doc.value) /\ PagesOf(doc) = doc.value
    BY <1>4 DEF IsDocument, PagesOf
  <2>4. /\ got.pages \in Seq(Seq(Int))
        /\ ~Ambiguous(doc.value) => PagesAsStated(doc.value, got.pages)
    <3> DEFINE v == doc.value
    <3>1. IsPages(v) /\ NormalisePages(v, 0).ok
      BY <2>2, <2>3
    <3> HIDE DEF v
    <3>2. /\ NormalisePages(v, 0).pages \in Seq(Seq(Int))
          /\ ~Ambiguous(v) => PagesAsStated(v, NormalisePages(v, 0).pages)
      BY <3>1, PagesNormalise
    <3> QED
      BY <3>2 DEF v
  <2> HIDE DEF got
  <2>5. <<>> \in Seq(Chars)
    OBVIOUS
  <2>6. /\ ValidImage(NewFirmware(got.pages, <<>>, {}))
        /\ NewFirmware(got.pages, <<>>, {}).pages = got.pages
    BY <1>2, <2>2, <2>4, <2>5, NewFirmwareGuards
  <2> QED
    BY <1>2, <1>4, <2>2, <2>3, <2>4, <2>6
<1>5. CASE doc.t = "malformed"
  BY <1>1, <1>2, <1>5 DEF ParseImage
<1> QED
  BY <1>2, <1>3, <1>4, <1>5 DEF LooksJSON

\* An image that was saved reads back as itself, its version cleaned once more.
Again(fw) ==
  [ok |-> TRUE, pages |-> fw.pages, version |-> PrintableASCII(fw.version, MaxVersionLen), crc |-> fw.crc]

LEMMA ReadsBack ==
  ASSUME NEW fw, ValidImage(fw)
  PROVE  ParseImage(MarshalFirmware(fw), 0) = Again(fw) /\ LooksJSON(MarshalFirmware(fw))
<1> DEFINE doc == MarshalFirmware(fw)
           n == Len(fw.pages)
           E(i) == [t |-> "text", text |-> HexText(fw.pages[i])]
           e == [i \in 1 .. n |-> E(i)]
           v == [t |-> "list", e |-> e]
<1>1. /\ doc.t = "object" /\ doc.app_version = fw.version /\ doc.version = <<>>
      /\ doc.crc = fw.crc /\ doc.app_bin = v
  BY DEF MarshalFirmware
<1>2. n \in 1 .. MaxPages /\ n \in Nat \ {0}
  BY ImageAssumption DEF ValidImage
<1> HIDE DEF doc
<1>3. PagesOf(doc) = v /\ v.t = "list" /\ v.e = e
  <2>1. v.t = "list" /\ v.e = e
    OBVIOUS
  <2> HIDE DEF v
  <2> QED
    BY <1>1, <2>1 DEF PagesOf, Present
<1>4. \A i \in 1 .. n : DecodePage(e[i]) = Yes(fw.pages[i]) /\ StatedId(e[i]) = {}
  <2> TAKE i \in 1 .. n
  <2>1. e[i] = E(i)
    OBVIOUS
  <2>2. fw.pages[i] # <<>>
    <3>1. fw.pages[i] \in Seq(Int) /\ Len(fw.pages[i]) > 0
      BY DEF ValidImage, ValidPageSize
    <3> QED
      BY <3>1
  <2>3. DecodeByteString(HexText(fw.pages[i])) = Yes(fw.pages[i])
    BY <2>2 DEF DecodeByteString, HexText
  <2>4. E(i).t = "text" /\ E(i).text = HexText(fw.pages[i])
    OBVIOUS
  <2> HIDE DEF E
  <2>5. DecodePage(E(i)) = Yes(fw.pages[i]) /\ StatedId(E(i)) = {}
    BY <2>3, <2>4 DEF DecodePage, DecodeChunk, StatedId
  <2> QED
    BY <2>1, <2>5
<1> HIDE DEF E, e, n
<1>5. Len(e) = n
  BY <1>2 DEF e
<1>6. NormaliseElements(e) = Pages(fw.pages)
  <2> DEFINE page == [i \in 1 .. n |-> DecodePage(e[i])]
             ids == [i \in 1 .. n |-> StatedId(e[i])]
             p == [i \in 1 .. n |-> page[i].bytes]
  <2>1. \A i \in 1 .. n : page[i].ok /\ page[i].bytes = fw.pages[i]
    <3>1. \A b : Yes(b).ok = TRUE /\ Yes(b).bytes = b
      BY DEF Yes
    <3> QED
      BY <1>4, <3>1
  <2>2. NormaliseElements(e) = OrderByPageID(ids, p)
    BY <1>2, <1>5, <2>1 DEF NormaliseElements
  <2>3. p = fw.pages
    <3>1. fw.pages = [i \in 1 .. n |-> fw.pages[i]]
      BY DEF ValidImage, n
    <3> HIDE DEF page
    <3> QED
      BY <2>1, <3>1
  <2>4. Len(ids) = n /\ \A i \in 1 .. n : ids[i] = {}
    BY <1>2, <1>4
  <2> HIDE DEF ids, p
  <2>5. OrderByPageID(ids, p) = Pages(p)
    BY <1>2, <2>4, StayInOrder
  <2> QED
    BY <2>2, <2>3, <2>5
<1>7. NormalisePages(v, doc.page_size) = Pages(fw.pages)
  BY <1>3, <1>6 DEF NormalisePages
<1>8. NewFirmware(fw.pages, VersionOf(doc), fw.crc) = Again(fw)
  <2>1. VersionOf(doc) = fw.version
    BY <1>1 DEF VersionOf
  <2> QED
    BY <2>1, Zenon DEF NewFirmware, ValidImage, Again
<1>9. ParseJSONPayload(doc) = Again(fw)
  <2>1. Pages(fw.pages).ok /\ Pages(fw.pages).pages = fw.pages
    BY DEF Pages
  <2>2. doc.crc \subseteq 0 .. 255
    BY <1>1 DEF ValidImage
  <2> QED
    BY <1>1, <1>3, <1>7, <1>8, <2>1, <2>2, Zenon DEF ParseJSONPayload
<1>10. ParseImage(doc, 0) = Again(fw)
  BY <1>1, <1>9 DEF ParseImage
<1> QED
  BY <1>1, <1>10 DEF LooksJSON, doc

-----------------------------------------------------------------------------
(* What is on the wire *)

DataOps == {"text", "binary", "continuation"}
Answers == [op : {"line", "101", "refusal"}]
FrameSet ==
  [op : DataOps \cup Controls \cup {"unknown"}, fin : BOOLEAN, body : Seq(Nat), ok : BOOLEAN,
   torn : BOOLEAN]
Traffic == Answers \cup FrameSet

Data(f) == f.op \in DataOps

\* A frame of the reply, as against one that only looks like it.
Whole(f) == f \in FrameSet /\ Data(f) /\ f.ok /\ \A i \in 1 .. Len(f.body) : f.body[i] # Junk

\* Pieces a + 1 to a + n of the reply.
Run(a, n) == [i \in 1 .. n |-> a + i]

\* f takes a client that has a pieces to b of them, of n in all.
Carries(f, a, b, n) ==
  IF Whole(f)
  THEN f.body = Run(a, Len(f.body)) /\ b = a + Len(f.body) /\ (f.fin => b = n)
  ELSE b = a

\* The frames of w take it from a pieces to b.
Flow(w, a, b, n) ==
  \E at \in [1 .. Len(w) + 1 -> 0 .. b] :
    /\ at[1] = a /\ at[Len(w) + 1] = b
    /\ \A i \in 1 .. Len(w) : Carries(w[i], at[i], at[i + 1], n)

\* What the client refuses, whether or not a message has begun.
Fatal(f, begun) ==
  \/ ~f.ok \/ f.op = "unknown"
  \/ Data(f) /\ Len(f.body) > MaxMsg
  \/ Data(f) /\ IF begun THEN f.op # "continuation" ELSE f.op = "continuation"

\* What an endpoint that has, or has not, broken the protocol may send next.
Obeys(f, begun, broken) ==
  \/ Whole(f) /\ f.op = (IF begun THEN "continuation" ELSE "text")
  \/ f.op \in Controls /\ (f.ok \/ broken) /\ (f.op = "close" => broken)
  \/ broken /\ Fatal(f, begun)

Begun(w, i, begun) == begun \/ \E j \in 1 .. i - 1 : Data(w[j])

Ruled(w, begun, broken) ==
  \A i \in 1 .. Len(w) : w[i] \in FrameSet => Obeys(w[i], Begun(w, i, begun), broken)

\* Header lines on the wire, which holds two things at most.
LinesIn(w) ==
  (IF Len(w) > 0 /\ w[1].op = "line" THEN 1 ELSE 0)
  + (IF Len(w) > 1 /\ w[2].op = "line" THEN 1 ELSE 0)

-----------------------------------------------------------------------------
(* The invariant *)

Underway == call \notin {"done", "over"}
Streaming == {"arm", "serial", "read", "payload", "pong"}

Flags ==
  /\ rude \in BOOLEAN /\ hook \in BOOLEAN /\ bound \in BOOLEAN /\ started \in BOOLEAN

WSTypes ==
  /\ length \in Nat /\ sent \in 0 .. length
  /\ wire \in Seq(Traffic) /\ Len(wire) <= 2
  /\ server \in {"handshake", "frames", "midway", "finished", "gone"}
  /\ lines \in Nat /\ left \in Nat
  /\ ctx \in {"live", "cancelled", "expired"} /\ tcp \in {"none", "open", "closed"}
  /\ call \in {"idle", "dial", "tls", "upgrade", "headers", "done", "over"} \cup Streaming
  /\ buf \in Seq(Nat)
  /\ call = "payload" => frame \in FrameSet
  /\ call \in {"idle", "dial", "tls", "upgrade"} => wire = <<>> /\ server \in {"handshake", "gone"}

\* The handshake comes before the frames, and is over once its answer was read.
Stage ==
  /\ \A i \in 1 .. Len(wire) :
       wire[i] \in Answers => call \notin Streaming /\ \A j \in 1 .. i - 1 : wire[j].op = "line"
  /\ server = "handshake" =>
       call \notin Streaming /\ \A i \in 1 .. Len(wire) : wire[i].op = "line"
  /\ \A i \in 1 .. Len(wire) : wire[i].op = "refusal" => rude
  /\ tcp = "closed" => ctx # "live" \/ ~Underway
  /\ call \in Streaming => ~bound
  /\ Underway /\ bound => left + lines = MaxHeader + LinesIn(wire)

Ahead == started \/ (call = "payload" /\ Data(frame))

\* Where each piece of the reply is: in the message so far, in the frame whose
\* payload is awaited, on the wire, or not sent yet.
Pieces ==
  Underway =>
    /\ buf = Run(0, Len(buf)) /\ (~started => Len(buf) = 0)
    /\ \E c \in 0 .. sent :
         /\ Flow(wire, c, sent, length)
         /\ IF call = "payload" THEN Carries(frame, Len(buf), c, length) ELSE c = Len(buf)

\* Frames come in an order the protocol allows, or the endpoint has broken it.
Protocol ==
  Underway =>
    /\ Ruled(wire, Ahead, rude)
    /\ call = "payload" => Obeys(frame, started, rude)
    /\ server \in {"handshake", "frames"} => ~Ahead /\ \A i \in 1 .. Len(wire) : ~Data(wire[i])
    /\ server = "midway" => Ahead \/ \E i \in 1 .. Len(wire) : Data(wire[i])

\* The frame whose payload is awaited fits in what the message has left.
Fits ==
  /\ Len(buf) <= MaxMsg
  /\ call = "payload" =>
       frame.ok /\ (frame.op \in Controls \/ Len(frame.body) <= MaxMsg - Len(buf))

\* A command that has not begun has nothing under way.
Waiting == cmd = "start" => call = "idle"

WSInv == Flags /\ WSTypes /\ Stage /\ Pieces /\ Protocol /\ Fits

USE WebSocketAssumption

-----------------------------------------------------------------------------
(* Lemmas about what is on the wire.                                       *)

\* Marking a frame as torn leaves alone what it carries and what the rules say of it.
LEMMA TornFrame ==
  ASSUME NEW f \in FrameSet, NEW g, g = [f EXCEPT !.torn = TRUE]
  PROVE  /\ g \in FrameSet /\ g.op = f.op /\ g.fin = f.fin /\ g.body = f.body /\ g.ok = f.ok
         /\ Whole(g) <=> Whole(f)
<1>1. g \in FrameSet /\ g.op = f.op /\ g.fin = f.fin /\ g.body = f.body /\ g.ok = f.ok
  BY DEF FrameSet
<1> QED
  BY <1>1 DEF Whole, Data

\* A frame more on the wire.
LEMMA FlowAppend ==
  ASSUME NEW w \in Seq(Traffic), NEW f \in Traffic, NEW a, NEW n,
         NEW b \in Nat, NEW t \in Nat, b <= t,
         Flow(w, a, b, n), Carries(f, b, t, n)
  PROVE  Flow(Append(w, f), a, t, n)
<1>1. PICK at \in [1 .. Len(w) + 1 -> 0 .. b] :
        /\ at[1] = a /\ at[Len(w) + 1] = b
        /\ \A i \in 1 .. Len(w) : Carries(w[i], at[i], at[i + 1], n)
  BY DEF Flow
<1>2. /\ Len(w) \in Nat /\ Len(Append(w, f)) = Len(w) + 1
      /\ Append(w, f)[Len(w) + 1] = f /\ \A i \in 1 .. Len(w) : Append(w, f)[i] = w[i]
  BY AppendProperties, LenProperties
<1> DEFINE to == [i \in 1 .. Len(w) + 2 |-> IF i = Len(w) + 2 THEN t ELSE at[i]]
<1>3. to \in [1 .. Len(Append(w, f)) + 1 -> 0 .. t]
  BY <1>1, <1>2
<1>4. to[1] = a /\ to[Len(Append(w, f)) + 1] = t
  BY <1>1, <1>2
<1>5. ASSUME NEW i \in 1 .. Len(Append(w, f))
      PROVE  Carries(Append(w, f)[i], to[i], to[i + 1], n)
  <2>1. CASE i \in 1 .. Len(w)
    <3>1. to[i] = at[i] /\ to[i + 1] = at[i + 1]
      BY <1>2, <2>1
    <3> QED
      BY <1>1, <1>2, <2>1, <3>1
  <2>2. CASE i = Len(w) + 1
    <3>1. to[i] = b /\ to[i + 1] = t
      BY <1>1, <1>2, <2>2
    <3> QED
      BY <1>2, <2>2, <3>1
  <2> QED
    BY <1>2, <2>1, <2>2
<1> HIDE DEF to
<1> QED
  BY <1>3, <1>4, <1>5 DEF Flow

\* The first frame is taken off the wire.
LEMMA FlowTail ==
  ASSUME NEW w \in Seq(Traffic), w # <<>>, NEW a, NEW n, NEW b \in Nat, Flow(w, a, b, n)
  PROVE  \E c \in 0 .. b : Carries(Head(w), a, c, n) /\ Flow(Tail(w), c, b, n)
<1>1. PICK at \in [1 .. Len(w) + 1 -> 0 .. b] :
        /\ at[1] = a /\ at[Len(w) + 1] = b
        /\ \A i \in 1 .. Len(w) : Carries(w[i], at[i], at[i + 1], n)
  BY DEF Flow
<1>2. /\ Len(w) \in Nat \ {0} /\ Tail(w) \in Seq(Traffic) /\ Len(Tail(w)) = Len(w) - 1
      /\ Head(w) = w[1] /\ \A i \in 1 .. Len(Tail(w)) : Tail(w)[i] = w[i + 1]
  BY HeadTailProperties, LenProperties, EmptySeq
<1> DEFINE to == [i \in 1 .. Len(w) |-> at[i + 1]]
<1>3. /\ to \in [1 .. Len(Tail(w)) + 1 -> 0 .. b]
      /\ to[1] = at[2] /\ to[Len(Tail(w)) + 1] = b
  BY <1>1, <1>2
<1>4. ASSUME NEW i \in 1 .. Len(Tail(w))
      PROVE  Carries(Tail(w)[i], to[i], to[i + 1], n)
  <2>1. to[i] = at[i + 1] /\ to[i + 1] = at[i + 2] /\ i + 1 \in 1 .. Len(w)
    BY <1>2
  <2> QED
    BY <1>1, <1>2, <2>1
<1>5. at[2] \in 0 .. b /\ Carries(Head(w), a, at[2], n)
  BY <1>1, <1>2
<1> HIDE DEF to
<1> QED
  BY <1>3, <1>4, <1>5 DEF Flow

\* The last one is torn.
LEMMA FlowTorn ==
  ASSUME NEW w \in Seq(Traffic), w # <<>>, w[Len(w)] \in FrameSet,
         NEW v, v = [w EXCEPT ![Len(w)].torn = TRUE], NEW a, NEW b, NEW n, Flow(w, a, b, n)
  PROVE  Flow(v, a, b, n)
<1>1. Len(w) \in Nat \ {0} /\ w \in [1 .. Len(w) -> Traffic]
  BY LenProperties, EmptySeq
<1>2. /\ v[Len(w)] = [w[Len(w)] EXCEPT !.torn = TRUE]
      /\ \A i \in 1 .. Len(w) : i # Len(w) => v[i] = w[i]
  <2>1. v = [w EXCEPT ![Len(w)] = [w[Len(w)] EXCEPT !.torn = TRUE]]
    OBVIOUS
  <2>2. [w[Len(w)] EXCEPT !.torn = TRUE] \in Traffic
    BY TornFrame DEF Traffic
  <2> DEFINE e == [w[Len(w)] EXCEPT !.torn = TRUE]
  <2> HIDE DEF e
  <2>3. v = [w EXCEPT ![Len(w)] = e] /\ e \in Traffic
    BY <2>1, <2>2 DEF e
  <2>4. v[Len(w)] = e /\ \A i \in 1 .. Len(w) : i # Len(w) => v[i] = w[i]
    BY <1>1, <2>3
  <2> QED
    BY <2>4 DEF e
<1>3. \A x, y : Carries(v[Len(w)], x, y, n) <=> Carries(w[Len(w)], x, y, n)
  BY <1>2, TornFrame DEF Carries
<1>4. Len(v) = Len(w)
  BY <1>1, ExceptSeq
<1>5. PICK at \in [1 .. Len(w) + 1 -> 0 .. b] :
        /\ at[1] = a /\ at[Len(w) + 1] = b
        /\ \A i \in 1 .. Len(w) : Carries(w[i], at[i], at[i + 1], n)
  BY DEF Flow
<1>6. \A i \in 1 .. Len(w) : Carries(v[i], at[i], at[i + 1], n)
  BY <1>2, <1>3, <1>5
<1> QED
  BY <1>4, <1>5, <1>6 DEF Flow

\* The same three things, of the rules.
LEMMA RuledAppend ==
  ASSUME NEW w \in Seq(Traffic), NEW f \in Traffic, NEW begun, NEW broken, Ruled(w, begun, broken),
         f \in FrameSet => Obeys(f, Begun(w, Len(w) + 1, begun), broken)
  PROVE  Ruled(Append(w, f), begun, broken)
<1>1. /\ Len(w) \in Nat /\ Len(Append(w, f)) = Len(w) + 1
      /\ Append(w, f)[Len(w) + 1] = f /\ \A i \in 1 .. Len(w) : Append(w, f)[i] = w[i]
  BY AppendProperties, LenProperties
<1>2. \A i \in 1 .. Len(w) + 1 : Begun(Append(w, f), i, begun) <=> Begun(w, i, begun)
  BY <1>1 DEF Begun
<1>3. \A i \in 1 .. Len(w) + 1 : \A g : Obeys(g, Begun(Append(w, f), i, begun), broken)
                                          <=> Obeys(g, Begun(w, i, begun), broken)
  BY <1>2 DEF Obeys, Fatal
<1> QED
  BY <1>1, <1>3 DEF Ruled

LEMMA RuledTail ==
  ASSUME NEW w \in Seq(Traffic), w # <<>>, NEW begun, NEW broken, Ruled(w, begun, broken)
  PROVE  /\ Head(w) \in FrameSet => Obeys(Head(w), begun, broken)
         /\ Ruled(Tail(w), begun \/ Data(Head(w)), broken)
<1>1. /\ Len(w) \in Nat \ {0} /\ Len(Tail(w)) = Len(w) - 1
      /\ Head(w) = w[1] /\ \A i \in 1 .. Len(Tail(w)) : Tail(w)[i] = w[i + 1]
  BY HeadTailProperties, LenProperties, EmptySeq
<1>2. Begun(w, 1, begun) <=> begun
  BY DEF Begun
<1>3. ASSUME NEW i \in 1 .. Len(Tail(w))
      PROVE  Begun(Tail(w), i, begun \/ Data(Head(w))) <=> Begun(w, i + 1, begun)
  <2>1. (\E j \in 1 .. i : Data(w[j])) <=> Data(w[1]) \/ \E j \in 1 .. i - 1 : Data(w[j + 1])
    <3>1. ASSUME NEW j \in 1 .. i, Data(w[j]), j # 1
          PROVE  \E k \in 1 .. i - 1 : Data(w[k + 1])
      <4>1. j - 1 \in 1 .. i - 1 /\ (j - 1) + 1 = j
        BY <3>1
      <4> QED
        BY <3>1, <4>1
    <3>2. ASSUME NEW j \in 1 .. i - 1, Data(w[j + 1])
          PROVE  \E k \in 1 .. i : Data(w[k])
      BY <3>2
    <3> QED
      BY <3>1, <3>2
  <2>2. \A j \in 1 .. i - 1 : Tail(w)[j] = w[j + 1]
    BY <1>1
  <2> QED
    BY <1>1, <2>1, <2>2 DEF Begun
<1>4. ASSUME NEW i \in 1 .. Len(Tail(w)), Tail(w)[i] \in FrameSet
      PROVE  Obeys(Tail(w)[i], Begun(Tail(w), i, begun \/ Data(Head(w))), broken)
  <2>1. i + 1 \in 1 .. Len(w) /\ Tail(w)[i] = w[i + 1]
    BY <1>1
  <2>2. Obeys(w[i + 1], Begun(w, i + 1, begun), broken)
    BY <1>4, <2>1 DEF Ruled
  <2> QED
    BY <1>3, <2>1, <2>2 DEF Obeys, Fatal
<1>5. Head(w) \in FrameSet => Obeys(Head(w), begun, broken)
  <2>1. Head(w) \in FrameSet => Obeys(w[1], Begun(w, 1, begun), broken)
    BY <1>1 DEF Ruled
  <2> QED
    BY <1>1, <1>2, <2>1 DEF Obeys, Fatal
<1> QED
  BY <1>4, <1>5 DEF Ruled

LEMMA RuledTorn ==
  ASSUME NEW w \in Seq(Traffic), w # <<>>, w[Len(w)] \in FrameSet,
         NEW v, v = [w EXCEPT ![Len(w)].torn = TRUE], NEW begun, NEW broken, Ruled(w, begun, broken)
  PROVE  Ruled(v, begun, broken)
<1>1. Len(w) \in Nat \ {0} /\ w \in [1 .. Len(w) -> Traffic]
  BY LenProperties, EmptySeq
<1>2. /\ v[Len(w)] = [w[Len(w)] EXCEPT !.torn = TRUE]
      /\ \A i \in 1 .. Len(w) : i # Len(w) => v[i] = w[i]
  <2>1. v = [w EXCEPT ![Len(w)] = [w[Len(w)] EXCEPT !.torn = TRUE]]
    OBVIOUS
  <2>2. [w[Len(w)] EXCEPT !.torn = TRUE] \in Traffic
    BY TornFrame DEF Traffic
  <2> DEFINE e == [w[Len(w)] EXCEPT !.torn = TRUE]
  <2> HIDE DEF e
  <2>3. v = [w EXCEPT ![Len(w)] = e] /\ e \in Traffic
    BY <2>1, <2>2 DEF e
  <2>4. v[Len(w)] = e /\ \A i \in 1 .. Len(w) : i # Len(w) => v[i] = w[i]
    BY <1>1, <2>3
  <2> QED
    BY <2>4 DEF e
<1>3. Len(v) = Len(w)
  BY <1>1, ExceptSeq
<1>4. \A i \in 1 .. Len(w) : Data(v[i]) <=> Data(w[i])
  BY <1>2, TornFrame DEF Data
<1>5. \A i \in 1 .. Len(w) : Begun(v, i, begun) <=> Begun(w, i, begun)
  BY <1>1, <1>4 DEF Begun
<1>6. \A x : Obeys(v[Len(w)], x, broken) <=> Obeys(w[Len(w)], x, broken)
  BY <1>2, TornFrame DEF Obeys, Fatal, Data
<1>7. ASSUME NEW i \in 1 .. Len(w), v[i] \in FrameSet
      PROVE  Obeys(v[i], Begun(v, i, begun), broken)
  <2>1. w[i] \in FrameSet
    BY <1>2, <1>7
  <2>2. Obeys(w[i], Begun(w, i, begun), broken)
    BY <2>1 DEF Ruled
  <2>3. Obeys(v[i], Begun(w, i, begun), broken)
    BY <1>2, <1>6, <2>2
  <2> QED
    BY <1>5, <2>3 DEF Obeys, Fatal
<1> QED
  BY <1>3, <1>7 DEF Ruled

LEMMA RuledBroken ==
  ASSUME NEW w, NEW begun, NEW broken, Ruled(w, begun, broken)
  PROVE  Ruled(w, begun, TRUE)
BY DEF Ruled, Obeys

\* A run of pieces is a sequence of them.
LEMMA RunProperties ==
  ASSUME NEW a \in Nat, NEW n \in Nat
  PROVE  Run(a, n) \in Seq(Nat) /\ Len(Run(a, n)) = n /\ \A i \in 1 .. n : Run(a, n)[i] = a + i
<1>1. Run(a, n) \in [1 .. n -> Nat]
  BY DEF Run
<1>2. Run(a, n) \in Seq(Nat)
  BY <1>1, SeqDef
<1>3. Len(Run(a, n)) = n
  BY <1>1, <1>2, LenProperties
<1> QED
  BY <1>2, <1>3 DEF Run

\* The pieces of the reply are no junk.
LEMMA FragmentIsWhole ==
  ASSUME NEW n \in Nat, NEW fin \in BOOLEAN, sent \in Nat,
         NEW f, f = Frame(InOrderOp, fin, [i \in 1 .. n |-> sent + i])
  PROVE  /\ f \in FrameSet /\ Whole(f) /\ Len(f.body) = n /\ f.fin = fin
         /\ f.body = Run(sent, n) /\ f.op = IF server = "frames" THEN "text" ELSE "continuation"
<1>1. f.body = Run(sent, n) /\ f.op = InOrderOp /\ f.fin = fin /\ f.ok = TRUE /\ f.torn = FALSE
  BY DEF Frame, Run
<1>2. f \in FrameSet
  BY <1>1, RunProperties DEF Frame, FrameSet, InOrderOp, DataOps
<1>4. Len(f.body) = n /\ \A i \in 1 .. n : f.body[i] = sent + i
  <2>1. Len(Run(sent, n)) = n /\ \A i \in 1 .. n : Run(sent, n)[i] = sent + i
    BY RunProperties
  <2> QED
    BY <1>1, <2>1
<1>3. \A i \in 1 .. Len(f.body) : f.body[i] # Junk
  BY <1>4 DEF Junk
<1> QED
  BY <1>1, <1>2, <1>3, <1>4 DEF Whole, Data, DataOps, InOrderOp

\* Whatever breaks the protocol is refused.
LEMMA BreachIsFatal ==
  ASSUME NEW f \in Breaches
  PROVE  /\ f \in FrameSet /\ ~Whole(f)
         /\ server = "frames" => Fatal(f, FALSE)
         /\ server = "midway" => Fatal(f, TRUE)
<1>1. <<Junk>> \in Seq(Nat) /\ Len(<<Junk>>) = 1 /\ <<Junk>>[1] = Junk
  BY DEF Junk
<1> DEFINE long == [i \in 1 .. MaxMsg + 1 |-> Junk]
<1>2. long \in Seq(Nat) /\ Len(long) = MaxMsg + 1 /\ long[1] = Junk
  <2>1. MaxMsg + 1 \in Nat /\ MaxMsg + 1 > 0
    OBVIOUS
  <2>2. long \in [1 .. MaxMsg + 1 -> Nat] /\ long[1] = Junk
    BY <2>1 DEF Junk
  <2>3. long \in Seq(Nat)
    BY <2>1, <2>2, SeqDef
  <2> QED
    BY <2>1, <2>2, <2>3, LenProperties
<1> HIDE DEF long
<1>3. CASE \E op \in {"text", "ping"} : f = [Frame(op, TRUE, <<Junk>>) EXCEPT !.ok = FALSE]
  <2>1. f \in FrameSet /\ f.ok = FALSE
    BY <1>1, <1>3 DEF Frame, FrameSet, DataOps, Controls
  <2> QED
    BY <2>1 DEF Whole, Fatal
<1>4. CASE f = Frame("unknown", TRUE, <<Junk>>)
  <2>1. f \in FrameSet /\ f.op = "unknown"
    BY <1>1, <1>4 DEF Frame, FrameSet
  <2> QED
    BY <2>1 DEF Whole, Data, DataOps, Fatal
<1>5. CASE f = Frame(InOrderOp, FALSE, long)
  <2>1. f \in FrameSet /\ f.body = long /\ Data(f)
    BY <1>2, <1>5 DEF Frame, FrameSet, InOrderOp, Data, DataOps
  <2>2. Len(f.body) > MaxMsg
    BY <1>2, <2>1
  <2>3. 1 \in 1 .. Len(f.body) /\ f.body[1] = Junk
    BY <1>2, <2>1
  <2> QED
    BY <2>1, <2>2, <2>3 DEF Whole, Fatal
<1>6. CASE f = Frame(IF server = "frames" THEN "continuation" ELSE "binary", TRUE, <<Junk>>)
  <2>1. f \in FrameSet /\ Data(f) /\ f.op = (IF server = "frames" THEN "continuation" ELSE "binary")
    BY <1>1, <1>6 DEF Frame, FrameSet, Data, DataOps
  <2>2. 1 \in 1 .. Len(f.body) /\ f.body[1] = Junk
    BY <1>1, <1>6 DEF Frame
  <2> QED
    BY <2>1, <2>2 DEF Whole, Fatal
<1> QED
  BY <1>3, <1>4, <1>5, <1>6 DEF Breaches, long

\* Something more on the wire.
LEMMA WireAppend ==
  ASSUME wire \in Seq(Traffic), Len(wire) < 2, NEW f \in Traffic, wire' = Append(wire, f)
  PROVE  /\ wire' \in Seq(Traffic) /\ Len(wire') <= 2
         /\ Len(wire) \in Nat /\ Len(wire') = Len(wire) + 1 /\ wire'[Len(wire) + 1] = f
         /\ \A i \in 1 .. Len(wire) : wire'[i] = wire[i]
BY AppendProperties, LenProperties

LEMMA WireTail ==
  ASSUME wire \in Seq(Traffic), Len(wire) <= 2, wire # <<>>, wire' = Tail(wire)
  PROVE  /\ wire' \in Seq(Traffic) /\ Len(wire') <= 2
         /\ Head(wire) \in Traffic /\ Head(wire) = wire[1]
         /\ Len(wire) \in Nat \ {0} /\ Len(wire') = Len(wire) - 1
         /\ \A i \in 1 .. Len(wire') : wire'[i] = wire[i + 1]
BY HeadTailProperties, LenProperties, EmptySeq

\* The last of it is torn as its sender leaves.
LEMMA LeaveTears ==
  ASSUME wire \in Seq(Traffic), Leave
  PROVE  \/ wire' = wire
         \/ /\ wire # <<>> /\ wire[Len(wire)] \in FrameSet /\ Len(wire') = Len(wire)
            /\ wire' = [wire EXCEPT ![Len(wire)].torn = TRUE] /\ wire' \in Seq(Traffic)
            /\ \A i \in 1 .. Len(wire) : wire'[i].op = wire[i].op
                                         /\ (wire'[i] \in Answers => wire[i] \in Answers)
<1> SUFFICES ASSUME wire # <<>>, wire[Len(wire)].op \notin {"line", "101", "refusal"},
                    wire' = [wire EXCEPT ![Len(wire)].torn = TRUE]
             PROVE  /\ wire[Len(wire)] \in FrameSet
                       /\ Len(wire') = Len(wire) /\ wire' \in Seq(Traffic)
                    /\ \A i \in 1 .. Len(wire) : wire'[i].op = wire[i].op
                                                 /\ (wire'[i] \in Answers => wire[i] \in Answers)
  BY DEF Leave
<1>1. Len(wire) \in Nat \ {0} /\ wire \in [1 .. Len(wire) -> Traffic]
  BY LenProperties, EmptySeq
<1>2. wire[Len(wire)] \in FrameSet
  BY <1>1 DEF Traffic, Answers
<1> DEFINE e == [wire[Len(wire)] EXCEPT !.torn = TRUE]
<1>3. e \in FrameSet /\ e.op = wire[Len(wire)].op
  BY <1>2, TornFrame
<1>4. wire' = [wire EXCEPT ![Len(wire)] = e]
  OBVIOUS
<1> HIDE DEF e
<1>5. e \in Traffic /\ e \notin Answers
  BY <1>3 DEF Traffic, FrameSet, Answers, DataOps, Controls
<1>6. wire' \in Seq(Traffic) /\ Len(wire') = Len(wire)
  <2>1. wire' \in [1 .. Len(wire) -> Traffic]
    BY <1>1, <1>4, <1>5
  <2>2. wire' \in Seq(Traffic)
    BY <1>1, <2>1, SeqDef
  <2> QED
    BY <1>1, <2>1, <2>2, LenProperties
<1>7. wire'[Len(wire)] = e /\ \A i \in 1 .. Len(wire) : i # Len(wire) => wire'[i] = wire[i]
  BY <1>1, <1>4
<1> QED
  BY <1>1, <1>2, <1>3, <1>5, <1>6, <1>7

-----------------------------------------------------------------------------
(* Every step the download takes or meets.                                 *)

Begins == call = "idle" /\ call' = "dial" /\ UNCHANGED <<endpoint, ctx, tcp, hook, reader, outcome>>

WSStep ==
  \/ Endpoint \/ HookFires \/ Client \/ Begins \/ Forget \/ UNCHANGED wsVars
  \/ \E how \in {"cancelled", "expired"} : EndContext(how)

\* The command does nothing else to it.
LEMMA StepIsWSStep ==
  ASSUME Waiting, [Next]_vars
  PROVE  WSStep
<1>1. CASE Network
  BY <1>1 DEF Network, WSStep
<1>2. CASE Exchange
  BY <1>2 DEF Exchange, WSStep
<1>3. CASE ReadSerial
  BY <1>3 DEF ReadSerial, WSStep, Waiting, Begins, End, wsVars
<1>4. CASE FetchFails \/ FetchEnds
  BY <1>4 DEF FetchFails, FetchEnds, WSStep
<1>5. CASE Report \/ Save \/ ReportSaved \/ PowerFails
  BY <1>5 DEF Report, Save, ReportSaved, PowerFails, WSStep
<1>6. ASSUME NEW p, LoadFirmware(p) PROVE WSStep
  BY <1>6 DEF LoadFirmware, WSStep
<1>7. CASE UNCHANGED vars
  BY <1>7 DEF vars, WSStep
<1> QED
  BY <1>1, <1>2, <1>3, <1>4, <1>5, <1>6, <1>7 DEF Next, Command

LEMMA WaitingStep ==
  ASSUME Waiting, [Next]_vars
  PROVE  Waiting'
<1> USE DEF Waiting, End, fetchVars, wsVars, client
<1>1. CASE Network \/ Exchange
  BY <1>1 DEF Network, Exchange
<1>2. CASE ReadSerial \/ FetchFails \/ FetchEnds
  BY <1>2 DEF ReadSerial, FetchFails, FetchEnds
<1>3. CASE Report \/ Save \/ ReportSaved \/ PowerFails
  BY <1>3 DEF Report, Save, ReportSaved, PowerFails
<1>4. ASSUME NEW p, LoadFirmware(p) PROVE Waiting'
  BY <1>4 DEF LoadFirmware
<1>5. CASE UNCHANGED vars
  BY <1>5 DEF vars
<1> QED
  BY <1>1, <1>2, <1>3, <1>4, <1>5 DEF Next, Command

LEMMA FlagsStep ==
  ASSUME Flags, WSTypes, WSStep
  PROVE  Flags'
<1> USE DEF Flags, endpoint, reader, client, wsVars, Emit, Take, Goto, Return, Fails
<1>1. CASE HeaderLine \/ Leave
  BY <1>1 DEF HeaderLine, Leave
<1>2. ASSUME NEW proper \in BOOLEAN, AnswerUpgrade(proper) PROVE Flags'
  BY <1>2 DEF AnswerUpgrade
<1>3. ASSUME NEW n \in 0 .. MaxMsg, NEW fin \in BOOLEAN, Fragment(n, fin) PROVE Flags'
  BY <1>3 DEF Fragment
<1>4. ASSUME NEW op \in Controls, Control(op) PROVE Flags'
  BY <1>4 DEF Control
<1>5. CASE Breach
  BY <1>5 DEF Breach
<1>6. CASE HookFires \/ Begins \/ Forget \/ UNCHANGED wsVars
           \/ \E how \in {"cancelled", "expired"} : EndContext(how)
  BY <1>6 DEF HookFires, Begins, Forget, EndContext
<1>7. ASSUME NEW url, Dial(url) PROVE Flags'
  BY <1>7 DEF Dial
<1>8. CASE Handshake \/ SendUpgrade
  BY <1>8 DEF Handshake, SendUpgrade
<1>9. CASE ReadHeader
  BY <1>9 DEF ReadHeader
<1>10. CASE ArmHook \/ SendSerial
  BY <1>10 DEF ArmHook, SendSerial
<1>11. CASE ReadFrame
  BY <1>11 DEF ReadFrame
<1>12. CASE ReadPayload
  <2>1. UNCHANGED endpoint /\ hook' \in {hook, FALSE} /\ bound' = bound
        /\ started' \in {started, TRUE}
    BY <1>12 DEF ReadPayload, Dispatch, CarryOn, Accumulate, Complete
  <2> QED
    BY <2>1
<1>13. CASE SendPong \/ ReadFails
  BY <1>13 DEF SendPong, ReadFails
<1> QED
  BY <1>1, <1>2, <1>3, <1>4, <1>5, <1>6, <1>7, <1>8, <1>9, <1>10, <1>11, <1>12, <1>13
  DEF WSStep, Endpoint, Client

LEMMA TypesStep ==
  ASSUME Flags, WSTypes, Stage, WSStep
  PROVE  WSTypes'
<1> USE DEF WSTypes, Streaming, endpoint, reader, client, wsVars, Emit, Take, Goto, Return, Fails
<1>1. CASE HeaderLine
  <2>1. wire' = Append(wire, [op |-> "line"]) /\ Len(wire) < 2 /\ [op |-> "line"] \in Traffic
    BY <1>1 DEF HeaderLine, Traffic, Answers
  <2>2. wire' \in Seq(Traffic) /\ Len(wire') <= 2
    BY <2>1, WireAppend
  <2> QED
    BY <1>1, <2>2 DEF HeaderLine
<1>2. ASSUME NEW proper \in BOOLEAN, AnswerUpgrade(proper) PROVE WSTypes'
  <2> DEFINE f == [op |-> IF proper THEN "101" ELSE "refusal"]
  <2>1. wire' = Append(wire, f) /\ Len(wire) < 2 /\ f \in Traffic
    BY <1>2 DEF AnswerUpgrade, Traffic, Answers
  <2> HIDE DEF f
  <2>2. wire' \in Seq(Traffic) /\ Len(wire') <= 2
    BY <2>1, WireAppend
  <2> QED
    BY <1>2, <2>2 DEF AnswerUpgrade
<1>3. ASSUME NEW n \in 0 .. MaxMsg, NEW fin \in BOOLEAN, Fragment(n, fin) PROVE WSTypes'
  <2> DEFINE f == Frame(InOrderOp, fin, [i \in 1 .. n |-> sent + i])
  <2>1. wire' = Append(wire, f) /\ Len(wire) < 2 /\ f \in Traffic
    BY <1>3, FragmentIsWhole DEF Fragment, Sending, Traffic
  <2> HIDE DEF f
  <2>2. wire' \in Seq(Traffic) /\ Len(wire') <= 2
    BY <2>1, WireAppend
  <2> QED
    BY <1>3, <2>2 DEF Fragment, Sending
<1>4. ASSUME NEW op \in Controls, Control(op) PROVE WSTypes'
  <2> DEFINE f == Frame(op, TRUE, <<Junk>>)
  <2>1. wire' = Append(wire, f) /\ Len(wire) < 2 /\ f \in Traffic
    BY <1>4 DEF Control, Sending, Traffic, FrameSet, Frame, Junk
  <2> HIDE DEF f
  <2>2. wire' \in Seq(Traffic) /\ Len(wire') <= 2
    BY <2>1, WireAppend
  <2> QED
    BY <1>4, <2>2 DEF Control, Sending
<1>5. CASE Breach
  <2>1. PICK f \in Breaches : Emit(f)
    BY <1>5 DEF Breach
  <2>2. wire' \in Seq(Traffic) /\ Len(wire') <= 2
    BY <1>5, <2>1, BreachIsFatal, WireAppend DEF Breach, Sending, Traffic
  <2> QED
    BY <1>5, <2>1, <2>2 DEF Breach, Sending
<1>6. CASE Leave
  <2>1. wire' \in Seq(Traffic) /\ Len(wire') = Len(wire)
    BY <1>6, LeaveTears
  <2>2. wire = <<>> => wire' = <<>>
    BY <1>6 DEF Leave
  <2> QED
    BY <1>6, <2>1, <2>2 DEF Leave
<1>7. CASE HookFires \/ Begins \/ \E how \in {"cancelled", "expired"} : EndContext(how)
  BY <1>7 DEF HookFires, Begins, EndContext
<1>8. CASE Forget
  <2>1. <<>> \in Seq(Traffic) /\ <<>> \in Seq(Nat) /\ Len(<<>>) = 0
    BY EmptySeq
  <2> QED
    BY <1>8, <2>1 DEF Forget
<1>9. CASE UNCHANGED wsVars
  BY <1>9
<1>10. ASSUME NEW url, Dial(url) PROVE WSTypes'
  BY <1>10 DEF Dial
<1>11. CASE Handshake \/ SendUpgrade
  BY <1>11 DEF Handshake, SendUpgrade
<1>12. CASE ReadHeader
  <2>1. wire' \in Seq(Traffic) /\ Len(wire') <= 2
    BY <1>12, WireTail DEF ReadHeader
  <2>2. /\ left' \in Nat /\ buf' = buf /\ ctx' = ctx /\ tcp' \in {"none", "open", "closed"}
        /\ call' \in {"done", "headers", "arm"}
    <3>1. Room /\ Spend => left' \in Nat
      BY DEF Spend, Room, Flags
    <3>2. left' \in Nat
      BY <1>12, <3>1 DEF ReadHeader
    <3> QED
      BY <1>12, <3>2 DEF ReadHeader
  <2> QED
    BY <1>12, <2>1, <2>2 DEF ReadHeader
<1>13. CASE ArmHook \/ SendSerial
  BY <1>13 DEF ArmHook, SendSerial
<1>14. CASE ReadFrame
  <2>1. /\ wire' \in Seq(Traffic) /\ Len(wire') <= 2 /\ Head(wire) \in Traffic
        /\ call = "read"
    BY <1>14, WireTail DEF ReadFrame
  <2>3. Head(wire) \in FrameSet
    <3>1. wire # <<>> /\ 1 \in 1 .. Len(wire) /\ Head(wire) = wire[1]
      BY <1>14, WireTail, LenProperties, EmptySeq DEF ReadFrame
    <3> QED
      BY <2>1, <3>1 DEF Stage, Traffic
  <2>5. Room /\ Spend => left' \in Nat
    BY DEF Spend, Room, Flags
  <2>4. left' \in Nat
    BY <1>14, <2>5 DEF ReadFrame
  <2>2. /\ buf' = buf /\ ctx' = ctx /\ tcp' \in {"none", "open", "closed"}
        /\ UNCHANGED <<length, sent, server, lines>>
        /\ call' = "done" \/ (call' = "payload" /\ frame' = Head(wire))
    BY <1>14 DEF ReadFrame
  <2> QED
    BY <2>1, <2>2, <2>3, <2>4
<1>15. CASE ReadPayload
  <2>1. buf \o frame.body \in Seq(Nat) /\ frame.body \in Seq(Nat)
    BY <1>15, ConcatProperties DEF ReadPayload, FrameSet
  <2>2. /\ buf' \in {buf, buf \o frame.body, frame.body} /\ left' = left /\ ctx' = ctx
        /\ tcp' \in {"none", "open", "closed"} /\ call' \in {"done", "read", "pong"}
        /\ UNCHANGED endpoint
    BY <1>15 DEF ReadPayload, Dispatch, CarryOn, Accumulate, Complete
  <2> QED
    BY <2>1, <2>2
<1>16. CASE SendPong \/ ReadFails
  BY <1>16 DEF SendPong, ReadFails
<1> QED
  BY <1>1, <1>2, <1>3, <1>4, <1>5, <1>6, <1>7, <1>8, <1>9, <1>10, <1>11, <1>12, <1>13, <1>14, <1>15,
        <1>16
  DEF WSStep, Endpoint, Client

LEMMA StageStep ==
  ASSUME Flags, WSTypes, WSTypes', Stage, WSStep
  PROVE  Stage'
<1> USE DEF endpoint, reader, client, wsVars, Emit, Take, Goto, Return, Fails
<1>0. /\ Len(wire) \in 0 .. 2 /\ Len(wire') \in 0 .. 2
      /\ \A i \in 1 .. Len(wire) : wire[i] \in Traffic
  <2>1. wire \in Seq(Traffic) /\ wire' \in Seq(Traffic) /\ Len(wire) <= 2 /\ Len(wire') <= 2
    BY DEF WSTypes
  <2>2. Len(wire) \in Nat /\ Len(wire') \in Nat
    BY <2>1, LenProperties
  <2>3. \A i \in 1 .. Len(wire) : wire[i] \in Traffic
    BY <2>1, ElementOfSeq
  <2>5. \A m \in Nat : m <= 2 => m \in 0 .. 2
    OBVIOUS
  <2>4. Len(wire) \in 0 .. 2 /\ Len(wire') \in 0 .. 2
    BY ONLY <2>1, <2>2, <2>5
  <2> QED
    BY <2>3, <2>4
<1>1. ASSUME NEW f \in Traffic, wire' = Append(wire, f)
      PROVE  /\ Len(wire') = Len(wire) + 1 /\ wire'[Len(wire) + 1] = f
             /\ \A i \in 1 .. Len(wire) : wire'[i] = wire[i]
             /\ LinesIn(wire') = LinesIn(wire) + IF f.op = "line" THEN 1 ELSE 0
  <2>1. /\ Len(wire') = Len(wire) + 1 /\ wire'[Len(wire) + 1] = f
        /\ \A i \in 1 .. Len(wire) : wire'[i] = wire[i]
    BY <1>1, AppendProperties DEF WSTypes
  <2> QED
    BY <1>0, <2>1 DEF LinesIn
<1>2. ASSUME wire # <<>>, wire' = Tail(wire)
      PROVE  /\ Len(wire') = Len(wire) - 1 /\ \A i \in 1 .. Len(wire') : wire'[i] = wire[i + 1]
             /\ Len(wire) > 0 /\ Head(wire) = wire[1]
             /\ LinesIn(wire) = LinesIn(wire') + IF Head(wire).op = "line" THEN 1 ELSE 0
  <2>1. /\ Len(wire') = Len(wire) - 1 /\ \A i \in 1 .. Len(wire') : wire'[i] = wire[i + 1]
        /\ Len(wire) > 0 /\ Head(wire) = wire[1]
    BY <1>0, <1>2, HeadTailProperties, EmptySeq DEF WSTypes
  <2> QED
    BY <1>0, <2>1 DEF LinesIn
<1>3. CASE HeaderLine
  <2>1. /\ wire' = Append(wire, [op |-> "line"]) /\ [op |-> "line"] \in Traffic
        /\ server = "handshake" /\ call = "headers" /\ lines' = lines + 1
        /\ UNCHANGED <<server, rude, client>>
    BY <1>3 DEF HeaderLine, Traffic, Answers
  <2> DEFINE f == [op |-> "line"]
  <2>2. f.op = "line" /\ wire' = Append(wire, f) /\ f \in Traffic
    BY <2>1
  <2> HIDE DEF f
  <2>3. /\ Len(wire') = Len(wire) + 1 /\ wire'[Len(wire) + 1] = f
        /\ \A i \in 1 .. Len(wire) : wire'[i] = wire[i]
        /\ LinesIn(wire') = LinesIn(wire) + 1
    BY <1>1, <2>2
  <2>4. \A i \in 1 .. Len(wire') : wire'[i].op = "line"
    BY <1>0, <2>1, <2>2, <2>3 DEF Stage
  <2>5. Underway /\ bound => left + lines + 1 = MaxHeader + LinesIn(wire')
    <3>1. LinesIn(wire) \in Nat /\ left \in Int /\ lines \in Int /\ MaxHeader \in Int
      BY WebSocketAssumption DEF LinesIn, WSTypes
    <3>2. Underway /\ bound => left + lines = MaxHeader + LinesIn(wire)
      BY DEF Stage
    <3>3. LinesIn(wire') = LinesIn(wire) + 1
      BY <2>3
    <3>4. left + lines = MaxHeader + LinesIn(wire)
            => left + lines + 1 = MaxHeader + LinesIn(wire')
      BY ONLY <3>1, <3>3
    <3> QED
      BY <3>2, <3>4
  <2>6. Underway' /\ bound' => left' + lines' = MaxHeader + LinesIn(wire')
    BY <2>1, <2>5 DEF WSTypes, Underway
  <2> QED
    BY <2>1, <2>4, <2>6 DEF Stage, Streaming, Underway
<1>4. ASSUME NEW proper \in BOOLEAN, AnswerUpgrade(proper) PROVE Stage'
  <2> DEFINE f == [op |-> IF proper THEN "101" ELSE "refusal"]
  <2>1. /\ wire' = Append(wire, f) /\ f \in Traffic /\ f.op # "line"
        /\ f.op = "refusal" => rude'
        /\ rude => rude'
        /\ server = "handshake" /\ server' = "frames" /\ call = "headers"
           /\ UNCHANGED <<lines, client>>
    BY <1>4 DEF AnswerUpgrade, Traffic, Answers
  <2> HIDE DEF f
  <2>3. /\ Len(wire') = Len(wire) + 1 /\ wire'[Len(wire) + 1] = f
        /\ \A i \in 1 .. Len(wire) : wire'[i] = wire[i]
        /\ LinesIn(wire') = LinesIn(wire)
    <3>1. LinesIn(wire) \in Nat
      BY DEF LinesIn
    <3> QED
      BY <1>1, <2>1, <3>1
  <2>4. \A i \in 1 .. Len(wire') : \A j \in 1 .. i - 1 : wire'[j].op = "line"
    BY <1>0, <2>1, <2>3 DEF Stage
  <2>5. \A i \in 1 .. Len(wire') : wire'[i].op = "refusal" => rude'
    BY <1>0, <2>1, <2>3 DEF Stage
  <2> QED
    BY <2>1, <2>3, <2>4, <2>5 DEF Stage, Streaming, Underway
<1>5. ASSUME NEW f \in FrameSet, Emit(f), Sending, server' \in {"midway", "finished", server},
             lines' = lines, rude => rude'
      PROVE  Stage'
  <2>1. f \in Traffic /\ f.op \notin {"line", "101", "refusal"} /\ f \notin Answers
    BY DEF Traffic, FrameSet, DataOps, Controls, Answers
  <2>3. /\ Len(wire') = Len(wire) + 1 /\ wire'[Len(wire) + 1] = f
        /\ \A i \in 1 .. Len(wire) : wire'[i] = wire[i]
        /\ LinesIn(wire') = LinesIn(wire)
    <3>1. LinesIn(wire) \in Nat
      BY DEF LinesIn
    <3> QED
      BY <1>1, <1>5, <2>1, <3>1
  <2>4. \A i \in 1 .. Len(wire') :
          wire'[i] \in Answers => call \notin Streaming
          /\ \A j \in 1 .. i - 1 : wire'[j].op = "line"
    BY <1>0, <2>1, <2>3 DEF Stage
  <2>5. \A i \in 1 .. Len(wire') : wire'[i].op = "refusal" => rude'
    BY <1>0, <1>5, <2>1, <2>3 DEF Stage
  <2> QED
    BY <1>5, <2>3, <2>4, <2>5 DEF Stage, Streaming, Underway, Sending
<1>6. ASSUME NEW n \in 0 .. MaxMsg, NEW fin \in BOOLEAN, Fragment(n, fin) PROVE Stage'
  <2> DEFINE f == Frame(InOrderOp, fin, [i \in 1 .. n |-> sent + i])
  <2>1. f \in FrameSet
    BY FragmentIsWhole DEF WSTypes
  <2>2. Emit(f) /\ Sending /\ server' \in {"midway", "finished"} /\ UNCHANGED <<lines, rude>>
    BY <1>6 DEF Fragment
  <2> HIDE DEF f
  <2> QED
    BY <1>5, <2>1, <2>2
<1>7. ASSUME NEW op \in Controls, Control(op) PROVE Stage'
  <2>1. Frame(op, TRUE, <<Junk>>) \in FrameSet
    BY DEF Frame, FrameSet, Junk
  <2>2. /\ Emit(Frame(op, TRUE, <<Junk>>)) /\ Sending /\ server' \in {"finished", server}
        /\ lines' = lines /\ (rude => rude')
    BY <1>7 DEF Control
  <2> QED
    BY <1>5, <2>1, <2>2
<1>8. CASE Breach
  BY <1>5, <1>8, BreachIsFatal DEF Breach
<1>9. CASE Leave
  <2>1. /\ Len(wire') = Len(wire)
        /\ \A i \in 1 .. Len(wire) : wire'[i].op = wire[i].op
                                     /\ (wire'[i] \in Answers => wire[i] \in Answers)
    BY <1>9, LeaveTears DEF WSTypes
  <2>2. LinesIn(wire') = LinesIn(wire)
    BY <1>0, <2>1 DEF LinesIn
  <2> QED
    BY <1>0, <1>9, <2>1, <2>2 DEF Leave, Stage, Underway
<1>10. CASE HookFires \/ UNCHANGED wsVars \/ \E how \in {"cancelled", "expired"} : EndContext(how)
  BY <1>10 DEF HookFires, EndContext, Stage, Underway
<1>11. CASE Begins \/ Forget
  BY <1>11, EmptySeq DEF Begins, Forget, Stage, Streaming, Underway
<1>12. ASSUME UNCHANGED <<wire, server, lines>>, rude => rude', call' = "done"
       PROVE  Stage'
  BY <1>12 DEF Stage, Streaming, Underway
<1>13. ASSUME UNCHANGED <<wire, server, lines>>, rude => rude', Underway,
              UNCHANGED <<ctx, bound, left>>,
              tcp' \in {tcp, "open"}, call' \in Streaming => call \in Streaming
       PROVE  Stage'
  BY <1>13 DEF Stage, Streaming, Underway
<1>14. ASSUME NEW url, Dial(url) PROVE Stage'
  <2>1. UNCHANGED endpoint /\ call = "dial"
    BY <1>14 DEF Dial
  <2>2. \/ call' = "done"
        \/ call' \in {"tls", "upgrade"} /\ tcp' = "open" /\ UNCHANGED <<ctx, reader>>
    BY <1>14 DEF Dial
  <2> QED
    BY <1>12, <1>13, <2>1, <2>2 DEF Underway, Streaming
<1>15. CASE Handshake \/ SendUpgrade \/ ArmHook \/ SendSerial \/ SendPong \/ ReadFails
  <2>1. UNCHANGED <<wire, server, lines>> /\ (rude => rude') /\ Underway
    BY <1>15 DEF Handshake, SendUpgrade, ArmHook, SendSerial, SendPong, ReadFails, Underway
  <2>2. \/ call' = "done"
        \/ UNCHANGED <<tcp, ctx, bound, left>> /\ (call' \in Streaming => call \in Streaming)
    BY <1>15 DEF Handshake, SendUpgrade, ArmHook, SendSerial, SendPong, ReadFails, Streaming
  <2> QED
    BY <1>12, <1>13, <2>1, <2>2
<1>16. CASE ReadPayload
  <2>1. call' = "done" \/ (call' \in Streaming /\ UNCHANGED <<tcp, ctx, bound, left>>)
    BY <1>16 DEF ReadPayload, Dispatch, CarryOn, Accumulate, Complete, Streaming
  <2>2. call \in Streaming /\ Underway /\ UNCHANGED endpoint
    BY <1>16 DEF ReadPayload, Streaming, Underway
  <2> QED
    BY <1>12, <1>13, <2>1, <2>2
<1>17. CASE ReadHeader
  <2>1. wire # <<>> /\ wire' = Tail(wire) /\ UNCHANGED <<server, lines, rude>> /\ call = "headers"
    BY <1>17 DEF ReadHeader
  <2>2. CASE call' = "done"
    BY <1>0, <1>2, <2>1, <2>2 DEF Stage, Streaming, Underway
  <2>3. CASE call' = "headers"
    <3>1. Room /\ Head(wire).op = "line" /\ Spend /\ UNCHANGED <<ctx, tcp, bound>>
      BY <1>17, <2>3 DEF ReadHeader
    <3>2. /\ Len(wire') = Len(wire) - 1 /\ \A i \in 1 .. Len(wire') : wire'[i] = wire[i + 1]
          /\ Len(wire) > 0 /\ LinesIn(wire) = LinesIn(wire') + 1
      <4>1. LinesIn(wire) \in Nat /\ LinesIn(wire') \in Nat
        BY DEF LinesIn
      <4> QED
        BY <1>2, <2>1, <3>1, <4>1
    <3>3. ASSUME NEW i \in 1 .. Len(wire'), wire'[i] \in Answers, NEW j \in 1 .. i - 1
          PROVE  wire'[j].op = "line"
      <4>1. i + 1 \in 1 .. Len(wire) /\ wire[i + 1] \in Answers /\ j + 1 \in 1 .. i + 1 - 1
        BY <1>0, <3>2, <3>3
      <4>2. wire[j + 1].op = "line" /\ j \in 1 .. Len(wire')
        BY <1>0, <4>1 DEF Stage
      <4> QED
        BY <3>2, <4>2
    <3>4. server = "handshake" => \A i \in 1 .. Len(wire') : wire'[i].op = "line"
      BY <1>0, <3>2 DEF Stage
    <3>5. \A i \in 1 .. Len(wire') : wire'[i].op = "refusal" => rude
      BY <1>0, <3>2 DEF Stage
    <3>6. Underway /\ call \notin Streaming /\ (tcp = "closed" => ctx # "live")
      BY <2>1 DEF Stage, Underway, Streaming
    <3>7. bound => left' + lines' = MaxHeader + LinesIn(wire')
      <4>1. bound => left + lines = MaxHeader + LinesIn(wire)
        BY <3>6 DEF Stage
      <4>2. LinesIn(wire') \in Nat /\ left \in Nat /\ lines \in Nat
        BY DEF LinesIn, WSTypes
      <4>3. bound => left' = left - 1
        BY <3>1 DEF Spend
      <4> QED
        BY <2>1, <3>2, <4>1, <4>2, <4>3
    <3> QED
      BY <2>1, <2>3, <3>1, <3>3, <3>4, <3>5, <3>6, <3>7 DEF Stage, Streaming, Underway
  <2>4. CASE call' = "arm"
    <3>1. Head(wire).op = "101" /\ bound' = FALSE /\ UNCHANGED <<ctx, tcp>>
      BY <1>17, <2>4 DEF ReadHeader
    <3>2. server # "handshake"
      BY <1>0, <1>2, <2>1, <3>1 DEF Stage
    <3>3. \A i \in 1 .. Len(wire') : wire'[i] \notin Answers
      <4>1. wire[1] \in Traffic /\ wire[1].op = "101"
        BY <1>0, <1>2, <2>1, <3>1
      <4>2. ASSUME NEW i \in 1 .. Len(wire'), wire'[i] \in Answers PROVE FALSE
        <5>1. i + 1 \in 1 .. Len(wire) /\ wire[i + 1] \in Answers /\ 1 \in 1 .. i + 1 - 1
          BY <1>0, <1>2, <2>1, <4>2
        <5> QED
          BY <4>1, <5>1 DEF Stage
      <4> QED
        BY <4>2
    <3>4. \A i \in 1 .. Len(wire') : wire'[i].op = "refusal" => rude'
      BY <1>0, <1>2, <2>1 DEF Stage
    <3>5. tcp = "closed" => ctx # "live"
      BY <2>1 DEF Stage, Underway
    <3> QED
      BY <2>1, <2>4, <3>1, <3>2, <3>3, <3>4, <3>5 DEF Stage, Streaming, Underway
  <2> QED
    BY <1>17, <2>2, <2>3, <2>4 DEF ReadHeader
<1>18. CASE ReadFrame
  <2>1. wire # <<>> /\ wire' = Tail(wire) /\ UNCHANGED <<server, lines, rude>> /\ call = "read"
    BY <1>18 DEF ReadFrame
  <2>2. call' = "done" \/ (call' = "payload" /\ UNCHANGED <<ctx, tcp, bound>>)
    BY <1>18 DEF ReadFrame
  <2> QED
    BY <1>0, <1>2, <2>1, <2>2 DEF Stage, Streaming, Underway
<1> QED
  BY <1>3, <1>4, <1>6, <1>7, <1>8, <1>9, <1>10, <1>11, <1>14, <1>15, <1>16, <1>17, <1>18
  DEF WSStep, Endpoint, Client

LEMMA FitsStep ==
  ASSUME WSTypes, WSTypes', Stage, Fits, WSStep
  PROVE  Fits'
<1> USE DEF endpoint, reader, client, wsVars, Emit, Take, Goto, Return, Fails
<1>1. CASE call' # "payload" /\ buf' = buf
  BY <1>1 DEF Fits
<1>2. CASE call' = call /\ UNCHANGED <<buf, frame>>
  BY <1>2 DEF Fits
<1>3. CASE Endpoint
  BY <1>2, <1>3 DEF Endpoint, HeaderLine, AnswerUpgrade, Fragment, Control, Breach, Leave
<1>4. CASE HookFires \/ UNCHANGED wsVars \/ \E how \in {"cancelled", "expired"} : EndContext(how)
  BY <1>2, <1>4 DEF HookFires, EndContext
<1>5. CASE Begins
  BY <1>1, <1>5 DEF Begins
<1>6. CASE Forget
  BY <1>6, EmptySeq DEF Forget, Fits
<1>7. ASSUME NEW url, Dial(url) PROVE Fits'
  BY <1>1, <1>7 DEF Dial
<1>8. CASE Handshake \/ SendUpgrade \/ ArmHook \/ SendSerial \/ SendPong \/ ReadFails
  BY <1>1, <1>8 DEF Handshake, SendUpgrade, ArmHook, SendSerial, SendPong, ReadFails
<1>9. CASE ReadHeader
  BY <1>1, <1>9 DEF ReadHeader
<1>10. CASE ReadFrame
  <2>1. buf' = buf
    BY <1>10 DEF ReadFrame
  <2>2. call' = "payload" => Acceptable(Head(wire)) /\ frame' = Head(wire)
    BY <1>10 DEF ReadFrame
  <2> QED
    BY <2>1, <2>2 DEF Fits, Acceptable, Budget
<1>11. CASE ReadPayload
  <2>1. call = "payload" /\ call' # "payload"
    BY <1>11 DEF ReadPayload, Dispatch, CarryOn, Accumulate, Complete
  <2>2. buf' = buf \/ (frame.op \notin Controls /\ buf' \in {frame.body, buf \o frame.body})
    BY <1>11 DEF ReadPayload, Dispatch, CarryOn, Accumulate, Complete, Controls
  <2>3. /\ Len(buf) \in Nat /\ Len(frame.body) \in Nat
        /\ Len(buf \o frame.body) = Len(buf) + Len(frame.body)
    BY <2>1, ConcatProperties, LenProperties DEF WSTypes, FrameSet
  <2> QED
    BY <2>1, <2>2, <2>3 DEF Fits
<1> QED
  BY <1>3, <1>4, <1>5, <1>6, <1>7, <1>8, <1>9, <1>10, <1>11 DEF WSStep, Client

\* Two runs of pieces, end to end.
LEMMA RunConcat ==
  ASSUME NEW a \in Nat, NEW n \in Nat
  PROVE  Run(0, a) \o Run(a, n) = Run(0, a + n)
<1>1. /\ Run(0, a) \in Seq(Nat) /\ Len(Run(0, a)) = a /\ \A i \in 1 .. a : Run(0, a)[i] = 0 + i
      /\ Run(a, n) \in Seq(Nat) /\ Len(Run(a, n)) = n /\ \A i \in 1 .. n : Run(a, n)[i] = a + i
  BY RunProperties
<1>2. /\ Run(0, a + n) \in Seq(Nat) /\ Len(Run(0, a + n)) = a + n
      /\ \A i \in 1 .. a + n : Run(0, a + n)[i] = 0 + i
  <2>1. a + n \in Nat
    OBVIOUS
  <2> QED
    BY <2>1, RunProperties
<1> DEFINE s == Run(0, a) \o Run(a, n)
<1>3. /\ s \in Seq(Nat) /\ Len(s) = a + n
      /\ \A i \in 1 .. a + n : s[i] = IF i <= a THEN Run(0, a)[i] ELSE Run(a, n)[i - a]
  <2> DEFINE x == Run(0, a)
             y == Run(a, n)
  <2>1. x \in Seq(Nat) /\ Len(x) = a /\ y \in Seq(Nat) /\ Len(y) = n
    BY <1>1
  <2> HIDE DEF x, y
  <2>2. /\ x \o y \in Seq(Nat) /\ Len(x \o y) = a + n
        /\ \A i \in 1 .. a + n : (x \o y)[i] = IF i <= a THEN x[i] ELSE y[i - a]
    BY <2>1, ConcatProperties
  <2> QED
    BY <2>2 DEF x, y
<1>4. ASSUME NEW i \in 1 .. a + n PROVE s[i] = Run(0, a + n)[i]
  <2> HIDE DEF s
  <2>1. Run(0, a + n)[i] = i
    BY <1>2
  <2>2. CASE i <= a
    <3>1. i \in 1 .. a /\ s[i] = Run(0, a)[i]
      BY <1>3, <2>2
    <3>2. Run(0, a)[i] = 0 + i
      BY <1>1, <3>1
    <3> QED
      BY <2>1, <3>1, <3>2
  <2>3. CASE ~(i <= a)
    <3>1. i - a \in 1 .. n /\ s[i] = Run(a, n)[i - a]
      BY <1>3, <2>3
    <3>2. Run(a, n)[i - a] = a + (i - a)
      BY <1>1, <3>1
    <3> QED
      BY <2>1, <3>1, <3>2
  <2> QED
    BY <2>2, <2>3
<1> HIDE DEF s
<1>5. s = Run(0, a + n)
  BY <1>2, <1>3, <1>4, SeqEqual
<1> QED
  BY <1>5 DEF s

\* The same rules, whether a message has begun said in other words.
LEMMA RuledSame ==
  ASSUME NEW w, NEW begun, NEW already, begun <=> already, NEW broken, Ruled(w, begun, broken)
  PROVE  Ruled(w, already, broken)
<1>1. \A i : Begun(w, i, begun) <=> Begun(w, i, already)
  BY DEF Begun
<1> QED
  BY <1>1 DEF Ruled, Obeys, Fatal

\* A data frame that is taken for the message's next is a frame of the reply.
LEMMA TakenIsWhole ==
  ASSUME WSTypes, Fits, call = "payload", Obeys(frame, started, rude),
         \/ frame.op \in {"text", "binary"} /\ ~started
         \/ frame.op = "continuation" /\ started
  PROVE  Whole(frame)
<1>1. frame \in FrameSet /\ frame.ok /\ Data(frame) /\ frame.op # "unknown"
      /\ frame.op \notin Controls
  BY DEF WSTypes, Fits, Data, DataOps, Controls
<1>2. Len(frame.body) <= MaxMsg
  <2>1. frame.body \in Seq(Nat) /\ buf \in Seq(Nat)
    BY <1>1 DEF FrameSet, WSTypes
  <2>2. Len(frame.body) \in Nat /\ Len(buf) \in Nat
    BY <2>1, LenProperties
  <2> QED
    BY <1>1, <2>2 DEF Fits
<1>3. ~Fatal(frame, started)
  <2>1. ~(Len(frame.body) > MaxMsg)
    <3>1. Len(frame.body) \in Nat
      BY <1>1, LenProperties DEF FrameSet
    <3> QED
      BY <1>2, <3>1
  <2> QED
    BY <1>1, <2>1 DEF Fatal
<1> QED
  BY <1>1, <1>3 DEF Obeys

\* What a message has become, once that frame is added to it.
LEMMA MessageGrows ==
  ASSUME WSTypes, Fits, Pieces, Protocol, call = "payload",
         NEW msg,
         \/ frame.op \in {"text", "binary"} /\ ~started /\ msg = frame.body
         \/ frame.op = "continuation" /\ started /\ msg = buf \o frame.body
  PROVE  \E c \in 0 .. sent :
           /\ msg = Run(0, c) /\ Len(msg) = c /\ Flow(wire, c, sent, length)
           /\ frame.fin => c = length
<1>1. Underway
  BY DEF Underway
<1>2. Whole(frame) /\ frame \in FrameSet
  BY <1>1, TakenIsWhole DEF Protocol, WSTypes
<1>3. PICK c \in 0 .. sent : Flow(wire, c, sent, length) /\ Carries(frame, Len(buf), c, length)
  BY <1>1 DEF Pieces
<1>4. /\ frame.body = Run(Len(buf), Len(frame.body)) /\ c = Len(buf) + Len(frame.body)
      /\ frame.fin => c = length
  BY <1>2, <1>3 DEF Carries
<1>5. Len(buf) \in Nat /\ Len(frame.body) \in Nat
  BY <1>2, LenProperties DEF WSTypes, FrameSet
<1>6. buf = Run(0, Len(buf)) /\ (~started => Len(buf) = 0)
  BY <1>1 DEF Pieces
<1>7. msg = Run(0, c)
  <2>1. CASE started
    <3>1. msg = Run(0, Len(buf)) \o Run(Len(buf), Len(frame.body))
      BY <1>4, <1>6, <2>1
    <3> QED
      BY <1>4, <1>5, <3>1, RunConcat
  <2>2. CASE ~started
    <3>1. Len(buf) = 0 /\ msg = frame.body
      BY <1>6, <2>2
    <3>2. c = Len(frame.body)
      BY <1>4, <1>5, <3>1
    <3> QED
      BY <1>4, <3>1, <3>2
  <2> QED
    BY <2>1, <2>2
<1>8. Len(msg) = c
  <2>1. c \in Nat
    BY <1>4, <1>5
  <2> QED
    BY <1>7, <2>1, RunProperties
<1> QED
  BY <1>3, <1>4, <1>7, <1>8

LEMMA PiecesStep ==
  ASSUME Flags, WSTypes, WSTypes', Stage, Fits, Pieces, Protocol, WSStep
  PROVE  Pieces'
<1> USE DEF endpoint, reader, client, wsVars, Emit, Take, Goto, Return, Fails
<1>1. CASE call' \in {"done", "over"}
  BY <1>1 DEF Pieces, Underway
<1>2. ASSUME Underway, UNCHANGED <<length, sent, wire, buf, started>>,
             \/ call # "payload" /\ call' # "payload"
             \/ UNCHANGED <<call, frame>>
      PROVE  Pieces'
  BY <1>2 DEF Pieces
<1>3. ASSUME NEW f \in Traffic, Emit(f), Len(wire) < 2, Underway,
             sent' \in Nat, sent <= sent', Carries(f, sent, sent', length)
      PROVE  Pieces'
  <2>1. PICK c \in 0 .. sent :
          /\ Flow(wire, c, sent, length)
          /\ IF call = "payload" THEN Carries(frame, Len(buf), c, length) ELSE c = Len(buf)
    BY <1>3 DEF Pieces
  <2>2. wire \in Seq(Traffic) /\ sent \in Nat /\ c \in 0 .. sent'
    BY <1>3 DEF WSTypes
  <2>3. Flow(wire', c, sent', length)
    BY <1>3, <2>1, <2>2, FlowAppend
  <2> QED
    BY <1>3, <2>1, <2>2, <2>3 DEF Pieces
<1>4. CASE HeaderLine
  <2> DEFINE f == [op |-> "line"]
  <2>1. f \in Traffic /\ f \notin FrameSet
    BY DEF Traffic, Answers, FrameSet
  <2>2. Emit(f) /\ Len(wire) < 2 /\ Underway /\ sent' = sent
    BY <1>4 DEF HeaderLine, Underway
  <2> HIDE DEF f
  <2>3. Carries(f, sent, sent', length)
    BY <2>1, <2>2 DEF Carries, Whole
  <2> QED
    BY <1>3, <2>1, <2>2, <2>3 DEF WSTypes
<1>5. ASSUME NEW proper \in BOOLEAN, AnswerUpgrade(proper) PROVE Pieces'
  <2> DEFINE f == [op |-> IF proper THEN "101" ELSE "refusal"]
  <2>1. f \in Traffic /\ f \notin FrameSet
    BY DEF Traffic, Answers, FrameSet
  <2>2. Emit(f) /\ Len(wire) < 2 /\ Underway /\ sent' = sent
    BY <1>5 DEF AnswerUpgrade, Underway
  <2> HIDE DEF f
  <2>3. Carries(f, sent, sent', length)
    BY <2>1, <2>2 DEF Carries, Whole
  <2> QED
    BY <1>3, <2>1, <2>2, <2>3 DEF WSTypes
<1>6. ASSUME NEW n \in 0 .. MaxMsg, NEW fin \in BOOLEAN, Fragment(n, fin), Underway PROVE Pieces'
  <2> DEFINE f == Frame(InOrderOp, fin, [i \in 1 .. n |-> sent + i])
  <2>1. f \in FrameSet /\ Whole(f) /\ Len(f.body) = n /\ f.fin = fin /\ f.body = Run(sent, n)
    BY FragmentIsWhole DEF WSTypes
  <2>2. Emit(f) /\ Len(wire) < 2 /\ sent' = sent + n /\ (fin => sent + n = length)
    BY <1>6 DEF Fragment, Sending
  <2> HIDE DEF f
  <2>3. Carries(f, sent, sent', length)
    BY <2>1, <2>2 DEF Carries
  <2>4. f \in Traffic /\ sent' \in Nat /\ sent <= sent'
    BY <2>1, <2>2 DEF Traffic, WSTypes
  <2> QED
    BY <1>3, <1>6, <2>2, <2>3, <2>4
<1>7. ASSUME NEW op \in Controls, Control(op), Underway PROVE Pieces'
  <2> DEFINE f == Frame(op, TRUE, <<Junk>>)
  <2>1. f \in FrameSet /\ ~Data(f)
    BY DEF Frame, FrameSet, Junk, Data, DataOps, Controls
  <2>2. Emit(f) /\ Len(wire) < 2 /\ sent' = sent
    BY <1>7 DEF Control, Sending
  <2> HIDE DEF f
  <2>3. Carries(f, sent, sent', length) /\ f \in Traffic
    BY <2>1, <2>2 DEF Carries, Whole, Traffic
  <2> QED
    BY <1>3, <1>7, <2>2, <2>3 DEF WSTypes
<1>8. CASE Breach /\ Underway
  <2>1. PICK f \in Breaches : Emit(f)
    BY <1>8 DEF Breach
  <2>2. f \in FrameSet /\ ~Whole(f)
    BY BreachIsFatal
  <2>3. Len(wire) < 2 /\ sent' = sent
    BY <1>8 DEF Breach, Sending
  <2>4. Carries(f, sent, sent', length) /\ f \in Traffic
    BY <2>2, <2>3 DEF Carries, Traffic
  <2> QED
    BY <1>3, <1>8, <2>1, <2>3, <2>4 DEF WSTypes
<1>9. CASE Leave /\ Underway
  <2>1. UNCHANGED <<length, sent, client>>
    BY <1>9 DEF Leave
  <2>2. PICK c \in 0 .. sent :
          /\ Flow(wire, c, sent, length)
          /\ IF call = "payload" THEN Carries(frame, Len(buf), c, length) ELSE c = Len(buf)
    BY <1>9 DEF Pieces
  <2>3. Flow(wire', c, sent, length)
    BY <1>9, <2>2, LeaveTears, FlowTorn DEF WSTypes
  <2> QED
    BY <1>9, <2>1, <2>2, <2>3 DEF Pieces
<1>10. CASE ~Underway /\ call' = call
  BY <1>10 DEF Pieces, Underway
<1>11. CASE Endpoint
  <2>1. call' = call
    BY <1>11 DEF Endpoint, HeaderLine, AnswerUpgrade, Fragment, Control, Breach, Leave
  <2> QED
    BY <1>4, <1>5, <1>6, <1>7, <1>8, <1>9, <1>10, <1>11, <2>1 DEF Endpoint
<1>12. CASE HookFires \/ UNCHANGED wsVars \/ \E how \in {"cancelled", "expired"} : EndContext(how)
  BY <1>2, <1>10, <1>12 DEF HookFires, EndContext
<1>13. CASE Begins
  BY <1>2, <1>13 DEF Begins, Underway
<1>14. CASE Forget
  BY <1>1, <1>14 DEF Forget
<1>15. ASSUME NEW url, Dial(url) PROVE Pieces'
  <2>1. UNCHANGED <<length, sent, wire, buf, started>> /\ call = "dial" /\ call' # "payload"
    BY <1>15 DEF Dial
  <2> QED
    BY <1>2, <2>1 DEF Underway
<1>16. CASE Handshake \/ SendUpgrade \/ ArmHook \/ SendSerial \/ SendPong
  <2>1. /\ UNCHANGED <<length, sent, wire, buf, started>> /\ call # "payload" /\ call' # "payload"
        /\ Underway
    BY <1>16 DEF Handshake, SendUpgrade, ArmHook, SendSerial, SendPong, Underway
  <2> QED
    BY <1>2, <2>1
<1>17. CASE ReadFails
  BY <1>1, <1>17 DEF ReadFails
<1>18. ASSUME Underway, wire # <<>>, wire' = Tail(wire), call # "payload",
              UNCHANGED <<length, sent, buf, started>>,
              \/ call' = "payload" /\ frame' = Head(wire)
              \/ call' # "payload" /\ ~Whole(Head(wire))
       PROVE  Pieces'
  <2>1. Flow(wire, Len(buf), sent, length) /\ buf = Run(0, Len(buf)) /\ (~started => Len(buf) = 0)
    BY <1>18 DEF Pieces
  <2>2. wire \in Seq(Traffic) /\ sent \in Nat
    BY DEF WSTypes
  <2>3. PICK c \in 0 .. sent :
          Carries(Head(wire), Len(buf), c, length) /\ Flow(Tail(wire), c, sent, length)
    BY <1>18, <2>1, <2>2, FlowTail
  <2>4. ~Whole(Head(wire)) => c = Len(buf)
    BY <2>3 DEF Carries
  <2> QED
    BY <1>18, <2>1, <2>3, <2>4 DEF Pieces
<1>19. CASE ReadHeader
  <2>1. /\ wire # <<>> /\ wire' = Tail(wire) /\ call = "headers"
        /\ UNCHANGED <<length, sent, buf, started>>
    BY <1>19 DEF ReadHeader
  <2>2. call' = "done" \/ (call' # "payload" /\ Head(wire).op \in {"line", "101"})
    BY <1>19 DEF ReadHeader
  <2>3. Head(wire).op \in {"line", "101"} => ~Whole(Head(wire))
    BY DEF Whole, Data, DataOps
  <2> QED
    BY <1>1, <1>18, <2>1, <2>2, <2>3 DEF Underway
<1>20. CASE ReadFrame
  <2>1. /\ wire # <<>> /\ wire' = Tail(wire) /\ call = "read"
        /\ UNCHANGED <<length, sent, buf, started>>
        /\ call' = "done" \/ (call' = "payload" /\ frame' = Head(wire))
    BY <1>20 DEF ReadFrame
  <2> QED
    BY <1>1, <1>18, <2>1 DEF Underway
<1>21. CASE ReadPayload
  <2>1. call = "payload" /\ UNCHANGED endpoint /\ Underway
    BY <1>21 DEF ReadPayload, Underway
  <2>2. \/ call' = "done"
        \/ frame.op \in Controls /\ call' \in {"read", "pong"} /\ UNCHANGED <<buf, started>>
        \/ /\ call' = "read" /\ started' = TRUE
           /\ \/ frame.op \in {"text", "binary"} /\ ~started /\ buf' = frame.body
              \/ frame.op = "continuation" /\ started /\ buf' = buf \o frame.body
    BY <1>21 DEF ReadPayload, Dispatch, CarryOn, Accumulate, Complete, Controls
  <2>3. CASE frame.op \in Controls /\ call' \in {"read", "pong"} /\ UNCHANGED <<buf, started>>
    <3>1. ~Whole(frame)
      BY <2>3 DEF Whole, Data, DataOps, Controls
    <3> QED
      BY <2>1, <2>3, <3>1 DEF Pieces, Carries
  <2>4. CASE /\ call' = "read" /\ started' = TRUE
             /\ \/ frame.op \in {"text", "binary"} /\ ~started /\ buf' = frame.body
                \/ frame.op = "continuation" /\ started /\ buf' = buf \o frame.body
    <3>1. PICK c \in 0 .. sent : buf' = Run(0, c) /\ Len(buf') = c /\ Flow(wire, c, sent, length)
      BY <2>1, <2>4, MessageGrows
    <3> QED
      BY <2>1, <2>4, <3>1 DEF Pieces
  <2> QED
    BY <1>1, <2>2, <2>3, <2>4
<1> QED
  BY <1>11, <1>12, <1>13, <1>14, <1>15, <1>16, <1>17, <1>19, <1>20, <1>21 DEF WSStep, Client

LEMMA ProtocolStep ==
  ASSUME Flags, WSTypes, WSTypes', Stage, Fits, Protocol, WSStep
  PROVE  Protocol'
<1> USE DEF endpoint, reader, client, wsVars, Emit, Take, Goto, Return, Fails
<1>1. CASE call' \in {"done", "over"}
  BY <1>1 DEF Protocol, Underway
<1>2. ASSUME Underway, UNCHANGED <<wire, server, rude, started>>,
             \/ call # "payload" /\ call' # "payload"
             \/ UNCHANGED <<call, frame>>
      PROVE  Protocol'
  BY <1>2 DEF Protocol, Ahead
<1>3. ASSUME NEW f \in Traffic, Emit(f), Len(wire) < 2, Underway, rude' \in {rude, TRUE},
             f \in FrameSet => Obeys(f, Begun(wire, Len(wire) + 1, Ahead), rude'),
             Data(f) => server' \in {"midway", "finished"},
             \/ server' = "finished"
             \/ server' = "midway" /\ Data(f)
             \/ server' = server /\ ~Data(f)
             \/ server = "handshake" /\ server' = "frames" /\ ~Data(f)
      PROVE  Protocol'
  <2>1. /\ wire' \in Seq(Traffic) /\ Len(wire) \in Nat /\ Len(wire') = Len(wire) + 1
        /\ wire'[Len(wire) + 1] = f /\ \A i \in 1 .. Len(wire) : wire'[i] = wire[i]
    BY <1>3, WireAppend DEF WSTypes
  <2>2. Ruled(wire, Ahead, rude')
    BY <1>3, RuledBroken DEF Protocol
  <2>3. Ruled(wire', Ahead, rude')
    BY <1>3, <2>2, RuledAppend DEF WSTypes
  <2>4. Ruled(wire', Ahead', rude')
    BY <1>3, <2>3 DEF Ahead
  <2>5. call' = "payload" => Obeys(frame', started', rude')
    <3>1. Obeys(frame, started, rude) => Obeys(frame, started, TRUE)
      BY DEF Obeys
    <3> QED
      BY <1>3, <3>1 DEF Protocol
  <2>6. server' \in {"handshake", "frames"} => ~Ahead' /\ \A i \in 1 .. Len(wire') : ~Data(wire'[i])
    BY <1>3, <2>1 DEF Protocol, Ahead
  <2>7. server' = "midway" => Ahead' \/ \E i \in 1 .. Len(wire') : Data(wire'[i])
    BY <1>3, <2>1 DEF Protocol, Ahead
  <2> QED
    BY <2>4, <2>5, <2>6, <2>7 DEF Protocol
<1>4. /\ server = "frames" /\ Underway => ~Begun(wire, Len(wire) + 1, Ahead)
      /\ server = "midway" /\ Underway => Begun(wire, Len(wire) + 1, Ahead)
  <2>1. Len(wire) \in Nat
    BY LenProperties DEF WSTypes
  <2> QED
    BY <2>1 DEF Begun, Protocol
<1>5. CASE HeaderLine
  <2> DEFINE f == [op |-> "line"]
  <2>1. f \in Traffic /\ f \notin FrameSet /\ ~Data(f)
    BY DEF Traffic, Answers, FrameSet, Data, DataOps
  <2>2. Emit(f) /\ Len(wire) < 2 /\ Underway /\ UNCHANGED <<server, rude>>
    BY <1>5 DEF HeaderLine, Underway
  <2> HIDE DEF f
  <2> QED
    BY <1>3, <2>1, <2>2
<1>6. ASSUME NEW proper \in BOOLEAN, AnswerUpgrade(proper) PROVE Protocol'
  <2> DEFINE f == [op |-> IF proper THEN "101" ELSE "refusal"]
  <2>1. f \in Traffic /\ f \notin FrameSet /\ ~Data(f)
    BY DEF Traffic, Answers, FrameSet, Data, DataOps
  <2>2. /\ Emit(f) /\ Len(wire) < 2 /\ Underway /\ server = "handshake" /\ server' = "frames"
        /\ rude' \in {rude, TRUE}
    BY <1>6 DEF AnswerUpgrade, Underway, Flags
  <2> HIDE DEF f
  <2> QED
    BY <1>3, <2>1, <2>2
<1>7. ASSUME NEW n \in 0 .. MaxMsg, NEW fin \in BOOLEAN, Fragment(n, fin), Underway PROVE Protocol'
  <2> DEFINE f == Frame(InOrderOp, fin, [i \in 1 .. n |-> sent + i])
  <2>1. f \in FrameSet /\ Whole(f) /\ f.op = IF server = "frames" THEN "text" ELSE "continuation"
    BY FragmentIsWhole DEF WSTypes
  <2>2. /\ Emit(f) /\ Len(wire) < 2 /\ server \in {"frames", "midway"}
        /\ server' \in {"midway", "finished"} /\ rude' = rude
    BY <1>7 DEF Fragment, Sending
  <2> HIDE DEF f
  <2>3. Obeys(f, Begun(wire, Len(wire) + 1, Ahead), rude') /\ Data(f) /\ f \in Traffic
    BY <1>4, <1>7, <2>1, <2>2 DEF Obeys, Whole, Traffic
  <2> QED
    BY <1>3, <1>7, <2>2, <2>3
<1>8. ASSUME NEW op \in Controls, Control(op), Underway PROVE Protocol'
  <2> DEFINE f == Frame(op, TRUE, <<Junk>>)
  <2>1. f \in FrameSet /\ ~Data(f) /\ f.ok /\ f.op = op
    BY DEF Frame, FrameSet, Junk, Data, DataOps, Controls
  <2>2. /\ Emit(f) /\ Len(wire) < 2 /\ server' \in {"finished", server}
        /\ rude' \in {rude, TRUE} /\ (op = "close" => rude')
    BY <1>8 DEF Control, Sending, Flags
  <2> HIDE DEF f
  <2>3. Obeys(f, Begun(wire, Len(wire) + 1, Ahead), rude') /\ f \in Traffic
    BY <2>1, <2>2 DEF Obeys, Traffic
  <2> QED
    BY <1>3, <1>8, <2>1, <2>2, <2>3
<1>9. CASE Breach /\ Underway
  <2>1. PICK f \in Breaches : Emit(f)
    BY <1>9 DEF Breach
  <2>2. /\ Len(wire) < 2 /\ server \in {"frames", "midway"} /\ server' = "finished"
        /\ rude' = TRUE
    BY <1>9 DEF Breach, Sending
  <2>3. f \in FrameSet /\ f \in Traffic /\ Fatal(f, Begun(wire, Len(wire) + 1, Ahead))
    BY <1>4, <1>9, <2>2, BreachIsFatal DEF Fatal, Traffic
  <2>4. Obeys(f, Begun(wire, Len(wire) + 1, Ahead), rude')
    BY <2>2, <2>3 DEF Obeys
  <2> QED
    BY <1>3, <1>9, <2>1, <2>2, <2>3, <2>4
<1>10. CASE Leave /\ Underway
  <2>1. UNCHANGED client /\ server' = "gone" /\ rude' = rude
    BY <1>10 DEF Leave
  <2>2. Ruled(wire', Ahead, rude)
    BY <1>10, LeaveTears, RuledTorn DEF WSTypes, Protocol
  <2> QED
    BY <1>10, <2>1, <2>2 DEF Protocol, Ahead
<1>11. CASE ~Underway /\ call' = call
  BY <1>11 DEF Protocol, Underway
<1>12. CASE Endpoint
  <2>1. call' = call
    BY <1>12 DEF Endpoint, HeaderLine, AnswerUpgrade, Fragment, Control, Breach, Leave
  <2> QED
    BY <1>5, <1>6, <1>7, <1>8, <1>9, <1>10, <1>11, <1>12, <2>1 DEF Endpoint
<1>13. CASE HookFires \/ UNCHANGED wsVars \/ \E how \in {"cancelled", "expired"} : EndContext(how)
  BY <1>2, <1>11, <1>13 DEF HookFires, EndContext
<1>14. CASE Begins
  BY <1>2, <1>14 DEF Begins, Underway
<1>15. CASE Forget \/ ReadFails
  BY <1>1, <1>15 DEF Forget, ReadFails
<1>16. ASSUME NEW url, Dial(url) PROVE Protocol'
  <2>1. UNCHANGED <<wire, server, rude, started>> /\ call = "dial" /\ call' # "payload"
    BY <1>16 DEF Dial
  <2> QED
    BY <1>2, <2>1 DEF Underway
<1>17. CASE Handshake \/ SendUpgrade \/ ArmHook \/ SendSerial \/ SendPong
  <2>1. /\ UNCHANGED <<wire, server, started>> /\ call # "payload" /\ call' # "payload" /\ Underway
        /\ call' = "done" \/ rude' = rude
    BY <1>17 DEF Handshake, SendUpgrade, ArmHook, SendSerial, SendPong, Underway
  <2> QED
    BY <1>1, <1>2, <2>1
<1>18. ASSUME Underway, wire # <<>>, wire' = Tail(wire), call # "payload",
              UNCHANGED <<server, rude, started>>,
              \/ call' = "payload" /\ frame' = Head(wire) /\ Head(wire) \in FrameSet
              \/ call' # "payload" /\ ~Data(Head(wire))
       PROVE  Protocol'
  <2>1. /\ wire' \in Seq(Traffic) /\ Head(wire) = wire[1]
        /\ Len(wire) \in Nat \ {0} /\ Len(wire') = Len(wire) - 1
        /\ \A i \in 1 .. Len(wire') : wire'[i] = wire[i + 1]
    BY <1>18, WireTail DEF WSTypes
  <2>2. /\ Head(wire) \in FrameSet => Obeys(Head(wire), Ahead, rude)
        /\ Ruled(Tail(wire), Ahead \/ Data(Head(wire)), rude)
    BY <1>18, RuledTail DEF WSTypes, Protocol
  <2>3. (Ahead \/ Data(Head(wire))) <=> Ahead'
    BY <1>18 DEF Ahead
  <2>4. Ruled(wire', Ahead', rude')
    BY <1>18, <2>2, <2>3, RuledSame
  <2>5. call' = "payload" => Obeys(frame', started', rude')
    <3>1. Ahead <=> started
      BY <1>18 DEF Ahead
    <3> QED
      BY <1>18, <2>2, <3>1 DEF Obeys, Fatal
  <2>6. server \in {"handshake", "frames"} => ~Ahead' /\ \A i \in 1 .. Len(wire') : ~Data(wire'[i])
    BY <1>18, <2>1, <2>3 DEF Protocol
  <2>7. server = "midway" => Ahead' \/ \E i \in 1 .. Len(wire') : Data(wire'[i])
    <3>1. ASSUME NEW i \in 1 .. Len(wire), Data(wire[i]), ~Data(Head(wire))
          PROVE  \E j \in 1 .. Len(wire') : Data(wire'[j])
      <4>1. i - 1 \in 1 .. Len(wire') /\ wire'[i - 1] = wire[i]
        BY <2>1, <3>1
      <4> QED
        BY <3>1, <4>1
    <3> QED
      BY <1>18, <2>3, <3>1 DEF Protocol
  <2> QED
    BY <1>18, <2>4, <2>5, <2>6, <2>7 DEF Protocol
<1>19. CASE ReadHeader
  <2>1. /\ wire # <<>> /\ wire' = Tail(wire) /\ call = "headers"
        /\ UNCHANGED <<server, rude, started>>
    BY <1>19 DEF ReadHeader
  <2>2. call' = "done" \/ (call' # "payload" /\ Head(wire).op \in {"line", "101"})
    BY <1>19 DEF ReadHeader
  <2>3. Head(wire).op \in {"line", "101"} => ~Data(Head(wire))
    BY DEF Data, DataOps
  <2> QED
    BY <1>1, <1>18, <2>1, <2>2, <2>3 DEF Underway
<1>20. CASE ReadFrame
  <2>1. /\ wire # <<>> /\ wire' = Tail(wire) /\ call = "read"
        /\ UNCHANGED <<server, rude, started>>
        /\ call' = "done" \/ (call' = "payload" /\ frame' = Head(wire))
    BY <1>20 DEF ReadFrame
  <2>2. call' = "payload" => frame' \in FrameSet
    BY DEF WSTypes
  <2> QED
    BY <1>1, <1>18, <2>1, <2>2 DEF Underway
<1>21. CASE ReadPayload
  <2>1. call = "payload" /\ UNCHANGED endpoint /\ Underway
    BY <1>21 DEF ReadPayload, Underway
  <2>2. \/ call' = "done"
        \/ frame.op \in Controls /\ call' \in {"read", "pong"} /\ started' = started
        \/ frame.op \in DataOps /\ call' = "read" /\ started' = TRUE
    BY <1>21 DEF ReadPayload, Dispatch, CarryOn, Accumulate, Complete, Controls, DataOps
  <2>3. (call' # "done") => (Ahead <=> Ahead') /\ call' # "payload"
    BY <2>1, <2>2 DEF Ahead, Data, DataOps, Controls
  <2>4. call' # "done" => Ruled(wire', Ahead', rude')
    BY <2>1, <2>3, RuledSame DEF Protocol
  <2> QED
    BY <1>1, <2>1, <2>2, <2>3, <2>4 DEF Protocol
<1> QED
  BY <1>12, <1>13, <1>14, <1>15, <1>16, <1>17, <1>19, <1>20, <1>21 DEF WSStep, Client

LEMMA ReasonStep ==
  ASSUME Flags, WSTypes, WSTypes', Stage, Fits, Pieces, Protocol, ReplyOrReason, WSStep
  PROVE  ReplyOrReason'
<1> USE DEF endpoint, reader, client, wsVars, Emit, Take, Goto
<1> DEFINE Reason ==
             rude \/ server = "gone" \/ ctx # "live" \/ length > MaxMsg \/ lines >= MaxHeader
<1>1. CASE call' # "done"
  BY <1>1 DEF ReplyOrReason, Returned
<1>2. CASE call = "done" /\ call' = "done"
  <2>1. /\ UNCHANGED <<outcome, length, ctx>> /\ (rude => rude')
           /\ (server = "gone" => server' = "gone")
        /\ lines' \in {lines, lines + 1}
    <3>1. CASE Endpoint
      <4>1. CASE HeaderLine \/ Breach \/ Leave
        BY <1>2, <4>1 DEF HeaderLine, Breach, Leave, Sending
      <4>2. ASSUME NEW proper \in BOOLEAN, AnswerUpgrade(proper) PROVE FALSE
        BY <1>2, <4>2 DEF AnswerUpgrade
      <4>3. CASE \E n \in 0 .. MaxMsg, fin \in BOOLEAN : Fragment(n, fin)
        BY <1>2, <4>3 DEF Fragment, Sending
      <4>4. CASE \E op \in Controls : Control(op)
        BY <1>2, <4>4 DEF Control, Sending
      <4> QED
        BY <3>1, <4>1, <4>2, <4>3, <4>4 DEF Endpoint
    <3>2. CASE Client
      BY <1>2, <3>2 DEF Client, Dial, Handshake, SendUpgrade, ReadHeader, ArmHook, SendSerial,
            ReadFrame,
                        ReadPayload, SendPong, ReadFails
    <3>3. CASE HookFires \/ Begins \/ Forget \/ UNCHANGED wsVars
               \/ \E how \in {"cancelled", "expired"} : EndContext(how)
      BY <1>2, <3>3 DEF HookFires, Begins, Forget, EndContext
    <3> QED
      BY <3>1, <3>2, <3>3 DEF WSStep
  <2>2. lines >= MaxHeader => lines' >= MaxHeader
    BY <2>1 DEF WSTypes
  <2> QED
    BY <1>2, <2>1, <2>2 DEF ReplyOrReason, Returned
<1>3. ASSUME NEW err, Fails(err), err # "", UNCHANGED <<length, lines, server>>, rude => rude',
             err = "url" \/ rude' \/ Reason
      PROVE  ReplyOrReason'
  <2>1. /\ outcome' = [err |-> IF ctx = "live" THEN err ELSE "interrupted", msg |-> <<>>]
        /\ ctx' = ctx
    BY <1>3 DEF Fails, Return
  <2>2. outcome'.err # "" /\ (ctx = "live" => outcome'.err = err)
    BY <1>3, <2>1
  <2> QED
    BY <1>3, <2>1, <2>2 DEF ReplyOrReason, Reason
<1>4. (IOFails /\ Underway) => ctx # "live"
  BY DEF IOFails, Stage
<1>5. ASSUME NEW url, Dial(url) PROVE ReplyOrReason'
  <2>1. UNCHANGED endpoint
    BY <1>5 DEF Dial
  <2>2. \/ call' # "done"
        \/ url = "cleartext" /\ Fails("url")
        \/ (ctx # "live" \/ server = "gone") /\ Fails("dial")
    BY <1>5 DEF Dial
  <2> QED
    BY <1>1, <1>3, <2>1, <2>2
<1>6. CASE Handshake
  <2>1. UNCHANGED <<length, lines, server>> /\ Underway /\ (rude => rude')
    BY <1>6 DEF Handshake, Underway
  <2>2. \/ call' # "done"
        \/ rude' /\ Fails("tls")
        \/ (ctx # "live" \/ IOFails \/ server = "gone") /\ Fails("tls")
    BY <1>6 DEF Handshake
  <2> QED
    BY <1>1, <1>3, <1>4, <2>1, <2>2
<1>7. CASE SendUpgrade \/ SendPong \/ ReadFails
  <2>1. UNCHANGED endpoint /\ Underway
    BY <1>7 DEF SendUpgrade, SendPong, ReadFails, Underway
  <2>2. \/ call' # "done"
        \/ (IOFails \/ server = "gone") /\ (Fails("write") \/ Fails("read"))
    BY <1>7 DEF SendUpgrade, SendPong, ReadFails
  <2> QED
    BY <1>1, <1>3, <1>4, <2>1, <2>2
<1>8. CASE SendSerial
  <2>1. UNCHANGED endpoint /\ Underway
    BY <1>8 DEF SendSerial, Underway
  <2>2. \/ call' # "done"
        \/ /\ IOFails \/ server = "gone"
           /\ outcome' = [err |-> "write", msg |-> <<>>] /\ ctx' = ctx
    BY <1>8 DEF SendSerial, Return
  <2>3. (IOFails \/ server = "gone") => server' = "gone" \/ ctx # "live"
    BY <1>4, <2>1
  <2>4. ASSUME outcome' = [err |-> "write", msg |-> <<>>], ctx' = ctx,
               server' = "gone" \/ ctx # "live"
        PROVE  ReplyOrReason'
    <3>1. outcome'.err # ""
      BY <2>4
    <3> QED
      BY <2>4, <3>1 DEF ReplyOrReason
  <2> QED
    BY <1>1, <2>2, <2>3, <2>4
<1>9. CASE ArmHook \/ Begins \/ Forget
  BY <1>1, <1>9 DEF ArmHook, Begins, Forget
<1>10. CASE ReadHeader
  <2>1. UNCHANGED <<length, sent, server, lines, rude>> /\ Underway /\ wire # <<>>
    BY <1>10 DEF ReadHeader, Underway
  <2>2. \/ call' # "done"
        \/ ~Room /\ Fails("too large")
        \/ Head(wire).op = "refusal" /\ Fails("refused")
    BY <1>10 DEF ReadHeader
  <2>3. ~Room => lines >= MaxHeader
    <3>1. LinesIn(wire) \in Nat
      BY DEF LinesIn
    <3>2. ~Room => bound /\ left = 0
      BY DEF Room, WSTypes
    <3>3. bound => left + lines = MaxHeader + LinesIn(wire)
      BY <2>1 DEF Stage
    <3> QED
      BY <3>1, <3>2, <3>3 DEF WSTypes
  <2>4. Head(wire).op = "refusal" => rude
    <3>1. 1 \in 1 .. Len(wire) /\ Head(wire) = wire[1]
      <4>1. wire' = Tail(wire)
        BY <1>10 DEF ReadHeader
      <4>2. Len(wire) \in Nat \ {0} /\ Head(wire) = wire[1]
        BY <2>1, <4>1, WireTail DEF WSTypes
      <4> QED
        BY <4>2
    <3> QED
      BY <3>1 DEF Stage
  <2> QED
    BY <1>1, <1>3, <2>1, <2>2, <2>3, <2>4
<1>11. CASE ReadFrame
  <2>1. UNCHANGED <<length, sent, server, lines, rude>> /\ Underway /\ wire # <<>> /\ call = "read"
    BY <1>11 DEF ReadFrame, Underway
  <2>2. call' # "done" \/ (~(Room /\ Acceptable(Head(wire))) /\ Fails("protocol"))
    BY <1>11 DEF ReadFrame
  <2>3. Room
    BY <2>1 DEF Stage, Streaming, Room
  <2>4. Head(wire) \in FrameSet
    <3>1. Head(wire) \in Traffic /\ 1 \in 1 .. Len(wire) /\ Head(wire) = wire[1]
      BY <1>11, WireTail DEF ReadFrame, WSTypes
    <3> QED
      BY <2>1, <3>1 DEF Stage, Traffic, Streaming
  <2>5. Obeys(Head(wire), started, rude)
    <3>1. Obeys(Head(wire), Ahead, rude)
      BY <2>1, <2>4, RuledTail DEF WSTypes, Protocol
    <3>2. Ahead <=> started
      BY <2>1 DEF Ahead
    <3> QED
      BY <3>1, <3>2 DEF Obeys, Fatal
  <2>6. ASSUME ~Acceptable(Head(wire)), ~rude PROVE length > MaxMsg
    <3>1. Whole(Head(wire))
      BY <2>5, <2>6 DEF Obeys, Acceptable
    <3>2. ~(Len(Head(wire).body) <= Budget)
      BY <2>6, <3>1 DEF Acceptable, Whole
    <3>3. Flow(wire, Len(buf), sent, length)
      BY <2>1 DEF Pieces
    <3>4. PICK c \in 0 .. sent : Carries(Head(wire), Len(buf), c, length)
      BY <2>1, <3>3, FlowTail DEF WSTypes
    <3>5. c = Len(buf) + Len(Head(wire).body)
      BY <3>1, <3>4 DEF Carries
    <3>6. Len(buf) \in Nat /\ Len(Head(wire).body) \in Nat
      BY <2>4, LenProperties DEF WSTypes, FrameSet
    <3>7. sent \in 0 .. length /\ length \in Nat
      BY DEF WSTypes
    <3> QED
      BY <3>2, <3>5, <3>6, <3>7 DEF Budget
  <2> QED
    BY <1>1, <1>3, <2>1, <2>2, <2>3, <2>6
<1>12. ASSUME outcome' = [err |-> "", msg |-> Run(0, length)], length' = length
       PROVE  ReplyOrReason'
  <2>1. outcome'.err = "" /\ outcome'.msg = Run(0, length)
    BY <1>12
  <2>2. Run(0, length) = [i \in 1 .. length |-> i]
    BY DEF Run
  <2> QED
    BY <1>12, <2>1, <2>2 DEF ReplyOrReason
<1>13. CASE ReadPayload
  <2>1. UNCHANGED endpoint /\ Underway /\ call = "payload"
    BY <1>13 DEF ReadPayload, Underway
  <2>2. Obeys(frame, started, rude)
    BY <2>1 DEF Protocol
  <2>3. CASE Accumulate(frame.body) /\ frame.op \in {"text", "binary"} /\ ~started
    <3>1. PICK c \in 0 .. sent : frame.body = Run(0, c) /\ (frame.fin => c = length)
      BY <2>1, <2>3, MessageGrows
    <3>2. call' # "done" \/ (frame.fin /\ outcome' = [err |-> "", msg |-> frame.body])
      BY <2>3 DEF Accumulate, Complete, Return
    <3> QED
      BY <1>1, <1>12, <2>1, <3>1, <3>2
  <2>4. CASE Accumulate(buf \o frame.body) /\ frame.op = "continuation" /\ started
    <3>1. PICK c \in 0 .. sent : buf \o frame.body = Run(0, c) /\ (frame.fin => c = length)
      BY <2>1, <2>4, MessageGrows
    <3>2. call' # "done" \/ (frame.fin /\ outcome' = [err |-> "", msg |-> buf \o frame.body])
      BY <2>4 DEF Accumulate, Complete, Return
    <3> QED
      BY <1>1, <1>12, <2>1, <3>1, <3>2
  <2>5. CASE frame.op = "close" /\ Fails("closed")
    <3>1. rude
      BY <2>2, <2>5 DEF Obeys, Whole, Data, DataOps
    <3> QED
      BY <1>3, <2>1, <2>5, <3>1
  <2>6. CASE /\ Fails("protocol") /\ frame.op \notin Controls
             /\ ~(frame.op \in {"text", "binary"} /\ ~started)
                /\ ~(frame.op = "continuation" /\ started)
    <3>1. rude
      BY <2>2, <2>6 DEF Obeys, Flags
    <3> QED
      BY <1>3, <2>1, <2>6, <3>1
  <2> QED
    BY <1>1, <1>13, <2>3, <2>4, <2>5, <2>6 DEF ReadPayload, Dispatch, CarryOn, Controls
<1>14. CASE Endpoint \/ HookFires \/ UNCHANGED wsVars
            \/ \E how \in {"cancelled", "expired"} : EndContext(how)
  <2>1. call' = call
    BY <1>14
    DEF Endpoint, HeaderLine, AnswerUpgrade, Fragment, Control, Breach, Leave, HookFires, EndContext
  <2> QED
    BY <1>1, <1>2, <2>1
<1> QED
  BY <1>5, <1>6, <1>7, <1>8, <1>9, <1>10, <1>11, <1>13, <1>14 DEF WSStep, Client

-----------------------------------------------------------------------------
(* The file.                                                               *)

\* How far the call has come says what the two files hold and which of them the
\* destination's name stands for, to a process and after a power cut.
Placed ==
  /\ named \in {"before", "fresh"} /\ recorded \in {"before", "fresh"}
  /\ "fresh" \in {named, recorded} => fresh = data /\ synced = TRUE
  /\ saving \in {"idle", "create", "write", "sync", "rename"}
     => named = "before" /\ recorded = "before"
  /\ saving \in {"sync", "rename"} => fresh = data
  /\ saving = "rename" => synced = TRUE
  /\ saving \in {"syncdir", "saved"} => named = "fresh"
  /\ saving = "saved" => recorded = "fresh"
  /\ saved \in BOOLEAN
  /\ saved => saving \in {"saved", "dead"} /\ named = "fresh" /\ recorded = "fresh"

LEMMA PlacedStep ==
  ASSUME Placed, [Next]_vars
  PROVE  Placed'
<1> USE DEF saveVars, files, fetchVars
<1>1. CASE UNCHANGED <<saveVars, saved>>
  BY <1>1 DEF Placed
<1>2. CASE Network \/ Exchange \/ ReadSerial \/ FetchFails \/ FetchEnds \/ UNCHANGED vars
  BY <1>1, <1>2 DEF Network, Exchange, ReadSerial, FetchFails, FetchEnds, vars
<1>3. CASE Report
  <2>1. saved' = saved /\ (UNCHANGED saveVars \/ \E d : BeginSave(d))
    BY <1>3 DEF Report
  <2> QED
    BY <1>1, <2>1 DEF BeginSave, Placed
<1>4. CASE Save
  <2>1. CASE CreateTemp \/ WriteTemp
    BY <1>4, <2>1 DEF Save, CreateTemp, WriteTemp, Placed
  <2>2. CASE SyncTemp \/ RenameTemp
    BY <1>4, <2>2 DEF Save, SyncTemp, RenameTemp, Placed
  <2>3. CASE SyncDir \/ Fail
    BY <1>4, <2>3 DEF Save, SyncDir, Fail, Placed
  <2> QED
    BY <1>4, <2>1, <2>2, <2>3 DEF Save, SaveStep
<1>5. CASE ReportSaved
  <2>1. UNCHANGED saveVars /\ (saved' = saved \/ (saving = "saved" /\ saved' = TRUE))
    BY <1>5 DEF ReportSaved
  <2>2. CASE saving = "saved" /\ saved' = TRUE
    <3>1. named = "fresh" /\ recorded = "fresh"
      BY <2>2 DEF Placed
    <3> QED
      BY <2>1, <2>2, <3>1, Zenon DEF Placed
  <2> QED
    BY <1>1, <2>1, <2>2
<1>6. CASE PowerFails
  <2>1. /\ named' \in {named, recorded} /\ recorded' = named' /\ saving' = "dead"
        /\ synced' = synced /\ data' = data /\ saved' = saved
        /\ fresh' = fresh \/ synced # TRUE
    BY <1>6 DEF PowerFails, PowerCut
  <2> QED
    BY <2>1 DEF Placed
<1>7. ASSUME NEW p, LoadFirmware(p) PROVE Placed'
  BY <1>1, <1>7 DEF LoadFirmware
<1> QED
  BY <1>2, <1>3, <1>4, <1>5, <1>6, <1>7 DEF Next, Command

-----------------------------------------------------------------------------
(* The theorems.                                                           *)

(* What is reported and what is saved *)

\* What has been read is a valid image, the one the reply states; what is being saved,
\* or has been, is that image and no other.
Read ==
  /\ ImageAsStated
  /\ image.ok => ValidImage(image)
  /\ cmd = "report" => raw = TRUE \/ image.ok

Kept ==
  /\ raw \in BOOLEAN
  /\ cmd \in {"start", "fetch", "report"} => saving = "idle" /\ saved = FALSE
  /\ (saved = TRUE \/ saving \notin {"idle", "dead"}) /\ raw = FALSE
       => image.ok /\ data = MarshalFirmware(image)
  /\ SavedIsFetched

LEMMA ReadSame ==
  ASSUME Read, UNCHANGED <<reply, image, raw>>, cmd' = "report" => cmd = "report"
  PROVE  Read'
BY DEF Read, ImageAsStated

LEMMA ReadStep ==
  ASSUME Read, [Next]_vars
  PROVE  Read'
<1> USE DEF fetchVars
<1>1. CASE Network \/ Exchange \/ ReadSerial \/ FetchFails \/ UNCHANGED vars
  BY <1>1, ReadSame DEF Network, Exchange, ReadSerial, FetchFails, End, vars
<1>2. CASE FetchEnds
  <2>1. PICK r \in Replies, isRaw \in BOOLEAN :
          /\ raw' = isRaw /\ reply' = MessageOf(r)
          /\ image' = IF isRaw THEN No ELSE FetchParse(MessageOf(r))
          /\ IF isRaw \/ image'.ok THEN cmd' = "report" ELSE cmd' = "done"
    BY <1>2 DEF FetchEnds, End
  <2>2. IsDocument(MessageOf(r))
    BY RepliesAssumption DEF MessageOf, Garbled, IsDocument
  <2>3. No.ok = FALSE
    BY DEF No
  <2>4. CASE image'.ok
    <3> DEFINE doc == MessageOf(r)
    <3>1. image' = FetchParse(doc) /\ FetchParse(doc).ok /\ IsDocument(doc) /\ reply' = doc
      BY <2>1, <2>2, <2>3, <2>4
    <3> HIDE DEF doc
    <3>2. /\ ValidImage(FetchParse(doc)) /\ doc.t \in {"object", "array"}
          /\ Ambiguous(PagesOf(doc)) \/ PagesAsStated(PagesOf(doc), FetchParse(doc).pages)
      BY <3>1, ParsedAsStated
    <3> QED
      BY <2>4, <3>1, <3>2 DEF Read, ImageAsStated
  <2>5. CASE ~image'.ok
    BY <2>1, <2>5 DEF Read, ImageAsStated
  <2> QED
    BY <2>4, <2>5
<1>3. CASE Report
  BY <1>3, ReadSame DEF Report, End
<1>4. CASE Save \/ ReportSaved \/ PowerFails
  BY <1>4, ReadSame DEF Save, ReportSaved, PowerFails, End
<1>5. ASSUME NEW p, LoadFirmware(p) PROVE Read'
  BY <1>5, ReadSame DEF LoadFirmware
<1> QED
  BY <1>1, <1>2, <1>3, <1>4, <1>5 DEF Next, Command

LEMMA KeptStep ==
  ASSUME Read, Kept, Placed, [Next]_vars
  PROVE  Kept'
<1> USE DEF fetchVars, saveVars, files
<1>1. CASE UNCHANGED vars
  BY <1>1 DEF Kept, SavedIsFetched, vars
<1>2. CASE Network \/ Exchange
  BY <1>2 DEF Network, Exchange, Kept, SavedIsFetched
<1>3. CASE ReadSerial \/ FetchFails
  BY <1>3 DEF ReadSerial, FetchFails, Kept, SavedIsFetched, End
<1>4. CASE FetchEnds
  <2>1. /\ cmd = "fetch" /\ raw' \in BOOLEAN /\ cmd' \in {"report", "done"}
        /\ saving' = saving /\ saved' = saved
    BY <1>4 DEF FetchEnds, End
  <2> QED
    BY <2>1 DEF Kept, SavedIsFetched
<1>5. CASE Report
  <2>1. UNCHANGED <<raw, saved, image>> /\ cmd = "report" /\ cmd' \in {"save", "done"}
    BY <1>5 DEF Report, End
  <2>2. CASE saving' = "create"
    <3>1. data' = IF raw THEN reply ELSE MarshalFirmware(image)
      <4>1. out = TRUE \/ saving' = saving
        BY <1>5 DEF Report
      <4> QED
        BY <1>5, <2>1, <2>2 DEF Report, BeginSave, Kept
    <3> QED
      BY <2>1, <2>2, <3>1 DEF Kept, Read, SavedIsFetched
  <2>3. CASE UNCHANGED saveVars
    BY <2>1, <2>3 DEF Kept, SavedIsFetched
  <2> QED
    BY <1>5, <2>2, <2>3 DEF Report, BeginSave
<1>6. CASE Save
  <2>1. UNCHANGED <<cmd, raw, saved, image, loaded>> /\ cmd = "save" /\ data' = data
    BY <1>6 DEF Save, SaveStep, CreateTemp, WriteTemp, SyncTemp, RenameTemp, SyncDir, Fail
  <2>2. saving \notin {"idle", "dead"}
    BY <1>6 DEF Save, SaveStep, CreateTemp, WriteTemp, SyncTemp, RenameTemp, SyncDir, Fail
  <2> QED
    BY <2>1, <2>2 DEF Kept, SavedIsFetched
<1>7. CASE ReportSaved
  <2>1. /\ UNCHANGED <<raw, image, data, saving>> /\ cmd' = "done"
        /\ saved' = saved \/ (saved' = TRUE /\ saving = "saved")
    BY <1>7 DEF ReportSaved, End
  <2> QED
    BY <2>1 DEF Kept, SavedIsFetched
<1>8. CASE PowerFails
  <2>1. UNCHANGED <<raw, image, data, saved>> /\ cmd' = "done" /\ saving' = "dead"
    BY <1>8 DEF PowerFails, PowerCut
  <2> QED
    BY <2>1 DEF Kept, SavedIsFetched
<1>9. ASSUME NEW p, LoadFirmware(p) PROVE Kept'
  <2>1. /\ UNCHANGED <<saveVars, raw, saved, image>> /\ cmd' = "loaded"
        /\ loaded' = [flag |-> p, image |-> IF p # 0 /\ LooksJSON(Contents) THEN No ELSE ParseImage(Contents, p)]
    BY <1>9 DEF LoadFirmware
  <2>2. ASSUME saved = TRUE, raw = FALSE
        PROVE  loaded'.image = IF loaded'.flag = 0 THEN Again(image) ELSE No
    <3>1. Contents = MarshalFirmware(image) /\ ValidImage(image)
      BY <2>2 DEF Kept, Read, Placed, Contents
    <3>2. ParseImage(Contents, 0) = Again(image) /\ LooksJSON(Contents)
      BY <3>1, ReadsBack
    <3>3. loaded'.flag = p /\ loaded'.image = IF p # 0 /\ LooksJSON(Contents) THEN No ELSE ParseImage(Contents, p)
      BY <2>1
    <3> QED
      BY <3>2, <3>3
  <2>3. ASSUME saved = TRUE, raw = FALSE
        PROVE  /\ Again(image).ok /\ Again(image).pages = image.pages /\ Again(image).crc = image.crc
               /\ ShortOfTheCut(image.version) \/ Again(image).version = image.version
    <3>1. Clean(image.version)
      BY <2>3 DEF Kept, Read, Placed, Contents, ValidImage
    <3>2. ShortOfTheCut(image.version) \/ PrintableASCII(image.version, MaxVersionLen) = image.version
      BY <3>1, CleanStays
    <3> QED
      BY <3>2 DEF Again
  <2>4. SavedIsFetched'
    <3> HIDE DEF fetchVars, saveVars, files
    <3>1. ((image = image') /\ (saved = saved') /\ (raw = raw'))
      BY <2>1 DEF fetchVars, saveVars, files
    <3>2. saved = TRUE /\ ~raw => saved = TRUE /\ raw = FALSE
      BY DEF Kept
    <3> QED
      BY <2>2, <2>3, <3>1, <3>2 DEF SavedIsFetched, ShortOfTheCut, Kept, Placed
  <2> QED
    BY <2>1, <2>4 DEF Kept
<1> QED
  BY <1>1, <1>2, <1>3, <1>4, <1>5, <1>6, <1>7, <1>8, <1>9 DEF Next, Command

Inv == Waiting /\ WSInv /\ ReplyOrReason /\ Placed /\ Read /\ Kept

LEMMA Initially ==
  ASSUME Init
  PROVE  Inv
<1>1. /\ length \in Nat /\ sent = 0 /\ server = "handshake" /\ lines = 0
         /\ rude = FALSE /\ ctx = "live"
      /\ call = "idle" /\ tcp = "none" /\ hook = FALSE /\ bound = TRUE /\ left = MaxHeader
      /\ started = FALSE /\ wire = <<>> /\ buf = <<>>
  BY DEF Init, WSInit
<1>0. /\ Len(wire) = 0 /\ Len(buf) = 0 /\ wire \in Seq(Traffic) /\ buf \in Seq(Nat)
      /\ buf = Run(0, 0)
  <2>1. Run(0, 0) \in Seq(Nat) /\ Len(Run(0, 0)) = 0
    BY RunProperties
  <2>2. Run(0, 0) = <<>>
    BY <2>1, EmptySeq
  <2>3. <<>> \in Seq(Traffic) /\ <<>> \in Seq(Nat) /\ Len(<<>>) = 0
    BY EmptySeq
  <2> QED
    BY <1>1, <2>2, <2>3
<1>2. Flags
  BY <1>1 DEF Flags
<1>3. WSTypes
  <2>1. MaxHeader \in Nat /\ sent \in 0 .. length /\ Len(wire) <= 2
    BY <1>0, <1>1
  <2> QED
    BY <1>0, <1>1, <2>1 DEF WSTypes
<1>4. Stage
  <2>1. LinesIn(wire) = 0 /\ left + lines = MaxHeader
    BY <1>0, <1>1 DEF LinesIn
  <2>2. 1 .. Len(wire) = {}
    BY <1>0
  <2> QED
    BY <1>1, <2>1, <2>2 DEF Stage, Streaming
<1>5. Pieces
  <2>3. Flow(wire, 0, sent, length)
    <3> DEFINE at == [i \in 1 .. 1 |-> 0]
    <3>1. at \in [1 .. 1 -> 0 .. 0] /\ at[1] = 0
      OBVIOUS
    <3> HIDE DEF at
    <3>2. Len(wire) + 1 = 1 /\ 1 .. Len(wire) = {} /\ sent = 0
      BY <1>0, <1>1
    <3> QED
      BY <3>1, <3>2 DEF Flow
  <2>4. 0 \in 0 .. sent
    BY <1>1
  <2> QED
    BY <1>0, <1>1, <2>3, <2>4 DEF Pieces
<1>6. Protocol
  <2>1. 1 .. Len(wire) = {}
    BY <1>0
  <2> QED
    BY <1>1, <2>1 DEF Protocol, Ruled, Ahead
<1>7. Fits
  <2>1. Len(buf) <= MaxMsg
    BY <1>0
  <2> QED
    BY <1>1, <2>1 DEF Fits
<1>8. Waiting /\ ReplyOrReason
  BY <1>1 DEF Waiting, ReplyOrReason, Returned
<1>9. Placed
  BY DEF Init, SaveInit, Placed
<1>10. Read /\ Kept
  BY DEF Init, SaveInit, Read, Kept, ImageAsStated, SavedIsFetched, No
<1> QED
  BY <1>2, <1>3, <1>4, <1>5, <1>6, <1>7, <1>8, <1>9, <1>10 DEF Inv, WSInv

LEMMA Inductive == Spec => []Inv
<1>1. Init => Inv
  BY Initially
<1>2. Inv /\ [Next]_vars => Inv'
  <2> SUFFICES ASSUME Inv, [Next]_vars
               PROVE  Inv'
    OBVIOUS
  <2>1. Waiting /\ Flags /\ WSTypes /\ Stage /\ Pieces /\ Protocol /\ Fits
        /\ ReplyOrReason /\ Placed /\ Read /\ Kept
    BY DEF Inv, WSInv
  <2>2. Waiting' /\ WSStep /\ Placed'
    BY <2>1, WaitingStep, StepIsWSStep, PlacedStep
  <2>6. Read' /\ Kept'
    BY <2>1, ReadStep, KeptStep
  <2>3. Flags' /\ WSTypes'
    BY <2>1, <2>2, FlagsStep, TypesStep
  <2>4. Stage' /\ Fits'
    BY <2>1, <2>2, <2>3, StageStep, FitsStep
  <2>5. Pieces' /\ Protocol' /\ ReplyOrReason'
    BY <2>1, <2>2, <2>3, PiecesStep, ProtocolStep, ReasonStep
  <2> QED
    BY <2>2, <2>3, <2>4, <2>5, <2>6 DEF Inv, WSInv
<1> QED
  BY <1>1, <1>2, PTL DEF Spec

\* The variables of the download keep their types: what is on the wire is the answers
\* and frames an endpoint may send, never more than two of them (wsDial, readFrame).
THEOREM FetchTypeCorrect == Spec => [](Flags /\ WSTypes)
<1>1. Inv => Flags /\ WSTypes
  BY DEF Inv, WSInv
<1> QED
  BY <1>1, Inductive, PTL

\* A download that ends well hands back every piece of the reply in order and nothing
\* else, for any reply and any way of cutting it up; one that fails has a reason
\* (FetchRaw, readMessage).
THEOREM RepliesWhole == Spec => []ReplyOrReason
<1>1. Inv => ReplyOrReason
  BY DEF Inv
<1> QED
  BY <1>1, Inductive, PTL

\* The memory a download holds never passes the ceiling, whatever lengths the headers
\* of the frames claim (readFrame's budget).
THEOREM MemoryBounded == Spec => []CeilingHeld
<1>1. Inv => CeilingHeld
  <2> SUFFICES ASSUME Inv
               PROVE  CeilingHeld
    OBVIOUS
  <2>1. WSTypes /\ Fits
    BY DEF Inv, WSInv
  <2>2. Len(buf) \in Nat
    BY <2>1, LenProperties DEF WSTypes
  <2>3. CASE call = "payload" /\ frame.op \notin Controls
    <3>1. Len(frame.body) \in Nat
      BY <2>1, <2>3, LenProperties DEF WSTypes, FrameSet
    <3> QED
      BY <2>1, <2>2, <2>3, <3>1 DEF Fits, CeilingHeld
  <2>4. CASE ~(call = "payload" /\ frame.op \notin Controls)
    BY <2>1, <2>2, <2>4 DEF Fits, CeilingHeld
  <2> QED
    BY <2>3, <2>4
<1> QED
  BY <1>1, Inductive, PTL

\* A reader of the destination sees the old file or the whole new one, whatever system
\* call fails and wherever the power goes, and the new one once the command has said
\* that it is saved (writeFileAtomic).
THEOREM SavedWhole == Spec => []FileIsWhole
<1>1. Inv => FileIsWhole
  BY DEF Inv, Placed, FileIsWhole, Contents
<1> QED
  BY <1>1, Inductive, PTL

\* Between the handshake and the last frame the message grows by whole frames of the
\* reply: whatever is on the wire goes on from where the message stands.
THEOREM NothingSkipped == Spec => [](Pieces /\ Protocol)
<1>1. Inv => Pieces /\ Protocol
  BY DEF Inv, WSInv
<1> QED
  BY <1>1, Inductive, PTL

\* What fetch reports as the image of the service is the image its JSON states, for any
\* reply a decoder may hand over: every page whole, where it says or in the order given,
\* none missing and none twice; a flat image in full, padded by less than a page.
THEOREM ImageIsAsStated == Spec => []ImageAsStated
<1>1. Inv => ImageAsStated
  BY DEF Inv, Read
<1> QED
  BY <1>1, Inductive, PTL

\* Whatever fetch reports could be written to a unit: as many pages as can be addressed,
\* equal, and of a length that divides into chunks a frame has room for (NewFirmware).
THEOREM ImagesAreValid == Spec => [](image.ok => ValidImage(image))
<1>1. Inv => (image.ok => ValidImage(image))
  BY DEF Inv, Read
<1> QED
  BY <1>1, Inductive, PTL

\* An image that was saved reads back as itself, for every image: its pages, their split,
\* the sum, and the version unless it was cut at a blank; and it is refused under a
\* --page-size (marshalFirmware, printableASCII, ParseImage).
THEOREM SavedReadsBack == Spec => []SavedIsFetched
<1>1. Inv => SavedIsFetched
  BY DEF Inv, Kept
<1> QED
  BY <1>1, Inductive, PTL
=============================================================================
