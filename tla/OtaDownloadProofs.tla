-------------------------- MODULE OtaDownloadProofs --------------------------
(***************************************************************************)
(* Theorems about OtaDownload, for every length of a body, every size of   *)
(* the receive buffer and of a sector: type correctness, nothing of a body *)
(* is lost between the socket and the flash, and the thread does what      *)
(* OtaUpgrade says of a download.                                          *)
(***************************************************************************)
EXTENDS OtaDownload, SequenceTheorems, FiniteSetTheorems, WellFoundedInduction, TLAPS

(* Induction over the numbers, for a set of them.                          *)
LEMMA AllNumbers ==
  ASSUME NEW T, 0 \in T, \A i \in Nat : i \in T => i + 1 \in T
  PROVE  \A i \in Nat : i \in T
<1> DEFINE R == OpToRel(<, Nat)
           U == Nat \ T
<1>1. IsWellFoundedOn(R, Nat)
  BY NatLessThanWellFounded
<1>2. \A y \in Nat : \A x \in Nat : y < x => <<y, x>> \in R
  BY DEF OpToRel
<1> HIDE DEF R
<1>3. SUFFICES ASSUME U # {} PROVE FALSE
  OBVIOUS
<1>4. U \subseteq Nat
  OBVIOUS
<1>5. PICK x \in U : \A y \in U : ~(<<y, x>> \in R)
  BY <1>1, <1>3, <1>4, WFMin
<1>6. x \in Nat /\ x # 0 /\ x - 1 \in Nat
  BY <1>4, <1>5
<1>7. x - 1 \in U
  BY <1>5, <1>6
<1>8. <<x - 1, x>> \in R
  BY <1>2, <1>6
<1>9. QED
  BY <1>5, <1>7, <1>8

-----------------------------------------------------------------------------
(* FlattenSeq.                                                             *)
Joins(ss, f, n) == f = [i \in 1..n |-> IF i = 1 THEN ss[i] ELSE f[i-1] \o ss[i]]

Agree(ss, tt, n) == \A i \in 1..n : ss[i] = tt[i]

LEMMA JoinExists ==
  ASSUME NEW ss
  PROVE  \A n \in Nat : \E f : Joins(ss, f, n)
<1> DEFINE T == {n \in Nat : \E f : Joins(ss, f, n)}
<1>1. 0 \in T
  <2>1. 1..0 = {}
    OBVIOUS
  <2>2. Joins(ss, [i \in 1..0 |-> <<>>], 0)
    BY <2>1 DEF Joins
  <2>3. QED
    BY <2>2
<1>2. ASSUME NEW n \in Nat, n \in T PROVE n + 1 \in T
  <2>1. PICK f : Joins(ss, f, n)
    BY <1>2
  <2> DEFINE g == [i \in 1..n+1 |-> IF i = 1 THEN ss[i] ELSE f[i-1] \o ss[i]]
  <2>2. \A i \in 1..n : f[i] = IF i = 1 THEN ss[i] ELSE f[i-1] \o ss[i]
    BY <2>1 DEF Joins
  <2>3. \A i \in 1..n : g[i] = f[i]
    BY <2>2
  <2>4. \A i \in 1..n+1 : i # 1 => i - 1 \in 1..n
    OBVIOUS
  <2>5. \A i \in 1..n+1 : i # 1 => g[i-1] = f[i-1]
    BY <2>3, <2>4
  <2>6. g = [i \in 1..n+1 |-> IF i = 1 THEN ss[i] ELSE g[i-1] \o ss[i]]
    BY <2>5
  <2> HIDE DEF g
  <2>7. Joins(ss, g, n + 1)
    BY <2>6 DEF Joins
  <2>8. QED
    BY <2>7
<1> HIDE DEF T
<1>3. \A n \in Nat : n \in T
  BY <1>1, <1>2, AllNumbers
<1>4. QED
  BY <1>3 DEF T

LEMMA FlattenIs ==
  ASSUME NEW ss, Len(ss) \in Nat \ {0}
  PROVE  \E f : Joins(ss, f, Len(ss)) /\ Seqs!FlattenSeq(ss) = f[Len(ss)]
<1> DEFINE f == CHOOSE f : f = [i \in 1..Len(ss) |-> IF i = 1 THEN ss[i] ELSE f[i-1] \o ss[i]]
<1>1. \E h : Joins(ss, h, Len(ss))
  BY JoinExists
<1>2. \E h : h = [i \in 1..Len(ss) |-> IF i = 1 THEN ss[i] ELSE h[i-1] \o ss[i]]
  BY <1>1 DEF Joins
<1>3. f = [i \in 1..Len(ss) |-> IF i = 1 THEN ss[i] ELSE f[i-1] \o ss[i]]
  BY <1>2, Zenon
<1>4. Seqs!FlattenSeq(ss) = f[Len(ss)]
  BY Zenon DEF Seqs!FlattenSeq
<1>5. Joins(ss, f, Len(ss))
  BY <1>3 DEF Joins
<1>6. QED
  BY <1>4, <1>5

LEMMA JoinsAgree ==
  ASSUME NEW ss, NEW tt, NEW n \in Nat, NEW m \in Nat, n <= m, Agree(ss, tt, n),
         NEW f, NEW g, Joins(ss, f, n), Joins(tt, g, m)
  PROVE  Agree(f, g, n)
<1> USE DEF Agree
<1> DEFINE T == {i \in Nat : i \in 1..n => f[i] = g[i]}
<1>1. /\ \A i \in 1..n : f[i] = IF i = 1 THEN ss[i] ELSE f[i-1] \o ss[i]
      /\ \A i \in 1..m : g[i] = IF i = 1 THEN tt[i] ELSE g[i-1] \o tt[i]
  BY DEF Joins
<1>2. 0 \in T
  OBVIOUS
<1>3. ASSUME NEW i \in Nat, i \in T PROVE i + 1 \in T
  <2>1. SUFFICES ASSUME i + 1 \in 1..n PROVE f[i+1] = g[i+1]
    OBVIOUS
  <2>2. i + 1 \in 1..m /\ (i + 1) - 1 = i
    BY <2>1
  <2>3. CASE i = 0
    BY <1>1, <2>1, <2>2, <2>3
  <2>4. CASE i # 0
    <3>1. i \in 1..n /\ f[i] = g[i]
      BY <1>3, <2>1, <2>4
    <3>2. PICK j : j = i + 1
      OBVIOUS
    <3>3. j \in 1..n /\ j \in 1..m /\ j # 1 /\ j - 1 = i
      BY <2>1, <2>2, <2>4, <3>2
    <3>4. f[j] = f[j-1] \o ss[j] /\ g[j] = g[j-1] \o tt[j] /\ ss[j] = tt[j]
      BY <1>1, <3>3
    <3>5. QED
      BY <3>1, <3>2, <3>3, <3>4
  <2>5. QED
    BY <2>3, <2>4
<1> HIDE DEF T
<1>4. \A i \in Nat : i \in T
  BY <1>2, <1>3, AllNumbers
<1>5. QED
  BY <1>4 DEF T

LEMMA FlattenEmpty == Seqs!FlattenSeq(<<>>) = <<>>
BY DEF Seqs!FlattenSeq

LEMMA FlattenAppend ==
  ASSUME NEW T, NEW ss \in Seq(Seq(T)), NEW s \in Seq(T)
  PROVE  Seqs!FlattenSeq(Append(ss, s)) = Seqs!FlattenSeq(ss) \o s
<1>0. PICK tt, n : tt = Append(ss, s) /\ n = Len(ss)
  OBVIOUS
<1>1. n \in Nat /\ Len(tt) = n + 1 /\ (\A i \in 1..n : tt[i] = ss[i]) /\ tt[n+1] = s
  BY <1>0, AppendProperties, LenProperties
<1>2. PICK g : Joins(tt, g, n + 1) /\ Seqs!FlattenSeq(tt) = g[n+1]
  BY <1>1, FlattenIs
<1>3. \A i \in 1..n+1 : g[i] = IF i = 1 THEN tt[i] ELSE g[i-1] \o tt[i]
  BY <1>2 DEF Joins
<1>4. CASE n = 0
  <2>1. ss = <<>>
    BY <1>0, <1>4, EmptySeq
  <2>2. g[1] = tt[1]
    BY <1>3, <1>4
  <2>3. <<>> \o s = s
    BY ConcatEmptySeq
  <2>4. QED
    BY <1>1, <1>2, <1>4, <2>1, <2>2, <2>3, FlattenEmpty, <1>0
<1>5. CASE n # 0
  <2>1. PICK f : Joins(ss, f, n) /\ Seqs!FlattenSeq(ss) = f[n]
    BY <1>0, <1>1, <1>5, FlattenIs
  <2>2. f[n] = g[n]
    <3>1. n <= n + 1 /\ n \in 1..n
      BY <1>1, <1>5
    <3>2. PICK m : m = n + 1
      OBVIOUS
    <3>3. /\ m \in Nat /\ n \in Nat /\ n <= m /\ Agree(ss, tt, n)
          /\ Joins(ss, f, n) /\ Joins(tt, g, m)
      BY <1>0, <1>1, <1>2, <2>1, <3>1, <3>2 DEF Agree
    <3>4. Agree(f, g, n)
      BY <3>3, JoinsAgree
    <3>5. QED
      BY <3>1, <3>4 DEF Agree
  <2>3. g[n+1] = g[n] \o tt[n+1]
    <3>1. n + 1 \in 1..n+1 /\ n + 1 # 1 /\ (n + 1) - 1 = n
      BY <1>1, <1>5
    <3>2. QED
      BY <1>3, <3>1
  <2>4. QED
    BY <1>1, <1>2, <2>1, <2>2, <2>3, <1>0
<1>6. QED
  BY <1>4, <1>5

LEMMA FlattenType ==
  ASSUME NEW T, NEW ss \in Seq(Seq(T))
  PROVE  Seqs!FlattenSeq(ss) \in Seq(T)
<1> DEFINE n == Len(ss)
<1>1. n \in Nat /\ \A i \in 1..n : ss[i] \in Seq(T)
  BY LenProperties, ElementOfSeq
<1>2. CASE n = 0
  BY <1>2, EmptySeq, FlattenEmpty
<1>3. CASE n # 0
  <2>1. PICK f : Joins(ss, f, n) /\ Seqs!FlattenSeq(ss) = f[n]
    BY <1>1, <1>3, FlattenIs
  <2>2. \A i \in 1..n : f[i] = IF i = 1 THEN ss[i] ELSE f[i-1] \o ss[i]
    BY <2>1 DEF Joins
  <2> DEFINE S == {i \in Nat : i \in 1..n => f[i] \in Seq(T)}
  <2>3. 0 \in S
    OBVIOUS
  <2>4. ASSUME NEW i \in Nat, i \in S PROVE i + 1 \in S
    <3>1. SUFFICES ASSUME i + 1 \in 1..n PROVE f[i+1] \in Seq(T)
      OBVIOUS
    <3>2. CASE i = 0
      BY <1>1, <2>2, <3>1, <3>2
    <3>3. CASE i # 0
      <4>1. f[i] \in Seq(T) /\ ss[i+1] \in Seq(T)
        BY <1>1, <2>4, <3>1, <3>3
      <4>2. PICK j : j = i + 1
        OBVIOUS
      <4>3. j \in 1..n /\ j # 1 /\ j - 1 = i
        BY <3>1, <3>3, <4>2
      <4>4. f[j] = f[j-1] \o ss[j]
        BY <2>2, <4>3
      <4>5. f[j] = f[i] \o ss[j] /\ ss[j] \in Seq(T)
        BY <4>1, <4>2, <4>3, <4>4
      <4>6. QED
        BY <4>1, <4>2, <4>5, ConcatProperties
    <3>4. QED
      BY <3>2, <3>3
  <2> HIDE DEF S
  <2>5. \A i \in Nat : i \in S
    BY <2>3, <2>4, AllNumbers
  <2>6. n \in 1..n
    BY <1>1, <1>3
  <2>7. QED
    BY <1>1, <2>1, <2>5, <2>6 DEF S
<1>4. QED
  BY <1>2, <1>3

-----------------------------------------------------------------------------
(* The response on the wire.                                               *)

(* s is in w, behind its first p elements.                                 *)
In(w, p, s) == p + Len(s) <= Len(w) /\ \A k \in 1..Len(s) : w[p + k] = s[k]

LEMMA InLeft ==
  ASSUME NEW T, NEW v \in Seq(T), NEW w \in Seq(T), NEW s \in Seq(T), NEW p \in Nat, In(v, p, s)
  PROVE  In(v \o w, p, s)
BY ConcatProperties, LenProperties DEF In

LEMMA InRight ==
  ASSUME NEW T, NEW v \in Seq(T), NEW w \in Seq(T), NEW s \in Seq(T), NEW p \in Nat, In(w, p, s)
  PROVE  In(v \o w, Len(v) + p, s)
<1>1. PICK a, b : a = Len(v) /\ b = Len(w)
  OBVIOUS
<1>2. a \in Nat /\ b \in Nat /\ Len(s) \in Nat /\ Len(v \o w) = a + b
  BY <1>1, ConcatProperties, LenProperties
<1>3. ASSUME NEW k \in 1..Len(s) PROVE (v \o w)[a + p + k] = s[k]
  <2>1. PICK j : j = a + p + k
    OBVIOUS
  <2>2. j \in 1..(a+b) /\ j > a /\ j - a = p + k /\ p + k <= b
    BY <1>1, <1>2, <2>1 DEF In
  <2>3. (v \o w)[j] = w[j - a]
    BY <1>1, <2>2, ConcatProperties
  <2>4. QED
    BY <2>1, <2>2, <2>3 DEF In
<1>4. QED
  BY <1>1, <1>2, <1>3 DEF In

LEMMA InItself ==
  ASSUME NEW T, NEW s \in Seq(T)
  PROVE  In(s, 0, s)
BY LenProperties DEF In

(* The bytes before chunk c of n, the tokens before it, and the chunk.     *)
NumChunks(n) == (n + ChunkLen - 1) \div ChunkLen
Sent(c, n) == IF c * ChunkLen < n THEN c * ChunkLen ELSE n
ChunkSize(c, n) == Sent(c + 1, n) - Sent(c, n)
Place(c, n) == 5 + 5 * c + Sent(c, n)
Tokens == [kind : {"line", "cr", "lf", "size", "byte"}, n : Nat]

LEMMA ChunkCount ==
  ASSUME NEW n \in Nat
  PROVE  /\ NumChunks(n) \in Nat
         /\ NumChunks(n) * ChunkLen >= n
         /\ \A c \in Nat : c < NumChunks(n) => c * ChunkLen < n
<1>1. PICK q : q = (n + ChunkLen - 1) \div ChunkLen
  OBVIOUS
<1>2. q \in Nat /\ q * ChunkLen <= n + ChunkLen - 1 /\ n + ChunkLen - 1 < q * ChunkLen + ChunkLen
  BY <1>1, HttpAssumption
<1>3. \A c \in Nat : c < q => (c + 1) * ChunkLen <= q * ChunkLen /\ (c + 1) * ChunkLen = c * ChunkLen + ChunkLen
  BY <1>2, HttpAssumption
<1>4. \A c \in Nat : c * ChunkLen \in Nat
  BY HttpAssumption
<1>5. q * ChunkLen \in Nat
  BY <1>2, <1>4
<1>6. \A c \in Nat : c < q => c * ChunkLen < n
  BY <1>2, <1>3, <1>4, <1>5, HttpAssumption
<1>7. q * ChunkLen >= n
  BY <1>2, <1>5, HttpAssumption
<1>8. QED
  BY <1>1, <1>2, <1>6, <1>7 DEF NumChunks

LEMMA SentFacts ==
  ASSUME NEW n \in Nat
  PROVE  /\ Sent(0, n) = 0
         /\ \A c \in Nat : Sent(c, n) \in 0..n /\ Sent(c, n) <= Sent(c + 1, n)
         /\ \A c \in Nat : c < NumChunks(n) =>
              Sent(c, n) = c * ChunkLen /\ Sent(c, n) < n /\ Sent(c, n) < Sent(c + 1, n)
         /\ Sent(NumChunks(n), n) = n /\ Sent(NumChunks(n) + 1, n) = n
<1>1. \A c \in Nat : c * ChunkLen \in Nat /\ (c + 1) * ChunkLen = c * ChunkLen + ChunkLen
  BY HttpAssumption
<1>2. 0 * ChunkLen = 0
  BY HttpAssumption
<1>3. Sent(0, n) = 0
  BY <1>2 DEF Sent
<1>4. ASSUME NEW c \in Nat PROVE Sent(c, n) \in 0..n /\ Sent(c, n) <= Sent(c + 1, n)
  <2>1. PICK a, b : a = c * ChunkLen /\ b = (c + 1) * ChunkLen
    OBVIOUS
  <2>2. a \in Nat /\ b = a + ChunkLen
    BY <1>1, <2>1
  <2>3. Sent(c, n) = (IF a < n THEN a ELSE n) /\ Sent(c + 1, n) = (IF b < n THEN b ELSE n)
    BY <2>1 DEF Sent
  <2>4. QED
    BY <2>2, <2>3, HttpAssumption
<1>5. ASSUME NEW c \in Nat, c < NumChunks(n)
      PROVE Sent(c, n) = c * ChunkLen /\ Sent(c, n) < n /\ Sent(c, n) < Sent(c + 1, n)
  <2>1. PICK a, b : a = c * ChunkLen /\ b = (c + 1) * ChunkLen
    OBVIOUS
  <2>2. a \in Nat /\ b = a + ChunkLen
    BY <1>1, <2>1
  <2>3. Sent(c, n) = (IF a < n THEN a ELSE n) /\ Sent(c + 1, n) = (IF b < n THEN b ELSE n)
    BY <2>1 DEF Sent
  <2>4. a < n
    BY <1>5, <2>1, ChunkCount
  <2>5. QED
    BY <2>1, <2>2, <2>3, <2>4, HttpAssumption
<1>6. Sent(NumChunks(n), n) = n /\ Sent(NumChunks(n) + 1, n) = n
  <2>1. PICK q : q = NumChunks(n)
    OBVIOUS
  <2>2. q \in Nat /\ q * ChunkLen >= n
    BY <2>1, ChunkCount
  <2>3. PICK a, b : a = q * ChunkLen /\ b = (q + 1) * ChunkLen
    OBVIOUS
  <2>4. a \in Nat /\ b = a + ChunkLen /\ a >= n
    BY <1>1, <2>2, <2>3
  <2>5. Sent(q, n) = (IF a < n THEN a ELSE n) /\ Sent(q + 1, n) = (IF b < n THEN b ELSE n)
    BY <2>3 DEF Sent
  <2>6. Sent(q, n) = n /\ Sent(q + 1, n) = n
    BY <2>4, <2>5, HttpAssumption
  <2>7. QED
    BY <2>1, <2>6
<1>7. QED
  BY <1>3, <1>4, <1>5, <1>6

LEMMA PlaceFacts ==
  ASSUME NEW n \in Nat, NEW c \in Nat
  PROVE  /\ Sent(c, n) \in Nat /\ Sent(c + 1, n) \in Nat /\ ChunkSize(c, n) \in Nat
         /\ Sent(c + 1, n) = Sent(c, n) + ChunkSize(c, n)
         /\ Place(c, n) \in Nat /\ Place(c, n) = 5 + 5 * c + Sent(c, n)
         /\ Place(c + 1, n) = Place(c, n) + 5 + ChunkSize(c, n)
<1>1. PICK a, b : a = Sent(c, n) /\ b = Sent(c + 1, n)
  OBVIOUS
<1>2. a \in Nat /\ b \in Nat /\ a <= b
  BY <1>1, SentFacts
<1>3. QED
  BY <1>1, <1>2 DEF Place, ChunkSize

Cr == Token("cr", 0)
Lf == Token("lf", 0)

LEMMA CrLfIs == CrLf \in Seq(Tokens) /\ Len(CrLf) = 2 /\ CrLf[1] = Cr /\ CrLf[2] = Lf /\ Cr \in Tokens /\ Lf \in Tokens
<1>1. Cr \in Tokens /\ Lf \in Tokens
  BY DEF Cr, Lf, Token, Tokens
<1>2. CrLf = <<Cr, Lf>>
  BY DEF CrLf, Cr, Lf
<1>3. QED
  BY <1>1, <1>2

IsJoin(x, a, la, b, lb) ==
  /\ Len(x) = la + lb
  /\ \A i \in 1..la : x[i] = a[i]
  /\ \A i \in 1..lb : x[la + i] = b[i]

LEMMA Joined ==
  ASSUME NEW T, NEW a \in Seq(T), NEW b \in Seq(T), NEW la, NEW lb, Len(a) = la, Len(b) = lb
  PROVE  a \o b \in Seq(T) /\ IsJoin(a \o b, a, la, b, lb)
<1>0. PICK x : x = a \o b
  OBVIOUS
<1>a. la \in Nat /\ lb \in Nat
  BY LenProperties
<1>1. x \in Seq(T) /\ Len(x) = la + lb
  BY <1>0, ConcatProperties
<1>2. \A i \in 1..la + lb : x[i] = IF i <= la THEN a[i] ELSE b[i - la]
  BY <1>0, ConcatProperties
<1>3. ASSUME NEW i \in 1..lb PROVE x[la + i] = b[i]
  <2>1. PICK j : j = la + i
    OBVIOUS
  <2>2. j \in 1..la + lb /\ ~(j <= la) /\ j - la = i
    BY <2>1, <1>a
  <2>3. QED
    BY <1>2, <2>1, <2>2
<1>4. \A i \in 1..la : x[i] = a[i]
  BY <1>2, <1>a
<1>5. QED
  BY <1>0, <1>1, <1>3, <1>4 DEF IsJoin

IsFrame(u, t, s, l) ==
  /\ u \in Seq(Tokens) /\ Len(u) = 5 + l
  /\ u[1] = t /\ u[2] = Cr /\ u[3] = Lf
  /\ \A k \in 1..l : u[3 + k] = s[k]
  /\ u[4 + l] = Cr /\ u[5 + l] = Lf

LEMMA Framed ==
  ASSUME NEW t \in Tokens, NEW s \in Seq(Tokens), NEW l \in Nat, Len(s) = l, NEW u,
         u = <<t>> \o CrLf \o s \o CrLf
  PROVE  IsFrame(u, t, s, l)
<1>1. PICK a, x, y : a = <<t>> /\ x = a \o CrLf /\ y = x \o s
  OBVIOUS
<1>2. a \in Seq(Tokens) /\ Len(a) = 1 /\ a[1] = t
  BY <1>1
<1>3. x \in Seq(Tokens) /\ Len(x) = 3 /\ x[1] = t /\ x[2] = Cr /\ x[3] = Lf
  <2>1. PICK p, q : p = 1 /\ q = 2
    OBVIOUS
  <2>2. /\ x \in Seq(Tokens) /\ Len(x) = p + q
        /\ \A i \in 1..p : x[i] = a[i]
        /\ \A i \in 1..q : x[p + i] = CrLf[i]
    <3>1. p \in Nat /\ q \in Nat /\ Len(a) = p /\ Len(CrLf) = q
      BY <1>2, <2>1, CrLfIs
    <3>2. x \in Seq(Tokens) /\ IsJoin(x, a, p, CrLf, q)
      BY <1>1, <1>2, <3>1, CrLfIs, Joined
    <3>3. QED
      BY <3>2 DEF IsJoin
  <2>3. 1 \in 1..p /\ 1 \in 1..q /\ 2 \in 1..q /\ p + 1 = 2 /\ p + 2 = 3 /\ p + q = 3
    BY <2>1
  <2>4. QED
    BY <2>2, <2>3, <1>2, CrLfIs
<1>4. y \in Seq(Tokens) /\ Len(y) = 3 + l /\ (\A i \in 1..3 : y[i] = x[i]) /\ \A k \in 1..l : y[3 + k] = s[k]
  <2>1. PICK p : p = 3
    OBVIOUS
  <2>2. Len(x) = p
    BY <1>3, <2>1
  <2>3. y \in Seq(Tokens) /\ IsJoin(y, x, p, s, l)
    BY <1>1, <1>3, <2>2, Joined
  <2>4. QED
    BY <2>1, <2>3 DEF IsJoin
<1>5. /\ u \in Seq(Tokens) /\ Len(u) = 3 + l + 2
      /\ \A i \in 1..3+l : u[i] = y[i]
      /\ \A i \in 1..2 : u[3 + l + i] = CrLf[i]
  <2>1. PICK p, q : p = 3 + l /\ q = 2
    OBVIOUS
  <2>2. Len(y) = p /\ Len(CrLf) = q
    BY <1>4, <2>1, CrLfIs
  <2>3. u \in Seq(Tokens) /\ IsJoin(u, y, p, CrLf, q)
    BY <1>1, <1>4, <2>2, CrLfIs, Joined
  <2>4. QED
    BY <2>1, <2>3 DEF IsJoin
<1>6. Len(u) = 5 + l
  BY <1>5
<1>7. ASSUME NEW k \in 1..l PROVE u[3 + k] = s[k]
  <2>1. PICK j : j = 3 + k
    OBVIOUS
  <2>2. j \in 1..3+l
    BY <2>1
  <2>3. QED
    BY <1>4, <1>5, <2>1, <2>2
<1>8. u[1] = t /\ u[2] = Cr /\ u[3] = Lf
  <2>1. 1 \in 1..3 /\ 2 \in 1..3 /\ 3 \in 1..3 /\ 1 \in 1..3+l /\ 2 \in 1..3+l /\ 3 \in 1..3+l
    OBVIOUS
  <2>2. QED
    BY <1>3, <1>4, <1>5, <2>1
<1>9. u[4 + l] = Cr /\ u[5 + l] = Lf
  <2>1. 1 \in 1..2 /\ 2 \in 1..2 /\ 3 + l + 1 = 4 + l /\ 3 + l + 2 = 5 + l
    OBVIOUS
  <2>2. QED
    BY <1>5, <2>1, CrLfIs
<1>10. QED
  BY <1>5, <1>6, <1>7, <1>8, <1>9 DEF IsFrame

(* Chunk c of n, from 0; the last one has size 0.                          *)
Piece(c, n) == IF c < NumChunks(n) THEN Chunk(c * ChunkLen + 1, n) ELSE Chunk(n + 1, n)

IsPiece(u, c, n) ==
  LET l == ChunkSize(c, n)
  IN  /\ u \in Seq(Tokens) /\ Len(u) = 5 + l
      /\ u[1] = Token("size", l) /\ u[2] = Cr /\ u[3] = Lf
      /\ \A k \in 1..l : u[3 + k] = Token("byte", Sent(c, n) + k)
      /\ u[4 + l] = Cr /\ u[5 + l] = Lf

AreBytes(s, a, l) ==
  s \in Seq(Tokens) /\ Len(s) = l /\ \A k \in 1..l : s[k] = Token("byte", a + k)

LEMMA BytesAre ==
  ASSUME NEW a \in Nat, NEW l \in Nat, NEW b, NEW e, b = a + 1, e = a + l
  PROVE  AreBytes(Bytes(b, e), a, l)
<1>1. ASSUME NEW k \in 1..l PROVE Token("byte", a + k) \in Tokens
  <2>1. a + k \in Nat
    OBVIOUS
  <2>2. QED
    BY <2>1 DEF Token, Tokens
<1>2. e - b + 1 = l /\ \A k \in 1..l : b + k - 1 = a + k
  OBVIOUS
<1>3. PICK s : s = Bytes(b, e)
  OBVIOUS
<1>4. s = [k \in 1..l |-> Token("byte", a + k)]
  BY <1>2, <1>3 DEF Bytes
<1>5. s \in Seq(Tokens)
  BY <1>1, <1>4
<1>6. Len(s) = l
  BY <1>4
<1>7. \A k \in 1..l : s[k] = Token("byte", a + k)
  BY <1>4
<1>8. QED
  BY <1>3, <1>5, <1>6, <1>7 DEF AreBytes

LEMMA PieceIs ==
  ASSUME NEW n \in Nat, NEW c \in Nat, c <= NumChunks(n)
  PROVE  IsPiece(Piece(c, n), c, n)
<1>1. PICK a, l : a = Sent(c, n) /\ l = ChunkSize(c, n)
  OBVIOUS
<1>2. a \in Nat /\ l \in Nat /\ Sent(c + 1, n) = a + l
  BY <1>1, PlaceFacts
<1>3. \E b, e : b = a + 1 /\ e = a + l /\ Piece(c, n) = <<Token("size", e - b + 1)>> \o CrLf \o Bytes(b, e) \o CrLf
  <2>1. CASE c < NumChunks(n)
    <3>1. PICK b : b = c * ChunkLen + 1
      OBVIOUS
    <3>2. a = c * ChunkLen /\ b = a + 1
      BY <1>1, <2>1, <3>1, SentFacts
    <3>3. PICK d : d = (c + 1) * ChunkLen
      OBVIOUS
    <3>4. d = a + ChunkLen
      BY <3>2, <3>3, HttpAssumption
    <3>5. Sent(c + 1, n) = IF d < n THEN d ELSE n
      BY <3>3 DEF Sent
    <3>6. PICK e : e = IF b + ChunkLen - 1 < n THEN b + ChunkLen - 1 ELSE n
      OBVIOUS
    <3>7. e = a + l
      BY <1>2, <3>2, <3>4, <3>5, <3>6, HttpAssumption
    <3>8. Piece(c, n) = Chunk(b, n)
      BY <2>1, <3>1 DEF Piece
    <3>9. Chunk(b, n) = <<Token("size", e - b + 1)>> \o CrLf \o Bytes(b, e) \o CrLf
      BY <3>6, Zenon DEF Chunk
    <3>10. QED
      BY <3>2, <3>7, <3>8, <3>9
  <2>2. CASE c = NumChunks(n)
    <3>1. PICK b : b = n + 1
      OBVIOUS
    <3>2. a = n /\ l = 0
      BY <1>1, <1>2, <2>2, SentFacts
    <3>3. PICK e : e = IF b + ChunkLen - 1 < n THEN b + ChunkLen - 1 ELSE n
      OBVIOUS
    <3>4. e = a + l /\ b = a + 1
      BY <3>1, <3>2, <3>3, HttpAssumption
    <3>5. Piece(c, n) = Chunk(b, n)
      BY <2>2, <3>1, ChunkCount DEF Piece
    <3>6. Chunk(b, n) = <<Token("size", e - b + 1)>> \o CrLf \o Bytes(b, e) \o CrLf
      BY <3>3, Zenon DEF Chunk
    <3>7. QED
      BY <3>4, <3>5, <3>6
  <2>3. c < NumChunks(n) \/ c = NumChunks(n)
    <3>1. NumChunks(n) \in Nat
      BY ChunkCount
    <3>2. QED
      BY <3>1
  <2>4. QED
    BY <2>1, <2>2, <2>3
<1>4. PICK b, e : b = a + 1 /\ e = a + l /\ Piece(c, n) = <<Token("size", e - b + 1)>> \o CrLf \o Bytes(b, e) \o CrLf
  BY <1>3
<1>5. PICK t, s, u : t = Token("size", l) /\ s = Bytes(b, e) /\ u = Piece(c, n)
  OBVIOUS
<1>6. e - b + 1 = l
  BY <1>2, <1>4
<1>7. t \in Tokens
  BY <1>2, <1>5 DEF Token, Tokens
<1>8. s \in Seq(Tokens) /\ Len(s) = l /\ \A k \in 1..l : s[k] = Token("byte", a + k)
  <2>1. AreBytes(Bytes(b, e), a, l)
    BY <1>2, <1>4, BytesAre
  <2>2. QED
    BY <2>1, <1>5 DEF AreBytes
<1>9. u = <<t>> \o CrLf \o s \o CrLf
  BY <1>4, <1>5, <1>6
<1>10. IsFrame(u, t, s, l)
  BY <1>2, <1>7, <1>8, <1>9, Framed
<1>11. QED
  BY <1>1, <1>5, <1>8, <1>10 DEF IsPiece, IsFrame

(* The first q chunks one behind the other.                                *)
Row(q, n) == [c \in 1..q |-> Chunk((c - 1) * ChunkLen + 1, n)]

IsRow(q, n) ==
  LET f == Seqs!FlattenSeq(Row(q, n))
  IN  /\ Row(q, n) \in Seq(Seq(Tokens)) /\ f \in Seq(Tokens)
      /\ Len(f) + 5 = Place(q, n)
      /\ \A c \in 0..q-1 : \E p \in Nat : p + 5 = Place(c, n) /\ In(f, p, Piece(c, n))

LEMMA PieceType ==
  ASSUME NEW n \in Nat, NEW c \in Nat, c <= NumChunks(n)
  PROVE  Piece(c, n) \in Seq(Tokens) /\ Len(Piece(c, n)) = 5 + ChunkSize(c, n)
<1>1. IsPiece(Piece(c, n), c, n)
  BY PieceIs
<1>2. QED
  BY <1>1 DEF IsPiece

LEMMA RowGrows ==
  ASSUME NEW n \in Nat, NEW q \in Nat, q < NumChunks(n), IsRow(q, n)
  PROVE  IsRow(q + 1, n)
<1>1. PICK f, g, r, s, u : /\ f = Seqs!FlattenSeq(Row(q, n)) /\ g = Seqs!FlattenSeq(Row(q + 1, n))
                           /\ r = Row(q, n) /\ s = Row(q + 1, n) /\ u = Piece(q, n)
  OBVIOUS
<1>2. /\ r \in Seq(Seq(Tokens)) /\ f \in Seq(Tokens) /\ Len(f) + 5 = Place(q, n)
      /\ \A c \in 0..q-1 : \E p \in Nat : p + 5 = Place(c, n) /\ In(f, p, Piece(c, n))
  BY <1>1 DEF IsRow
<1>3. NumChunks(n) \in Nat
  BY ChunkCount
<1>4. u \in Seq(Tokens) /\ Len(u) = 5 + ChunkSize(q, n)
  BY <1>1, <1>3, PieceType
<1>5. s = Append(r, u)
  <2>1. u = Chunk(q * ChunkLen + 1, n)
    BY <1>1 DEF Piece
  <2>2. r = [c \in 1..q |-> Chunk((c - 1) * ChunkLen + 1, n)]
    BY <1>1 DEF Row
  <2>3. s = [c \in 1..q+1 |-> Chunk((c - 1) * ChunkLen + 1, n)]
    BY <1>1 DEF Row
  <2>4. Len(r) = q
    BY <2>2, <1>2
  <2>5. Append(r, u) = [c \in 1..q+1 |-> IF c <= q THEN r[c] ELSE u]
    <3>1. PICK t : t = Append(r, u)
      OBVIOUS
    <3>2. t \in Seq(Seq(Tokens)) /\ Len(t) = q + 1 /\ (\A i \in 1..q : t[i] = r[i]) /\ t[q+1] = u
      BY <1>2, <1>4, <2>4, <3>1, AppendProperties
    <3>3. t = [c \in 1..q+1 |-> t[c]]
      BY <3>2
    <3>4. \A c \in 1..q+1 : t[c] = IF c <= q THEN r[c] ELSE u
      BY <3>2
    <3>5. QED
      BY <3>1, <3>3, <3>4
  <2>6. ASSUME NEW c \in 1..q+1 PROVE Chunk((c - 1) * ChunkLen + 1, n) = IF c <= q THEN r[c] ELSE u
    <3>1. CASE c <= q
      <4>1. c \in 1..q
        BY <3>1
      <4>2. QED
        BY <2>2, <3>1, <4>1
    <3>2. CASE ~(c <= q)
      <4>1. c - 1 = q
        BY <3>2
      <4>2. QED
        BY <2>1, <3>2, <4>1
    <3>3. QED
      BY <3>1, <3>2
  <2>7. QED
    BY <2>3, <2>5, <2>6
<1>6. g = f \o u
  BY <1>1, <1>2, <1>4, <1>5, FlattenAppend
<1>7. s \in Seq(Seq(Tokens))
  BY <1>2, <1>4, <1>5, AppendProperties
<1>8. g \in Seq(Tokens) /\ Len(g) = Len(f) + Len(u)
  BY <1>2, <1>4, <1>6, ConcatProperties
<1>9. Len(g) + 5 = Place(q + 1, n)
  <2>1. PICK a, b, x, y : a = Len(f) /\ b = ChunkSize(q, n) /\ x = Place(q, n) /\ y = Place(q + 1, n)
    OBVIOUS
  <2>2. a \in Nat /\ a + 5 = x
    BY <1>2, <2>1, LenProperties
  <2>3. x \in Nat /\ b \in Nat /\ y = x + 5 + b
    BY <2>1, PlaceFacts
  <2>4. Len(g) = a + (5 + b)
    BY <1>4, <1>8, <2>1
  <2>5. Len(g) + 5 = y
    BY <2>2, <2>3, <2>4
  <2>6. QED
    BY <2>1, <2>5
<1>10. ASSUME NEW c \in 0..(q+1)-1
       PROVE  \E p \in Nat : p + 5 = Place(c, n) /\ In(g, p, Piece(c, n))
  <2>1. c \in Nat /\ c <= NumChunks(n)
    BY <1>3
  <2>2. Piece(c, n) \in Seq(Tokens)
    BY <2>1, PieceType
  <2>3. CASE c \in 0..q-1
    <3>1. PICK p, v : p \in Nat /\ p + 5 = Place(c, n) /\ In(f, p, v) /\ v = Piece(c, n)
      BY <1>2, <2>3
    <3>2. v \in Seq(Tokens)
      BY <2>2, <3>1
    <3>3. In(f \o u, p, v)
      BY <1>2, <1>4, <3>1, <3>2, InLeft
    <3>4. In(g, p, v)
      BY <1>6, <3>3
    <3>5. QED
      BY <3>1, <3>4
  <2>4. CASE c = q
    <3>1. In(u, 0, u)
      BY <1>4, InItself
    <3>2. In(g, Len(f) + 0, u)
      BY <1>2, <1>4, <1>6, <3>1, InRight
    <3>3. Len(f) \in Nat /\ Len(f) + 0 = Len(f)
      BY <1>2, LenProperties
    <3>4. PICK p : p = Len(f)
      OBVIOUS
    <3>5. p \in Nat /\ In(g, p, u) /\ p + 5 = Place(q, n)
      BY <1>2, <3>2, <3>3, <3>4
    <3>6. u = Piece(c, n) /\ Place(q, n) = Place(c, n)
      BY <1>1, <2>4
    <3>7. QED
      BY <3>5, <3>6
  <2>5. QED
    BY <2>3, <2>4
<1>11. QED
  BY <1>1, <1>7, <1>8, <1>9, <1>10 DEF IsRow

LEMMA Rows ==
  ASSUME NEW n \in Nat
  PROVE  IsRow(NumChunks(n), n)
<1> DEFINE T == {q \in Nat : q <= NumChunks(n) => IsRow(q, n)}
<1>1. NumChunks(n) \in Nat
  BY ChunkCount
<1>2. 0 \in T
  <2>1. Row(0, n) = <<>>
    BY DEF Row
  <2>2. Seqs!FlattenSeq(Row(0, n)) = <<>>
    BY <2>1, FlattenEmpty
  <2>3. Place(0, n) = 5
    <3>1. Sent(0, n) = 0
      BY SentFacts
    <3>2. QED
      BY <3>1 DEF Place
  <2>4. <<>> \in Seq(Seq(Tokens)) /\ <<>> \in Seq(Tokens) /\ Len(<<>>) + 5 = 5
    OBVIOUS
  <2>5. 0..0-1 = {}
    OBVIOUS
  <2>6. IsRow(0, n)
    BY <2>1, <2>2, <2>3, <2>4, <2>5, Zenon DEF IsRow
  <2>7. QED
    BY <2>6
<1>3. ASSUME NEW q \in Nat, q \in T PROVE q + 1 \in T
  <2>1. SUFFICES ASSUME q + 1 <= NumChunks(n) PROVE IsRow(q + 1, n)
    OBVIOUS
  <2>2. q < NumChunks(n) /\ IsRow(q, n)
    BY <1>1, <1>3, <2>1
  <2>3. QED
    BY <2>2, RowGrows
<1> HIDE DEF T
<1>4. \A q \in Nat : q \in T
  BY <1>2, <1>3, AllNumbers
<1>5. NumChunks(n) \in T
  BY <1>1, <1>4
<1>6. QED
  BY <1>1, <1>5 DEF T

(* Chunk c of n stands on the wire at its place.                           *)
IsPlaced(w, c, n) ==
  LET l == ChunkSize(c, n)
      p == Place(c, n)
  IN  /\ p + 5 + l <= Len(w)
      /\ w[p + 1] = Token("size", l) /\ w[p + 2] = Cr /\ w[p + 3] = Lf
      /\ \A k \in 1..l : w[p + 3 + k] = Token("byte", Sent(c, n) + k)
      /\ w[p + 4 + l] = Cr /\ w[p + 5 + l] = Lf

IsHead(w) ==
  /\ w[1] = Token("line", 0) /\ w[2] = Cr /\ w[3] = Lf /\ w[4] = Cr /\ w[5] = Lf

IsPlain(w, n) == Len(w) = 5 + n /\ \A k \in 1..n : w[5 + k] = Token("byte", k)

IsWire(w, r) ==
  /\ w \in Seq(Tokens) /\ Len(w) >= 5 /\ IsHead(w)
  /\ r.mode # "chunked" => IsPlain(w, r.length)
  /\ r.mode = "chunked" => \A c \in 0..NumChunks(r.length) : IsPlaced(w, c, r.length)

LEMMA PlacedAt ==
  ASSUME NEW n \in Nat, NEW c \in Nat, c <= NumChunks(n), NEW w, NEW p, p = Place(c, n), In(w, p, Piece(c, n))
  PROVE  IsPlaced(w, c, n)
<1>1. PICK u, l, a : u = Piece(c, n) /\ l = ChunkSize(c, n) /\ a = Sent(c, n)
  OBVIOUS
<1>2. /\ Len(u) = 5 + l /\ u[1] = Token("size", l) /\ u[2] = Cr /\ u[3] = Lf
      /\ \A k \in 1..l : u[3 + k] = Token("byte", a + k)
      /\ u[4 + l] = Cr /\ u[5 + l] = Lf
  BY <1>1, PieceIs DEF IsPiece
<1>3. l \in Nat /\ p \in Nat
  BY <1>1, PlaceFacts
<1>4. p + (5 + l) <= Len(w) /\ \A k \in 1..5+l : w[p + k] = u[k]
  BY <1>1, <1>2 DEF In
<1>5. 1 \in 1..5+l /\ 2 \in 1..5+l /\ 3 \in 1..5+l /\ 4 + l \in 1..5+l /\ 5 + l \in 1..5+l
  BY <1>3
<1>6. w[p + 1] = Token("size", l) /\ w[p + 2] = Cr /\ w[p + 3] = Lf
  BY <1>2, <1>4, <1>5
<1>7. w[p + (4 + l)] = Cr /\ w[p + (5 + l)] = Lf
  BY <1>2, <1>4, <1>5
<1>8. p + (4 + l) = p + 4 + l /\ p + (5 + l) = p + 5 + l
  BY <1>3
<1>9. p + 5 + l <= Len(w) /\ w[p + 4 + l] = Cr /\ w[p + 5 + l] = Lf
  BY <1>4, <1>7, <1>8
<1>10. ASSUME NEW k \in 1..l PROVE w[p + 3 + k] = Token("byte", a + k)
  <2>1. PICK j : j = 3 + k
    OBVIOUS
  <2>2. j \in 1..5+l /\ p + j = p + 3 + k
    BY <1>3, <2>1
  <2>3. QED
    BY <1>2, <1>4, <2>1, <2>2
<1>11. QED
  BY <1>1, <1>6, <1>9, <1>10 DEF IsPlaced

LEMMA HeadIs ==
  ASSUME NEW h, h = <<Token("line", 0)>> \o CrLf \o CrLf
  PROVE  h \in Seq(Tokens) /\ Len(h) = 5 /\ IsHead(h)
<1>1. PICK t, s : t = Token("line", 0) /\ s = <<>>
  OBVIOUS
<1>2. t \in Tokens /\ s \in Seq(Tokens) /\ Len(s) = 0
  BY <1>1 DEF Token, Tokens
<1>3. h = <<t>> \o CrLf \o s \o CrLf
  <2>1. <<t>> \o CrLf \in Seq(Tokens)
    BY <1>2, CrLfIs, ConcatProperties
  <2>2. <<t>> \o CrLf \o s = <<t>> \o CrLf
    BY <1>1, <2>1, ConcatEmptySeq
  <2>3. QED
    BY <1>1, <2>2
<1>4. PICK l : l = 0
  OBVIOUS
<1>5. IsFrame(h, t, s, l)
  <2>1. l \in Nat /\ Len(s) = l
    BY <1>2, <1>4
  <2>2. t \in Tokens /\ s \in Seq(Tokens)
    BY <1>2
  <2>3. QED
    BY ONLY <2>1, <2>2, <1>3, Framed
<1>6. 4 + l = 4 /\ 5 + l = 5
  BY <1>4
<1>7. QED
  BY <1>1, <1>5, <1>6 DEF IsFrame, IsHead

LEMMA ChunksAre ==
  ASSUME NEW n \in Nat
  PROVE  /\ Chunks(n) \in Seq(Tokens)
         /\ \A c \in 0..NumChunks(n) : \E p \in Nat : p + 5 = Place(c, n) /\ In(Chunks(n), p, Piece(c, n))
<1>1. PICK q, f, u, v : /\ q = NumChunks(n) /\ f = Seqs!FlattenSeq(Row(q, n))
                        /\ u = Piece(q, n) /\ v = Chunks(n)
  OBVIOUS
<1>2. q \in Nat /\ IsRow(q, n)
  BY <1>1, ChunkCount, Rows
<1>3. /\ f \in Seq(Tokens) /\ Len(f) + 5 = Place(q, n)
      /\ \A c \in 0..q-1 : \E p \in Nat : p + 5 = Place(c, n) /\ In(f, p, Piece(c, n))
  BY <1>1, <1>2 DEF IsRow
<1>4. u \in Seq(Tokens)
  BY <1>1, <1>2, PieceType
<1>5. v = f \o u
  <2>1. u = Chunk(n + 1, n)
    BY <1>1, <1>2 DEF Piece
  <2>2. v = Seqs!FlattenSeq([c \in 1..q |-> Chunk((c - 1) * ChunkLen + 1, n)]) \o Chunk(n + 1, n)
    BY <1>1, Zenon DEF Chunks, NumChunks
  <2>3. QED
    BY <2>1, <2>2, <1>1 DEF Row
<1>6. v \in Seq(Tokens)
  BY <1>3, <1>4, <1>5, ConcatProperties
<1>7. ASSUME NEW c \in 0..q
      PROVE  \E p \in Nat : p + 5 = Place(c, n) /\ In(v, p, Piece(c, n))
  <2>1. c \in Nat /\ c <= NumChunks(n)
    BY <1>1, <1>2
  <2>2. CASE c \in 0..q-1
    <3>1. PICK p, s : p \in Nat /\ p + 5 = Place(c, n) /\ In(f, p, s) /\ s = Piece(c, n)
      BY <1>3, <2>2
    <3>2. s \in Seq(Tokens)
      BY <2>1, <3>1, PieceType
    <3>3. In(f \o u, p, s)
      BY <1>3, <1>4, <3>1, <3>2, InLeft
    <3>4. QED
      BY <1>5, <3>1, <3>3
  <2>3. CASE c = q
    <3>1. In(u, 0, u)
      BY <1>4, InItself
    <3>2. In(v, Len(f) + 0, u)
      BY <1>3, <1>4, <1>5, <3>1, InRight
    <3>3. PICK p : p = Len(f)
      OBVIOUS
    <3>4. p \in Nat /\ p + 0 = p
      BY <1>3, <3>3, LenProperties
    <3>5. p \in Nat /\ In(v, p, u) /\ p + 5 = Place(q, n)
      BY <1>3, <3>2, <3>3, <3>4
    <3>6. u = Piece(c, n) /\ Place(q, n) = Place(c, n)
      BY <1>1, <2>3
    <3>7. QED
      BY <3>5, <3>6
  <2>4. QED
    BY <1>2, <2>2, <2>3
<1>8. QED
  BY <1>1, <1>6, <1>7

LEMMA WireFacts ==
  ASSUME NEW r \in Responses
  PROVE  IsWire(Wires[r], r)
<1>1. PICK w, m, n : w = Wires[r] /\ m = r.mode /\ n = r.length
  OBVIOUS
<1>2. n \in Nat
  BY <1>1, HttpAssumption DEF Responses
<1>3. PICK h, b : h = <<Token("line", 0)>> \o CrLf \o CrLf /\ b = IF m = "chunked" THEN Chunks(n) ELSE Bytes(1, n)
  OBVIOUS
<1>4. w = h \o b
  <2>1. Wires[r] = <<Token("line", 0)>> \o CrLf \o CrLf
                     \o (IF r.mode = "chunked" THEN Chunks(r.length) ELSE Bytes(1, r.length))
    BY Zenon DEF Wires
  <2>2. QED
    BY <1>1, <1>3, <2>1
<1>5. h \in Seq(Tokens) /\ Len(h) = 5 /\ IsHead(h)
  BY <1>3, HeadIs
<1>6. m # "chunked" => AreBytes(b, 0, n)
  <2>1. 0 \in Nat /\ 1 = 0 + 1 /\ n = 0 + n
    BY <1>2
  <2>2. AreBytes(Bytes(1, n), 0, n)
    BY <1>2, <2>1, BytesAre
  <2>3. QED
    BY <1>3, <2>2
<1>7. b \in Seq(Tokens)
  BY <1>2, <1>3, <1>6, ChunksAre DEF AreBytes
<1>8. PICK x, y : x = 5 /\ y = Len(b)
  OBVIOUS
<1>9. w \in Seq(Tokens) /\ IsJoin(w, h, x, b, y)
  <2>1. Len(h) = x /\ Len(b) = y
    BY <1>5, <1>8
  <2>2. QED
    BY <1>4, <1>5, <1>7, <2>1, Joined
<1>a. /\ Len(w) = 5 + y /\ y \in Nat
      /\ \A i \in 1..5 : w[i] = h[i]
      /\ \A i \in 1..y : w[5 + i] = b[i]
  BY <1>7, <1>8, <1>9, LenProperties DEF IsJoin
<1>b. IsHead(w)
  <2>1. w[1] = h[1] /\ w[2] = h[2] /\ w[3] = h[3] /\ w[4] = h[4] /\ w[5] = h[5]
    BY <1>a
  <2>2. QED
    BY <1>5, <2>1 DEF IsHead
<1>10. ASSUME m # "chunked" PROVE IsPlain(w, n)
  <2>1. y = n /\ \A k \in 1..n : b[k] = Token("byte", 0 + k)
    BY <1>6, <1>8, <1>10 DEF AreBytes
  <2>2. \A k \in 1..n : w[5 + k] = Token("byte", k)
    BY <1>2, <1>a, <2>1
  <2>3. QED
    BY <1>a, <2>1, <2>2 DEF IsPlain
<1>11. ASSUME m = "chunked", NEW c \in 0..NumChunks(n) PROVE IsPlaced(w, c, n)
  <2>1. c \in Nat /\ c <= NumChunks(n)
    BY <1>2, ChunkCount
  <2>2. PICK p, s : p \in Nat /\ p + 5 = Place(c, n) /\ In(b, p, s) /\ s = Piece(c, n)
    BY <1>2, <1>3, <1>11, ChunksAre
  <2>3. s \in Seq(Tokens)
    BY <1>2, <2>1, <2>2, PieceType
  <2>4. In(h \o b, Len(h) + p, s)
    BY <1>5, <1>7, <2>2, <2>3, InRight
  <2>5. PICK d : d = Len(h) + p
    OBVIOUS
  <2>6. d = Place(c, n)
    BY <1>5, <2>2, <2>5
  <2>7. In(w, d, Piece(c, n))
    BY <1>4, <2>2, <2>4, <2>5
  <2>8. QED
    BY <1>2, <2>1, <2>6, <2>7, PlacedAt
<1>12. Len(w) >= 5
  BY <1>a
<1>13. QED
  BY <1>1, <1>9, <1>b, <1>10, <1>11, <1>12 DEF IsWire

-----------------------------------------------------------------------------
(* How many bytes are among the first tokens of the wire.                  *)
BytesTo(w, a) == Cardinality({k \in 1..a : w[k].kind = "byte"})

LEMMA CountNone == ASSUME NEW w PROVE BytesTo(w, 0) = 0
<1>1. {k \in 1..0 : w[k].kind = "byte"} = {}
  OBVIOUS
<1>2. QED
  BY <1>1, FS_EmptySet DEF BytesTo

LEMMA CountType ==
  ASSUME NEW w, NEW a \in Nat
  PROVE  BytesTo(w, a) \in Nat /\ IsFiniteSet({k \in 1..a : w[k].kind = "byte"})
<1>1. IsFiniteSet(1..a)
  BY FS_Interval
<1>2. {k \in 1..a : w[k].kind = "byte"} \in SUBSET (1..a)
  OBVIOUS
<1>3. IsFiniteSet({k \in 1..a : w[k].kind = "byte"})
  BY <1>1, <1>2, FS_Subset
<1>4. QED
  BY <1>3, FS_CardinalityType DEF BytesTo

LEMMA CountSame ==
  ASSUME NEW w, NEW a \in Nat, NEW b \in Nat, a <= b, \A k \in a+1..b : w[k].kind # "byte"
  PROVE  BytesTo(w, b) = BytesTo(w, a)
<1>1. {k \in 1..b : w[k].kind = "byte"} = {k \in 1..a : w[k].kind = "byte"}
  OBVIOUS
<1>2. QED
  BY <1>1 DEF BytesTo

LEMMA CountMore ==
  ASSUME NEW w, NEW a \in Nat, NEW b \in Nat, a <= b, \A k \in a+1..b : w[k].kind = "byte"
  PROVE  BytesTo(w, b) = BytesTo(w, a) + (b - a)
<1>1. PICK X, Y, Z : /\ X = {k \in 1..b : w[k].kind = "byte"} /\ Y = {k \in 1..a : w[k].kind = "byte"}
                     /\ Z = a+1..b
  OBVIOUS
<1>2. X = Y \cup Z /\ Y \cap Z = {}
  BY <1>1
<1>3. IsFiniteSet(Y) /\ IsFiniteSet(Z) /\ Cardinality(Z) = b - a
  <2>1. IsFiniteSet(Y)
    BY <1>1, CountType
  <2>2. PICK c : c = a + 1
    OBVIOUS
  <2>3. c \in Int /\ b \in Int /\ Z = c..b
    BY <1>1, <2>2
  <2>4. IsFiniteSet(Z) /\ Cardinality(Z) = IF c > b THEN 0 ELSE b - c + 1
    BY <2>3, FS_Interval
  <2>5. QED
    BY <2>1, <2>2, <2>4
<1>4. Cardinality(X) = Cardinality(Y) + Cardinality(Z) - Cardinality(Y \cap Z)
  BY <1>2, <1>3, FS_Union
<1>5. Cardinality(Y \cap Z) = 0
  BY <1>2, FS_EmptySet
<1>6. Cardinality(Y) \in Nat
  BY <1>3, FS_CardinalityType
<1>7. Cardinality(X) = Cardinality(Y) + (b - a)
  BY <1>3, <1>4, <1>5, <1>6
<1>8. QED
  BY <1>1, <1>7 DEF BytesTo

LEMMA PassedIs == Passed = BytesTo(Wire, parser.at)
BY DEF Passed, BytesTo

(* A line that ends behind its first l tokens is found to do so.           *)
EndsAt(w, i) == w[i] = Cr /\ w[i + 1] = Lf

LEMMA IsLineEnd ==
  ASSUME NEW w \in Seq(Tokens), NEW i \in Nat, i + 2 <= Len(w)
  PROVE  (SubSeq(w, i + 1, i + 2) = CrLf) <=> EndsAt(w, i + 1)
<1>1. PICK a, b, s : a = i + 1 /\ b = i + 2 /\ s = SubSeq(w, a, b)
  OBVIOUS
<1>2. a \in Int /\ b \in Int /\ \A j \in a..b : w[j] \in Tokens
  BY <1>1, LenProperties, ElementOfSeq
<1>3. /\ s \in Seq(Tokens) /\ Len(s) = IF a <= b THEN b - a + 1 ELSE 0
      /\ \A j \in 1..b-a+1 : s[j] = w[a + j - 1]
  BY <1>1, <1>2, SubSeqProperties
<1>4. 1 \in 1..b-a+1 /\ 2 \in 1..b-a+1 /\ a + 1 - 1 = a /\ a + 2 - 1 = b /\ b - a + 1 = 2 /\ a <= b /\ b = a + 1
  BY <1>1
<1>5. Len(s) = 2 /\ s[1] = w[a] /\ s[2] = w[b]
  BY <1>3, <1>4
<1>6. (s = CrLf) <=> (s[1] = Cr /\ s[2] = Lf)
  <2>1. CrLf = <<Cr, Lf>>
    BY DEF CrLf, Cr, Lf
  <2>2. s = <<s[1], s[2]>>
    BY <1>3, <1>5
  <2>3. QED
    BY <2>1, <2>2, CrLfIs
<1>7. EndsAt(w, a) <=> (w[a] = Cr /\ w[b] = Lf)
  BY <1>4 DEF EndsAt
<1>8. QED
  BY <1>1, <1>5, <1>6, <1>7

Ends(w, at, g) == {n \in 0..(g - at - 2) : EndsAt(w, at + n + 1)}

LEMMA EndsAre ==
  ASSUME NEW w \in Seq(Tokens), NEW at \in Nat, NEW g \in Nat, g <= Len(w)
  PROVE  {n \in 0..(g - at - 2) : SubSeq(w, at + n + 1, at + n + 2) = CrLf} = Ends(w, at, g)
<1>1. ASSUME NEW n \in 0..(g - at - 2)
      PROVE (SubSeq(w, at + n + 1, at + n + 2) = CrLf) <=> EndsAt(w, at + n + 1)
  <2>1. PICK i, x : i = at + n /\ x = Len(w)
    OBVIOUS
  <2>2. x \in Nat /\ g <= x
    BY <2>1, LenProperties
  <2>3. i \in Nat /\ i + 2 <= x
    BY <2>1, <2>2
  <2>4. i \in Nat /\ i + 2 <= Len(w)
    BY <2>1, <2>3
  <2>5. (SubSeq(w, i + 1, i + 2) = CrLf) <=> EndsAt(w, i + 1)
    BY <2>4, IsLineEnd
  <2>6. at + n + 1 = i + 1 /\ at + n + 2 = i + 2
    BY <2>1
  <2>7. QED
    BY <2>5, <2>6
<1>2. QED
  BY <1>1 DEF Ends

LEMMA FirstEnd ==
  ASSUME NEW w, NEW at \in Nat, NEW g \in Nat, NEW l \in Nat,
         \A j \in 0..l-1 : ~EndsAt(w, at + j + 1), EndsAt(w, at + l + 1), Ends(w, at, g) # {}
  PROVE  /\ at + l + 2 <= g /\ l \in Ends(w, at, g)
         /\ \A n \in Ends(w, at, g) : l <= n
<1>1. ASSUME NEW x \in Ends(w, at, g) PROVE x >= l /\ x \in 0..(g - at - 2)
  <2>1. x \in 0..(g - at - 2) /\ EndsAt(w, at + x + 1)
    BY DEF Ends
  <2>2. SUFFICES ASSUME x < l PROVE FALSE
    BY <2>1
  <2>3. x \in 0..l-1
    BY <2>1, <2>2
  <2>4. QED
    BY <2>1, <2>3
<1>2. PICK x \in Ends(w, at, g) : TRUE
  OBVIOUS
<1>3. l \in 0..(g - at - 2) /\ at + l + 2 <= g
  BY <1>1
<1>4. l \in Ends(w, at, g)
  BY <1>3 DEF Ends
<1>5. \A n \in Ends(w, at, g) : l <= n /\ n \in Nat
  BY <1>1
<1>6. QED
  BY <1>3, <1>4, <1>5

LEMMA LineIs ==
  ASSUME Wire \in Seq(Tokens), parser.at \in Nat, got \in Nat, got <= Len(Wire),
         NEW l \in Nat, \A j \in 0..l-1 : ~EndsAt(Wire, parser.at + j + 1), EndsAt(Wire, parser.at + l + 1),
         LineEnds # {}
  PROVE  LineLen = l /\ parser.at + l + 2 <= got
<1>1. PICK w, at, g, S : w = Wire /\ at = parser.at /\ g = got /\ S = Ends(w, at, g)
  OBVIOUS
<1>2. LineEnds = {n \in 0..(g - at - 2) : SubSeq(w, at + n + 1, at + n + 2) = CrLf}
  BY <1>1, Zenon DEF LineEnds, Unparsed
<1>3. w \in Seq(Tokens) /\ at \in Nat /\ g \in Nat /\ g <= Len(w)
  BY <1>1
<1>4. LineEnds = S
  BY <1>1, <1>2, <1>3, EndsAre
<1>5. /\ \A j \in 0..l-1 : ~EndsAt(w, at + j + 1)
      /\ EndsAt(w, at + l + 1) /\ Ends(w, at, g) # {}
  BY <1>1, <1>4
<1>6. at + l + 2 <= g /\ l \in S /\ \A n \in S : l <= n
  BY <1>1, <1>3, <1>5, FirstEnd
<1>7. S \subseteq Nat
  BY <1>1 DEF Ends
<1>8. \A n \in S : (\A m \in S : n <= m) => n = l
  BY <1>6, <1>7
<1>9. LineLen = CHOOSE n \in S : \A m \in S : n <= m
  BY <1>4, Zenon DEF LineLen
<1>10. LineLen = l
  BY <1>6, <1>8, <1>9
<1>11. QED
  BY <1>1, <1>6, <1>10

-----------------------------------------------------------------------------
(* Where the parser may stand: in front of a line of the header; in a body *)
(* told by its length or by the end of the connection; between two chunks, *)
(* where the LF of the one before may still be to come; in a chunk or at   *)
(* its end; behind the chunk of size 0.  s bytes have been passed.         *)
HeadAt(p, e, s) == p.state = "header" /\ p.at \in {0, 3} /\ p.remain = 0 /\ s = 0 /\ e # "end"

PlainAt(r, p, e, s) ==
  /\ p.state = "body" /\ r.mode # "chunked" /\ p.at = 5 + s
  /\ IF r.mode = "length" /\ r.length > 0
     THEN p.remain = r.length - s /\ (e = "end" <=> p.remain = 0)
     ELSE p.remain = -1 /\ e # "end"

BetweenAt(n, p, e, s, c) ==
  /\ p.remain = -1 /\ e # "end" /\ s = Sent(c, n)
  /\ p.at = Place(c, n) \/ (c > 0 /\ p.at + 1 = Place(c, n))

InsideAt(n, p, g, e, s, c) ==
  /\ p.remain >= 0 /\ e # "end" /\ c < NumChunks(n)
  /\ Sent(c, n) <= s /\ s + p.remain = Sent(c + 1, n)
  /\ p.at = Place(c, n) + 3 + (s - Sent(c, n))
  /\ p.remain = 0 /\ e = "parse" => p.at < g

BehindAt(n, p, e, s, c) ==
  p.remain = 0 /\ e = "end" /\ c = NumChunks(n) /\ s = n /\ p.at = Place(c, n) + 3

ChunkAt(n, p, g, e, s) ==
  \E c \in 0..NumChunks(n) : BetweenAt(n, p, e, s, c) \/ InsideAt(n, p, g, e, s, c) \/ BehindAt(n, p, e, s, c)

ParserAt(r, p, g, e, s) ==
  \/ HeadAt(p, e, s)
  \/ PlainAt(r, p, e, s)
  \/ p.state = "body" /\ r.mode = "chunked" /\ ChunkAt(r.length, p, g, e, s)

Runs == {"read", "parse", "end"}

HttpInv ==
  /\ HttpTypeOK
  /\ got - parser.at <= RecvMax
  /\ step \in Runs => ParserAt(response, parser, got, step, Passed)

Parsers(g, n) == [state : {"header", "body"}, at : 0..g, remain : -1..n]

LEMMA HttpFacts ==
  ASSUME HttpTypeOK
  PROVE  /\ response \in Responses /\ response.length \in Nat
         /\ Wire \in Seq(Tokens) /\ IsWire(Wire, response) /\ Len(Wire) \in Nat
         /\ got \in Nat /\ got <= Len(Wire)
         /\ parser \in Parsers(got, response.length)
         /\ parser.at \in Nat /\ parser.at <= got /\ parser.remain \in Int
         /\ Passed \in Nat
<1>1. response \in Responses
  BY DEF HttpTypeOK
<1>2. response.length \in Nat
  BY <1>1, HttpAssumption DEF Responses
<1>3. IsWire(Wire, response)
  BY <1>1, WireFacts DEF Wire
<1>4. Wire \in Seq(Tokens) /\ Len(Wire) \in Nat
  BY <1>3, LenProperties DEF IsWire
<1>5. got \in Nat /\ got <= Len(Wire)
  BY <1>4 DEF HttpTypeOK
<1>6. parser \in Parsers(got, response.length)
  BY DEF HttpTypeOK, Parsers
<1>7. parser.at \in 0..got /\ parser.remain \in -1..response.length
  BY <1>6 DEF Parsers
<1>8. parser.at \in Nat /\ parser.at <= got /\ parser.remain \in Int
  BY <1>2, <1>5, <1>7
<1>9. Passed \in Nat
  BY <1>8, PassedIs, CountType
<1>10. QED
  BY <1>1, <1>2, <1>3, <1>4, <1>5, <1>6, <1>8, <1>9

(* A parser that stays where it is, while more may be received.            *)
LEMMA ParserStays ==
  ASSUME NEW r, NEW p, NEW g \in Nat, NEW h \in Nat, NEW e, NEW f, NEW s, p.at \in Nat,
         ParserAt(r, p, g, e, s), e # "end", f = "read" \/ (f = "parse" /\ p.at < h)
  PROVE  ParserAt(r, p, h, f, s)
<1>1. f # "end"
  OBVIOUS
<1>2. CASE HeadAt(p, e, s)
  <2>1. HeadAt(p, f, s)
    BY <1>1, <1>2 DEF HeadAt
  <2>2. QED
    BY <2>1 DEF ParserAt
<1>3. CASE PlainAt(r, p, e, s)
  <2>1. PlainAt(r, p, f, s)
    BY <1>1, <1>3 DEF PlainAt
  <2>2. QED
    BY <2>1 DEF ParserAt
<1>4. CASE p.state = "body" /\ r.mode = "chunked" /\ ChunkAt(r.length, p, g, e, s)
  <2>1. PICK c, n : /\ n = r.length /\ c \in 0..NumChunks(n)
                    /\ BetweenAt(n, p, e, s, c) \/ InsideAt(n, p, g, e, s, c) \/ BehindAt(n, p, e, s, c)
    BY <1>4 DEF ChunkAt
  <2>2. BetweenAt(n, p, e, s, c) => BetweenAt(n, p, f, s, c)
    BY <1>1 DEF BetweenAt
  <2>3. InsideAt(n, p, g, e, s, c) => InsideAt(n, p, h, f, s, c)
    BY <1>1 DEF InsideAt
  <2>4. ~BehindAt(n, p, e, s, c)
    BY DEF BehindAt
  <2>5. ChunkAt(n, p, h, f, s)
    BY <2>1, <2>2, <2>3, <2>4 DEF ChunkAt
  <2>6. QED
    BY <1>4, <2>1, <2>5 DEF ParserAt
<1>5. QED
  BY <1>2, <1>3, <1>4 DEF ParserAt

(* What keeps the invariant of the client.                                 *)
LEMMA HttpKept ==
  ASSUME HttpTypeOK, response' = response, parser' \in Parsers(got', response.length),
         got' \in Nat, got' <= Len(Wire), got' - parser'.at <= RecvMax,
         step' \in {"read", "parse", "end", "error", "closed", "done"}, any' \in BOOLEAN,
         step' \in Runs => ParserAt(response, parser', got', step', Passed')
  PROVE  HttpInv'
<1>1. Wire' = Wire
  BY DEF Wire
<1>2. HttpTypeOK'
  BY <1>1 DEF HttpTypeOK, Parsers
<1>3. QED
  BY <1>2 DEF HttpInv

LEMMA PassedStays ==
  ASSUME response' = response, parser'.at = parser.at
  PROVE  Passed' = Passed
<1>1. Wire' = Wire
  BY DEF Wire
<1>2. QED
  BY <1>1 DEF Passed

LEMMA ReadKeeps ==
  ASSUME HttpInv, Read
  PROVE  HttpInv' /\ Passed' = Passed
<1>1. /\ HttpTypeOK /\ got - parser.at <= RecvMax /\ step = "read"
      /\ ParserAt(response, parser, got, step, Passed)
  BY DEF HttpInv, Runs, Read
<1>2. PICK n \in 1..(RecvMax - Unparsed) : got + n <= Len(Wire) /\ got' = got + n
  BY DEF Read
<1>3. step' = "parse" /\ response' = response /\ parser' = parser /\ any' = any
  BY DEF Read
<1>4. got \in Nat /\ parser.at \in Nat /\ parser.at <= got /\ parser \in Parsers(got, response.length) /\ any \in BOOLEAN
  BY <1>1, HttpFacts DEF HttpTypeOK
<1>5. Passed' = Passed
  BY <1>3, PassedStays
<1>6. got' \in Nat /\ parser.at < got' /\ got' - parser.at <= RecvMax /\ got' <= Len(Wire) /\ got < got'
  <2>1. n \in Nat /\ n > 0 /\ n <= RecvMax - (got - parser.at)
    BY <1>2, <1>4, HttpAssumption DEF Unparsed
  <2>2. QED
    BY <1>2, <1>4, <2>1, HttpAssumption
<1>7. parser' \in Parsers(got', response.length)
  BY <1>3, <1>4, <1>6 DEF Parsers
<1>8. ParserAt(response, parser, got', "parse", Passed)
  BY <1>1, <1>4, <1>6, ParserStays
<1>9. QED
  BY <1>1, <1>3, <1>4, <1>5, <1>6, <1>7, <1>8, HttpKept

LEMMA ReadFailsKeeps ==
  ASSUME HttpInv, ReadFails
  PROVE  HttpInv' /\ Passed' = Passed
<1>1. HttpTypeOK /\ got - parser.at <= RecvMax
  BY DEF HttpInv
<1>2. step' \in {"closed", "error"} /\ response' = response /\ parser' = parser /\ got' = got /\ any' = any
  BY DEF ReadFails
<1>3. got \in Nat /\ got <= Len(Wire) /\ parser \in Parsers(got, response.length) /\ any \in BOOLEAN
  BY <1>1, HttpFacts DEF HttpTypeOK
<1>4. Passed' = Passed
  BY <1>2, PassedStays
<1>5. ~(step' \in Runs)
  BY <1>2 DEF Runs
<1>6. QED
  BY <1>1, <1>2, <1>3, <1>4, <1>5, HttpKept

LEMMA PartOfLineKeeps ==
  ASSUME HttpInv, PartOfLine
  PROVE  HttpInv' /\ Passed' = Passed
<1>1. /\ HttpTypeOK /\ got - parser.at <= RecvMax /\ step = "parse"
      /\ ParserAt(response, parser, got, step, Passed)
  BY DEF HttpInv, Runs, PartOfLine, InHeader, AtSize, InBody
<1>2. step' = "read" /\ response' = response /\ parser' = parser /\ got' = got /\ any' = any
  BY DEF PartOfLine
<1>3. /\ got \in Nat /\ got <= Len(Wire) /\ parser \in Parsers(got, response.length) /\ any \in BOOLEAN
      /\ parser.at \in Nat
  BY <1>1, HttpFacts DEF HttpTypeOK
<1>4. Passed' = Passed
  BY <1>2, PassedStays
<1>5. ParserAt(response, parser, got, "read", Passed)
  BY <1>1, <1>3, ParserStays
<1>6. QED
  BY <1>1, <1>2, <1>3, <1>4, <1>5, HttpKept

LEMMA PassedOver ==
  ASSUME response' = response, parser.at \in Nat, parser'.at \in Nat, parser.at <= parser'.at,
         \A k \in parser.at+1..parser'.at : Wire[k].kind # "byte"
  PROVE  Passed' = Passed
<1>1. Wire' = Wire
  BY DEF Wire
<1>2. PICK w, a, b : w = Wire /\ a = parser.at /\ b = parser'.at
  OBVIOUS
<1>3. a \in Nat /\ b \in Nat /\ a <= b /\ \A k \in a+1..b : w[k].kind # "byte"
  BY <1>2
<1>4. BytesTo(w, b) = BytesTo(w, a)
  BY <1>3, CountSame
<1>5. Passed = BytesTo(w, a) /\ Passed' = BytesTo(w, b)
  BY <1>1, <1>2 DEF Passed, BytesTo
<1>6. QED
  BY <1>4, <1>5

LEMMA PassedMore ==
  ASSUME response' = response, parser.at \in Nat, NEW m \in Nat, NEW x \in Nat,
         parser'.at = parser.at + m + x,
         \A k \in 1..m : Wire[parser.at + k].kind = "byte",
         \A k \in 1..x : Wire[parser.at + m + k].kind # "byte"
  PROVE  Passed' = Passed + m
<1>1. Wire' = Wire
  BY DEF Wire
<1>2. PICK w, a, b, c : w = Wire /\ a = parser.at /\ b = a + m /\ c = b + x
  OBVIOUS
<1>3. a \in Nat /\ b \in Nat /\ c \in Nat /\ a <= b /\ b <= c /\ b - a = m /\ c = parser'.at
  BY <1>2
<1>4. \A k \in a+1..b : w[k].kind = "byte"
  <2>1. ASSUME NEW k \in a+1..b PROVE w[k].kind = "byte"
    <3>1. PICK j : j = k - a
      OBVIOUS
    <3>2. j \in 1..m /\ a + j = k
      BY <1>2, <1>3, <3>1
    <3>3. QED
      BY <1>2, <3>2
  <2>2. QED
    BY <2>1
<1>5. \A k \in b+1..c : w[k].kind # "byte"
  <2>1. ASSUME NEW k \in b+1..c PROVE w[k].kind # "byte"
    <3>1. PICK j : j = k - b
      OBVIOUS
    <3>2. j \in 1..x /\ b + j = k
      BY <1>2, <1>3, <3>1
    <3>3. w[a + m + j].kind # "byte"
      BY <1>2, <3>2
    <3>4. QED
      BY <1>2, <3>2, <3>3
  <2>2. QED
    BY <2>1
<1>6. BytesTo(w, b) = BytesTo(w, a) + m
  BY <1>3, <1>4, CountMore
<1>7. BytesTo(w, c) = BytesTo(w, b)
  BY <1>3, <1>5, CountSame
<1>8. Passed = BytesTo(w, a) /\ Passed' = BytesTo(w, c)
  BY <1>1, <1>2, <1>3 DEF Passed, BytesTo
<1>9. QED
  BY <1>6, <1>7, <1>8

LEMMA TokenKinds ==
  /\ Cr.kind # "byte" /\ Lf.kind # "byte" /\ Cr # Lf
  /\ \A n : Token("line", n).kind = "line" /\ Token("size", n).kind = "size" /\ Token("size", n).n = n
  /\ \A n : Token("byte", n).kind = "byte" /\ Token("byte", n).n = n
  /\ \A n : Token("line", n) # Cr /\ Token("size", n) # Cr
  /\ \A n : Cr.kind # "size" /\ Lf.kind # "size" /\ Lf # Cr
BY DEF Token, Cr, Lf

LEMMA HeaderLines ==
  ASSUME HttpInv, InHeader, LineEnds # {}
  PROVE  /\ HeadAt(parser, step, Passed)
         /\ \/ parser.at = 0 /\ LineLen = 1 /\ 3 <= got
            \/ parser.at = 3 /\ LineLen = 0 /\ 5 <= got
<1>1. HttpTypeOK /\ step = "parse" /\ parser.state = "header" /\ ParserAt(response, parser, got, step, Passed)
  BY DEF HttpInv, Runs, InHeader
<1>2. HeadAt(parser, step, Passed)
  BY <1>1 DEF ParserAt, PlainAt
<1>3. PICK w, l, z : w = Wire /\ l = 1 /\ z = 0
  OBVIOUS
<1>4. IsHead(w) /\ Wire \in Seq(Tokens) /\ got \in Nat /\ got <= Len(Wire)
  BY <1>1, <1>3, HttpFacts DEF IsWire
<1>5. ~EndsAt(w, 1) /\ EndsAt(w, 2) /\ EndsAt(w, 4)
  BY <1>4, TokenKinds DEF EndsAt, IsHead
<1>6. CASE parser.at = 0
  <2>1. \A j \in 0..l-1 : parser.at + j + 1 = 1
    BY <1>3, <1>6
  <2>2. parser.at + l + 1 = 2 /\ parser.at + l + 2 = 3 /\ parser.at \in Nat /\ l \in Nat
    BY <1>3, <1>6
  <2>3. /\ \A j \in 0..l-1 : ~EndsAt(Wire, parser.at + j + 1)
        /\ EndsAt(Wire, parser.at + l + 1)
    BY <1>3, <1>5, <2>1, <2>2
  <2>4. LineLen = l /\ parser.at + l + 2 <= got
    BY <1>4, <2>2, <2>3, LineIs
  <2>5. QED
    BY <1>2, <1>3, <1>6, <2>2, <2>4
<1>7. CASE parser.at = 3
  <2>1. 0..z-1 = {}
    BY <1>3
  <2>2. parser.at + z + 1 = 4 /\ parser.at + z + 2 = 5 /\ parser.at \in Nat /\ z \in Nat
    BY <1>3, <1>7
  <2>3. /\ \A j \in 0..z-1 : ~EndsAt(Wire, parser.at + j + 1)
        /\ EndsAt(Wire, parser.at + z + 1)
    BY <1>3, <1>5, <2>1, <2>2
  <2>4. LineLen = z /\ parser.at + z + 2 <= got
    BY <1>4, <2>2, <2>3, LineIs
  <2>5. QED
    BY <1>2, <1>3, <1>7, <2>2, <2>4
<1>8. QED
  BY <1>2, <1>6, <1>7 DEF HeadAt

LEMMA HeaderLineKeeps ==
  ASSUME HttpInv, HeaderLine
  PROVE  HttpInv' /\ Passed' = Passed
<1>1. HttpTypeOK /\ got - parser.at <= RecvMax
  BY DEF HttpInv
<1>2. InHeader /\ LineEnds # {} /\ LineLen > 0 /\ step = "parse"
  BY DEF HeaderLine, InHeader
<1>3. /\ response' = response /\ got' = got /\ step' = step /\ any' = any
      /\ parser' = [parser EXCEPT !.at = @ + LineLen + 2]
  BY DEF HeaderLine
<1>4. HeadAt(parser, step, Passed) /\ parser.at = 0 /\ LineLen = 1 /\ 3 <= got
  BY <1>2, HeaderLines
<1>5. /\ got \in Nat /\ got <= Len(Wire) /\ parser \in Parsers(got, response.length) /\ any \in BOOLEAN
      /\ IsHead(Wire)
  BY <1>1, HttpFacts DEF HttpTypeOK, IsWire
<1>6. parser' = [parser EXCEPT !.at = 3]
  BY <1>3, <1>4
<1>7. /\ parser' \in Parsers(got, response.length)
      /\ parser'.at = 3 /\ parser'.state = parser.state /\ parser'.remain = parser.remain
  BY <1>4, <1>5, <1>6 DEF Parsers
<1>8. Passed' = Passed
  <2>1. \A k \in 1..3 : Wire[k].kind # "byte"
    <3>1. Wire[1].kind # "byte" /\ Wire[2].kind # "byte" /\ Wire[3].kind # "byte"
      BY <1>5, TokenKinds DEF IsHead
    <3>2. QED
      BY <3>1
  <2>2. \A k \in parser.at+1..parser'.at : Wire[k].kind # "byte"
    BY <1>4, <1>7, <2>1
  <2>3. parser.at \in Nat /\ parser'.at \in Nat /\ parser.at <= parser'.at
    BY <1>4, <1>7
  <2>4. QED
    BY <1>3, <2>2, <2>3, PassedOver
<1>9. ParserAt(response, parser', got', step', Passed')
  <2>1. HeadAt(parser', step', Passed')
    BY <1>3, <1>4, <1>7, <1>8 DEF HeadAt
  <2>2. QED
    BY <2>1 DEF ParserAt
<1>10. got' - parser'.at <= RecvMax
  BY <1>1, <1>3, <1>4, <1>5, <1>7, HttpAssumption
<1>11. QED
  BY <1>1, <1>2, <1>3, <1>5, <1>7, <1>8, <1>9, <1>10, HttpKept

LEMMA HeaderEndKeeps ==
  ASSUME HttpInv, HeaderEnd
  PROVE  HttpInv' /\ Passed' = Passed
<1>1. HttpTypeOK /\ got - parser.at <= RecvMax
  BY DEF HttpInv
<1>2. InHeader /\ LineEnds # {} /\ LineLen = 0 /\ step = "parse"
  BY DEF HeaderEnd, InHeader
<1>3. PICK n, x : n = response.length /\ x = IF response.mode = "length" /\ n > 0 THEN n ELSE -1
  OBVIOUS
<1>4. /\ response' = response /\ got' = got /\ step' = step /\ any' = any
      /\ parser' = [state |-> "body", at |-> parser.at + 2, remain |-> x]
  BY <1>3 DEF HeaderEnd
<1>5. HeadAt(parser, step, Passed) /\ parser.at = 3 /\ 5 <= got /\ Passed = 0
  BY <1>2, HeaderLines DEF HeadAt
<1>6. /\ got \in Nat /\ got <= Len(Wire) /\ any \in BOOLEAN /\ IsHead(Wire) /\ n \in Nat
  BY <1>1, <1>3, HttpFacts DEF HttpTypeOK, IsWire
<1>7. parser'.state = "body" /\ parser'.at = 5 /\ parser'.remain = x /\ parser' = [state |-> "body", at |-> 5, remain |-> x]
  BY <1>4, <1>5
<1>8. parser' \in Parsers(got, response.length)
  BY <1>3, <1>5, <1>6, <1>7 DEF Parsers
<1>9. Passed' = Passed
  <2>1. \A k \in 4..5 : Wire[k].kind # "byte"
    <3>1. Wire[4].kind # "byte" /\ Wire[5].kind # "byte"
      BY <1>6, TokenKinds DEF IsHead
    <3>2. QED
      BY <3>1
  <2>2. \A k \in parser.at+1..parser'.at : Wire[k].kind # "byte"
    BY <1>5, <1>7, <2>1
  <2>3. parser.at \in Nat /\ parser'.at \in Nat /\ parser.at <= parser'.at
    BY <1>5, <1>7
  <2>4. QED
    BY <1>4, <2>2, <2>3, PassedOver
<1>10. ParserAt(response, parser', got', step', Passed')
  <2>1. CASE response.mode # "chunked"
    <3>1. PlainAt(response, parser', step', Passed')
      BY <1>2, <1>3, <1>4, <1>5, <1>6, <1>7, <1>9, <2>1 DEF PlainAt
    <3>2. QED
      BY <3>1 DEF ParserAt
  <2>2. CASE response.mode = "chunked"
    <3>1. x = -1
      BY <1>3, <2>2
    <3>2. PICK c : c = 0
      OBVIOUS
    <3>3. Sent(c, n) = 0 /\ Place(c, n) = 5 /\ c \in 0..NumChunks(n)
      <4>1. Sent(0, n) = 0 /\ NumChunks(n) \in Nat
        BY <1>6, SentFacts, ChunkCount
      <4>2. Place(0, n) = 5
        BY <4>1 DEF Place
      <4>3. QED
        BY <3>2, <4>1, <4>2
    <3>4. BetweenAt(n, parser', step', Passed', c)
      BY <1>2, <1>4, <1>5, <1>7, <1>9, <3>1, <3>3 DEF BetweenAt
    <3>5. ChunkAt(n, parser', got', step', Passed')
      BY <3>3, <3>4 DEF ChunkAt
    <3>6. QED
      BY <1>3, <1>7, <2>2, <3>5 DEF ParserAt
  <2>3. QED
    BY <2>1, <2>2
<1>11. got' - parser'.at <= RecvMax
  BY <1>1, <1>4, <1>5, <1>6, <1>7, HttpAssumption
<1>12. QED
  BY <1>1, <1>2, <1>4, <1>6, <1>8, <1>9, <1>10, <1>11, HttpKept

(* A size line, with the LF of the chunk before it or without.             *)
LEMMA SizeLines ==
  ASSUME HttpInv, AtSize, LineEnds # {}
  PROVE  \E c \in 0..NumChunks(response.length) :
           /\ BetweenAt(response.length, parser, step, Passed, c)
           /\ SizesHere = {ChunkSize(c, response.length)}
           /\ parser.at + LineLen + 2 = Place(c, response.length) + 3 /\ Place(c, response.length) + 3 <= got
           /\ \A k \in parser.at+1..Place(c, response.length)+3 : Wire[k].kind # "byte"
<1>0. PICK n : n = response.length
  OBVIOUS
<1>1. HttpTypeOK /\ step = "parse" /\ parser.state = "body" /\ response.mode = "chunked" /\ parser.remain = -1
      /\ ParserAt(response, parser, got, step, Passed)
  BY DEF HttpInv, Runs, AtSize, InBody, Chunked
<1>2. ChunkAt(n, parser, got, step, Passed)
  BY <1>0, <1>1 DEF ParserAt, PlainAt, HeadAt
<1>3. PICK c \in 0..NumChunks(n) :
        BetweenAt(n, parser, step, Passed, c) \/ InsideAt(n, parser, got, step, Passed, c) \/ BehindAt(n, parser, step, Passed, c)
  BY <1>2 DEF ChunkAt
<1>4. BetweenAt(n, parser, step, Passed, c)
  BY <1>1, <1>3 DEF InsideAt, BehindAt
<1>5. PICK w, l, p, a : w = Wire /\ l = ChunkSize(c, n) /\ p = Place(c, n) /\ a = parser.at
  OBVIOUS
<1>6. /\ n \in Nat /\ w \in Seq(Tokens) /\ IsWire(w, response) /\ a \in Nat /\ got \in Nat /\ got <= Len(w)
  BY <1>0, <1>1, <1>5, HttpFacts
<1>7. c \in Nat /\ NumChunks(n) \in Nat
  BY <1>6, ChunkCount
<1>8. p \in Nat /\ p >= 5
  <2>1. PICK s : s = Sent(c, n)
    OBVIOUS
  <2>2. s \in Nat /\ p = 5 + 5 * c + s
    BY <1>5, <1>6, <1>7, <2>1, PlaceFacts
  <2>3. QED
    BY <1>7, <2>2
<1>9. IsPlaced(w, c, n)
  BY <1>0, <1>1, <1>6 DEF IsWire
<1>10. w[p + 1] = Token("size", l) /\ w[p + 2] = Cr /\ w[p + 3] = Lf
  BY <1>5, <1>9 DEF IsPlaced
<1>11. ~EndsAt(w, p + 1) /\ EndsAt(w, p + 2)
  <2>1. (p + 1) + 1 = p + 2 /\ (p + 2) + 1 = p + 3
    BY <1>8
  <2>2. QED
    BY <1>10, <2>1, TokenKinds DEF EndsAt
<1>12. CASE a = p
  <2>1. PICK q : q = 1
    OBVIOUS
  <2>2. q \in Nat /\ a + q + 1 = p + 2 /\ (\A j \in 0..q-1 : a + j + 1 = p + 1) /\ a + q + 2 = p + 3
    BY <1>8, <1>12, <2>1
  <2>3. /\ \A j \in 0..q-1 : ~EndsAt(Wire, parser.at + j + 1)
        /\ EndsAt(Wire, parser.at + q + 1)
    BY <1>5, <1>11, <2>2
  <2>4. LineLen = q /\ parser.at + q + 2 <= got
    BY <1>5, <1>6, <2>2, <2>3, LineIs
  <2>5. SizesHere = {l}
    <3>1. SizesHere = {w[a + k].n : k \in {j \in 1..q : w[a + j].kind = "size"}}
      BY <1>5, <2>4 DEF SizesHere
    <3>2. 1..q = {1} /\ w[a + 1] = Token("size", l)
      BY <1>10, <1>12, <2>1
    <3>3. {j \in 1..q : w[a + j].kind = "size"} = {1}
      BY <3>2, TokenKinds
    <3>4. w[a + 1].n = l
      BY <3>2, TokenKinds
    <3>5. QED
      BY <3>1, <3>3, <3>4
  <2>6. \A k \in a+1..p+3 : w[k].kind # "byte"
    <3>1. \A k \in a+1..p+3 : k = p + 1 \/ k = p + 2 \/ k = p + 3
      BY <1>8, <1>12
    <3>2. w[p + 1].kind # "byte" /\ w[p + 2].kind # "byte" /\ w[p + 3].kind # "byte"
      BY <1>10, TokenKinds
    <3>3. QED
      BY <3>1, <3>2
  <2>7. QED
    BY <1>0, <1>4, <1>5, <2>2, <2>4, <2>5, <2>6
<1>13. CASE a + 1 = p /\ c > 0
  <2>1. PICK q, d : q = 2 /\ d = c - 1
    OBVIOUS
  <2>2. w[p] = Lf
    <3>1. d \in 0..NumChunks(n) /\ d \in Nat /\ d + 1 = c
      BY <1>7, <1>13, <2>1
    <3>2. PICK m, s : m = ChunkSize(d, n) /\ s = Place(d, n)
      OBVIOUS
    <3>3. IsPlaced(w, d, n)
      BY <1>0, <1>1, <1>6, <3>1 DEF IsWire
    <3>4. w[s + 5 + m] = Lf
      BY <3>2, <3>3 DEF IsPlaced
    <3>5. p = s + 5 + m
      BY <1>5, <1>6, <3>1, <3>2, PlaceFacts
    <3>6. QED
      BY <3>4, <3>5
  <2>3. q \in Nat /\ a + q + 1 = p + 2 /\ (\A j \in 0..q-1 : a + j + 1 = p \/ a + j + 1 = p + 1) /\ a + q + 2 = p + 3
    BY <1>6, <1>13, <2>1
  <2>4. ~EndsAt(w, p)
    BY <2>2, TokenKinds DEF EndsAt
  <2>5. /\ \A j \in 0..q-1 : ~EndsAt(Wire, parser.at + j + 1)
        /\ EndsAt(Wire, parser.at + q + 1)
    BY <1>5, <1>11, <2>3, <2>4
  <2>6. LineLen = q /\ parser.at + q + 2 <= got
    BY <1>5, <1>6, <2>3, <2>5, LineIs
  <2>7. SizesHere = {l}
    <3>1. SizesHere = {w[a + k].n : k \in {j \in 1..q : w[a + j].kind = "size"}}
      BY <1>5, <2>6 DEF SizesHere
    <3>2. 1..q = {1, 2} /\ a + 1 = p /\ a + 2 = p + 1 /\ w[p] = Lf
      BY <1>6, <1>13, <2>1, <2>2
    <3>3. w[a + 1].kind # "size" /\ w[a + 2].kind = "size" /\ w[a + 2].n = l
      BY <1>10, <3>2, TokenKinds
    <3>4. {j \in 1..q : w[a + j].kind = "size"} = {2}
      BY <3>2, <3>3
    <3>5. QED
      BY <3>1, <3>3, <3>4
  <2>8. \A k \in a+1..p+3 : w[k].kind # "byte"
    <3>1. \A k \in a+1..p+3 : k = p \/ k = p + 1 \/ k = p + 2 \/ k = p + 3
      BY <1>6, <1>13
    <3>2. w[p].kind # "byte" /\ w[p + 1].kind # "byte" /\ w[p + 2].kind # "byte" /\ w[p + 3].kind # "byte"
      BY <1>10, <2>2, TokenKinds
    <3>3. QED
      BY <3>1, <3>2
  <2>9. QED
    BY <1>0, <1>4, <1>5, <2>3, <2>6, <2>7, <2>8
<1>14. QED
  BY <1>4, <1>5, <1>12, <1>13 DEF BetweenAt

LEMMA SizeLineKeeps ==
  ASSUME HttpInv, SizeLine
  PROVE  HttpInv' /\ Passed' = Passed
<1>1. HttpTypeOK /\ got - parser.at <= RecvMax
  BY DEF HttpInv
<1>2. AtSize /\ LineEnds # {} /\ step = "parse" /\ parser.state = "body" /\ response.mode = "chunked"
  BY DEF SizeLine, AtSize, InBody, Chunked
<1>3. PICK n : n = response.length
  OBVIOUS
<1>4. PICK c \in 0..NumChunks(n) :
           /\ BetweenAt(n, parser, step, Passed, c)
           /\ SizesHere = {ChunkSize(c, n)}
           /\ parser.at + LineLen + 2 = Place(c, n) + 3 /\ Place(c, n) + 3 <= got
           /\ \A k \in parser.at+1..Place(c, n)+3 : Wire[k].kind # "byte"
  BY <1>2, <1>3, SizeLines
<1>5. PICK l, b : l = ChunkSize(c, n) /\ b = Place(c, n) + 3
  OBVIOUS
<1>6. /\ response' = response /\ got' = got /\ any' = any
      /\ parser' = [parser EXCEPT !.at = b, !.remain = l]
      /\ step' = IF l > 0 THEN "parse" ELSE "end"
  BY <1>4, <1>5 DEF SizeLine
<1>7. /\ got \in Nat /\ got <= Len(Wire) /\ parser \in Parsers(got, response.length) /\ any \in BOOLEAN
      /\ n \in Nat /\ parser.at \in Nat /\ parser.at <= got
  BY <1>1, <1>3, HttpFacts DEF HttpTypeOK
<1>8. PICK a, d, x, q : a = Sent(c, n) /\ d = Sent(c + 1, n) /\ x = Place(c, n) /\ q = NumChunks(n)
  OBVIOUS
<1>9. /\ a \in Nat /\ d = a + l /\ l \in Nat /\ x \in Nat /\ q \in Nat /\ c \in Nat /\ c <= q
      /\ d \in 0..n /\ (c < q => a < d) /\ (c = q => a = n /\ d = n)
  <2>1. q \in Nat /\ c \in Nat /\ c <= q
    BY <1>7, <1>8, ChunkCount
  <2>2. a \in Nat /\ d = a + l /\ l \in Nat /\ x \in Nat /\ d \in Nat
    BY <1>5, <1>7, <1>8, <2>1, PlaceFacts
  <2>3. c + 1 \in Nat
    BY <2>1
  <2>4. d \in 0..n
    BY <1>7, <1>8, <2>3, SentFacts
  <2>5. c < q => a < d
    BY <1>7, <1>8, <2>1, SentFacts
  <2>6. c = q => a = n /\ d = n
    BY <1>7, <1>8, <2>1, SentFacts
  <2>7. QED
    BY <2>1, <2>2, <2>4, <2>5, <2>6
<1>10. Passed = a /\ (parser.at = x \/ parser.at + 1 = x) /\ b = x + 3 /\ b <= got
  BY <1>4, <1>5, <1>8 DEF BetweenAt
<1>11. /\ parser' \in Parsers(got, response.length)
       /\ parser'.at = b /\ parser'.state = "body" /\ parser'.remain = l
  <2>1. b \in 0..got /\ l \in -1..n
    BY <1>7, <1>9, <1>10
  <2>2. QED
    BY <1>2, <1>3, <1>6, <1>7, <2>1 DEF Parsers
<1>12. Passed' = Passed
  <2>1. \A k \in parser.at+1..parser'.at : Wire[k].kind # "byte"
    BY <1>4, <1>5, <1>11
  <2>2. parser'.at \in Nat /\ parser.at <= parser'.at
    BY <1>7, <1>9, <1>10, <1>11
  <2>3. QED
    BY <1>6, <1>7, <2>1, <2>2, PassedOver
<1>13. ChunkAt(n, parser', got', step', Passed')
  <2>1. CASE c < q
    <3>1. l > 0 /\ step' = "parse"
      BY <1>6, <1>9, <2>1
    <3>2. InsideAt(n, parser', got', step', Passed', c)
      BY <1>8, <1>9, <1>10, <1>11, <1>12, <2>1, <3>1 DEF InsideAt
    <3>3. QED
      BY <3>2 DEF ChunkAt
  <2>2. CASE c = q
    <3>1. l = 0 /\ step' = "end"
      BY <1>6, <1>9, <2>2
    <3>2. BehindAt(n, parser', step', Passed', c)
      BY <1>8, <1>9, <1>10, <1>11, <1>12, <2>2, <3>1 DEF BehindAt
    <3>3. QED
      BY <3>2 DEF ChunkAt
  <2>3. QED
    BY <1>9, <2>1, <2>2
<1>14. ParserAt(response, parser', got', step', Passed')
  BY <1>2, <1>3, <1>11, <1>13 DEF ParserAt
<1>15. got' - parser'.at <= RecvMax
  <2>1. got' = got /\ parser'.at = b
    BY <1>6, <1>11
  <2>2. b \in Nat /\ parser.at <= b
    BY <1>7, <1>9, <1>10
  <2>3. got - b <= RecvMax
    BY <1>1, <1>7, <2>2, HttpAssumption
  <2>4. QED
    BY <2>1, <2>3
<1>16. step' \in {"read", "parse", "end", "error", "closed", "done"}
  BY <1>6
<1>17. QED
  BY <1>1, <1>6, <1>7, <1>11, <1>12, <1>14, <1>15, <1>16, HttpKept

LEMMA ChunkGapKeeps ==
  ASSUME HttpInv, ChunkGap
  PROVE  HttpInv' /\ Passed' = Passed
<1>1. /\ HttpTypeOK /\ got - parser.at <= RecvMax /\ step = "parse" /\ parser.state = "body"
      /\ response.mode = "chunked" /\ parser.remain = 0 /\ ParserAt(response, parser, got, step, Passed)
  BY DEF HttpInv, Runs, ChunkGap, InBody, Chunked
<1>2. PICK n, q, w, a : n = response.length /\ q = NumChunks(n) /\ w = Wire /\ a = parser.at
  OBVIOUS
<1>3. /\ got \in Nat /\ got <= Len(w) /\ parser \in Parsers(got, response.length) /\ any \in BOOLEAN
      /\ n \in Nat /\ a \in Nat /\ a <= got /\ w \in Seq(Tokens) /\ IsWire(w, response) /\ Passed \in Nat
  BY <1>1, <1>2, HttpFacts DEF HttpTypeOK
<1>4. ChunkAt(n, parser, got, step, Passed)
  BY <1>1, <1>2 DEF ParserAt, PlainAt, HeadAt
<1>5. PICK c \in 0..q : InsideAt(n, parser, got, step, Passed, c)
  BY <1>1, <1>2, <1>4 DEF ChunkAt, BetweenAt, BehindAt
<1>6. q \in Nat /\ c \in Nat
  <2>1. NumChunks(n) \in Nat
    BY <1>3, ChunkCount
  <2>2. q \in Nat
    BY <1>2, <2>1
  <2>3. QED
    BY <2>2
<1>7. PICK l, p, s, d : l = ChunkSize(c, n) /\ p = Place(c, n) /\ s = Sent(c, n) /\ d = c + 1
  OBVIOUS
<1>8. /\ l \in Nat /\ p \in Nat /\ s \in Nat /\ Sent(d, n) = s + l /\ Place(d, n) = p + 5 + l
  <2>1. /\ Sent(c, n) \in Nat /\ ChunkSize(c, n) \in Nat /\ Place(c, n) \in Nat
        /\ Sent(c + 1, n) = Sent(c, n) + ChunkSize(c, n)
        /\ Place(c + 1, n) = Place(c, n) + 5 + ChunkSize(c, n)
    BY <1>3, <1>6, PlaceFacts
  <2>2. QED
    BY <1>7, <2>1
<1>9. c < q /\ Passed = s + l /\ a = p + 3 + l /\ a < got
  <2>1. c < q /\ Passed + 0 = Sent(d, n) /\ a = p + 3 + (Passed - s) /\ a < got
    BY <1>1, <1>2, <1>5, <1>7 DEF InsideAt
  <2>2. QED
    BY <1>3, <1>8, <2>1
<1>10. IsPlaced(w, c, n)
  BY <1>1, <1>2, <1>3 DEF IsWire
<1>11. w[p + 4 + l] = Cr /\ w[p + 5 + l] = Lf
  BY <1>7, <1>10 DEF IsPlaced
<1>12. w[a + 1] = Cr /\ w[a + 2] = Lf
  <2>1. p + 4 + l = a + 1 /\ p + 5 + l = a + 2
    BY <1>8, <1>9
  <2>2. QED
    BY <1>11, <2>1
<1>13. PICK b : b = IF got - a > 2 /\ SubSeq(w, a + 1, a + 2) = CrLf THEN a + 2 ELSE got
  OBVIOUS
<1>14. /\ response' = response /\ got' = got /\ step' = step /\ any' = any
       /\ parser' = [parser EXCEPT !.remain = -1, !.at = b]
  BY <1>2, <1>13 DEF ChunkGap, Unparsed
<1>15. (b = a + 1 \/ b = a + 2) /\ b <= got
  <2>1. CASE got - a > 2
    <3>1. a + 2 <= Len(w)
      <4>1. PICK x : x = Len(w)
        OBVIOUS
      <4>2. x \in Nat /\ got <= x
        BY <1>3, <4>1, LenProperties
      <4>3. a + 2 <= x
        BY <1>3, <2>1, <4>2
      <4>4. QED
        BY <4>1, <4>3
    <3>2. (a + 1) + 1 = a + 2
      BY <1>3
    <3>3. EndsAt(w, a + 1)
      BY <1>12, <3>2 DEF EndsAt
    <3>4. SubSeq(w, a + 1, a + 2) = CrLf
      BY <1>3, <3>1, <3>3, IsLineEnd
    <3>5. b = a + 2
      BY <1>13, <2>1, <3>4
    <3>6. QED
      BY <1>3, <2>1, <3>5
  <2>2. CASE ~(got - a > 2)
    <3>1. b = got
      BY <1>13, <2>2
    <3>2. QED
      BY <1>3, <1>9, <2>2, <3>1
  <2>3. QED
    BY <2>1, <2>2
<1>16. /\ parser' \in Parsers(got, response.length)
       /\ parser'.at = b /\ parser'.state = "body" /\ parser'.remain = -1
  <2>1. b \in 0..got /\ -1 \in -1..n
    BY <1>3, <1>15
  <2>2. QED
    BY <1>1, <1>2, <1>3, <1>14, <2>1 DEF Parsers
<1>17. Passed' = Passed
  <2>1. w[a + 1].kind # "byte" /\ w[a + 2].kind # "byte"
    BY <1>12, TokenKinds
  <2>2. \A k \in a+1..b : k = a + 1 \/ k = a + 2
    BY <1>3, <1>15
  <2>3. \A k \in parser.at+1..parser'.at : Wire[k].kind # "byte"
    BY <1>2, <1>16, <2>1, <2>2
  <2>4. parser.at \in Nat /\ parser'.at \in Nat /\ parser.at <= parser'.at
    BY <1>2, <1>3, <1>15, <1>16
  <2>5. QED
    BY <1>14, <2>3, <2>4, PassedOver
<1>18. ChunkAt(n, parser', got', step', Passed')
  <2>1. d \in 0..q /\ d > 0
    BY <1>6, <1>7, <1>9
  <2>2. Passed' = Sent(d, n)
    BY <1>8, <1>9, <1>17
  <2>3. b = Place(d, n) \/ b + 1 = Place(d, n)
    BY <1>8, <1>9, <1>15
  <2>4. BetweenAt(n, parser', step', Passed', d)
    BY <1>1, <1>14, <1>16, <2>1, <2>2, <2>3 DEF BetweenAt
  <2>5. QED
    BY <1>2, <2>1, <2>4 DEF ChunkAt
<1>19. ParserAt(response, parser', got', step', Passed')
  BY <1>1, <1>2, <1>16, <1>18 DEF ParserAt
<1>20. got' - parser'.at <= RecvMax
  BY <1>1, <1>2, <1>3, <1>14, <1>15, <1>16, HttpAssumption
<1>21. QED
  BY <1>1, <1>2, <1>3, <1>14, <1>16, <1>17, <1>19, <1>20, HttpKept

(* The bytes handed over are the next ones of the body.                    *)
Count == IF MoreFollows THEN parser.remain ELSE Unparsed

NextBytes(w, a, s, m) == \A k \in 1..m : w[a + k] = Token("byte", s + k)

LEMMA PlainBytes ==
  ASSUME NEW w, NEW n \in Nat, NEW s \in Nat, NEW m \in Nat, IsPlain(w, n), 5 + s + m <= Len(w)
  PROVE  NextBytes(w, 5 + s, s, m)
<1>1. ASSUME NEW k \in 1..m PROVE w[(5 + s) + k] = Token("byte", s + k)
  <2>1. PICK j : j = s + k
    OBVIOUS
  <2>2. j \in 1..n /\ 5 + j = (5 + s) + k
    BY <2>1 DEF IsPlain
  <2>3. QED
    BY <2>1, <2>2 DEF IsPlain
<1>2. QED
  BY <1>1 DEF NextBytes

LEMMA ChunkBytes ==
  ASSUME NEW w, NEW n \in Nat, NEW c \in Nat, IsPlaced(w, c, n), NEW s \in Nat, NEW m \in Nat, NEW a \in Nat,
         Sent(c, n) <= s, s + m <= Sent(c + 1, n), a = Place(c, n) + 3 + (s - Sent(c, n))
  PROVE  NextBytes(w, a, s, m)
<1>1. PICK l, p, z, y : l = ChunkSize(c, n) /\ p = Place(c, n) /\ z = Sent(c, n) /\ y = Sent(c + 1, n)
  OBVIOUS
<1>2. l \in Nat /\ p \in Nat /\ z \in Nat /\ y = z + l
  BY <1>1, PlaceFacts
<1>3. \A k \in 1..l : w[p + 3 + k] = Token("byte", z + k)
  BY <1>1 DEF IsPlaced
<1>4. z <= s /\ s + m <= y /\ a = p + 3 + (s - z)
  BY <1>1
<1>5. ASSUME NEW k \in 1..m PROVE w[a + k] = Token("byte", s + k)
  <2>1. PICK j : j = s - z + k
    OBVIOUS
  <2>2. j \in 1..l /\ p + 3 + j = a + k /\ z + j = s + k
    BY <1>2, <1>4, <2>1
  <2>3. QED
    BY <1>3, <2>2
<1>6. QED
  BY <1>5 DEF NextBytes

LEMMA DeliveredBytes ==
  ASSUME HttpInv, Delivers
  PROVE  /\ Count \in Nat /\ Count <= RecvMax /\ Count <= got - parser.at
         /\ NextBytes(Wire, parser.at, Passed, Count) /\ Passed + Count <= response.length
         /\ Len(Delivered) = Count
         /\ \A k \in 1..Count : Delivered[k] = Token("byte", Passed + k)
<1>1. /\ HttpTypeOK /\ got - parser.at <= RecvMax /\ step = "parse" /\ parser.state = "body"
      /\ parser.remain > 0 \/ (response.mode # "chunked" /\ parser.remain = -1)
      /\ ParserAt(response, parser, got, step, Passed)
  BY DEF HttpInv, Runs, Delivers, InBody, Chunked
<1>2. PICK n, w, a, s, m, z : /\ n = response.length /\ w = Wire /\ a = parser.at /\ s = Passed /\ m = Count
                              /\ z = parser.remain
  OBVIOUS
<1>3. /\ got \in Nat /\ got <= Len(w) /\ Len(w) \in Nat /\ n \in Nat /\ a \in Nat /\ a <= got /\ z \in Int
      /\ w \in Seq(Tokens) /\ IsWire(w, response) /\ s \in Nat
  BY <1>1, <1>2, HttpFacts
<1>4. m = IF z > 0 /\ z < got - a THEN z ELSE got - a
  BY <1>2 DEF Count, MoreFollows, Unparsed
<1>5. m \in Nat /\ m <= got - a /\ (z > 0 => m <= z)
  BY <1>3, <1>4
<1>6. NextBytes(w, a, s, m) /\ s + m <= n
  <2>1. CASE response.mode # "chunked"
    <3>1. a = 5 + s
      BY <1>1, <1>2, <2>1 DEF ParserAt, PlainAt, HeadAt
    <3>2. IsPlain(w, n)
      BY <1>2, <1>3, <2>1 DEF IsWire
    <3>3. 5 + s + m <= Len(w)
      <4>1. PICK x : x = Len(w)
        OBVIOUS
      <4>2. 5 + s + m <= x
        BY <1>3, <1>5, <3>1, <4>1
      <4>3. QED
        BY <4>1, <4>2
    <3>4. s + m <= n
      BY <1>3, <1>5, <3>2, <3>3 DEF IsPlain
    <3>5. QED
      BY <1>3, <1>5, <3>1, <3>2, <3>3, <3>4, PlainBytes
  <2>2. CASE response.mode = "chunked"
    <3>1. ChunkAt(n, parser, got, step, s) /\ z > 0
      BY <1>1, <1>2, <2>2 DEF ParserAt, PlainAt, HeadAt
    <3>2. PICK c \in 0..NumChunks(n) : InsideAt(n, parser, got, step, s, c)
      BY <1>1, <1>2, <3>1 DEF ChunkAt, BetweenAt, BehindAt
    <3>3. c \in Nat /\ IsPlaced(w, c, n)
      BY <1>2, <1>3, <2>2, <3>2, ChunkCount DEF IsWire
    <3>4. Sent(c, n) <= s /\ s + z = Sent(c + 1, n) /\ a = Place(c, n) + 3 + (s - Sent(c, n))
      BY <1>2, <3>2 DEF InsideAt
    <3>5. s + m <= Sent(c + 1, n)
      <4>1. PICK y : y = Sent(c + 1, n)
        OBVIOUS
      <4>2. s + m <= y
        BY <1>3, <1>5, <3>1, <3>4, <4>1
      <4>3. QED
        BY <4>1, <4>2
    <3>6. s + m <= n
      <4>1. PICK y : y = Sent(c + 1, n)
        OBVIOUS
      <4>2. y \in 0..n
        <5>1. c + 1 \in Nat
          BY <3>3
        <5>2. QED
          BY <1>3, <4>1, <5>1, SentFacts
      <4>3. QED
        BY <1>3, <1>5, <3>5, <4>1, <4>2
    <3>7. QED
      BY <1>3, <1>5, <3>3, <3>4, <3>5, <3>6, ChunkBytes
  <2>3. QED
    BY <2>1, <2>2
<1>7. Len(Delivered) = m /\ \A k \in 1..m : Delivered[k] = Token("byte", s + k)
  <2>1. PICK b, e, d : b = a + 1 /\ e = a + m /\ d = Delivered
    OBVIOUS
  <2>2. d = SubSeq(w, b, e)
    BY <1>2, <2>1 DEF Delivered, Count
  <2>3. b \in Int /\ e \in Int /\ \A i \in b..e : w[i] \in Tokens
    <3>1. b \in Int /\ e \in Int
      BY <1>3, <1>5, <2>1
    <3>2. PICK x : x = Len(w)
      OBVIOUS
    <3>3. \A i \in 1..x : w[i] \in Tokens
      BY <1>3, <3>2, ElementOfSeq
    <3>4. \A i \in b..e : i \in 1..x
      BY <1>3, <1>5, <2>1, <3>2
    <3>5. QED
      BY <3>1, <3>3, <3>4
  <2>4. /\ Len(d) = IF b <= e THEN e - b + 1 ELSE 0
        /\ \A i \in 1..e-b+1 : d[i] = w[b + i - 1]
    BY <2>2, <2>3, SubSeqProperties
  <2>5. Len(d) = m
    BY <1>3, <1>5, <2>1, <2>4
  <2>6. ASSUME NEW k \in 1..m PROVE d[k] = Token("byte", s + k)
    <3>1. k \in 1..e-b+1 /\ b + k - 1 = a + k
      BY <1>3, <1>5, <2>1
    <3>2. QED
      BY <1>6, <2>4, <3>1 DEF NextBytes
  <2>7. QED
    BY <2>1, <2>5, <2>6
<1>8. m <= RecvMax
  BY <1>1, <1>2, <1>3, <1>5, HttpAssumption
<1>9. QED
  BY <1>2, <1>5, <1>6, <1>7, <1>8

TwoBehind == Chunked /\ Unparsed - parser.remain >= 2

LEMMA AfterIs ==
  /\ MoreFollows /\ TwoBehind =>
       /\ AfterDelivery.at = parser.at + parser.remain + 2
       /\ AfterDelivery.remain = -1 /\ AfterDelivery.step = "parse"
  /\ MoreFollows /\ ~TwoBehind =>
       /\ AfterDelivery.at = parser.at + parser.remain + 0
       /\ AfterDelivery.remain = parser.remain /\ AfterDelivery.step = "error"
  /\ ~MoreFollows =>
       /\ AfterDelivery.at = got
       /\ AfterDelivery.remain = IF parser.remain > 0 THEN parser.remain - Unparsed ELSE -1
       /\ AfterDelivery.step = IF ~Chunked /\ parser.remain = Unparsed THEN "end" ELSE "read"
<1>1. CASE MoreFollows /\ TwoBehind
  BY <1>1 DEF AfterDelivery, TwoBehind
<1>2. CASE MoreFollows /\ ~TwoBehind
  BY <1>2 DEF AfterDelivery, TwoBehind
<1>3. CASE ~MoreFollows
  BY <1>3 DEF AfterDelivery, TwoBehind
<1>4. QED
  BY <1>1, <1>2, <1>3

Moved(p, b, z) == [p EXCEPT !.at = b, !.remain = z]

LEMMA ParserMoves ==
  ASSUME NEW g, NEW n, NEW p \in Parsers(g, n), NEW b \in 0..g, NEW z \in -1..n
  PROVE  /\ Moved(p, b, z) \in Parsers(g, n)
         /\ Moved(p, b, z).at = b /\ Moved(p, b, z).remain = z /\ Moved(p, b, z).state = p.state
BY DEF Parsers, Moved

LEMMA DeliverTypes ==
  ASSUME HttpInv, Deliver, NEW b \in 0..got, NEW z \in -1..response.length, NEW e,
         AfterDelivery.at = b, AfterDelivery.remain = z, AfterDelivery.step = e,
         e \in {"read", "parse", "end", "error"},
         NEW x \in Nat, b = parser.at + Count + x, \A k \in 1..x : Wire[parser.at + Count + k].kind # "byte"
  PROVE  /\ parser'.at = b /\ parser'.remain = z /\ parser'.state = "body" /\ step' = e
         /\ got' = got /\ response' = response
         /\ Passed' = Passed + Count
         /\ (e # "error" => ParserAt(response, parser', got, e, Passed + Count)) => HttpInv'
<1>1. HttpTypeOK /\ got - parser.at <= RecvMax /\ Delivers /\ parser.state = "body"
  BY DEF HttpInv, Deliver, Delivers, InBody
<1>2. /\ got \in Nat /\ got <= Len(Wire) /\ parser \in Parsers(got, response.length) /\ any \in BOOLEAN
      /\ parser.at \in Nat
  BY <1>1, HttpFacts DEF HttpTypeOK
<1>3. /\ parser' = [parser EXCEPT !.at = b, !.remain = z] /\ step' = e
      /\ got' = got /\ response' = response /\ any' = (any \/ Delivered # <<>>)
  BY DEF Deliver
<1>4. parser' \in Parsers(got, response.length) /\ parser'.at = b /\ parser'.remain = z /\ parser'.state = "body"
  <2>1. parser' = Moved(parser, b, z)
    BY <1>3, Zenon DEF Moved
  <2>2. /\ Moved(parser, b, z) \in Parsers(got, response.length)
        /\ Moved(parser, b, z).at = b /\ Moved(parser, b, z).remain = z /\ Moved(parser, b, z).state = parser.state
    BY <1>2, ParserMoves
  <2>3. QED
    BY <1>1, <2>1, <2>2
<1>5. Count \in Nat /\ NextBytes(Wire, parser.at, Passed, Count)
  BY <1>1, DeliveredBytes
<1>6. Passed' = Passed + Count
  <2>1. PICK m : m = Count
    OBVIOUS
  <2>2. \A k \in 1..m : Wire[parser.at + k].kind = "byte"
    BY <1>5, <2>1, TokenKinds DEF NextBytes
  <2>3. \A k \in 1..x : Wire[parser.at + m + k].kind # "byte"
    BY <2>1
  <2>4. m \in Nat /\ parser'.at = parser.at + m + x
    BY <1>4, <1>5, <2>1
  <2>5. Passed' = Passed + m
    BY <1>2, <1>3, <2>2, <2>3, <2>4, PassedMore
  <2>6. QED
    BY <2>1, <2>5
<1>7. ASSUME e # "error" => ParserAt(response, parser', got, e, Passed + Count)
      PROVE  HttpInv'
  <2>1. step' \in Runs => ParserAt(response, parser', got', step', Passed')
    BY <1>3, <1>6, <1>7 DEF Runs
  <2>2. got' - parser'.at <= RecvMax
    <3>1. parser.at <= b /\ b \in Nat
      BY <1>2, <1>5
    <3>2. QED
      BY <1>1, <1>2, <1>3, <1>4, <3>1, HttpAssumption
  <2>3. any' \in BOOLEAN
    BY <1>2, <1>3
  <2>4. QED
    BY <1>1, <1>2, <1>3, <1>4, <2>1, <2>2, <2>3, HttpKept
<1>8. QED
  BY <1>3, <1>4, <1>6, <1>7

LEMMA DeliverPlain ==
  ASSUME HttpInv, Deliver, response.mode # "chunked"
  PROVE  HttpInv' /\ Passed' = Passed + Count
<1>1. /\ HttpTypeOK /\ step = "parse" /\ Delivers /\ parser.state = "body"
      /\ ParserAt(response, parser, got, step, Passed)
      /\ parser.remain > 0 \/ parser.remain = -1
  BY DEF HttpInv, Runs, Deliver, Delivers, InBody, Chunked
<1>2. PlainAt(response, parser, step, Passed)
  BY <1>1 DEF ParserAt, HeadAt
<1>3. PICK n, w, a, s, z, u, m : /\ n = response.length /\ w = Wire /\ a = parser.at /\ s = Passed
                                 /\ z = parser.remain /\ u = Unparsed /\ m = Count
  OBVIOUS
<1>4. /\ got \in Nat /\ got <= Len(w) /\ n \in Nat /\ a \in Nat /\ a <= got /\ z \in Int
      /\ IsWire(w, response) /\ s \in Nat
  BY <1>1, <1>3, HttpFacts
<1>5. u = got - a /\ a = 5 + s /\ got <= 5 + n /\ u \in Nat
  <2>1. IsPlain(w, n)
    BY <1>3, <1>4 DEF IsWire
  <2>2. Len(w) = 5 + n
    BY <2>1 DEF IsPlain
  <2>3. u = got - a /\ a = 5 + s
    BY <1>2, <1>3 DEF Unparsed, PlainAt
  <2>4. QED
    BY <1>4, <2>2, <2>3
<1>6. (response.mode = "length" /\ n > 0) => z = n - s
  BY <1>2, <1>3 DEF PlainAt
<1>7. ~(response.mode = "length" /\ n > 0) => z = -1
  BY <1>2, <1>3 DEF PlainAt
<1>8. ~MoreFollows
  <2>1. ~(z > 0 /\ z < u)
    BY <1>4, <1>5, <1>6, <1>7
  <2>2. QED
    BY <1>3, <2>1 DEF MoreFollows
<1>9. m = u /\ AfterDelivery.at = got
      /\ AfterDelivery.remain = (IF z > 0 THEN z - u ELSE -1)
      /\ AfterDelivery.step = IF z = u THEN "end" ELSE "read"
  BY <1>3, <1>8, AfterIs DEF Count, Chunked
<1>10. PICK x, b, y, e : /\ x = 0 /\ b = got /\ y = (IF z > 0 THEN z - u ELSE -1)
                         /\ e = IF z = u THEN "end" ELSE "read"
  OBVIOUS
<1>11. /\ x \in Nat /\ b \in 0..got /\ y \in -1..n /\ b = a + m + x /\ \A k \in 1..x : w[a + m + k].kind # "byte"
       /\ e \in {"read", "parse", "end", "error"}
  <2>1. y \in -1..n
    BY <1>4, <1>5, <1>6, <1>7, <1>10
  <2>2. b \in 0..got /\ b = a + m + x /\ x \in Nat /\ 1..x = {}
    BY <1>4, <1>5, <1>9, <1>10
  <2>3. QED
    BY <1>10, <2>1, <2>2
<1>12. AfterDelivery.at = b /\ AfterDelivery.remain = y /\ AfterDelivery.step = e
  BY <1>9, <1>10
<1>13. y \in -1..response.length /\ b = parser.at + Count + x /\ \A k \in 1..x : Wire[parser.at + Count + k].kind # "byte"
  BY <1>3, <1>11
<1>14. /\ parser'.at = b /\ parser'.remain = y /\ parser'.state = "body" /\ step' = e
       /\ Passed' = Passed + Count
       /\ (e # "error" => ParserAt(response, parser', got, e, Passed + Count)) => HttpInv'
  BY <1>11, <1>12, <1>13, DeliverTypes
<1>15. PlainAt(response, parser', e, s + m)
  <2>1. parser'.at = 5 + (s + m)
    BY <1>4, <1>5, <1>9, <1>10, <1>14
  <2>2. CASE response.mode = "length" /\ n > 0
    <3>1. z = n - s /\ z > 0 /\ y = n - (s + m) /\ (z = u <=> y = 0)
      BY <1>1, <1>3, <1>4, <1>5, <1>6, <1>9, <1>10, <2>2
    <3>2. e = "end" <=> y = 0
      BY <1>10, <3>1
    <3>3. QED
      BY <1>3, <1>14, <2>1, <2>2, <3>1, <3>2 DEF PlainAt
  <2>3. CASE ~(response.mode = "length" /\ n > 0)
    <3>1. z = -1 /\ y = -1 /\ z # u
      BY <1>5, <1>7, <1>10, <2>3
    <3>2. e # "end"
      BY <1>10, <3>1
    <3>3. QED
      BY <1>3, <1>14, <2>1, <2>3, <3>1, <3>2 DEF PlainAt
  <2>4. QED
    BY <2>2, <2>3
<1>16. ParserAt(response, parser', got, e, Passed + Count)
  BY <1>3, <1>15 DEF ParserAt
<1>17. QED
  BY <1>14, <1>16

LEMMA DeliverChunked ==
  ASSUME HttpInv, Deliver, response.mode = "chunked"
  PROVE  HttpInv' /\ Passed' = Passed + Count
<1>1. /\ HttpTypeOK /\ step = "parse" /\ Delivers /\ parser.state = "body" /\ parser.remain > 0
      /\ ParserAt(response, parser, got, step, Passed)
  BY DEF HttpInv, Runs, Deliver, Delivers, InBody, Chunked
<1>2. PICK n, w, a, s, z, u, m : /\ n = response.length /\ w = Wire /\ a = parser.at /\ s = Passed
                                 /\ z = parser.remain /\ u = Unparsed /\ m = Count
  OBVIOUS
<1>3. /\ got \in Nat /\ got <= Len(w) /\ n \in Nat /\ a \in Nat /\ a <= got /\ z \in Int /\ z > 0
      /\ IsWire(w, response) /\ s \in Nat
  BY <1>1, <1>2, HttpFacts
<1>4. PICK c \in 0..NumChunks(n) : InsideAt(n, parser, got, step, s, c)
  <2>1. ChunkAt(n, parser, got, step, s)
    BY <1>1, <1>2 DEF ParserAt, PlainAt, HeadAt
  <2>2. QED
    BY <1>1, <2>1 DEF ChunkAt, BetweenAt, BehindAt
<1>5. NumChunks(n) \in Nat /\ c \in Nat
  BY <1>3, ChunkCount
<1>6. PICK q, l, p, v, d : q = NumChunks(n) /\ l = ChunkSize(c, n) /\ p = Place(c, n) /\ v = Sent(c, n) /\ d = c + 1
  OBVIOUS
<1>7. /\ l \in Nat /\ p \in Nat /\ v \in Nat /\ Sent(d, n) = v + l /\ Place(d, n) = p + 5 + l
  <2>1. /\ Sent(c, n) \in Nat /\ ChunkSize(c, n) \in Nat /\ Place(c, n) \in Nat
        /\ Sent(c + 1, n) = Sent(c, n) + ChunkSize(c, n)
        /\ Place(c + 1, n) = Place(c, n) + 5 + ChunkSize(c, n)
    BY <1>3, <1>5, PlaceFacts
  <2>2. QED
    BY <1>6, <2>1
<1>8. v + l <= n
  <2>1. d \in Nat
    BY <1>5, <1>6
  <2>2. Sent(d, n) \in 0..n
    BY <1>3, <2>1, SentFacts
  <2>3. QED
    BY <1>7, <2>2
<1>9. c < q /\ v <= s /\ s + z = v + l /\ a = p + 3 + (s - v)
  BY <1>2, <1>4, <1>6, <1>7 DEF InsideAt
<1>10. IsPlaced(w, c, n)
  BY <1>2, <1>3 DEF IsWire
<1>11. w[p + 4 + l] = Cr /\ w[p + 5 + l] = Lf
  BY <1>6, <1>10 DEF IsPlaced
<1>12. u = got - a /\ (MoreFollows <=> z < u) /\ (TwoBehind <=> u - z >= 2) /\ u \in Nat
       /\ m = (IF z < u THEN z ELSE u)
  <2>1. u = got - a /\ u \in Nat
    BY <1>2, <1>3 DEF Unparsed
  <2>2. MoreFollows <=> z < u
    BY <1>2, <1>3 DEF MoreFollows
  <2>3. TwoBehind <=> u - z >= 2
    BY <1>2 DEF TwoBehind, Chunked
  <2>4. m = (IF z < u THEN z ELSE u)
    BY <1>2, <2>2 DEF Count
  <2>5. QED
    BY <2>1, <2>2, <2>3, <2>4
<1>13. CASE z < u /\ u - z >= 2
  <2>1. PICK x, b, y, e : x = 2 /\ b = a + z + 2 /\ y = -1 /\ e = "parse"
    OBVIOUS
  <2>2. AfterDelivery.at = b /\ AfterDelivery.remain = y /\ AfterDelivery.step = e
    BY <1>2, <1>12, <1>13, <2>1, AfterIs
  <2>3. b \in 0..got /\ y \in -1..n /\ b = a + m + x /\ x \in Nat /\ b = p + 5 + l /\ m = z
    BY <1>3, <1>7, <1>9, <1>12, <1>13, <2>1
  <2>4. ASSUME NEW k \in 1..x PROVE w[a + m + k].kind # "byte"
    <3>1. a + m + k = p + 4 + l \/ a + m + k = p + 5 + l
      BY <1>3, <1>7, <1>9, <2>1, <2>3
    <3>2. w[p + 4 + l].kind # "byte" /\ w[p + 5 + l].kind # "byte"
      BY <1>11, TokenKinds
    <3>3. QED
      BY <3>1, <3>2
  <2>5. /\ b \in 0..got /\ y \in -1..response.length /\ b = parser.at + Count + x /\ x \in Nat
        /\ e \in {"read", "parse", "end", "error"}
        /\ \A k \in 1..x : Wire[parser.at + Count + k].kind # "byte"
    BY <1>2, <2>1, <2>3, <2>4
  <2>6. /\ parser'.at = b /\ parser'.remain = y /\ parser'.state = "body" /\ step' = e
        /\ Passed' = Passed + Count
        /\ (e # "error" => ParserAt(response, parser', got, e, Passed + Count)) => HttpInv'
    BY <2>2, <2>5, DeliverTypes
  <2>7. d \in 0..q /\ d > 0 /\ s + m = Sent(d, n) /\ b = Place(d, n)
    BY <1>5, <1>6, <1>7, <1>9, <2>3
  <2>8. BetweenAt(n, parser', e, s + m, d)
    BY <2>1, <2>6, <2>7 DEF BetweenAt
  <2>9. ChunkAt(n, parser', got, e, s + m)
    BY <1>6, <2>7, <2>8 DEF ChunkAt
  <2>10. ParserAt(response, parser', got, e, Passed + Count)
    BY <1>2, <2>6, <2>9 DEF ParserAt
  <2>11. QED
    BY <2>6, <2>10
<1>14. CASE z < u /\ ~(u - z >= 2)
  <2>1. PICK x, b, y, e : x = 0 /\ b = a + z + 0 /\ y = z /\ e = "error"
    OBVIOUS
  <2>2. AfterDelivery.at = b /\ AfterDelivery.remain = y /\ AfterDelivery.step = e
    BY <1>2, <1>12, <1>14, <2>1, AfterIs
  <2>3. b \in 0..got /\ y \in -1..n /\ b = a + m + x /\ x \in Nat /\ m = z /\ 1..x = {}
    BY <1>3, <1>7, <1>8, <1>9, <1>12, <1>14, <2>1
  <2>4. /\ b \in 0..got /\ y \in -1..response.length /\ b = parser.at + Count + x /\ x \in Nat
        /\ e \in {"read", "parse", "end", "error"}
        /\ \A k \in 1..x : Wire[parser.at + Count + k].kind # "byte"
    BY <1>2, <2>1, <2>3
  <2>5. /\ Passed' = Passed + Count
        /\ (e # "error" => ParserAt(response, parser', got, e, Passed + Count)) => HttpInv'
    BY <2>2, <2>4, DeliverTypes
  <2>6. QED
    BY <2>1, <2>5
<1>15. CASE ~(z < u)
  <2>1. PICK x, b, y, e : x = 0 /\ b = got /\ y = z - u /\ e = "read"
    OBVIOUS
  <2>2. AfterDelivery.at = b /\ AfterDelivery.remain = y /\ AfterDelivery.step = e
    BY <1>2, <1>3, <1>12, <1>15, <2>1, AfterIs DEF Chunked
  <2>3. b \in 0..got /\ y \in -1..n /\ b = a + m + x /\ x \in Nat /\ m = u /\ 1..x = {}
    BY <1>3, <1>7, <1>8, <1>9, <1>12, <1>15, <2>1
  <2>4. /\ b \in 0..got /\ y \in -1..response.length /\ b = parser.at + Count + x /\ x \in Nat
        /\ e \in {"read", "parse", "end", "error"}
        /\ \A k \in 1..x : Wire[parser.at + Count + k].kind # "byte"
    BY <1>2, <2>1, <2>3
  <2>5. /\ parser'.at = b /\ parser'.remain = y /\ parser'.state = "body" /\ step' = e
        /\ Passed' = Passed + Count
        /\ (e # "error" => ParserAt(response, parser', got, e, Passed + Count)) => HttpInv'
    BY <2>2, <2>4, DeliverTypes
  <2>6. v <= s + m /\ s + m + y = v + l /\ b = p + 3 + (s + m - v) /\ y >= 0
    BY <1>3, <1>7, <1>9, <1>12, <1>15, <2>1, <2>3
  <2>7. InsideAt(n, parser', got, e, s + m, c)
    <3>1. PICK t : t = s + m
      OBVIOUS
    <3>2. e # "end" /\ e # "parse" /\ parser'.remain >= 0 /\ c < NumChunks(n)
      BY <1>6, <1>9, <2>1, <2>5, <2>6
    <3>3. Sent(c, n) <= t /\ t + parser'.remain = Sent(c + 1, n)
      BY <1>6, <1>7, <2>5, <2>6, <3>1
    <3>4. b = p + 3 + (t - v)
      BY <1>3, <1>7, <1>12, <2>3, <2>6, <3>1
    <3>5. parser'.at = Place(c, n) + 3 + (t - Sent(c, n))
      BY <1>6, <2>5, <3>4
    <3>6. QED
      BY <3>1, <3>2, <3>3, <3>5 DEF InsideAt
  <2>8. ChunkAt(n, parser', got, e, s + m)
    BY <2>7 DEF ChunkAt
  <2>9. ParserAt(response, parser', got, e, Passed + Count)
    BY <1>2, <2>5, <2>8 DEF ParserAt
  <2>10. QED
    BY <2>5, <2>9
<1>16. QED
  BY <1>13, <1>14, <1>15

LEMMA DeliverKeeps ==
  ASSUME HttpInv, Deliver
  PROVE  HttpInv' /\ Passed' = Passed + Count
BY DeliverPlain, DeliverChunked

(* All of a body has been passed at its end, and never more.               *)
LEMMA PassedBound ==
  ASSUME HttpInv, step \in Runs
  PROVE  Passed <= response.length /\ (step = "end" => Passed = response.length)
<1>1. HttpTypeOK /\ ParserAt(response, parser, got, step, Passed)
  BY DEF HttpInv
<1>2. PICK n, s, w : n = response.length /\ s = Passed /\ w = Wire
  OBVIOUS
<1>3. n \in Nat /\ s \in Nat /\ got \in Nat /\ got <= Len(w) /\ parser.at <= got /\ parser.at \in Nat /\ IsWire(w, response)
      /\ parser.remain \in Int
  BY <1>1, <1>2, HttpFacts
<1>4. CASE HeadAt(parser, step, Passed)
  BY <1>2, <1>3, <1>4 DEF HeadAt
<1>5. CASE PlainAt(response, parser, step, Passed)
  <2>1. Len(w) = 5 + n
    BY <1>2, <1>3, <1>5 DEF PlainAt, IsWire, IsPlain
  <2>2. parser.at = 5 + s
    BY <1>2, <1>5 DEF PlainAt
  <2>3. s <= n
    BY <1>3, <2>1, <2>2
  <2>4. step = "end" => s = n
    <3>1. SUFFICES ASSUME step = "end" PROVE s = n
      OBVIOUS
    <3>2. parser.remain = n - s /\ parser.remain = 0
      BY <1>2, <1>5, <3>1 DEF PlainAt
    <3>3. QED
      BY <1>3, <3>2
  <2>5. QED
    BY <1>2, <2>3, <2>4
<1>6. CASE ChunkAt(n, parser, got, step, s)
  <2>1. PICK c \in 0..NumChunks(n) :
          BetweenAt(n, parser, step, s, c) \/ InsideAt(n, parser, got, step, s, c) \/ BehindAt(n, parser, step, s, c)
    BY <1>6 DEF ChunkAt
  <2>2. c \in Nat
    BY <1>3, ChunkCount
  <2>3. Sent(c, n) \in 0..n /\ Sent(c + 1, n) \in 0..n
    <3>1. c + 1 \in Nat
      BY <2>2
    <3>2. QED
      BY <1>3, <2>2, <3>1, SentFacts
  <2>4. CASE BetweenAt(n, parser, step, s, c)
    BY <1>2, <1>3, <2>3, <2>4 DEF BetweenAt
  <2>5. CASE InsideAt(n, parser, got, step, s, c)
    <3>1. PICK y : y = Sent(c + 1, n)
      OBVIOUS
    <3>2. y <= n /\ y \in Nat /\ s + parser.remain = y /\ parser.remain >= 0 /\ step # "end"
      BY <1>3, <2>3, <2>5, <3>1 DEF InsideAt
    <3>3. QED
      BY <1>2, <1>3, <3>2
  <2>6. CASE BehindAt(n, parser, step, s, c)
    BY <1>2, <1>3, <2>6 DEF BehindAt
  <2>7. QED
    BY <2>1, <2>4, <2>5, <2>6
<1>7. QED
  BY <1>1, <1>2, <1>4, <1>5, <1>6 DEF ParserAt

LEMMA ConnectKeeps ==
  ASSUME NEW r \in Responses, Connect(r)
  PROVE  HttpInv' /\ Passed' = 0
<1>1. /\ response' = r /\ parser' = [state |-> "header", at |-> 0, remain |-> 0]
      /\ got' = 0 /\ step' = "read" /\ any' = FALSE
  BY DEF Connect
<1>2. parser'.state = "header" /\ parser'.at = 0 /\ parser'.remain = 0
  BY <1>1
<1>3. Passed' = 0
  <2>1. Passed' = BytesTo(Wire', parser'.at)
    BY DEF Passed, BytesTo
  <2>2. QED
    BY <1>2, <2>1, CountNone
<1>4. r.length \in Nat
  BY HttpAssumption DEF Responses
<1>5. Wire' = Wires[r]
  BY <1>1 DEF Wire
<1>6. Len(Wires[r]) \in Nat
  BY WireFacts, LenProperties DEF IsWire
<1>7. HttpTypeOK'
  <2>1. parser' \in [state : {"header", "body"}, at : 0..got', remain : -1..response'.length]
    BY <1>1, <1>4
  <2>2. got' \in 0..Len(Wire')
    BY <1>1, <1>5, <1>6
  <2>3. QED
    BY <1>1, <2>1, <2>2 DEF HttpTypeOK
<1>8. HeadAt(parser', step', Passed')
  BY <1>1, <1>2, <1>3 DEF HeadAt
<1>9. got' - parser'.at <= RecvMax
  BY <1>1, <1>2, HttpAssumption
<1>10. QED
  BY <1>3, <1>7, <1>8, <1>9 DEF HttpInv, ParserAt

LEMMA HttpSteps ==
  ASSUME HttpInv, Read \/ ReadFails \/ Parse
  PROVE  HttpInv' /\ Passed' = Passed /\ response' = response /\ any' = any
<1>1. CASE Read
  BY <1>1, ReadKeeps DEF Read
<1>2. CASE ReadFails
  BY <1>2, ReadFailsKeeps DEF ReadFails
<1>3. CASE PartOfLine
  BY <1>3, PartOfLineKeeps DEF PartOfLine
<1>4. CASE HeaderLine
  BY <1>4, HeaderLineKeeps DEF HeaderLine
<1>5. CASE HeaderEnd
  BY <1>5, HeaderEndKeeps DEF HeaderEnd
<1>6. CASE SizeLine
  BY <1>6, SizeLineKeeps DEF SizeLine
<1>7. CASE ChunkGap
  BY <1>7, ChunkGapKeeps DEF ChunkGap
<1>8. QED
  BY <1>1, <1>2, <1>3, <1>4, <1>5, <1>6, <1>7 DEF Parse

LEMMA HttpStays ==
  ASSUME HttpInv, UNCHANGED <<response, parser, got, any>>, step' = step \/ step' \in {"error", "done"}
  PROVE  HttpInv' /\ Passed' = Passed
<1>1. HttpTypeOK /\ got - parser.at <= RecvMax /\ (step \in Runs => ParserAt(response, parser, got, step, Passed))
  BY DEF HttpInv
<1>2. /\ got \in Nat /\ got <= Len(Wire) /\ parser \in Parsers(got, response.length) /\ any \in BOOLEAN
      /\ step \in {"read", "parse", "end", "error", "closed", "done"}
  BY <1>1, HttpFacts DEF HttpTypeOK
<1>3. Passed' = Passed
  BY PassedStays
<1>4. step' \in {"read", "parse", "end", "error", "closed", "done"}
  BY <1>2
<1>5. step' \in Runs => step' = step /\ step \in Runs
  BY DEF Runs
<1>6. step' \in Runs => ParserAt(response, parser', got', step', Passed')
  BY <1>1, <1>3, <1>5
<1>7. QED
  BY <1>1, <1>2, <1>3, <1>4, <1>6, HttpKept

LEMMA SomeLength == (CHOOSE n \in Lengths : TRUE) \in Lengths
<1>1. Size(AppImage) \in Lengths
  BY DownloadAssumption
<1>2. QED
  BY <1>1

IsIdle == response = Idle.response /\ parser = Idle.parser /\ got = 0 /\ step = "done" /\ any = FALSE

LEMMA IdleInv ==
  ASSUME IsIdle
  PROVE  HttpInv
<1>1. Idle.response = [mode |-> "close", length |-> CHOOSE n \in Lengths : TRUE]
      /\ Idle.parser = [state |-> "header", at |-> 0, remain |-> 0]
  BY DEF Idle
<1>0. response = Idle.response /\ parser = Idle.parser /\ got = 0 /\ step = "done" /\ any = FALSE
  BY DEF IsIdle
<1>2. response \in Responses /\ response.length \in Nat
  <2>1. PICK n : n = CHOOSE m \in Lengths : TRUE
    OBVIOUS
  <2>2. n \in Lengths
    BY <2>1, SomeLength
  <2>3. response = [mode |-> "close", length |-> n]
    BY <1>0, <1>1, <2>1
  <2>4. QED
    BY <2>2, <2>3, HttpAssumption DEF Responses, Modes
<1>3. Len(Wire) \in Nat
  BY <1>2, WireFacts, LenProperties DEF IsWire, Wire
<1>4. parser.at = 0 /\ parser \in [state : {"header", "body"}, at : 0..got, remain : -1..response.length]
  BY <1>0, <1>1, <1>2
<1>a. got \in 0..Len(Wire)
  BY <1>0, <1>3
<1>b. step \in {"read", "parse", "end", "error", "closed", "done"} /\ any \in BOOLEAN
  BY <1>0
<1>5. HttpTypeOK
  BY <1>2, <1>4, <1>a, <1>b, Zenon DEF HttpTypeOK
<1>6. got - parser.at <= RecvMax
  BY <1>0, <1>4, HttpAssumption
<1>7. ~(step \in Runs)
  BY <1>0 DEF Runs
<1>8. QED
  BY <1>5, <1>6, <1>7 DEF HttpInv

LEMMA IdleInvNext == IsIdle' => HttpInv'
<1>1. IsIdle => HttpInv
  BY IdleInv
<1>2. QED
  BY <1>1, PTL

LEMMA DisconnectKeeps ==
  ASSUME Disconnect
  PROVE  HttpInv'
<1>1. IsIdle'
  BY DEF Disconnect, IsIdle, Idle
<1>2. QED
  BY <1>1, IdleInvNext

-----------------------------------------------------------------------------
(* The sectors and the buffer.                                             *)
SectorCells == [1..Sector -> Cells]

LEMMA PieceOfSector ==
  ASSUME NEW v \in SectorCells, NEW t \in 0..Sector
  PROVE  SubSeq(v, 1, t) \in Seq(Cells) /\ Len(SubSeq(v, 1, t)) = t /\ \A k \in 1..t : SubSeq(v, 1, t)[k] = v[k]
<1>1. PICK a, s : a = 1 /\ s = SubSeq(v, a, t)
  OBVIOUS
<1>2. t \in Nat /\ t <= Sector
  <2>1. Sector \in Nat
    BY DownloadAssumption
  <2>2. QED
    BY <2>1
<1>3. a \in Int /\ t \in Int /\ \A i \in a..t : v[i] \in Cells
  <2>1. a = 1 /\ t \in Int /\ Sector \in Nat
    BY <1>1, <1>2, DownloadAssumption
  <2>2. \A i \in a..t : i \in 1..Sector
    BY <1>2, <2>1
  <2>3. \A i \in 1..Sector : v[i] \in Cells
    BY DEF SectorCells
  <2>4. QED
    BY <2>1, <2>2, <2>3
<1>4. /\ s \in Seq(Cells) /\ Len(s) = IF a <= t THEN t - a + 1 ELSE 0
      /\ \A i \in 1..t-a+1 : s[i] = v[a + i - 1]
  BY <1>1, <1>3, SubSeqProperties
<1>5. Len(s) = t
  BY <1>1, <1>2, <1>4
<1>6. ASSUME NEW k \in 1..t PROVE s[k] = v[k]
  <2>1. k \in 1..t-a+1 /\ a + k - 1 = k
    BY <1>1, <1>2
  <2>2. QED
    BY <1>4, <2>1
<1>7. QED
  BY <1>1, <1>4, <1>5, <1>6

(* What f and the first o cells of b hold: the first p bytes of image i.   *)
IsHeld(f, b, o, p, i) ==
  /\ Len(f) + o = p
  /\ \A k \in 1..Len(f) : f[k] = <<i, k>>
  /\ \A k \in 1..o : b[k] = <<i, Len(f) + k>>

HoldsBytes(f, b, o, p, i) == f \o SubSeq(b, 1, o) = [k \in 1..p |-> <<i, k>>]

LEMMA HeldJoined ==
  ASSUME NEW f \in Seq(Cells), NEW b \in SectorCells, NEW o \in 0..Sector, NEW p \in Nat, NEW i
  PROVE  HoldsBytes(f, b, o, p, i) <=> IsHeld(f, b, o, p, i)
<1>1. PICK s, x, l : s = SubSeq(b, 1, o) /\ x = f \o s /\ l = Len(f)
  OBVIOUS
<1>2. s \in Seq(Cells) /\ Len(s) = o /\ \A k \in 1..o : s[k] = b[k]
  BY <1>1, PieceOfSector
<1>3. o \in Nat /\ l \in Nat
  BY <1>1, LenProperties, DownloadAssumption
<1>4. x \in Seq(Cells) /\ IsJoin(x, f, l, s, o)
  BY <1>1, <1>2, Joined
<1>5. Len(x) = l + o /\ (\A k \in 1..l : x[k] = f[k]) /\ \A k \in 1..o : x[l + k] = b[k]
  BY <1>2, <1>4 DEF IsJoin
<1>6. ASSUME IsHeld(f, b, o, p, i) PROVE x = [k \in 1..p |-> <<i, k>>]
  <2>1. l + o = p /\ (\A k \in 1..l : f[k] = <<i, k>>) /\ \A k \in 1..o : b[k] = <<i, l + k>>
    BY <1>1, <1>6 DEF IsHeld
  <2>2. ASSUME NEW k \in 1..p PROVE x[k] = <<i, k>>
    <3>1. CASE k <= l
      BY <1>3, <1>5, <2>1, <3>1
    <3>2. CASE ~(k <= l)
      <4>1. PICK j : j = k - l
        OBVIOUS
      <4>2. j \in 1..o /\ l + j = k
        BY <1>3, <2>1, <3>2, <4>1
      <4>3. QED
        BY <1>5, <2>1, <4>2
    <3>3. QED
      BY <3>1, <3>2
  <2>3. x = [k \in 1..p |-> x[k]]
    BY <1>4, <1>5, <2>1
  <2>4. QED
    BY <2>2, <2>3
<1>7. ASSUME x = [k \in 1..p |-> <<i, k>>] PROVE IsHeld(f, b, o, p, i)
  <2>1. Len(x) = p
    <3>1. DOMAIN x = 1..p
      BY <1>7
    <3>2. DOMAIN x = 1..Len(x) /\ Len(x) \in Nat
      BY <1>4, LenProperties
    <3>3. QED
      BY <3>1, <3>2
  <2>2. \A k \in 1..p : x[k] = <<i, k>>
    BY <1>7
  <2>3. l + o = p
    BY <1>5, <2>1
  <2>4. ASSUME NEW k \in 1..l PROVE f[k] = <<i, k>>
    <3>1. k \in 1..p
      BY <1>3, <2>3
    <3>2. QED
      BY <1>5, <2>2, <3>1
  <2>5. ASSUME NEW k \in 1..o PROVE b[k] = <<i, l + k>>
    <3>1. l + k \in 1..p
      BY <1>3, <2>3
    <3>2. QED
      BY <1>5, <2>2, <3>1
  <2>6. QED
    BY <1>1, <2>3, <2>4, <2>5 DEF IsHeld
<1>8. QED
  BY <1>1, <1>6, <1>7 DEF HoldsBytes

(* The flushed sectors, one behind the other.                              *)
Pieces(fl, fi, n) == [s \in 1..n |-> SubSeq(fl[s - 1], 1, fi[s])]

LEMMA PiecesType ==
  ASSUME NEW fl \in [0..Top -> SectorCells], NEW fi \in Seq({Sector - 1, Sector}),
         NEW n \in Nat, n = Len(fi), n <= Top
  PROVE  Pieces(fl, fi, n) \in Seq(Seq(Cells)) /\ Len(Pieces(fl, fi, n)) = n
<1>1. ASSUME NEW s \in 1..n PROVE SubSeq(fl[s - 1], 1, fi[s]) \in Seq(Cells)
  <2>1. PICK v, t : v = fl[s - 1] /\ t = fi[s]
    OBVIOUS
  <2>2. v \in SectorCells
    <3>1. s - 1 \in 0..Top
      BY DownloadAssumption
    <3>2. QED
      BY <2>1, <3>1
  <2>3. t \in 0..Sector
    <3>1. t \in {Sector - 1, Sector}
      BY <2>1, ElementOfSeq
    <3>2. QED
      BY <3>1, DownloadAssumption
  <2>4. QED
    BY <2>1, <2>2, <2>3, PieceOfSector
<1>2. QED
  BY <1>1 DEF Pieces

LEMMA PiecesGrow ==
  ASSUME NEW fl \in [0..Top -> SectorCells], NEW fi \in Seq({Sector - 1, Sector}),
         NEW n \in Nat, n = Len(fi), n <= Top,
         NEW v \in SectorCells, NEW t \in {Sector - 1, Sector}
  PROVE  Pieces([fl EXCEPT ![n] = v], Append(fi, t), n + 1) = Append(Pieces(fl, fi, n), SubSeq(v, 1, t))
<1>1. PICK g, h, p, q, z : /\ g = [fl EXCEPT ![n] = v] /\ h = Append(fi, t) /\ p = Pieces(fl, fi, n)
                           /\ z = SubSeq(v, 1, t) /\ q = Append(p, z)
  OBVIOUS
<1>2. p \in Seq(Seq(Cells)) /\ Len(p) = n
  BY <1>1, PiecesType
<1>3. z \in Seq(Cells)
  <2>1. t \in 0..Sector
    BY DownloadAssumption
  <2>2. QED
    BY <1>1, <2>1, PieceOfSector
<1>4. q \in Seq(Seq(Cells)) /\ Len(q) = n + 1 /\ (\A s \in 1..n : q[s] = p[s]) /\ q[n+1] = z
  BY <1>1, <1>2, <1>3, AppendProperties
<1>5. (\A s \in 1..n : h[s] = fi[s]) /\ h[n+1] = t
  BY <1>1, AppendProperties
<1>6. ASSUME NEW s \in 1..n+1 PROVE SubSeq(g[s - 1], 1, h[s]) = q[s]
  <2>1. CASE s \in 1..n
    <3>1. s - 1 \in 0..Top /\ s - 1 # n
      BY <2>1, DownloadAssumption
    <3>2. g[s - 1] = fl[s - 1]
      BY <1>1, <3>1
    <3>3. p[s] = SubSeq(fl[s - 1], 1, fi[s])
      BY <1>1, <2>1 DEF Pieces
    <3>4. QED
      BY <1>4, <1>5, <2>1, <3>2, <3>3
  <2>2. CASE s = n + 1
    <3>1. s - 1 = n /\ n \in 0..Top
      BY <2>2, DownloadAssumption
    <3>2. g[s - 1] = v
      BY <1>1, <3>1
    <3>3. QED
      BY <1>1, <1>4, <1>5, <2>2, <3>2
  <2>3. QED
    BY <2>1, <2>2
<1>7. Pieces(g, h, n + 1) = q
  <2>1. q = [s \in 1..n+1 |-> q[s]]
    BY <1>4
  <2>2. Pieces(g, h, n + 1) = [s \in 1..n+1 |-> SubSeq(g[s - 1], 1, h[s])]
    BY DEF Pieces
  <2>3. QED
    BY <1>6, <2>1, <2>2
<1>8. QED
  BY <1>1, <1>7

(* The state of the writer while a body of image i comes in, p bytes of it *)
(* so far: n sectors fl flushed, fi bytes of the body in each, and o bytes *)
(* in the buffer bf.                                                       *)
Joint(fl, fi, n) == Seqs!FlattenSeq(Pieces(fl, fi, n))
Ordered(fl, n, i) == \A s \in 0..n-1 : \A k \in 1..Sector : fl[s][k] = <<i, s * Sector + k>>
AllWhole(fi, n) == \A s \in 1..n : fi[s] = Sector

Gathers(fl, bf, o, n, fi, p, i) ==
  /\ o <= Sector - 2 /\ Len(fi) = n /\ n * (Sector - 1) + o <= p
  /\ IsHeld(Joint(fl, fi, n), bf, o, p, i)
  /\ \A s \in 0..n-1 : fl[s][1][1] = i
  /\ o = 0 /\ n > 0 => bf[1] = Blank
  /\ AllWhole(fi, n) => p = n * Sector + o /\ Ordered(fl, n, i)

LEMMA Multiples ==
  ASSUME NEW n \in Nat
  PROVE  /\ n * Sector \in Nat /\ n * (Sector - 1) \in Nat
         /\ (n + 1) * Sector = n * Sector + Sector
         /\ (n + 1) * (Sector - 1) = n * (Sector - 1) + (Sector - 1)
<1>1. PICK d : d = Sector - 1
  OBVIOUS
<1>2. d \in Nat /\ Sector \in Nat
  BY <1>1, DownloadAssumption
<1>3. n * d \in Nat /\ (n + 1) * d = n * d + d
  BY <1>2
<1>4. n * Sector \in Nat /\ (n + 1) * Sector = n * Sector + Sector
  BY <1>2
<1>5. QED
  BY <1>1, <1>3, <1>4

LEMMA GathersNothing ==
  ASSUME NEW fl, NEW bf, NEW o, NEW n, NEW p, NEW i, o = 0, n = 0, p = 0
  PROVE  Gathers(fl, bf, o, n, <<>>, p, i)
<1>1. Joint(fl, <<>>, n) = <<>>
  <2>1. Pieces(fl, <<>>, 0) = <<>>
    BY DEF Pieces
  <2>2. QED
    BY <2>1, FlattenEmpty DEF Joint
<1>2. Len(<<>>) = 0
  OBVIOUS
<1>3. IsHeld(Joint(fl, <<>>, n), bf, o, p, i)
  BY <1>1, <1>2 DEF IsHeld
<1>4. n * Sector = 0 /\ n * (Sector - 1) = 0
  BY DownloadAssumption
<1>5. 0..n-1 = {}
  OBVIOUS
<1>6. o <= Sector - 2 /\ n * (Sector - 1) + o <= p /\ p = n * Sector + o /\ ~(n > 0)
  BY <1>4, DownloadAssumption
<1>7. QED
  BY <1>2, <1>3, <1>5, <1>6 DEF Gathers, Ordered

LEMMA GathersMore ==
  ASSUME NEW fl, NEW bf, NEW o \in Nat, NEW n \in Nat, NEW fi, NEW p \in Nat, NEW i, Gathers(fl, bf, o, n, fi, p, i),
         Joint(fl, fi, n) \in Seq(Cells),
         NEW v, NEW m \in Nat, NEW w, NEW q, w = o + m, q = p + m, w <= Sector - 2,
         \A k \in 1..o : v[k] = bf[k], \A k \in 1..m : v[o + k] = <<i, p + k>>, m = 0 => v = bf
  PROVE  Gathers(fl, v, w, n, fi, q, i)
<1>1. PICK f, l, x, y : f = Joint(fl, fi, n) /\ l = Len(f) /\ x = n * (Sector - 1) /\ y = n * Sector
  OBVIOUS
<1>2. l \in Nat /\ x \in Nat /\ y \in Nat
  BY <1>1, LenProperties, Multiples
<1>3. l + o = p /\ (\A k \in 1..l : f[k] = <<i, k>>) /\ \A k \in 1..o : bf[k] = <<i, l + k>>
  BY <1>1 DEF Gathers, IsHeld
<1>4. l + w = q
  BY <1>2, <1>3
<1>5. ASSUME NEW k \in 1..w PROVE v[k] = <<i, l + k>>
  <2>1. CASE k <= o
    BY <1>3, <2>1
  <2>2. CASE ~(k <= o)
    <3>1. PICK j : j = k - o
      OBVIOUS
    <3>2. j \in 1..m /\ o + j = k /\ p + j = l + k
      BY <1>2, <1>3, <2>2, <3>1
    <3>3. QED
      BY <3>2
  <2>3. QED
    BY <2>1, <2>2
<1>6. IsHeld(f, v, w, q, i)
  BY <1>1, <1>3, <1>4, <1>5 DEF IsHeld
<1>7. x + w <= q
  <2>1. x + o <= p
    BY <1>1 DEF Gathers
  <2>2. QED
    BY <1>2, <2>1
<1>8. AllWhole(fi, n) => q = y + w /\ Ordered(fl, n, i)
  <2>1. AllWhole(fi, n) => p = y + o /\ Ordered(fl, n, i)
    BY <1>1 DEF Gathers
  <2>2. QED
    BY <1>2, <2>1
<1>9. w = 0 /\ n > 0 => v[1] = Blank
  <2>1. o = 0 /\ n > 0 => bf[1] = Blank
    BY DEF Gathers
  <2>2. QED
    BY <2>1
<1>10. Len(fi) = n /\ \A s \in 0..n-1 : fl[s][1][1] = i
  BY DEF Gathers
<1>11. QED
  BY <1>1, <1>6, <1>7, <1>8, <1>9, <1>10 DEF Gathers

(* A sector v gets t of the m bytes that come in, and the buffer b the rest.*)
FillsSector(fl, bf, o, n, fi, p, i, v, m, t, b) ==
  /\ fl \in [0..Top -> SectorCells] /\ o \in Nat /\ n \in Nat /\ n <= Top /\ fi \in Seq({Sector - 1, Sector})
  /\ p \in Nat /\ m \in Nat /\ t \in 1..m
  /\ Gathers(fl, bf, o, n, fi, p, i)
  /\ v \in SectorCells /\ o + t \in {Sector - 1, Sector}
  /\ \A k \in 1..o : v[k] = bf[k]
  /\ \A k \in 1..t : v[o + k] = <<i, p + k>>
  /\ m - t \in Nat /\ m - t <= Sector - 2
  /\ \A k \in 1..(m - t) : b[k] = <<i, p + t + k>>
  /\ m - t = 0 => b[1] = Blank

LEMMA GathersSector ==
  ASSUME NEW fl, NEW bf, NEW o, NEW n, NEW fi, NEW p, NEW i, NEW v, NEW m, NEW t, NEW b,
         FillsSector(fl, bf, o, n, fi, p, i, v, m, t, b)
  PROVE  Gathers([fl EXCEPT ![n] = v], b, m - t, n + 1, Append(fi, o + t), p + m, i)
<1> PICK u, w, q, g, h, r : /\ u = o + t /\ w = m - t /\ q = p + m
                            /\ g = [fl EXCEPT ![n] = v] /\ h = Append(fi, u) /\ r = n + 1
  OBVIOUS
<1> SUFFICES ASSUME fl \in [0..Top -> SectorCells], o \in Nat, n \in Nat, n <= Top, fi \in Seq({Sector - 1, Sector}),
                    p \in Nat, m \in Nat, t \in 1..m, Gathers(fl, bf, o, n, fi, p, i),
                    v \in SectorCells, u \in {Sector - 1, Sector},
                    \A k \in 1..o : v[k] = bf[k], \A k \in 1..t : v[o + k] = <<i, p + k>>,
                    w \in Nat, w <= Sector - 2,
                    \A k \in 1..w : b[k] = <<i, p + t + k>>, w = 0 => b[1] = Blank
             PROVE  Gathers(g, b, w, r, h, q, i)
  BY DEF FillsSector
<1>1. PICK f, l, x, y, z : /\ f = Joint(fl, fi, n) /\ l = Len(f) /\ x = n * (Sector - 1) /\ y = n * Sector
                           /\ z = SubSeq(v, 1, u)
  OBVIOUS
<1>2. Len(fi) = n /\ o <= Sector - 2 /\ x + o <= p
  BY <1>1 DEF Gathers
<1>3. Pieces(fl, fi, n) \in Seq(Seq(Cells))
  BY <1>2, PiecesType
<1>4. f \in Seq(Cells)
  BY <1>1, <1>3, FlattenType DEF Joint
<1>5. l \in Nat /\ x \in Nat /\ y \in Nat
  BY <1>1, <1>4, LenProperties, Multiples
<1>6. l + o = p /\ (\A k \in 1..l : f[k] = <<i, k>>) /\ \A k \in 1..o : bf[k] = <<i, l + k>>
  BY <1>1 DEF Gathers, IsHeld
<1>7. u \in 0..Sector /\ u \in Nat
  <2>1. Sector \in Nat /\ Sector > 1
    BY DownloadAssumption
  <2>2. u = Sector - 1 \/ u = Sector
    OBVIOUS
  <2>3. QED
    BY <2>1, <2>2
<1>8. z \in Seq(Cells) /\ Len(z) = u /\ \A k \in 1..u : z[k] = v[k]
  BY <1>1, <1>7, PieceOfSector
<1>9. Joint(g, h, r) = f \o z
  <2>1. Pieces(g, h, r) = Append(Pieces(fl, fi, n), z)
    BY <1>1, <1>2, PiecesGrow
  <2>2. QED
    BY <1>1, <1>3, <1>8, <2>1, FlattenAppend DEF Joint
<1>10. PICK c : c = f \o z
  OBVIOUS
<1>11. Len(c) = l + u /\ (\A k \in 1..l : c[k] = f[k]) /\ \A k \in 1..u : c[l + k] = z[k]
  <2>1. IsJoin(c, f, l, z, u)
    BY <1>1, <1>4, <1>8, <1>10, Joined
  <2>2. QED
    BY <2>1 DEF IsJoin
<1>12. ASSUME NEW k \in 1..u PROVE v[k] = <<i, l + k>>
  <2>1. CASE k <= o
    <3>1. k \in 1..o
      BY <1>7, <2>1
    <3>2. v[k] = bf[k] /\ bf[k] = <<i, l + k>>
      BY <1>6, <3>1
    <3>3. QED
      BY <3>2
  <2>2. CASE ~(k <= o)
    <3>1. PICK j : j = k - o
      OBVIOUS
    <3>2. j \in 1..t /\ o + j = k /\ p + j = l + k
      BY <1>5, <1>6, <1>7, <2>2, <3>1
    <3>3. QED
      BY <3>2
  <2>3. QED
    BY <2>1, <2>2
<1>13. IsHeld(c, b, w, q, i)
  <2>1. Len(c) + w = q
    BY <1>5, <1>6, <1>7, <1>11
  <2>2. ASSUME NEW k \in 1..Len(c) PROVE c[k] = <<i, k>>
    <3>1. CASE k <= l
      <4>1. k \in 1..l
        BY <1>5, <1>7, <1>11, <3>1
      <4>2. c[k] = f[k] /\ f[k] = <<i, k>>
        BY <1>6, <1>11, <4>1
      <4>3. QED
        BY <4>2
    <3>2. CASE ~(k <= l)
      <4>1. PICK j : j = k - l
        OBVIOUS
      <4>2. j \in 1..u /\ l + j = k
        BY <1>5, <1>7, <1>11, <3>2, <4>1
      <4>3. c[k] = z[j] /\ z[j] = v[j]
        BY <1>8, <1>11, <4>2
      <4>4. v[j] = <<i, l + j>>
        BY <1>12, <4>2
      <4>5. QED
        BY <4>2, <4>3, <4>4
    <3>3. QED
      BY <3>1, <3>2
  <2>3. ASSUME NEW k \in 1..w PROVE b[k] = <<i, Len(c) + k>>
    <3>1. l + o = p /\ Len(c) = l + u
      BY <1>6, <1>11
    <3>2. t \in Nat
      OBVIOUS
    <3>3. p + t = l + u
      BY <1>5, <3>1, <3>2
    <3>4. Len(c) = p + t
      BY <3>1, <3>3
    <3>5. b[k] = <<i, p + t + k>>
      OBVIOUS
    <3>6. QED
      BY <3>4, <3>5
  <2>4. QED
    BY <2>1, <2>2, <2>3 DEF IsHeld
<1>14. Len(h) = r /\ (\A s \in 1..n : h[s] = fi[s]) /\ h[n+1] = u
  BY <1>2, AppendProperties
<1>15. r * (Sector - 1) + w <= q
  <2>1. PICK e, d : e = Sector - 1 /\ d = r * (Sector - 1)
    OBVIOUS
  <2>2. d = x + e
    BY <1>1, <2>1, Multiples
  <2>3. e \in Nat /\ (u = e \/ u = e + 1)
    BY <2>1, DownloadAssumption
  <2>4. d + w <= q
    BY <1>2, <1>5, <2>2, <2>3
  <2>5. QED
    BY <2>1, <2>4
<1>16. n \in 0..Top
  BY DownloadAssumption
<1>17. g[n] = v /\ \A s \in 0..n-1 : g[s] = fl[s]
  <2>1. \A s \in 0..n-1 : s \in 0..Top /\ s # n
    BY DownloadAssumption
  <2>2. QED
    BY <1>16, <2>1
<1>18. ASSUME NEW s \in 0..r-1 PROVE g[s][1][1] = i
  <2>1. CASE s \in 0..n-1
    BY <1>17, <2>1 DEF Gathers
  <2>2. CASE s = n
    <3>1. 1 \in 1..u
      BY <1>7
    <3>2. v[1] = <<i, l + 1>>
      BY <1>12, <3>1
    <3>3. QED
      BY <1>17, <2>2, <3>2
  <2>3. QED
    BY <2>1, <2>2
<1>19. ASSUME AllWhole(h, r) PROVE q = r * Sector + w /\ Ordered(g, r, i)
  <2>1. AllWhole(fi, n) /\ u = Sector
    <3>1. \A s \in 1..n : s \in 1..r
      OBVIOUS
    <3>2. n + 1 \in 1..r
      OBVIOUS
    <3>3. QED
      BY <1>14, <1>19, <3>1, <3>2 DEF AllWhole
  <2>2. p = y + o /\ Ordered(fl, n, i)
    BY <1>1, <2>1 DEF Gathers
  <2>3. PICK e : e = r * Sector
    OBVIOUS
  <2>4. e = y + Sector
    BY <1>1, <2>3, Multiples
  <2>5. q = e + w
    BY <1>5, <1>7, <2>1, <2>2, <2>4, DownloadAssumption
  <2>6. l = y
    <3>1. l + o = y + o
      BY <1>6, <2>2
    <3>2. QED
      BY <1>5, <3>1
  <2>7. Ordered(g, r, i)
    <3>1. ASSUME NEW s \in 0..r-1, NEW k \in 1..Sector PROVE g[s][k] = <<i, s * Sector + k>>
      <4>1. CASE s \in 0..n-1
        BY <1>17, <2>2, <4>1 DEF Ordered
      <4>2. CASE s = n
        <5>1. v[k] = <<i, l + k>>
          BY <1>12, <2>1
        <5>2. QED
          BY <1>1, <1>17, <2>6, <4>2, <5>1
      <4>3. QED
        BY <4>1, <4>2
    <3>2. QED
      BY <3>1 DEF Ordered
  <2>8. QED
    BY <2>3, <2>5, <2>7
<1>20. IsHeld(Joint(g, h, r), b, w, q, i)
  BY <1>9, <1>10, <1>13
<1>21. QED
  BY <1>14, <1>15, <1>18, <1>19, <1>20 DEF Gathers

-----------------------------------------------------------------------------
(* What the callback is given, and what it makes of the buffer.            *)
WriterTypeOK ==
  /\ flash \in [0..Top -> SectorCells]
  /\ upg \in {"unset", "downloadOk"}
  /\ pc \in {"run", "receive", "leave", "accept", "reboot"}
  /\ stream \in Images
  /\ buffer \in SectorCells /\ allocated \in BOOLEAN
  /\ offset \in 0..Sector /\ flushed \in 0..Top
  /\ fills \in Seq({Sector - 1, Sector})
  /\ precheckOk \in BOOLEAN /\ ready \in BOOLEAN
  /\ attempts \in 0..MaxAttempts

LEMMA TypeSplit == TypeOK <=> HttpTypeOK /\ WriterTypeOK
BY DEF TypeOK, WriterTypeOK, SectorCells

LEMMA SectorSize ==
  /\ Sector \in Nat /\ Sector > 1 /\ Sector - 1 \in Nat /\ Sector - 1 > 0 /\ RecvMax <= Sector /\ RecvMax \in Nat
  /\ Top \in Nat /\ Last \in Nat /\ Last > 0
BY DownloadAssumption, HttpAssumption

LEMMA BodyIs ==
  ASSUME HttpInv, Delivers
  PROVE  /\ Passed \in Nat /\ Count \in Nat /\ Count <= RecvMax /\ Passed + Count <= response.length
         /\ Len(Body) = Count
         /\ \A k \in 1..Count : Body[k] = <<stream, Passed + k>>
<1>1. /\ Count \in Nat /\ Count <= RecvMax /\ Passed + Count <= response.length
      /\ Len(Delivered) = Count
      /\ \A k \in 1..Count : Delivered[k] = Token("byte", Passed + k)
  BY DeliveredBytes
<1>2. PICK c, d, b, p : c = Count /\ d = Delivered /\ b = Body /\ p = Passed
  OBVIOUS
<1>3. b = [k \in 1..c |-> <<stream, d[k].n>>]
  BY <1>1, <1>2 DEF Body
<1>4. Len(b) = c
  BY <1>1, <1>2, <1>3
<1>5. ASSUME NEW k \in 1..c PROVE b[k] = <<stream, p + k>>
  <2>1. d[k] = Token("byte", p + k)
    BY <1>1, <1>2
  <2>2. d[k].n = p + k
    BY <2>1 DEF Token
  <2>3. QED
    BY <1>3, <2>2
<1>6. Passed \in Nat
  BY HttpFacts DEF HttpInv
<1>7. QED
  BY <1>1, <1>2, <1>4, <1>5, <1>6

LEMMA CellIs ==
  ASSUME NEW i \in Images, NEW k \in Nat, k > 0
  PROVE  <<i, k>> \in Cells
BY DEF Cells

LEMMA TakenIs ==
  ASSUME HttpInv, WriterTypeOK, Delivers
  PROVE  /\ Taken \in Nat /\ Taken <= Count /\ offset + Taken <= Sector
         /\ Taken < Count => offset + Taken = Sector
<1>1. Count \in Nat /\ Len(Body) = Count
  BY BodyIs
<1>2. PICK c, o, t : c = Count /\ o = offset /\ t = Taken
  OBVIOUS
<1>3. t = IF o + c < Sector THEN c ELSE Sector - o
  BY <1>1, <1>2 DEF Taken
<1>4. o \in 0..Sector /\ c \in Nat
  BY <1>1, <1>2 DEF WriterTypeOK
<1>5. t \in Nat /\ t <= c /\ o + t <= Sector /\ (t < c => o + t = Sector)
  BY <1>3, <1>4, SectorSize
<1>6. QED
  BY <1>2, <1>5

LEMMA FilledIs ==
  ASSUME HttpInv, WriterTypeOK, Delivers
  PROVE  /\ Filled \in SectorCells
         /\ \A k \in 1..offset : Filled[k] = buffer[k]
         /\ \A k \in 1..Taken : Filled[offset + k] = <<stream, Passed + k>>
         /\ Taken = 0 => Filled = buffer
<1>1. PICK c, o, t, b, p, f : c = Count /\ o = offset /\ t = Taken /\ b = Body /\ p = Passed /\ f = Filled
  OBVIOUS
<1>2. t \in Nat /\ t <= c /\ o + t <= Sector /\ c \in Nat /\ p \in Nat /\ o \in Nat
  BY <1>1, TakenIs, BodyIs, SectorSize DEF WriterTypeOK
<1>3. \A k \in 1..c : b[k] = <<stream, p + k>>
  BY <1>1, BodyIs
<1>4. f = [k \in 1..Sector |-> IF k \in o + 1..o + t THEN b[k - o] ELSE buffer[k]]
  BY <1>1 DEF Filled
<1>5. buffer \in SectorCells /\ stream \in Images
  BY DEF WriterTypeOK
<1>6. ASSUME NEW k \in 1..t PROVE o + k \in 1..Sector /\ f[o + k] = <<stream, p + k>>
  <2>1. PICK j : j = o + k
    OBVIOUS
  <2>2. j \in 1..Sector /\ j \in o + 1..o + t /\ j - o = k /\ k \in 1..c
    BY <1>2, <2>1, SectorSize
  <2>3. f[j] = b[k]
    BY <1>4, <2>2
  <2>4. QED
    BY <1>3, <2>1, <2>2, <2>3
<1>7. ASSUME NEW k \in 1..Sector, ~(k \in o + 1..o + t) PROVE f[k] = buffer[k]
  BY <1>4, <1>7
<1>8. ASSUME NEW k \in 1..Sector PROVE f[k] \in Cells
  <2>1. CASE k \in o + 1..o + t
    <3>1. PICK j : j = k - o
      OBVIOUS
    <3>2. j \in 1..t /\ o + j = k
      BY <1>2, <2>1, <3>1
    <3>3. f[k] = <<stream, p + j>>
      BY <1>6, <3>2
    <3>4. p + j \in Nat /\ p + j > 0
      BY <1>2, <3>2
    <3>5. QED
      BY <1>5, <3>3, <3>4, CellIs
  <2>2. CASE ~(k \in o + 1..o + t)
    BY <1>5, <1>7, <2>2 DEF SectorCells
  <2>3. QED
    BY <2>1, <2>2
<1>9. f = [k \in 1..Sector |-> f[k]]
  BY <1>4
<1>10. f \in SectorCells
  BY <1>8, <1>9 DEF SectorCells
<1>11. ASSUME NEW k \in 1..o PROVE f[k] = buffer[k]
  <2>1. k \in 1..Sector /\ ~(k \in o + 1..o + t)
    BY <1>2, SectorSize
  <2>2. QED
    BY <1>7, <2>1
<1>12. ASSUME t = 0 PROVE f = buffer
  <2>1. \A k \in 1..Sector : ~(k \in o + 1..o + t)
    BY <1>2, <1>12
  <2>2. \A k \in 1..Sector : f[k] = buffer[k]
    BY <1>7, <2>1
  <2>3. buffer = [k \in 1..Sector |-> buffer[k]]
    BY <1>5 DEF SectorCells
  <2>4. QED
    BY <1>9, <2>2, <2>3
<1>13. QED
  BY <1>1, <1>6, <1>10, <1>11, <1>12

(* The sectors flushed are sectors of the flash: what has come in of a body*)
(* is not longer than the longest one.                                     *)
LEMMA SectorsFit ==
  ASSUME NEW n \in Nat, NEW l \in Lengths, n * (Sector - 1) <= l
  PROVE  n <= Top
<1>1. PICK d, q : d = Sector - 1 /\ q = l \div d
  OBVIOUS
<1>2. d \in Nat \ {0} /\ n * d <= l
  BY <1>1, SectorSize
<1>3. l \in Nat
  BY HttpAssumption
<1>4. \A a \in Nat : \A e \in Nat \ {0} : \A m \in Nat : m * e <= a => m <= a \div e
  OBVIOUS
<1>5. n <= q
  BY <1>1, <1>2, <1>3, <1>4
<1>6. q <= Top /\ q \in Int
  BY <1>1, <1>2, <1>3, DownloadAssumption
<1>7. QED
  BY <1>5, <1>6, SectorSize

-----------------------------------------------------------------------------
(* The inductive invariant of the download.                                *)

(* While a response comes in, the sectors and the buffer hold what has been*)
(* passed of its body.                                                     *)
Gathered ==
  pc = "receive" /\ step \in Runs => Gathers(flash, buffer, offset, flushed, fills, Passed, stream)

(* Nothing is flushed of a response without a body, and the thread does not*)
(* go on behind a response that had one.                                   *)
AnyInv == pc = "receive" => (flushed > 0 => any) /\ (step = "done" => ~any)

(* A body received to its end is in the flash.                             *)
IsWritten(fl, l, i) ==
  \A s \in 0..Top : \A k \in 1..Sector : s * Sector + k <= l => fl[s][k] = <<i, s * Sector + k>>
Completed ==
  pc = "leave" /\ step = "done" /\ FlushedWhole => IsWritten(flash, response.length, stream)

Inv == HttpInv /\ WriterTypeOK /\ Gathered /\ AnyInv /\ Completed

Rest == [k \in 1..Sector |-> IF k <= Len(Body) - Taken THEN Body[Taken + k] ELSE Blank]

LEMMA RestIs ==
  ASSUME Inv, pc = "receive", Delivers, Flushes
  PROVE  /\ Gathers(flash, buffer, offset, flushed, fills, Passed, stream)
         /\ Taken \in 1..Count /\ offset + Taken \in {Sector - 1, Sector}
         /\ Len(Body) - Taken = Count - Taken /\ Count - Taken \in Nat /\ Count - Taken <= Sector - 2
         /\ Rest \in SectorCells
         /\ \A k \in 1..(Count - Taken) : Rest[k] = <<stream, Passed + Taken + k>>
         /\ Count - Taken = 0 => Rest[1] = Blank
<1>1. PICK c, o, t, b, p, r : c = Count /\ o = offset /\ t = Taken /\ b = Body /\ p = Passed /\ r = Rest
  OBVIOUS
<1>0. HttpInv /\ WriterTypeOK
  BY DEF Inv
<1>2. /\ t \in Nat /\ t <= c /\ o + t <= Sector /\ c \in Nat /\ p \in Nat /\ o \in Nat /\ c <= RecvMax
      /\ t < c => o + t = Sector
  BY <1>0, <1>1, TakenIs, BodyIs, SectorSize DEF WriterTypeOK
<1>3. Len(b) = c /\ \A k \in 1..c : b[k] = <<stream, p + k>>
  BY <1>0, <1>1, BodyIs
<1>4. Gathers(flash, buffer, offset, flushed, fills, Passed, stream)
  <2>1. step \in Runs
    BY DEF Delivers, InBody, Runs
  <2>2. QED
    BY <2>1 DEF Inv, Gathered
<1>5. o <= Sector - 2
  BY <1>1, <1>4 DEF Gathers
<1>6. o + t >= Sector - 1
  BY <1>1 DEF Flushes
<1>7. t \in 1..c /\ o + t \in {Sector - 1, Sector}
  BY <1>2, <1>5, <1>6, SectorSize
<1>8. PICK w : w = c - t
  OBVIOUS
<1>9. w \in Nat /\ w <= Sector - 2 /\ t + w = c
  BY <1>2, <1>5, <1>6, <1>8, SectorSize
<1>10. r = [k \in 1..Sector |-> IF k <= w THEN b[t + k] ELSE Blank]
  BY <1>1, <1>3, <1>8 DEF Rest
<1>11. ASSUME NEW k \in 1..w PROVE k \in 1..Sector /\ r[k] = <<stream, p + t + k>>
  <2>1. PICK j : j = t + k
    OBVIOUS
  <2>2. j \in 1..c /\ p + j = p + t + k /\ k \in 1..Sector /\ k <= w
    BY <1>2, <1>9, <2>1, SectorSize
  <2>3. r[k] = b[j]
    BY <1>10, <2>1, <2>2
  <2>4. QED
    BY <1>3, <2>2, <2>3
<1>12. stream \in Images
  BY <1>0 DEF WriterTypeOK
<1>13. ASSUME NEW k \in 1..Sector PROVE r[k] \in Cells
  <2>1. CASE k <= w
    <3>1. k \in 1..w
      BY <1>9, <2>1
    <3>2. r[k] = <<stream, p + t + k>>
      BY <1>11, <3>1
    <3>3. p + t + k \in Nat /\ p + t + k > 0
      BY <1>2
    <3>4. QED
      BY <1>12, <3>2, <3>3, CellIs
  <2>2. CASE ~(k <= w)
    BY <1>10, <2>2 DEF Cells
  <2>3. QED
    BY <2>1, <2>2
<1>14. r \in SectorCells
  <2>1. r = [k \in 1..Sector |-> r[k]]
    BY <1>10
  <2>2. QED
    BY <1>13, <2>1 DEF SectorCells
<1>15. w = 0 => r[1] = Blank
  <2>1. 1 \in 1..Sector
    BY SectorSize
  <2>2. w = 0 => ~(1 <= w)
    OBVIOUS
  <2>3. QED
    BY <1>10, <2>1, <2>2
<1>16. Len(b) - t = w
  BY <1>3, <1>8
<1>17. QED
  BY <1>1, <1>4, <1>7, <1>8, <1>9, <1>11, <1>14, <1>15, <1>16

LEMMA AttemptKeeps ==
  ASSUME Inv, Attempt
  PROVE  Inv'
<1>1. PICK i \in Images, m \in Modes, n \in Lengths : stream' = i /\ Connect([mode |-> m, length |-> n])
  BY DEF Attempt
<1>2. [mode |-> m, length |-> n] \in Responses
  BY DEF Responses
<1>3. HttpInv' /\ Passed' = 0
  BY <1>1, <1>2, ConnectKeeps
<1>4. step' = "read" /\ any' = FALSE
  BY <1>1 DEF Connect
<1>5. /\ attempts < MaxAttempts /\ attempts' = attempts + 1 /\ pc' = "receive"
      /\ buffer' = (IF allocated THEN buffer ELSE BlankSector) /\ allocated' = TRUE
      /\ offset' = 0 /\ flushed' = 0 /\ fills' = <<>>
      /\ flash' = flash /\ upg' = upg /\ precheckOk' = precheckOk /\ ready' = ready
  BY DEF Attempt, flags
<1>6. WriterTypeOK
  BY DEF Inv
<1>7. buffer' \in SectorCells
  <2>1. BlankSector \in SectorCells
    BY DEF BlankSector, SectorCells, Cells
  <2>2. QED
    BY <1>5, <1>6, <2>1 DEF WriterTypeOK
<1>8. attempts' \in 0..MaxAttempts
  BY <1>5, <1>6, DownloadAssumption DEF WriterTypeOK
<1>9. 0 \in 0..Sector /\ 0 \in 0..Top
  BY SectorSize
<1>10. fills' \in Seq({Sector - 1, Sector})
  BY <1>5, EmptySeq
<1>11. WriterTypeOK'
  BY <1>1, <1>5, <1>6, <1>7, <1>8, <1>9, <1>10 DEF WriterTypeOK
<1>12. Gathers(flash', buffer', offset', flushed', fills', Passed', stream')
  BY <1>3, <1>5, GathersNothing
<1>13. Gathered'
  BY <1>12 DEF Gathered
<1>14. AnyInv'
  BY <1>4, <1>5 DEF AnyInv
<1>15. Completed'
  BY <1>5 DEF Completed
<1>16. QED
  BY <1>3, <1>11, <1>13, <1>14, <1>15 DEF Inv

LEMMA ReceiveKeeps ==
  ASSUME Inv, Receive
  PROVE  Inv'
<1>1. HttpInv /\ WriterTypeOK /\ Gathered /\ AnyInv
  BY DEF Inv
<1>2. pc = "receive" /\ (Read \/ ReadFails \/ Parse)
  BY DEF Receive
<1>3. HttpInv' /\ Passed' = Passed /\ response' = response /\ any' = any
  BY <1>1, <1>2, HttpSteps
<1>4. /\ flash' = flash /\ buffer' = buffer /\ allocated' = allocated /\ offset' = offset /\ flushed' = flushed
      /\ fills' = fills /\ precheckOk' = precheckOk /\ ready' = ready /\ upg' = upg /\ pc' = pc
      /\ stream' = stream /\ attempts' = attempts
  BY DEF Receive, writer, flags, thread
<1>5. step \in Runs /\ step' # "done"
  <2>1. CASE Read
    BY <2>1 DEF Read, Runs
  <2>2. CASE ReadFails
    BY <2>2 DEF ReadFails, Runs
  <2>3. CASE Parse
    BY <2>3 DEF Parse, PartOfLine, HeaderLine, HeaderEnd, SizeLine, ChunkGap, AtSize, InHeader, InBody, Runs
  <2>4. QED
    BY <1>2, <2>1, <2>2, <2>3
<1>6. WriterTypeOK'
  BY <1>1, <1>4 DEF WriterTypeOK
<1>7. Gathered'
  BY <1>1, <1>2, <1>3, <1>4, <1>5 DEF Gathered
<1>8. AnyInv'
  BY <1>1, <1>3, <1>4, <1>5 DEF AnyInv
<1>9. Completed'
  BY <1>2, <1>4 DEF Completed
<1>10. QED
  BY <1>3, <1>6, <1>7, <1>8, <1>9 DEF Inv

LEMMA WriteBufferKeeps ==
  ASSUME Inv, WriteBuffer
  PROVE  Inv'
<1>1. HttpInv /\ WriterTypeOK /\ Gathered /\ AnyInv
  BY DEF Inv
<1>2. /\ pc = "receive" /\ Deliver /\ ~Flushes /\ buffer' = Filled /\ offset' = offset + Taken
      /\ flash' = flash /\ allocated' = allocated /\ flushed' = flushed
      /\ fills' = fills /\ precheckOk' = precheckOk /\ ready' = ready /\ upg' = upg /\ pc' = pc
      /\ stream' = stream /\ attempts' = attempts
  BY DEF WriteBuffer, flags, thread
<1>3. Delivers /\ (any => any') /\ step' = AfterDelivery.step
  BY <1>2 DEF Deliver
<1>4. step \in Runs
  BY <1>3 DEF Delivers, InBody, Runs
<1>5. HttpInv' /\ Passed' = Passed + Count
  BY <1>1, <1>2, DeliverKeeps
<1>6. PICK fl, bf, o, n, fi, p, i, v, m, w, q :
        /\ fl = flash /\ bf = buffer /\ o = offset /\ n = flushed /\ fi = fills /\ p = Passed /\ i = stream
        /\ v = Filled /\ m = Count /\ w = offset + Taken /\ q = Passed + Count
  OBVIOUS
<1>7. o \in 0..Sector /\ n \in 0..Top /\ fi \in Seq({Sector - 1, Sector}) /\ fl \in [0..Top -> SectorCells]
  BY <1>1, <1>6 DEF WriterTypeOK
<1>8. o \in Nat /\ n \in Nat /\ n <= Top /\ p \in Nat /\ m \in Nat
  BY <1>1, <1>3, <1>6, <1>7, BodyIs, SectorSize
<1>9. Taken = m /\ w = o + m /\ w <= Sector - 2
  <2>1. PICK t : t = Taken
    OBVIOUS
  <2>2. t \in Nat /\ t <= m /\ o + t <= Sector /\ (t < m => o + t = Sector)
    BY <1>1, <1>3, <1>6, <2>1, TakenIs
  <2>3. ~(o + t >= Sector - 1)
    BY <1>2, <1>6, <2>1 DEF Flushes
  <2>4. t = m /\ o + t <= Sector - 2
    BY <1>8, <2>2, <2>3, SectorSize
  <2>5. QED
    BY <1>6, <2>1, <2>4
<1>10. Gathers(fl, bf, o, n, fi, p, i)
  BY <1>1, <1>2, <1>4, <1>6 DEF Gathered
<1>11. Joint(fl, fi, n) \in Seq(Cells)
  <2>1. Len(fi) = n
    BY <1>10 DEF Gathers
  <2>2. Pieces(fl, fi, n) \in Seq(Seq(Cells))
    BY <1>7, <1>8, <2>1, PiecesType
  <2>3. QED
    BY <2>2, FlattenType DEF Joint
<1>12. /\ v \in SectorCells
       /\ \A k \in 1..o : v[k] = bf[k]
       /\ \A k \in 1..m : v[o + k] = <<i, p + k>>
       /\ m = 0 => v = bf
  BY <1>1, <1>3, <1>6, <1>9, FilledIs
<1>13. q = p + m
  BY <1>6
<1>14. Gathers(fl, v, w, n, fi, q, i)
  BY <1>8, <1>9, <1>10, <1>11, <1>12, <1>13, GathersMore
<1>15. Gathered'
  BY <1>2, <1>5, <1>6, <1>14 DEF Gathered
<1>16. offset' \in 0..Sector
  <2>1. w \in 0..Sector
    BY <1>8, <1>9, SectorSize
  <2>2. QED
    BY <1>2, <1>6, <2>1
<1>17. WriterTypeOK'
  BY <1>1, <1>2, <1>6, <1>12, <1>16 DEF WriterTypeOK
<1>18. step' # "done"
  BY <1>3, AfterIs
<1>19. AnyInv'
  BY <1>1, <1>2, <1>3, <1>18 DEF AnyInv
<1>20. Completed'
  BY <1>2 DEF Completed
<1>21. QED
  BY <1>5, <1>15, <1>17, <1>19, <1>20 DEF Inv

LEMMA WriteSectorKeeps ==
  ASSUME Inv, WriteSector
  PROVE  Inv'
<1>1. HttpInv /\ WriterTypeOK /\ Gathered /\ AnyInv
  BY DEF Inv
<1>2. /\ pc = "receive" /\ Deliver /\ Flushes
      /\ precheckOk' = (precheckOk \/ flushed = 0)
      /\ flash' = [flash EXCEPT ![flushed] = Filled]
      /\ flushed' = flushed + 1 /\ fills' = Append(fills, offset + Taken)
      /\ buffer' = Rest /\ offset' = Len(Body) - Taken
      /\ allocated' = allocated /\ ready' = ready /\ upg' = upg /\ pc' = pc
      /\ stream' = stream /\ attempts' = attempts
  BY DEF WriteSector, thread, Rest
<1>3. Delivers /\ step' = AfterDelivery.step /\ any' = (any \/ Delivered # <<>>)
  BY <1>2 DEF Deliver
<1>5. HttpInv' /\ Passed' = Passed + Count /\ response' = response
  BY <1>1, <1>2, DeliverKeeps DEF Deliver
<1>6. PICK fl, bf, o, n, fi, p, i : /\ fl = flash /\ bf = buffer /\ o = offset /\ n = flushed /\ fi = fills
                                    /\ p = Passed /\ i = stream
  OBVIOUS
<1>7. PICK v, m, t, u, w, q, b : /\ v = Filled /\ m = Count /\ t = Taken /\ u = offset + Taken
                                 /\ w = Len(Body) - Taken /\ q = Passed + Count /\ b = Rest
  OBVIOUS
<1>8. PICK g, h, r : g = flash' /\ h = fills' /\ r = flushed'
  OBVIOUS
<1>9. /\ Gathers(fl, bf, o, n, fi, p, i)
      /\ t \in 1..m /\ u \in {Sector - 1, Sector}
      /\ w = m - t /\ w \in Nat /\ w <= Sector - 2
      /\ b \in SectorCells
      /\ \A k \in 1..w : b[k] = <<i, p + t + k>>
      /\ w = 0 => b[1] = Blank
  BY <1>2, <1>3, <1>6, <1>7, RestIs
<1>10. /\ o \in Nat /\ n \in Nat /\ n <= Top /\ p \in Nat /\ m \in Nat /\ q \in Nat /\ q <= response.length
       /\ fi \in Seq({Sector - 1, Sector}) /\ fl \in [0..Top -> SectorCells]
  <2>1. o \in 0..Sector /\ n \in 0..Top /\ fi \in Seq({Sector - 1, Sector}) /\ fl \in [0..Top -> SectorCells]
    BY <1>1, <1>6 DEF WriterTypeOK
  <2>2. p \in Nat /\ m \in Nat /\ q <= response.length
    BY <1>1, <1>3, <1>6, <1>7, BodyIs
  <2>3. q = p + m
    BY <1>6, <1>7
  <2>4. QED
    BY <2>1, <2>2, <2>3, SectorSize
<1>11. v \in SectorCells /\ (\A k \in 1..o : v[k] = bf[k]) /\ \A k \in 1..t : v[o + k] = <<i, p + k>>
  BY <1>1, <1>3, <1>6, <1>7, FilledIs
<1>12. u = o + t /\ q = p + m
  BY <1>6, <1>7
<1>13. g = [fl EXCEPT ![n] = v] /\ h = Append(fi, u) /\ r = n + 1
  BY <1>2, <1>6, <1>7, <1>8
<1>14. Gathers(g, b, w, r, h, q, i)
  <2>1. FillsSector(fl, bf, o, n, fi, p, i, v, m, t, b)
    BY <1>9, <1>10, <1>11, <1>12 DEF FillsSector
  <2>2. Gathers([fl EXCEPT ![n] = v], b, m - t, n + 1, Append(fi, o + t), p + m, i)
    BY <2>1, GathersSector
  <2>3. QED
    BY <1>9, <1>12, <1>13, <2>2
<1>15. Gathered'
  BY <1>2, <1>5, <1>6, <1>7, <1>8, <1>14 DEF Gathered
<1>16. r \in 0..Top
  <2>1. r \in Nat
    BY <1>10, <1>13
  <2>2. r * (Sector - 1) <= response.length
    <3>1. PICK x : x = r * (Sector - 1)
      OBVIOUS
    <3>2. x \in Nat
      BY <2>1, <3>1, Multiples
    <3>3. x + w <= q
      BY <1>14, <3>1 DEF Gathers
    <3>4. response.length \in Nat
      BY <1>1, HttpFacts DEF HttpInv
    <3>5. x <= response.length
      BY <1>9, <1>10, <3>2, <3>3, <3>4
    <3>6. QED
      BY <3>1, <3>5
  <2>3. response.length \in Lengths
    BY <1>1 DEF HttpInv, HttpTypeOK, Responses
  <2>4. r <= Top
    BY <2>1, <2>2, <2>3, SectorsFit
  <2>5. QED
    BY <2>1, <2>4, SectorSize
<1>17. WriterTypeOK'
  <2>1. g \in [0..Top -> SectorCells]
    BY <1>10, <1>11, <1>13
  <2>2. h \in Seq({Sector - 1, Sector})
    BY <1>9, <1>10, <1>13, AppendProperties
  <2>3. w \in 0..Sector
    BY <1>9, SectorSize
  <2>4. precheckOk' \in BOOLEAN
    BY <1>2
  <2>5. QED
    BY <1>1, <1>2, <1>7, <1>8, <1>9, <1>16, <2>1, <2>2, <2>3, <2>4 DEF WriterTypeOK
<1>18. step' # "done"
  BY <1>3, AfterIs
<1>19. any'
  <2>1. Len(Delivered) = m
    BY <1>1, <1>3, <1>7, DeliveredBytes
  <2>2. m # 0
    BY <1>9, <1>10
  <2>3. Len(<<>>) = 0
    OBVIOUS
  <2>4. Delivered # <<>>
    BY <2>1, <2>2, <2>3
  <2>5. QED
    BY <1>3, <2>4
<1>20. AnyInv'
  BY <1>18, <1>19 DEF AnyInv
<1>21. Completed'
  BY <1>2 DEF Completed
<1>22. QED
  BY <1>5, <1>15, <1>17, <1>20, <1>21 DEF Inv

LEMMA RefuseKeeps ==
  ASSUME Inv, Refuse
  PROVE  Inv'
<1>1. HttpInv /\ WriterTypeOK
  BY DEF Inv
<1>2. /\ Delivers /\ precheckOk' = FALSE /\ buffer' = Filled /\ offset' = offset + Taken
      /\ pc' = "leave" /\ step' = "error"
      /\ UNCHANGED <<response, parser, got, any>>
      /\ flash' = flash /\ allocated' = allocated /\ flushed' = flushed /\ fills' = fills
      /\ ready' = ready /\ upg' = upg /\ stream' = stream /\ attempts' = attempts
  BY DEF Refuse
<1>3. HttpInv'
  BY <1>1, <1>2, HttpStays
<1>4. Filled \in SectorCells
  BY <1>1, <1>2, FilledIs
<1>5. offset + Taken \in 0..Sector
  <2>1. PICK o, t : o = offset /\ t = Taken
    OBVIOUS
  <2>2. o \in 0..Sector /\ t \in Nat /\ o + t <= Sector
    BY <1>1, <1>2, <2>1, TakenIs DEF WriterTypeOK
  <2>3. QED
    BY <2>1, <2>2, SectorSize
<1>6. WriterTypeOK'
  BY <1>1, <1>2, <1>4, <1>5 DEF WriterTypeOK
<1>7. QED
  BY <1>2, <1>3, <1>6 DEF Inv, Gathered, AnyInv, Completed

LEMMA MultiplesOrder ==
  ASSUME NEW a \in Nat, NEW b \in Nat, a < b
  PROVE  a * Sector + Sector <= b * Sector
<1>1. \A x \in Nat, y \in Nat, d \in Nat : x < y => (x + 1) * d <= y * d /\ (x + 1) * d = x * d + d
  OBVIOUS
<1>2. QED
  BY <1>1, SectorSize

(* The end of a body whose sectors are whole: with the buffer behind them, *)
(* it is all in the flash.                                                 *)
LEMMA EndWritten ==
  ASSUME NEW fl \in [0..Top -> SectorCells], NEW bf, NEW o \in Nat, NEW n \in 0..Top,
         NEW fi, NEW p, NEW i, NEW z, Joint(fl, fi, n) \in Seq(Cells),
         Gathers(fl, bf, o, n, fi, p, i), AllWhole(fi, n), z = [fl EXCEPT ![n] = bf]
  PROVE  IsWritten(z, p, i)
<1>1. PICK f, l, y : f = Joint(fl, fi, n) /\ l = Len(f) /\ y = n * Sector
  OBVIOUS
<1>2. n \in Nat
  BY SectorSize
<1>3. l \in Nat /\ y \in Nat
  BY <1>1, <1>2, LenProperties, Multiples
<1>4. /\ o <= Sector - 2 /\ l + o = p /\ p = y + o
      /\ \A k \in 1..o : bf[k] = <<i, l + k>>
      /\ Ordered(fl, n, i)
  BY <1>1 DEF Gathers, IsHeld
<1>5. l = y
  BY <1>3, <1>4
<1>6. ASSUME NEW s \in 0..Top, NEW k \in 1..Sector, s * Sector + k <= p
      PROVE  z[s][k] = <<i, s * Sector + k>>
  <2>1. PICK x : x = s * Sector
    OBVIOUS
  <2>2. s \in Nat /\ x \in Nat /\ x + k <= p
    <3>1. s \in Nat
      BY SectorSize
    <3>2. QED
      BY <1>6, <2>1, <3>1, Multiples
  <2>3. CASE s < n
    <3>1. s \in 0..n-1 /\ s # n
      BY <1>2, <2>2, <2>3
    <3>2. z[s] = fl[s]
      BY <3>1
    <3>3. QED
      BY <1>4, <3>1, <3>2 DEF Ordered
  <2>4. CASE s = n
    <3>1. k \in 1..o
      BY <1>1, <1>3, <1>4, <2>1, <2>2, <2>4, SectorSize
    <3>2. z[s] = bf
      BY <2>4
    <3>3. bf[k] = <<i, y + k>>
      BY <1>4, <1>5, <3>1
    <3>4. QED
      BY <1>1, <2>4, <3>2, <3>3
  <2>5. CASE s > n
    <3>1. y + Sector <= x
      BY <1>1, <1>2, <2>1, <2>2, <2>5, MultiplesOrder
    <3>2. FALSE
      BY <1>3, <1>4, <2>2, <3>1, SectorSize
    <3>3. QED
      BY <3>2
  <2>6. QED
    BY <1>2, <2>2, <2>3, <2>4, <2>5
<1>7. QED
  BY <1>6 DEF IsWritten

LEMMA FinishKeeps ==
  ASSUME Inv, Finish
  PROVE  Inv'
<1>1. HttpInv /\ WriterTypeOK /\ Gathered /\ AnyInv
  BY DEF Inv
<1>2. /\ pc = "receive" /\ step = "end"
      /\ flash' = [flash EXCEPT ![flushed] = buffer]
      /\ allocated' = FALSE /\ offset' = 0 /\ flushed' = 0 /\ ready' = TRUE
      /\ step' = "done" /\ pc' = (IF any THEN "leave" ELSE "receive")
      /\ UNCHANGED <<response, parser, got, any>>
      /\ buffer' = buffer /\ fills' = fills /\ precheckOk' = precheckOk /\ upg' = upg
      /\ stream' = stream /\ attempts' = attempts
  BY DEF Finish
<1>3. HttpInv'
  BY <1>1, <1>2, HttpStays
<1>4. 0 \in 0..Sector /\ 0 \in 0..Top
  BY SectorSize
<1>5. WriterTypeOK'
  <2>1. flash' \in [0..Top -> SectorCells]
    BY <1>1, <1>2 DEF WriterTypeOK
  <2>2. pc' \in {"run", "receive", "leave", "accept", "reboot"}
    BY <1>2
  <2>3. QED
    BY <1>1, <1>2, <1>4, <2>1, <2>2 DEF WriterTypeOK
<1>6. Gathered'
  BY <1>2 DEF Gathered, Runs
<1>7. AnyInv'
  BY <1>2 DEF AnyInv
<1>8. ASSUME FlushedWhole PROVE IsWritten(flash', response.length, stream)
  <2>1. step \in Runs
    BY <1>2 DEF Runs
  <2>2. Gathers(flash, buffer, offset, flushed, fills, Passed, stream)
    BY <1>1, <1>2, <2>1 DEF Gathered
  <2>3. Passed = response.length
    BY <1>1, <1>2, <2>1, PassedBound
  <2>4. Len(fills) = flushed
    BY <2>2 DEF Gathers
  <2>5. AllWhole(fills, flushed)
    BY <1>8, <2>4 DEF AllWhole, FlushedWhole
  <2>6. /\ flash \in [0..Top -> SectorCells] /\ offset \in Nat /\ flushed \in 0..Top
        /\ fills \in Seq({Sector - 1, Sector}) /\ flushed \in Nat /\ flushed <= Top
    BY <1>1, SectorSize DEF WriterTypeOK
  <2>7. Joint(flash, fills, flushed) \in Seq(Cells)
    <3>1. Pieces(flash, fills, flushed) \in Seq(Seq(Cells))
      BY <2>4, <2>6, PiecesType
    <3>2. QED
      BY <3>1, FlattenType DEF Joint
  <2>8. IsWritten(flash', Passed, stream)
    BY <1>2, <2>2, <2>5, <2>6, <2>7, EndWritten
  <2>9. QED
    BY <2>3, <2>8
<1>9. Completed'
  BY <1>2, <1>8 DEF Completed, FlushedWhole
<1>10. QED
  BY <1>3, <1>5, <1>6, <1>7, <1>9 DEF Inv

LEMMA ThreadStays ==
  ASSUME WriterTypeOK, UNCHANGED <<writer, flags, upg, stream, attempts>>,
         pc' \in {"run", "receive", "leave", "accept", "reboot"}
  PROVE  WriterTypeOK'
BY DEF WriterTypeOK, writer, flags

LEMMA GiveUpKeeps ==
  ASSUME Inv, GiveUp
  PROVE  Inv'
<1>1. HttpInv /\ WriterTypeOK /\ AnyInv
  BY DEF Inv
<1>2. /\ pc = "receive" /\ step \in {"closed", "done", "error"} /\ ~Again /\ pc' = "leave"
      /\ UNCHANGED <<response, parser, got, any>> /\ step' = step
      /\ UNCHANGED <<writer, flags, upg, stream, attempts>>
  BY DEF GiveUp, http
<1>3. HttpInv'
  BY <1>1, <1>2, HttpStays
<1>4. WriterTypeOK'
  BY <1>1, <1>2, ThreadStays
<1>5. step # "done"
  BY <1>1, <1>2 DEF AnyInv, Again
<1>6. QED
  BY <1>2, <1>3, <1>4, <1>5 DEF Inv, Gathered, AnyInv, Completed

LEMMA LeaveKeeps ==
  ASSUME Inv, Leave
  PROVE  Inv'
<1>1. HttpInv /\ WriterTypeOK
  BY DEF Inv
<1>2. /\ Disconnect /\ UNCHANGED <<writer, flags, upg, stream, attempts>>
      /\ pc' = "accept" \/ pc' = "run"
  BY DEF Leave
<1>3. HttpInv'
  BY <1>2, DisconnectKeeps
<1>4. WriterTypeOK'
  BY <1>1, <1>2, ThreadStays
<1>5. QED
  BY <1>2, <1>3, <1>4 DEF Inv, Gathered, AnyInv, Completed

LEMMA AcceptKeeps ==
  ASSUME Inv, Accept
  PROVE  Inv'
<1>1. HttpInv /\ WriterTypeOK
  BY DEF Inv
<1>2. /\ pc' = "reboot" /\ upg' = "downloadOk"
      /\ UNCHANGED <<response, parser, got, any>> /\ step' = step
      /\ UNCHANGED <<writer, flags, stream, attempts>>
  BY DEF Accept, http
<1>3. HttpInv'
  BY <1>1, <1>2, HttpStays
<1>4. WriterTypeOK'
  BY <1>1, <1>2 DEF WriterTypeOK, writer, flags
<1>5. QED
  BY <1>2, <1>3, <1>4 DEF Inv, Gathered, AnyInv, Completed

LEMMA NothingKeeps ==
  ASSUME Inv, UNCHANGED vars
  PROVE  Inv'
<1>1. HttpInv /\ WriterTypeOK /\ Gathered /\ AnyInv /\ Completed
  BY DEF Inv
<1>2. /\ response' = response /\ parser' = parser /\ got' = got /\ any' = any /\ step' = step
      /\ UNCHANGED <<writer, flags, upg, stream, attempts>> /\ pc' = pc
  BY DEF vars, http, thread
<1>3. HttpInv' /\ Passed' = Passed
  BY <1>1, <1>2, HttpStays
<1>4. WriterTypeOK'
  <2>1. pc' \in {"run", "receive", "leave", "accept", "reboot"}
    BY <1>1, <1>2 DEF WriterTypeOK
  <2>2. QED
    BY <1>1, <1>2, <2>1, ThreadStays
<1>5. /\ flash' = flash /\ buffer' = buffer /\ offset' = offset /\ flushed' = flushed /\ fills' = fills
      /\ stream' = stream
  BY <1>2 DEF writer
<1>6. Gathered'
  BY <1>1, <1>2, <1>3, <1>5 DEF Gathered
<1>7. AnyInv'
  BY <1>1, <1>2, <1>5 DEF AnyInv
<1>8. Completed'
  BY <1>1, <1>2, <1>5 DEF Completed, FlushedWhole
<1>9. QED
  BY <1>3, <1>4, <1>6, <1>7, <1>8 DEF Inv

LEMMA InitInv == Init => Inv
<1>1. SUFFICES ASSUME Init PROVE Inv
  OBVIOUS
<1>2. IsIdle /\ step = "done"
  BY <1>1 DEF Init, HttpInit, IsIdle
<1>3. HttpInv
  BY <1>2, IdleInv
<1>4. PICK i \in Before :
        flash = [s \in 0..Top |-> [k \in 1..Sector |->
          IF i # Junk /\ s * Sector + k <= Size(i) THEN <<i, s * Sector + k>> ELSE Blank]]
  BY <1>1 DEF Init
<1>5. flash \in [0..Top -> SectorCells]
  <2>1. ASSUME NEW s \in 0..Top, NEW k \in 1..Sector
        PROVE  (IF i # Junk /\ s * Sector + k <= Size(i) THEN <<i, s * Sector + k>> ELSE Blank) \in Cells
    <3>1. CASE i # Junk
      <4>1. i \in Images
        BY <3>1, DownloadAssumption
      <4>2. s \in Nat
        BY SectorSize
      <4>3. PICK x : x = s * Sector
        OBVIOUS
      <4>4. x \in Nat
        BY <4>2, <4>3, Multiples
      <4>5. x + k \in Nat /\ x + k > 0
        BY <4>4
      <4>6. <<i, x + k>> \in Cells
        BY <4>1, <4>5, CellIs
      <4>7. QED
        BY <4>3, <4>6 DEF Cells
    <3>2. CASE i = Junk
      BY <3>2 DEF Cells
    <3>3. QED
      BY <3>1, <3>2
  <2>2. QED
    BY <1>4, <2>1 DEF SectorCells
<1>6. BlankSector \in SectorCells
  BY DEF BlankSector, SectorCells, Cells
<1>7. /\ upg = "unset" /\ pc = "run" /\ stream = AppImage /\ attempts = 0
      /\ buffer = BlankSector /\ allocated = FALSE /\ offset = 0 /\ flushed = 0 /\ fills = <<>>
      /\ precheckOk = FALSE /\ ready = FALSE
  BY <1>1 DEF Init
<1>8. 0 \in 0..Sector /\ 0 \in 0..Top /\ 0 \in 0..MaxAttempts /\ AppImage \in Images
  BY SectorSize, DownloadAssumption
<1>9. fills \in Seq({Sector - 1, Sector})
  BY <1>7, EmptySeq
<1>10. WriterTypeOK
  BY <1>5, <1>6, <1>7, <1>8, <1>9 DEF WriterTypeOK
<1>11. QED
  BY <1>3, <1>7, <1>10 DEF Inv, Gathered, AnyInv, Completed

LEMMA NextInv == Inv /\ [Next]_vars => Inv'
<1>1. SUFFICES ASSUME Inv, [Next]_vars PROVE Inv'
  OBVIOUS
<1>2. CASE Start
  BY <1>1, <1>2, AttemptKeeps DEF Start
<1>3. CASE Receive
  BY <1>1, <1>3, ReceiveKeeps
<1>4. CASE WriteBuffer
  BY <1>1, <1>4, WriteBufferKeeps
<1>5. CASE WriteSector
  BY <1>1, <1>5, WriteSectorKeeps
<1>6. CASE Refuse
  BY <1>1, <1>6, RefuseKeeps
<1>7. CASE Finish
  BY <1>1, <1>7, FinishKeeps
<1>8. CASE Retry
  BY <1>1, <1>8, AttemptKeeps DEF Retry
<1>9. CASE GiveUp
  BY <1>1, <1>9, GiveUpKeeps
<1>10. CASE Leave
  BY <1>1, <1>10, LeaveKeeps
<1>11. CASE Accept
  BY <1>1, <1>11, AcceptKeeps
<1>12. CASE UNCHANGED vars
  BY <1>1, <1>12, NothingKeeps
<1>13. QED
  BY <1>1, <1>2, <1>3, <1>4, <1>5, <1>6, <1>7, <1>8, <1>9, <1>10, <1>11, <1>12 DEF Next

LEMMA AlwaysInv == Spec => []Inv
BY InitInv, NextInv, PTL DEF Spec

(* Whatever the server sends and however the connection cuts it up, the    *)
(* state of the client and of the writer has its type: the parser stays    *)
(* within what was received, ota_persistent_write within its buffer and    *)
(* within the sectors the longest body reaches.                            *)
THEOREM TypeCorrect == Spec => []TypeOK
<1>1. Inv => TypeOK
  BY TypeSplit DEF Inv, HttpInv
<1>2. QED
  BY <1>1, AlwaysInv, PTL

(* No byte of a body is lost, doubled or moved between the socket and the  *)
(* flash: what ota_persistent_write has flushed and what is in its buffer  *)
(* are the bytes http_parse has gone through, for every sector size, every *)
(* chunk size and every way the responses are cut.                         *)
THEOREM NothingIsLost == Spec => []NothingLost
<1>1. ASSUME Inv PROVE NothingLost
  <2>1. SUFFICES ASSUME pc = "receive", step \in Runs
                 PROVE  Joint(flash, fills, flushed) \o SubSeq(buffer, 1, offset) = [k \in 1..Passed |-> <<stream, k>>]
    BY DEF NothingLost, Joint, Pieces, Runs
  <2>2. HttpInv /\ WriterTypeOK
    BY <1>1 DEF Inv
  <2>3. Gathers(flash, buffer, offset, flushed, fills, Passed, stream)
    BY <1>1, <2>1 DEF Inv, Gathered
  <2>4. Len(fills) = flushed /\ IsHeld(Joint(flash, fills, flushed), buffer, offset, Passed, stream)
    BY <2>3 DEF Gathers
  <2>5. /\ flash \in [0..Top -> SectorCells] /\ offset \in 0..Sector /\ buffer \in SectorCells
        /\ fills \in Seq({Sector - 1, Sector}) /\ flushed \in Nat /\ flushed <= Top
    BY <2>2, SectorSize DEF WriterTypeOK
  <2>6. Joint(flash, fills, flushed) \in Seq(Cells)
    <3>1. Pieces(flash, fills, flushed) \in Seq(Seq(Cells))
      BY <2>4, <2>5, PiecesType
    <3>2. QED
      BY <3>1, FlattenType DEF Joint
  <2>7. Passed \in Nat
    BY <2>2, HttpFacts DEF HttpInv
  <2>8. PICK f, b, o, p, i : /\ f = Joint(flash, fills, flushed) /\ b = buffer /\ o = offset /\ p = Passed
                             /\ i = stream
    OBVIOUS
  <2>9. f \in Seq(Cells) /\ b \in SectorCells /\ o \in 0..Sector /\ p \in Nat /\ IsHeld(f, b, o, p, i)
    BY <2>4, <2>5, <2>6, <2>7, <2>8
  <2>10. HoldsBytes(f, b, o, p, i)
    BY <2>9, HeldJoined
  <2>11. QED
    BY <2>8, <2>10 DEF HoldsBytes
<1>2. QED
  BY <1>1, AlwaysInv, PTL

(* The client waits for more, or finds the connection closed, only while   *)
(* some of the response is still to come, if it is not the close itself    *)
(* that tells the end of the body; and the thread leaves the receiving     *)
(* only when the client is through.                                        *)
Told == response.mode # "close" /\ response.length > 0
Remains == step \in {"read", "closed"} /\ Told => CutShort
Through == pc = "leave" => step \in {"closed", "done", "error"}

(* A line that is all there is found.                                      *)
LEMMA LineIsHere ==
  ASSUME HttpTypeOK, NEW l \in Nat, EndsAt(Wire, parser.at + l + 1), parser.at + l + 2 <= got
  PROVE  LineEnds # {}
<1>1. PICK w, at, g : w = Wire /\ at = parser.at /\ g = got
  OBVIOUS
<1>2. w \in Seq(Tokens) /\ at \in Nat /\ g \in Nat /\ g <= Len(w)
  BY <1>1, HttpFacts
<1>3. LineEnds = {n \in 0..(g - at - 2) : SubSeq(w, at + n + 1, at + n + 2) = CrLf}
  BY <1>1, Zenon DEF LineEnds, Unparsed
<1>4. LineEnds = Ends(w, at, g)
  BY <1>2, <1>3, EndsAre
<1>5. l \in 0..(g - at - 2)
  BY <1>1, <1>2
<1>6. l \in Ends(w, at, g)
  BY <1>1, <1>5 DEF Ends
<1>7. QED
  BY <1>4, <1>6

(* What ends within a line is not the end of the response.                 *)
LEMMA PartIsCut ==
  ASSUME HttpInv, PartOfLine
  PROVE  CutShort
<1>1. /\ HttpTypeOK /\ step = "parse" /\ LineEnds = {}
      /\ InHeader \/ AtSize
      /\ ParserAt(response, parser, got, step, Passed)
  BY DEF HttpInv, Runs, PartOfLine, InHeader, AtSize, InBody
<1>2. PICK w, a, g, x, n, y : /\ w = Wire /\ a = parser.at /\ g = got /\ x = Len(Wire) /\ n = response.length
                              /\ y = Passed
  OBVIOUS
<1>3. a \in Nat /\ g \in Nat /\ x \in Nat /\ g <= x /\ IsWire(w, response) /\ n \in Nat
  BY <1>1, <1>2, HttpFacts
<1>4. SUFFICES ASSUME g = x PROVE FALSE
  BY <1>2, <1>3 DEF CutShort
<1>5. SUFFICES \E l \in Nat : EndsAt(w, a + l + 1) /\ a + l + 2 <= g
  BY <1>1, <1>2, LineIsHere
<1>6. CASE InHeader
  <2>1. a \in {0, 3}
    BY <1>1, <1>2, <1>6 DEF InHeader, ParserAt, HeadAt, PlainAt
  <2>2. x >= 5 /\ w[2] = Cr /\ w[3] = Lf /\ w[4] = Cr /\ w[5] = Lf
    BY <1>2, <1>3 DEF IsWire, IsHead
  <2>3. EndsAt(w, 2) /\ EndsAt(w, 4)
    BY <2>2 DEF EndsAt
  <2>4. CASE a = 0
    <3>1. a + 1 + 1 = 2 /\ a + 1 + 2 <= g
      BY <1>3, <1>4, <2>2, <2>4
    <3>2. EndsAt(w, a + 1 + 1)
      BY <2>3, <3>1
    <3>3. QED
      BY <3>1, <3>2
  <2>5. CASE a = 3
    <3>1. a + 0 + 1 = 4 /\ a + 0 + 2 <= g
      BY <1>3, <1>4, <2>2, <2>5
    <3>2. EndsAt(w, a + 0 + 1)
      BY <2>3, <3>1
    <3>3. QED
      BY <3>1, <3>2
  <2>6. QED
    BY <2>1, <2>4, <2>5
<1>7. CASE AtSize
  <2>1. response.mode = "chunked" /\ parser.state = "body" /\ parser.remain = -1
    BY <1>7 DEF AtSize, InBody, Chunked
  <2>2. ChunkAt(n, parser, g, step, y)
    BY <1>1, <1>2, <2>1 DEF ParserAt, HeadAt, PlainAt
  <2>3. PICK c \in 0..NumChunks(n) :
          BetweenAt(n, parser, step, y, c) \/ InsideAt(n, parser, g, step, y, c) \/ BehindAt(n, parser, step, y, c)
    BY <2>2 DEF ChunkAt
  <2>4. BetweenAt(n, parser, step, y, c)
    BY <2>1, <2>3 DEF InsideAt, BehindAt
  <2>5. IsPlaced(w, c, n) /\ c \in Nat
    BY <1>2, <1>3, <2>1, ChunkCount DEF IsWire
  <2>6. PICK p, l : p = Place(c, n) /\ l = ChunkSize(c, n)
    OBVIOUS
  <2>7. p \in Nat /\ l \in Nat
    BY <1>3, <2>5, <2>6, PlaceFacts
  <2>8. p + 5 + l <= Len(w) /\ w[p + 2] = Cr /\ w[p + 3] = Lf
    BY <2>5, <2>6 DEF IsPlaced
  <2>9. p + 3 <= x
    BY <1>2, <1>3, <2>7, <2>8
  <2>10. EndsAt(w, p + 2)
    <3>1. p + 2 + 1 = p + 3
      BY <2>7
    <3>2. QED
      BY <2>8, <3>1 DEF EndsAt
  <2>11. a = p \/ a + 1 = p
    BY <1>2, <2>4, <2>6 DEF BetweenAt
  <2>12. CASE a = p
    <3>1. a + 1 + 1 = p + 2 /\ a + 1 + 2 <= g
      BY <1>3, <1>4, <2>9, <2>12
    <3>2. EndsAt(w, a + 1 + 1)
      BY <2>10, <3>1
    <3>3. QED
      BY <3>1, <3>2
  <2>13. CASE a + 1 = p
    <3>1. a + 2 + 1 = p + 2 /\ a + 2 + 2 <= g
      BY <1>3, <1>4, <2>9, <2>13
    <3>2. EndsAt(w, a + 2 + 1)
      BY <2>10, <3>1
    <3>3. QED
      BY <3>1, <3>2
  <2>14. QED
    BY <2>11, <2>12, <2>13
<1>8. QED
  BY <1>1, <1>6, <1>7

(* What asks for more behind a piece of the body has not come to its end.  *)
LEMMA PieceIsCut ==
  ASSUME HttpInv, Deliver, AfterDelivery.step = "read", Told
  PROVE  CutShort
<1>1. /\ HttpTypeOK /\ step = "parse" /\ Delivers /\ parser.state = "body"
      /\ ParserAt(response, parser, got, step, Passed)
  BY DEF HttpInv, Runs, Deliver, Delivers, InBody
<1>2. PICK n, w, a, s, z, u, g, x : /\ n = response.length /\ w = Wire /\ a = parser.at /\ s = Passed
                                    /\ z = parser.remain /\ u = Unparsed /\ g = got /\ x = Len(Wire)
  OBVIOUS
<1>3. /\ g \in Nat /\ x \in Nat /\ g <= x /\ n \in Nat /\ a \in Nat /\ a <= g /\ z \in Int
      /\ IsWire(w, response) /\ s \in Nat
  BY <1>1, <1>2, HttpFacts
<1>4. u = g - a
  BY <1>2 DEF Unparsed
<1>5. ~MoreFollows /\ ~(~Chunked /\ z = u)
  BY <1>2, AfterIs
<1>6. ~(z > 0 /\ z < u)
  BY <1>2, <1>5 DEF MoreFollows
<1>7. CASE response.mode # "chunked"
  <2>1. PlainAt(response, parser, step, s)
    BY <1>1, <1>2, <1>7 DEF ParserAt, HeadAt
  <2>2. response.mode = "length" /\ n > 0
    <3>1. response.mode \in Modes
      BY <1>1 DEF HttpTypeOK, Responses
    <3>2. QED
      BY <1>2, <1>7, <3>1 DEF Told, Modes
  <2>3. a = 5 + s /\ z = n - s
    BY <1>2, <2>1, <2>2 DEF PlainAt
  <2>4. x = 5 + n
    BY <1>2, <1>3, <1>7 DEF IsWire, IsPlain
  <2>5. z >= 0
    BY <1>3, <2>3, <2>4
  <2>6. z > 0 \/ z = -1
    BY <1>1, <1>2 DEF Delivers
  <2>7. z # u
    BY <1>5, <1>7 DEF Chunked
  <2>8. g < x
    BY <1>3, <1>4, <1>6, <2>3, <2>4, <2>5, <2>6, <2>7
  <2>9. QED
    BY <1>2, <2>8 DEF CutShort
<1>8. CASE response.mode = "chunked"
  <2>1. z > 0
    BY <1>1, <1>2, <1>8 DEF Delivers, Chunked
  <2>2. ChunkAt(n, parser, g, step, s)
    BY <1>1, <1>2, <1>8 DEF ParserAt, HeadAt, PlainAt
  <2>3. PICK c \in 0..NumChunks(n) : InsideAt(n, parser, g, step, s, c)
    BY <1>2, <2>1, <2>2 DEF ChunkAt, BetweenAt, BehindAt
  <2>4. c \in Nat /\ IsPlaced(w, c, n)
    BY <1>2, <1>3, <1>8, ChunkCount DEF IsWire
  <2>5. PICK p, l, v : p = Place(c, n) /\ l = ChunkSize(c, n) /\ v = Sent(c, n)
    OBVIOUS
  <2>6. p \in Nat /\ l \in Nat /\ v \in Nat /\ Sent(c + 1, n) = v + l
    BY <1>3, <2>4, <2>5, PlaceFacts
  <2>7. s + z = v + l /\ a = p + 3 + (s - v)
    BY <1>2, <2>3, <2>5, <2>6 DEF InsideAt
  <2>8. p + 5 + l <= x
    BY <1>2, <2>4, <2>5 DEF IsPlaced
  <2>9. g < x
    BY <1>3, <1>4, <1>6, <2>1, <2>6, <2>7, <2>8
  <2>10. QED
    BY <1>2, <2>9 DEF CutShort
<1>9. QED
  BY <1>7, <1>8

LEMMA ConnectIsCut ==
  ASSUME NEW r \in Responses, Connect(r)
  PROVE  CutShort'
<1>1. got' = 0 /\ Wire' = Wires[r]
  BY DEF Connect, Wire
<1>2. Len(Wires[r]) \in Nat /\ Len(Wires[r]) >= 5
  BY WireFacts, LenProperties DEF IsWire
<1>3. QED
  BY <1>1, <1>2 DEF CutShort

LEMMA AttemptIsCut ==
  ASSUME Attempt
  PROVE  CutShort' /\ pc' = "receive"
<1>1. PICK i \in Images, m \in Modes, n \in Lengths : Connect([mode |-> m, length |-> n])
  BY DEF Attempt
<1>2. [mode |-> m, length |-> n] \in Responses
  BY DEF Responses
<1>3. QED
  BY <1>1, <1>2, ConnectIsCut DEF Attempt

LEMMA DeliverIsCut ==
  ASSUME HttpInv, Deliver
  PROVE  Remains'
<1>1. SUFFICES ASSUME step' \in {"read", "closed"}, Told'
               PROVE  CutShort'
  BY DEF Remains
<1>2. response' = response /\ got' = got /\ step' = AfterDelivery.step
  BY DEF Deliver
<1>3. AfterDelivery.step # "closed"
  BY AfterIs
<1>4. CutShort
  BY <1>1, <1>2, <1>3, PieceIsCut DEF Told
<1>5. QED
  BY <1>2, <1>4 DEF CutShort, Wire

LEMMA RemainsStays ==
  ASSUME Remains, response' = response, got' = got,
         step' = step \/ (step = "read" /\ step' = "closed") \/ step' \notin {"read", "closed"}
  PROVE  Remains'
BY DEF Remains, Told, CutShort, Wire

LEMMA ReceiveIsCut ==
  ASSUME HttpInv, Remains, Read \/ ReadFails \/ Parse
  PROVE  Remains'
<1>1. CASE Read
  BY <1>1 DEF Read, Remains
<1>2. CASE ReadFails
  BY <1>2, RemainsStays DEF ReadFails
<1>3. CASE PartOfLine
  <2>1. CutShort /\ response' = response /\ got' = got
    BY <1>3, PartIsCut DEF PartOfLine
  <2>2. QED
    BY <2>1 DEF Remains, CutShort, Wire
<1>4. CASE HeaderLine \/ HeaderEnd \/ SizeLine \/ ChunkGap
  <2>1. step' \in {"parse", "end"}
    BY <1>4 DEF HeaderLine, HeaderEnd, SizeLine, ChunkGap, InHeader, AtSize, InBody
  <2>2. QED
    BY <2>1 DEF Remains
<1>5. QED
  BY <1>1, <1>2, <1>3, <1>4 DEF Parse

LEMMA NextRemains ==
  Inv /\ Remains /\ Through /\ [Next]_vars => (Remains /\ Through)'
<1>1. SUFFICES ASSUME Inv, Remains, Through, [Next]_vars PROVE Remains' /\ Through'
  OBVIOUS
<1>2. HttpInv
  BY <1>1 DEF Inv
<1>3. CASE Start \/ Retry
  BY <1>3, AttemptIsCut DEF Start, Retry, Remains, Through
<1>4. CASE Receive
  BY <1>1, <1>2, <1>4, ReceiveIsCut DEF Receive, thread, Through
<1>5. CASE WriteBuffer \/ WriteSector
  BY <1>2, <1>5, DeliverIsCut DEF WriteBuffer, WriteSector, thread, Through
<1>6. CASE Refuse
  BY <1>6 DEF Refuse, Remains, Through
<1>7. CASE Finish
  BY <1>7 DEF Finish, Remains, Through
<1>8. CASE GiveUp
  BY <1>1, <1>8, RemainsStays DEF GiveUp, http, Through
<1>9. CASE Leave
  BY <1>9 DEF Leave, Disconnect, Remains, Through
<1>10. CASE Accept
  BY <1>1, <1>10, RemainsStays DEF Accept, http, Through
<1>11. CASE UNCHANGED vars
  BY <1>1, <1>11, RemainsStays DEF vars, http, thread, Through
<1>12. QED
  BY <1>1, <1>3, <1>4, <1>5, <1>6, <1>7, <1>8, <1>9, <1>10, <1>11 DEF Next

LEMMA AlwaysRemains == Spec => [](Remains /\ Through)
<1>1. Init => Remains /\ Through
  BY DEF Init, HttpInit, Remains, Through
<1>2. QED
  BY <1>1, NextRemains, AlwaysInv, PTL DEF Spec

(* The thread that leaves behind a connection that brought a whole file    *)
(* has one that passes ota_verify_download, the byte count of              *)
(* ota_persistent_finish and the blank end of its last sector included,    *)
(* unless a sector was flushed one byte short, there was an error, the     *)
(* peer closed before all had come, or its closing is what told the end.   *)
THEOREM CompleteAlwaysVerifies == Spec => []CompleteVerifies
<1>1. ASSUME Inv, Remains, Through PROVE CompleteVerifies
  <2>1. SUFFICES ASSUME pc = "leave", response.length = Size(stream), FlushedWhole, step # "error",
                        ~(step = "closed" /\ (CutShort \/ response.mode = "close"))
                 PROVE  Verified
    BY DEF CompleteVerifies
  <2>2. stream \in Images
    BY <1>1 DEF Inv, WriterTypeOK
  <2>3. response.length > 0
    <3>1. PICK x : x = Last * Sector
      OBVIOUS
    <3>2. x \in Nat
      BY <3>1, SectorSize, Multiples
    <3>3. response.length > x /\ response.length \in Nat
      <4>1. response.length \in Nat
        BY <1>1, HttpFacts DEF Inv, HttpInv
      <4>2. QED
        BY <2>1, <2>2, <3>1, <4>1, DownloadAssumption
    <3>4. QED
      BY <3>2, <3>3
  <2>4. step = "done"
    BY <1>1, <2>1, <2>3 DEF Through, Remains, Told
  <2>5. IsWritten(flash, Size(stream), stream)
    BY <1>1, <2>1, <2>4 DEF Inv, Completed
  <2>6. \A s \in 0..Top : Matches(s, stream)
    BY <2>5 DEF IsWritten, Matches
  <2>7. QED
    BY <2>2, <2>6 DEF Verified
<1>2. QED
  BY <1>1, AlwaysInv, AlwaysRemains, PTL

LEMMA BehindPartition ==
  ASSUME Inv, pc = "receive", step \in Runs, FlushedWhole, flushed > Last
  PROVE  response.length >= OtaSpace
<1>1. HttpInv /\ Gathers(flash, buffer, offset, flushed, fills, Passed, stream)
  BY DEF Inv, Gathered
<1>2. AllWhole(fills, flushed)
  BY <1>1 DEF Gathers, AllWhole, FlushedWhole
<1>3. Passed = flushed * Sector + offset
  BY <1>1, <1>2 DEF Gathers
<1>4. offset \in Nat /\ flushed \in Nat /\ Last \in Nat
  BY SectorSize DEF Inv, WriterTypeOK
<1>5. PICK x, y : x = flushed * Sector /\ y = Last * Sector
  OBVIOUS
<1>6. x \in Nat /\ y \in Nat /\ y + Sector <= x /\ OtaSpace = y + Sector
  <2>1. OtaSpace = Last * Sector + Sector
    BY <1>4, Multiples DEF OtaSpace
  <2>2. Last < flushed
    BY <1>4
  <2>3. QED
    BY <1>4, <1>5, <2>1, <2>2, Multiples, MultiplesOrder
<1>7. Passed <= response.length /\ response.length \in Nat
  BY <1>1, PassedBound, HttpFacts DEF HttpInv
<1>8. QED
  BY <1>3, <1>4, <1>5, <1>6, <1>7, SectorSize

(* ota_persistent_write and ota_persistent_finish reach behind the OTA     *)
(* partition, into the configuration and the stores, only with a body that *)
(* fills the partition, or after a sector without its last byte.           *)
THEOREM NeighboursAlwaysKept == Spec => NeighboursKept
<1> DEFINE Kept == \A s \in (Last + 1)..Top : flash'[s] # flash[s] => response.length >= OtaSpace \/ ~FlushedWhole
<1>1. ASSUME Inv, [Next]_vars PROVE Kept
  <2>1. SUFFICES ASSUME NEW s \in (Last + 1)..Top, flash'[s] # flash[s], FlushedWhole
                 PROVE  response.length >= OtaSpace
    OBVIOUS
  <2>2. WriteSector \/ Finish
    BY <1>1, <2>1 DEF Next, vars, writer, Start, Retry, Attempt, Receive, WriteBuffer, Refuse, GiveUp, Leave, Accept
  <2>3. pc = "receive" /\ step \in Runs
    BY <2>2 DEF WriteSector, Finish, Deliver, Delivers, InBody, Runs
  <2>4. flash \in [0..Top -> SectorCells] /\ flushed \in 0..Top
    BY <1>1 DEF Inv, WriterTypeOK
  <2>5. PICK v : flash' = [flash EXCEPT ![flushed] = v]
    BY <2>2 DEF WriteSector, Finish
  <2>6. s = flushed
    <3>1. s \in 0..Top
      BY SectorSize
    <3>2. QED
      BY <2>1, <2>4, <2>5, <3>1
  <2>7. flushed > Last
    BY <2>6, SectorSize
  <2>8. QED
    BY <1>1, <2>1, <2>3, <2>7, BehindPartition
<1>2. Inv /\ [Next]_vars => [Kept]_vars
  BY <1>1
<1>3. QED
  BY <1>2, AlwaysInv, PTL DEF Spec, NeighboursKept

-----------------------------------------------------------------------------
(* What OtaUpgrade sees of the flash: the image the sectors are of.        *)
IsOf(fl, s, i) == \A k \in 1..Sector : s * Sector + k <= Size(i) => fl[s][k] = <<i, s * Sector + k>>
Reads(s, t) == t = s \/ (s = Last /\ t > Last)
Owners(fl, s) == {i \in Images : \A t \in 0..Top : Reads(s, t) => IsOf(fl, t, i)}
OneOf(S) == IF S = {} THEN Junk ELSE CHOOSE i \in S : TRUE
Holder(fl, s) == OneOf(Owners(fl, s))

LEMMA HeldIs == \A s : Held(s) = Holder(flash, s)
<1>1. TAKE s
<1>2. Owners(flash, s) = {i \in Images : \A t \in 0..Top : t = s \/ (s = Last /\ t > Last) => Matches(t, i)}
  BY DEF Owners, Reads, IsOf, Matches
<1>3. QED
  BY <1>2 DEF Held, Holder, OneOf

LEMMA HeldIsNext == \A s : Held(s)' = Holder(flash', s)
<1>1. \A s : Held(s) = Holder(flash, s)
  BY HeldIs
<1>2. (\A s : Held(s) = Holder(flash, s))'
  BY <1>1, PTL
<1>3. QED
  BY <1>2

LEMMA LastSector ==
  /\ Last <= Top /\ \A s \in 0..Last : s \in 0..Top /\ s \in Nat
  /\ \A s \in 0..Last : \A i \in Images : s * Sector + 1 <= Size(i)
<1>1. ASSUME NEW i \in Images PROVE Size(i) \in Lengths /\ Size(i) \in Nat /\ Size(i) > Last * Sector
  BY DownloadAssumption, HttpAssumption
<1>2. ASSUME NEW s \in 0..Last, NEW i \in Images PROVE s * Sector + 1 <= Size(i)
  <2>1. PICK x, y, z : x = s * Sector /\ y = Last * Sector /\ z = Size(i)
    OBVIOUS
  <2>2. s \in Nat /\ Last \in Nat
    BY SectorSize
  <2>3. x \in Nat /\ y \in Nat /\ z \in Nat /\ z > y
    BY <1>1, <2>1, <2>2, Multiples
  <2>4. x <= y
    <3>1. CASE s = Last
      BY <2>1, <2>3, <3>1
    <3>2. CASE s < Last
      BY <2>1, <2>2, <2>3, <3>2, MultiplesOrder, SectorSize
    <3>3. QED
      BY <2>2, <3>1, <3>2
  <2>5. QED
    BY <2>1, <2>3, <2>4
<1>3. Last <= Top
  <2>1. PICK l, y, z : l = Size(AppImage) /\ y = Last * Sector /\ z = Last * (Sector - 1)
    OBVIOUS
  <2>2. l \in Lengths /\ l \in Nat /\ l > y
    BY <1>1, <2>1, DownloadAssumption
  <2>3. y \in Nat /\ z \in Nat
    BY <2>1, SectorSize, Multiples
  <2>4. z <= y
    <3>1. \A a \in Nat, b \in Nat : a * (b - 1) = a * b - a /\ a * b \in Nat
      OBVIOUS
    <3>2. z = y - Last
      BY <2>1, <3>1, SectorSize
    <3>3. QED
      BY <2>3, <3>2, SectorSize
  <2>5. Last * (Sector - 1) <= l
    BY <2>1, <2>2, <2>3, <2>4
  <2>6. QED
    BY <2>2, <2>5, SectorsFit, SectorSize
<1>4. \A s \in 0..Last : s \in 0..Top /\ s \in Nat
  BY <1>3, SectorSize
<1>5. QED
  BY <1>2, <1>3, <1>4

LEMMA HolderIs ==
  ASSUME NEW fl, NEW s
  PROVE  /\ Owners(fl, s) \subseteq Images
         /\ Holder(fl, s) \in Owners(fl, s) \/ (Owners(fl, s) = {} /\ Holder(fl, s) = Junk)
<1>1. Owners(fl, s) # {} => (CHOOSE i \in Owners(fl, s) : TRUE) \in Owners(fl, s)
  OBVIOUS
<1>2. QED
  BY <1>1 DEF Holder, OneOf, Owners

(* Who the owner of a sector is shows its first cell.                      *)
LEMMA OwnerFirst ==
  ASSUME NEW fl, NEW s \in 0..Last, NEW i \in Owners(fl, s)
  PROVE  i \in Images /\ fl[s][1][1] = i
<1>1. i \in Images /\ IsOf(fl, s, i)
  BY LastSector DEF Owners, Reads
<1>2. 1 \in 1..Sector
  BY SectorSize
<1>3. fl[s][1] = <<i, s * Sector + 1>>
  BY <1>1, <1>2, LastSector DEF IsOf
<1>4. QED
  BY <1>1, <1>3

LEMMA VerifiedHeld == Verified <=> Upgrade!OtaOk
<1> DEFINE ota == [s \in 0..Last |-> Held(s)]
<1>1. Upgrade!OtaOk <=> ota[0] # Junk /\ \A s \in 0..Last : ota[s] = ota[0]
  BY DEF Upgrade!OtaOk, Upgrade!Holds, Upgrade!Blocks
<1>2. \A s \in 0..Last : ota[s] = Holder(flash, s)
  BY HeldIs
<1>3. 0 \in 0..Last /\ Last \in 0..Last
  BY SectorSize
<1>4. Verified <=> \E i \in Images : \A t \in 0..Top : IsOf(flash, t, i)
  BY DEF Verified, Matches, IsOf
<1>5. ASSUME NEW i \in Images, \A t \in 0..Top : IsOf(flash, t, i)
      PROVE  ota[0] # Junk /\ \A s \in 0..Last : ota[s] = ota[0]
  <2>1. ASSUME NEW s \in 0..Last PROVE Holder(flash, s) = i
    <3>1. i \in Owners(flash, s)
      BY <1>5 DEF Owners
    <3>2. Holder(flash, s) \in Owners(flash, s)
      BY <3>1, HolderIs
    <3>3. QED
      BY <3>1, <3>2, OwnerFirst
  <2>2. i # Junk
    BY DownloadAssumption
  <2>3. QED
    BY <1>2, <1>3, <2>1, <2>2
<1>6. ASSUME ota[0] # Junk, \A s \in 0..Last : ota[s] = ota[0]
      PROVE  \E i \in Images : \A t \in 0..Top : IsOf(flash, t, i)
  <2>1. PICK i : i = ota[0]
    OBVIOUS
  <2>2. \A s \in 0..Last : i \in Owners(flash, s)
    BY <1>2, <1>6, <2>1, HolderIs
  <2>3. i \in Images
    BY <1>3, <2>2, HolderIs
  <2>4. ASSUME NEW t \in 0..Top PROVE IsOf(flash, t, i)
    <3>1. CASE t <= Last
      <4>1. t \in 0..Last
        BY <3>1, SectorSize
      <4>2. QED
        BY <2>2, <4>1 DEF Owners, Reads
    <3>2. CASE t > Last
      BY <1>3, <2>2, <3>2 DEF Owners, Reads
    <3>3. QED
      BY <3>1, <3>2, SectorSize
  <2>5. QED
    BY <2>3, <2>4
<1>7. QED
  BY <1>1, <1>4, <1>5, <1>6

(* The block a sector belongs to.                                          *)
Block(n) == IF n < Last THEN n ELSE Last

LEMMA OthersHeld ==
  ASSUME NEW fl \in [0..Top -> SectorCells], NEW n \in 0..Top, NEW v, NEW s \in 0..Last, s # Block(n)
  PROVE  Holder([fl EXCEPT ![n] = v], s) = Holder(fl, s)
<1>1. PICK g : g = [fl EXCEPT ![n] = v]
  OBVIOUS
<1>2. ASSUME NEW t \in 0..Top, Reads(s, t) PROVE g[t] = fl[t]
  <2>1. t # n
    BY <1>2, SectorSize DEF Reads, Block
  <2>2. QED
    BY <1>1, <2>1
<1>3. ASSUME NEW t \in 0..Top, Reads(s, t), NEW i PROVE IsOf(g, t, i) <=> IsOf(fl, t, i)
  BY <1>2, <1>3 DEF IsOf
<1>4. Owners(g, s) = Owners(fl, s)
  BY <1>3 DEF Owners
<1>5. QED
  BY <1>1, <1>4 DEF Holder

LEMMA BlockHeld ==
  ASSUME NEW fl \in [0..Top -> SectorCells], NEW n \in 0..Top, NEW v, NEW i \in Images,
         n <= Last => v[1][1] \in {i, Junk}, n > Last => fl[Last][1][1] = i
  PROVE  Holder([fl EXCEPT ![n] = v], Block(n)) \in {i, Junk}
<1>1. PICK g, b : g = [fl EXCEPT ![n] = v] /\ b = Block(n)
  OBVIOUS
<1>2. b \in 0..Last /\ b \in 0..Top /\ (n <= Last => b = n) /\ (n > Last => b = Last)
  BY <1>1, LastSector, SectorSize DEF Block
<1>3. g[b][1][1] \in {i, Junk}
  <2>1. CASE n <= Last
    BY <1>1, <1>2, <2>1
  <2>2. CASE n > Last
    <3>1. b # n
      BY <1>2, <2>2, SectorSize
    <3>2. QED
      BY <1>1, <1>2, <2>2, <3>1
  <2>3. QED
    BY <2>1, <2>2, SectorSize
<1>4. ASSUME NEW j \in Owners(g, b) PROVE j = i
  <2>1. j \in Images /\ g[b][1][1] = j
    BY <1>2, OwnerFirst
  <2>2. j # Junk
    BY <2>1, DownloadAssumption
  <2>3. QED
    BY <1>3, <2>1, <2>2
<1>5. Holder(g, b) \in {i, Junk}
  BY <1>4, HolderIs
<1>6. QED
  BY <1>1, <1>5

-----------------------------------------------------------------------------
(* Each step of the download is one of OtaUpgrade's.                       *)
OtaRow == [s \in 0..Last |-> Held(s)]
NextBlock == IF flushed < Last THEN flushed ELSE Last

LEMMA RowStays ==
  ASSUME flash' = flash
  PROVE  Upgrade!partitions' = Upgrade!partitions
<1>1. \A s \in 0..Last : Held(s)' = Held(s)
  BY HeldIs, HeldIsNext
<1>2. OtaRow' = OtaRow
  BY <1>1 DEF OtaRow
<1>3. QED
  BY <1>2 DEF Upgrade!partitions, OtaRow

LEMMA RowChanges ==
  ASSUME WriterTypeOK, NEW v, flash' = [flash EXCEPT ![flushed] = v]
  PROVE  OtaRow' = [OtaRow EXCEPT ![NextBlock] = Holder(flash', NextBlock)]
<1>1. PICK b, h : b = NextBlock /\ h = Holder(flash', b)
  OBVIOUS
<1>2. flash \in [0..Top -> SectorCells] /\ flushed \in 0..Top /\ b = Block(flushed)
  BY <1>1 DEF WriterTypeOK, NextBlock, Block
<1>3. ASSUME NEW s \in 0..Last, s # b PROVE Held(s)' = Held(s)
  BY <1>2, <1>3, HeldIs, HeldIsNext, OthersHeld
<1>4. Held(b)' = h
  BY <1>1, HeldIsNext
<1>5. OtaRow = [s \in 0..Last |-> Held(s)] /\ OtaRow' = [s \in 0..Last |-> Held(s)']
  BY DEF OtaRow
<1>6. OtaRow' = [OtaRow EXCEPT ![b] = h]
  BY <1>3, <1>4, <1>5
<1>7. QED
  BY <1>1, <1>6

LEMMA AttemptIs ==
  ASSUME Attempt
  PROVE  \E i \in Images : Upgrade!Attempt(i) /\ UNCHANGED <<Upgrade!partitions, upg, precheckOk, ready>>
<1>1. PICK i \in Images : stream' = i
  BY DEF Attempt
<1>2. pc' = "receive" /\ flushed' = 0 /\ flash' = flash /\ upg' = upg /\ precheckOk' = precheckOk /\ ready' = ready
  BY DEF Attempt, flags
<1>3. NextBlock' = 0
  BY <1>2, SectorSize DEF NextBlock
<1>4. Upgrade!Attempt(i)
  BY <1>1, <1>2, <1>3 DEF Upgrade!Attempt, NextBlock
<1>5. QED
  BY <1>2, <1>4, RowStays

LEMMA StartIs ==
  ASSUME Start
  PROVE  Upgrade!Download
<1>1. PICK i \in Images : Upgrade!Attempt(i) /\ UNCHANGED <<Upgrade!partitions, upg, precheckOk, ready>>
  BY AttemptIs DEF Start
<1>2. Upgrade!StartDownload(i)
  BY <1>1 DEF Upgrade!StartDownload, Start
<1>3. QED
  BY <1>2 DEF Upgrade!Download

LEMMA RetryIs ==
  ASSUME Inv, Retry
  PROVE  Upgrade!Download
<1>1. PICK i \in Images : Upgrade!Attempt(i) /\ UNCHANGED <<Upgrade!partitions, upg, precheckOk, ready>>
  BY AttemptIs DEF Retry
<1>2. pc = "receive" /\ Again /\ AnyInv /\ flushed \in 0..Top
  BY DEF Retry, Inv, WriterTypeOK
<1>3. precheckOk \/ flushed = 0
  <2>1. CASE step = "error"
    BY <1>2, <2>1 DEF Again
  <2>2. CASE step # "error"
    <3>1. ~any
      BY <1>2, <2>2 DEF Again
    <3>2. ~(flushed > 0)
      BY <1>2, <3>1 DEF AnyInv
    <3>3. QED
      BY <1>2, <3>2, SectorSize
  <2>3. QED
    BY <2>1, <2>2
<1>4. precheckOk \/ NextBlock = 0
  BY <1>3, SectorSize DEF NextBlock
<1>5. Upgrade!Retry(i)
  BY <1>1, <1>2, <1>4 DEF Upgrade!Retry, NextBlock
<1>6. QED
  BY <1>5 DEF Upgrade!Download

LEMMA PrecheckIs ==
  ASSUME NEW i \in Images
  PROVE  Precheck(i) <=> Upgrade!Precheck(i)
<1>1. 0 \in 0..Last
  BY SectorSize
<1>2. [s \in 0..Last |-> AppImage][0] = AppImage
  BY <1>1
<1>3. i \in {j \in Images : SizesFit(j)} <=> SizesFit(i)
  OBVIOUS
<1>4. QED
  BY <1>2, <1>3 DEF Precheck, Upgrade!Precheck

LEMMA FirstBlock ==
  ASSUME WriterTypeOK
  PROVE  NextBlock = 0 <=> flushed = 0
BY SectorSize DEF WriterTypeOK, NextBlock

LEMMA RefuseIs ==
  ASSUME Inv, Refuse
  PROVE  Upgrade!Download
<1>1. WriterTypeOK /\ stream \in Images
  BY DEF Inv, WriterTypeOK
<1>2. /\ pc = "receive" /\ flushed = 0 /\ ~Precheck(stream) /\ precheckOk' = FALSE /\ pc' = "leave"
      /\ flash' = flash /\ flushed' = flushed /\ ready' = ready /\ upg' = upg /\ stream' = stream
  BY DEF Refuse
<1>3. ~Upgrade!Precheck(stream)
  BY <1>1, <1>2, PrecheckIs
<1>4. NextBlock = 0 /\ NextBlock' = NextBlock
  BY <1>1, <1>2, FirstBlock DEF NextBlock
<1>5. Upgrade!partitions' = Upgrade!partitions
  BY <1>2, RowStays
<1>6. Upgrade!RefuseFirst
  BY <1>2, <1>3, <1>4, <1>5 DEF Upgrade!RefuseFirst, NextBlock
<1>7. QED
  BY <1>6 DEF Upgrade!Download

(* A sector that is flushed shows whose it is in its first cell, and so do *)
(* the ones behind the partition in the last one of the partition.         *)
LEMMA FirstFilled ==
  ASSUME Inv, pc = "receive", Delivers, Flushes
  PROVE  /\ Filled[1][1] = stream
         /\ flushed > Last => flash[Last][1][1] = stream
<1>1. /\ HttpInv /\ WriterTypeOK /\ Gathers(flash, buffer, offset, flushed, fills, Passed, stream)
      /\ Taken \in 1..Count
  BY RestIs DEF Inv
<1>2. PICK o, n, t, l : o = offset /\ n = flushed /\ t = Taken /\ l = Len(Joint(flash, fills, flushed))
  OBVIOUS
<1>3. o \in Nat /\ n \in Nat
  BY <1>1, <1>2, SectorSize DEF WriterTypeOK
<1>4. Filled[1][1] = stream
  <2>1. CASE o = 0
    <3>1. 1 \in 1..t /\ o + 1 = 1
      BY <1>1, <1>2, <2>1, BodyIs
    <3>2. Filled[o + 1] = <<stream, Passed + 1>>
      BY <1>1, <1>2, <3>1, FilledIs
    <3>3. QED
      BY <3>1, <3>2
  <2>2. CASE o # 0
    <3>1. 1 \in 1..o
      BY <1>3, <2>2
    <3>2. Filled[1] = buffer[1]
      BY <1>1, <1>2, <3>1, FilledIs
    <3>3. buffer[1] = <<stream, l + 1>>
      BY <1>1, <1>2, <3>1 DEF Gathers, IsHeld
    <3>4. QED
      BY <3>2, <3>3
  <2>3. QED
    BY <2>1, <2>2
<1>5. ASSUME n > Last PROVE flash[Last][1][1] = stream
  <2>1. Last \in 0..n-1
    BY <1>3, <1>5, SectorSize
  <2>2. QED
    BY <1>1, <1>2, <2>1 DEF Gathers
<1>6. QED
  BY <1>2, <1>4, <1>5

LEMMA WriteSectorIs ==
  ASSUME Inv, WriteSector
  PROVE  Upgrade!Download
<1>1. WriterTypeOK /\ stream \in Images /\ flash \in [0..Top -> SectorCells] /\ flushed \in 0..Top
  BY DEF Inv, WriterTypeOK
<1>2. /\ pc = "receive" /\ Deliver /\ Flushes
      /\ flushed = 0 => Precheck(stream)
      /\ precheckOk' = (precheckOk \/ flushed = 0)
      /\ flash' = [flash EXCEPT ![flushed] = Filled]
      /\ flushed' = flushed + 1
      /\ ready' = ready /\ upg' = upg /\ pc' = pc /\ stream' = stream
  BY DEF WriteSector, thread
<1>3. Filled[1][1] = stream /\ (flushed > Last => flash[Last][1][1] = stream)
  BY <1>2, FirstFilled DEF Deliver
<1>4. PICK b : b = Holder(flash', NextBlock)
  OBVIOUS
<1>5. b \in Upgrade!Stored(stream)
  <2>1. NextBlock = Block(flushed)
    BY DEF NextBlock, Block
  <2>2. b = Holder([flash EXCEPT ![flushed] = Filled], Block(flushed))
    BY <1>2, <1>4, <2>1
  <2>3. b \in {stream, Junk}
    BY <1>1, <1>3, <2>2, BlockHeld
  <2>4. QED
    BY <2>3 DEF Upgrade!Stored
<1>6. OtaRow' = [OtaRow EXCEPT ![NextBlock] = b]
  BY <1>1, <1>2, <1>4, RowChanges
<1>7. NextBlock = 0 <=> flushed = 0
  BY <1>1, FirstBlock
<1>8. NextBlock = 0 => Upgrade!Precheck(stream)
  BY <1>1, <1>2, <1>7, PrecheckIs
<1>9. NextBlock' = IF NextBlock < Last THEN NextBlock + 1 ELSE Last
  BY <1>1, <1>2, SectorSize DEF NextBlock
<1>10. precheckOk' = (precheckOk \/ NextBlock = 0)
  BY <1>2, <1>7
<1>11. Upgrade!ReceiveBlock
  BY <1>2, <1>5, <1>6, <1>8, <1>9, <1>10 DEF Upgrade!ReceiveBlock, NextBlock, OtaRow
<1>12. QED
  BY <1>11 DEF Upgrade!Download

LEMMA FinishIs ==
  ASSUME Inv, Finish
  PROVE  Upgrade!Download
<1>1. WriterTypeOK /\ AnyInv /\ stream \in Images /\ flash \in [0..Top -> SectorCells] /\ flushed \in 0..Top
  BY DEF Inv, WriterTypeOK
<1>2. /\ pc = "receive" /\ step = "end"
      /\ flash' = [flash EXCEPT ![flushed] = buffer]
      /\ flushed' = 0 /\ ready' = TRUE
      /\ pc' = (IF any THEN "leave" ELSE "receive")
      /\ precheckOk' = precheckOk /\ upg' = upg /\ stream' = stream
  BY DEF Finish
<1>3. PICK b : b = Holder(flash', NextBlock)
  OBVIOUS
<1>4. OtaRow' = [OtaRow EXCEPT ![NextBlock] = b]
  BY <1>1, <1>2, <1>3, RowChanges
<1>5. NextBlock' = 0 /\ (NextBlock = 0 <=> flushed = 0) /\ NextBlock \in Nat
  BY <1>1, <1>2, FirstBlock, SectorSize DEF NextBlock
<1>6. CASE flushed = 0
  <2>1. b \in Images \cup {Junk}
    BY <1>3, HolderIs
  <2>2. NextBlock = 0
    BY <1>5, <1>6
  <2>3. OtaRow' = [OtaRow EXCEPT ![0] = b]
    BY <1>4, <2>2
  <2>4. pc' \in {"receive", "leave"}
    BY <1>2
  <2>5. Upgrade!ShortResponse
    BY <1>2, <1>5, <2>1, <2>2, <2>3, <2>4 DEF Upgrade!ShortResponse, NextBlock, OtaRow
  <2>6. QED
    BY <2>5 DEF Upgrade!Download
<1>7. CASE flushed # 0
  <2>1. Gathers(flash, buffer, offset, flushed, fills, Passed, stream)
    BY <1>2 DEF Inv, Gathered, Runs
  <2>2. flushed > 0 /\ flushed \in Nat /\ offset \in Nat
    BY <1>1, <1>7, SectorSize DEF WriterTypeOK
  <2>3. buffer[1][1] \in {stream, Junk}
    <3>1. CASE offset = 0
      BY <2>1, <2>2, <3>1 DEF Gathers, Blank
    <3>2. CASE offset # 0
      <4>1. 1 \in 1..offset
        BY <2>2, <3>2
      <4>2. PICK l : buffer[1] = <<stream, l + 1>>
        BY <2>1, <4>1 DEF Gathers, IsHeld
      <4>3. QED
        BY <4>2
    <3>3. QED
      BY <3>1, <3>2
  <2>4. flushed > Last => flash[Last][1][1] = stream
    <3>1. SUFFICES ASSUME flushed > Last PROVE flash[Last][1][1] = stream
      OBVIOUS
    <3>2. Last \in 0..flushed-1
      BY <2>2, <3>1, SectorSize
    <3>3. QED
      BY <2>1, <3>2 DEF Gathers
  <2>5. b \in Upgrade!Stored(stream)
    <3>1. b = Holder([flash EXCEPT ![flushed] = buffer], Block(flushed))
      BY <1>2, <1>3 DEF NextBlock, Block
    <3>2. b \in {stream, Junk}
      BY <1>1, <2>3, <2>4, <3>1, BlockHeld
    <3>3. QED
      BY <3>2 DEF Upgrade!Stored
  <2>6. pc' = "leave"
    BY <1>1, <1>2, <2>2 DEF AnyInv
  <2>7. NextBlock > 0
    BY <1>5, <1>7
  <2>8. Upgrade!FinishDownload
    BY <1>2, <1>4, <1>5, <2>5, <2>6, <2>7 DEF Upgrade!FinishDownload, NextBlock, OtaRow
  <2>9. QED
    BY <2>8 DEF Upgrade!Download
<1>8. QED
  BY <1>6, <1>7

LEMMA RamStays ==
  ASSUME UNCHANGED <<writer, flags, stream>>
  PROVE  Upgrade!ram' = Upgrade!ram /\ Upgrade!partitions' = Upgrade!partitions
<1>1. flash' = flash /\ flushed' = flushed /\ precheckOk' = precheckOk /\ ready' = ready /\ stream' = stream
  BY DEF writer, flags
<1>2. Upgrade!ram' = Upgrade!ram
  BY <1>1 DEF Upgrade!ram
<1>3. QED
  BY <1>1, <1>2, RowStays

LEMMA GiveUpIs ==
  ASSUME GiveUp
  PROVE  Upgrade!Download
<1>1. pc = "receive" /\ pc' = "leave" /\ upg' = upg /\ UNCHANGED <<writer, flags, stream>>
  BY DEF GiveUp
<1>2. Upgrade!PeerCloses
  BY <1>1, RamStays DEF Upgrade!PeerCloses
<1>3. QED
  BY <1>2 DEF Upgrade!Download

LEMMA LeaveIs ==
  ASSUME Leave
  PROVE  Upgrade!Leave
<1>1. /\ pc = "leave" /\ upg' = upg /\ UNCHANGED <<writer, flags, stream>>
      /\ pc' = IF precheckOk /\ ready /\ Verified THEN "accept" ELSE "run"
  BY DEF Leave
<1>2. Upgrade!Acceptable <=> precheckOk /\ ready /\ Verified
  BY VerifiedHeld DEF Upgrade!Acceptable
<1>3. QED
  BY <1>1, <1>2, RamStays DEF Upgrade!Leave

LEMMA AcceptIs ==
  ASSUME Accept
  PROVE  Upgrade!Accept
<1>1. pc = "accept" /\ upg' = "downloadOk" /\ pc' = "reboot" /\ UNCHANGED <<writer, flags, stream>>
  BY DEF Accept
<1>2. QED
  BY <1>1, RamStays DEF Upgrade!Accept

LEMMA StaysIs ==
  ASSUME Receive \/ WriteBuffer \/ UNCHANGED vars
  PROVE  UNCHANGED Upgrade!vars
<1>1. /\ flash' = flash /\ flushed' = flushed /\ precheckOk' = precheckOk /\ ready' = ready /\ stream' = stream
      /\ upg' = upg /\ pc' = pc
  BY DEF Receive, WriteBuffer, vars, writer, flags, thread
<1>2. Upgrade!ram' = Upgrade!ram
  BY <1>1 DEF Upgrade!ram
<1>3. QED
  BY <1>1, <1>2, RowStays DEF Upgrade!vars

(* Every step of the download is one OtaUpgrade has for it, or none: an    *)
(* image the precheck refuses is not written, the blocks of the partition  *)
(* come in order and hold the image that is received or none, a connection *)
(* is tried again as OtaUpgrade says, and the upgrade state is set for a   *)
(* complete image only.                                                    *)
THEOREM DownloadIsAsSpecified == Spec => DownloadSteps
<1>1. ASSUME Inv, [Next]_vars
      PROVE  [Upgrade!Download \/ Upgrade!Leave \/ Upgrade!Accept]_(Upgrade!vars)
  <2>1. CASE Start
    BY <2>1, StartIs
  <2>2. CASE Receive \/ WriteBuffer \/ UNCHANGED vars
    BY <2>2, StaysIs
  <2>3. CASE WriteSector
    BY <1>1, <2>3, WriteSectorIs
  <2>4. CASE Refuse
    BY <1>1, <2>4, RefuseIs
  <2>5. CASE Finish
    BY <1>1, <2>5, FinishIs
  <2>6. CASE Retry
    BY <1>1, <2>6, RetryIs
  <2>7. CASE GiveUp
    BY <2>7, GiveUpIs
  <2>8. CASE Leave
    BY <2>8, LeaveIs
  <2>9. CASE Accept
    BY <2>9, AcceptIs
  <2>10. QED
    BY <1>1, <2>1, <2>2, <2>3, <2>4, <2>5, <2>6, <2>7, <2>8, <2>9 DEF Next
<1>2. Inv /\ [Next]_vars => [Upgrade!Download \/ Upgrade!Leave \/ Upgrade!Accept]_(Upgrade!vars)
  BY <1>1
<1>3. QED
  BY <1>2, AlwaysInv, PTL DEF Spec, DownloadSteps
=============================================================================
