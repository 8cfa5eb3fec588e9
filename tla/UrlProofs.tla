------------------------------- MODULE UrlProofs -------------------------------
(***************************************************************************)
(* Theorems of URLs: what normalize_url makes of them, for any host, path  *)
(* and tail, what a link of a feed means, and where resolve_source_url     *)
(* ends, for any web.                                                      *)
(***************************************************************************)
EXTENDS HelpersProofs

-----------------------------------------------------------------------------
(* normalize_url of the deduplication.                                     *)

\* Without the pieces at its end that are to go, a sequence ends before them.
LEMMA TrimmedEnd ==
  ASSUME NEW S, NEW s \in Seq(S), NEW piece, NEW n \in 0 .. Len(s), n # 0 => s[n] # piece,
         \A i \in n + 1 .. Len(s) : s[i] = piece
  PROVE  Dedup!TrimEnd(s, piece) = SubSeq(s, 1, n)
  <1> DEFINE I == {i \in 1 .. Len(s) : s[i] # piece}
             last == IF I # {} THEN Dedup!Max(I) ELSE 0
  <1>1. Dedup!TrimEnd(s, piece) = SubSeq(s, 1, last)
    BY DEF Dedup!TrimEnd, Dedup!SelectLastInSeq
  <1>2. Len(s) \in Nat /\ I \in SUBSET (1 .. Len(s)) /\ \A i \in I : i <= n
    OBVIOUS
  <1>3. n # 0 => n \in I
    OBVIOUS
  <1>4. \A i \in I : i >= 1
    OBVIOUS
  <1> HIDE DEF I
  <1>5. CASE I = {}
    BY <1>1, <1>3, <1>5
  <1>6. CASE I # {}
    <2>1. \E m \in I : \A k \in I : m >= k
      BY <1>2, <1>6, Greatest
    <2>2. Dedup!Max(I) \in I /\ \A k \in I : Dedup!Max(I) >= k
      BY <2>1 DEF Dedup!Max
    <2> DEFINE m == Dedup!Max(I)
    <2>3. m \in Nat /\ n \in Nat
      <3>1. m \in I /\ I \subseteq 1 .. Len(s)
        BY <1>2, <2>2
      <3> HIDE DEF m
      <3>. QED
        BY <1>2, <3>1
    <2>4. 1 <= m /\ m <= n /\ (n # 0 => n <= m)
      BY <1>2, <1>3, <1>4, <2>2
    <2> HIDE DEF m
    <2>5. m = n
      BY <2>3, <2>4 DEF m
    <2>. QED
      BY <1>1, <1>6, <2>5 DEF m
  <1>. QED
    BY <1>5, <1>6

\* And there is such an end.
LEMMA AnEnd ==
  ASSUME NEW S, NEW s \in Seq(S), NEW piece
  PROVE  \E n \in 0 .. Len(s) : (n # 0 => s[n] # piece) /\ \A i \in n + 1 .. Len(s) : s[i] = piece
  <1> DEFINE I == {i \in 1 .. Len(s) : s[i] # piece}
  <1>1. Len(s) \in Nat /\ I \in SUBSET (1 .. Len(s))
    OBVIOUS
  <1>2. CASE I = {}
    <2>1. \A i \in 0 + 1 .. Len(s) : s[i] = piece
      BY <1>2
    <2>. QED
      BY <1>1, <2>1
  <1>3. CASE I # {}
    <2>1. PICK m \in I : \A k \in I : m >= k
      BY <1>1, <1>3, Greatest
    <2>2. \A i \in m + 1 .. Len(s) : s[i] = piece
      BY <2>1
    <2>. QED
      BY <2>1, <2>2
  <1>. QED
    BY <1>2, <1>3

\* At the beginning it is the same.
LEMMA TrimmedStart ==
  ASSUME NEW S, NEW s \in Seq(S), NEW piece, NEW n \in 0 .. Len(s), n # Len(s) => s[n + 1] # piece,
         \A i \in 1 .. n : s[i] = piece
  PROVE  Dedup!TrimStart(s, piece) = SubSeq(s, n + 1, Len(s))
  <1> DEFINE r == Dedup!Reverse(s)
             m == Len(s) - n
             t == SubSeq(r, 1, m)
  <1>1. Len(s) \in Nat /\ m \in 0 .. Len(s)
    OBVIOUS
  <1>2. r \in Seq(S) /\ Len(r) = Len(s) /\ \A i \in 1 .. Len(s) : r[i] = s[Len(s) - i + 1]
    BY DEF Dedup!Reverse
  <1> HIDE DEF r
  <1>3. m # 0 => r[m] # piece
    BY <1>1, <1>2
  <1>4. \A i \in m + 1 .. Len(r) : r[i] = piece
    BY <1>1, <1>2
  <1>5. Dedup!TrimEnd(r, piece) = t
    <2> HIDE DEF m
    <2>. QED
      BY <1>1, <1>2, <1>3, <1>4, TrimmedEnd
  <1>6. t \in Seq(S) /\ Len(t) = m /\ \A i \in 1 .. m : t[i] = s[Len(s) - i + 1]
    BY <1>1, <1>2
  <1>7. Dedup!TrimStart(s, piece) = Dedup!Reverse(t)
    BY <1>5 DEF Dedup!TrimStart, r
  <1> HIDE DEF t
  <1>8. Dedup!Reverse(t) = [i \in 1 .. m |-> t[(m - i) + 1]]
    BY <1>6 DEF Dedup!Reverse
  <1>9. SubSeq(s, n + 1, Len(s)) = [i \in 1 .. m |-> s[n + i]]
    BY <1>1
  <1>10. \A i \in 1 .. m : t[(m - i) + 1] = s[n + i]
    BY <1>1, <1>6
  <1>. QED
    BY <1>7, <1>8, <1>9, <1>10

\* A blank before and behind is not read.
LEMMA Unpadded ==
  ASSUME NEW S, NEW blank \in S, NEW c \in Seq(S), Len(c) > 0, c[1] # blank, c[Len(c)] # blank
  PROVE  /\ Dedup!TrimStart(Dedup!TrimEnd(c, blank), blank) = c
         /\ Dedup!TrimStart(Dedup!TrimEnd(<<blank>> \o c \o <<blank>>, blank), blank) = c
  <1> DEFINE n == Len(c)
             s == <<blank>> \o c \o <<blank>>
             t == SubSeq(s, 1, n + 1)
  <1>1. n \in Nat /\ n > 0
    OBVIOUS
  <1>2. Dedup!TrimStart(Dedup!TrimEnd(c, blank), blank) = c
    <2>1. Dedup!TrimEnd(c, blank) = SubSeq(c, 1, n)
      <3>1. n \in 0 .. Len(c) /\ c[n] # blank /\ \A i \in n + 1 .. Len(c) : c[i] = blank
        BY <1>1
      <3> HIDE DEF n
      <3>. QED
        BY <3>1, TrimmedEnd
    <2>2. SubSeq(c, 1, n) = c
      OBVIOUS
    <2>3. Dedup!TrimStart(c, blank) = SubSeq(c, 0 + 1, Len(c))
      <3>1. 0 \in 0 .. Len(c) /\ c[0 + 1] # blank /\ \A i \in 1 .. 0 : c[i] = blank
        BY <1>1
      <3>. QED
        BY <3>1, TrimmedStart
    <2>4. 0 + 1 = 1
      OBVIOUS
    <2>. QED
      BY <2>1, <2>2, <2>3, <2>4, Zenon
  <1>3. s \in Seq(S) /\ Len(s) = n + 2 /\ s[1] = blank /\ s[n + 2] = blank /\ \A i \in 1 .. n : s[i + 1] = c[i]
    BY <1>1
  <1> HIDE DEF s
  <1>4. Dedup!TrimEnd(s, blank) = t
    <2>1. n + 1 \in 0 .. Len(s) /\ s[n + 1] # blank /\ \A i \in n + 1 + 1 .. Len(s) : s[i] = blank
      BY <1>1, <1>3
    <2> HIDE DEF n
    <2>. QED
      BY <1>3, <2>1, TrimmedEnd
  <1>5. t \in Seq(S) /\ Len(t) = n + 1 /\ t[1] = blank /\ \A i \in 1 .. n : t[i + 1] = c[i]
    BY <1>1, <1>3
  <1> HIDE DEF t
  <1>6. Dedup!TrimStart(t, blank) = SubSeq(t, 1 + 1, Len(t))
    <2>1. 1 \in 0 .. Len(t) /\ t[1 + 1] # blank /\ \A i \in 1 .. 1 : t[i] = blank
      BY <1>1, <1>5
    <2> HIDE DEF n
    <2>. QED
      BY <1>5, <2>1, TrimmedStart
  <1>7. SubSeq(t, 1 + 1, Len(t)) = c
    BY <1>1, <1>5
  <1>. QED
    BY <1>2, <1>4, <1>6, <1>7 DEF s

\* The first of the delimiters behind the first piece.
LEMMA Stop ==
  ASSUME NEW S, NEW s \in Seq(S), NEW D, NEW n \in 2 .. Len(s) + 1,
         \A i \in 2 .. n - 1 : s[i] \notin D, n <= Len(s) => s[n] \in D
  PROVE  Dedup!StopAt(s, D) = n
  <1> DEFINE I == {i \in 2 .. Len(s) : s[i] \in D}
             at == IF I # {} THEN Dedup!Min(I) ELSE 0
  <1>1. Dedup!StopAt(s, D) = IF at = 0 THEN Len(s) + 1 ELSE at
    BY DEF Dedup!StopAt, Dedup!SelectInSubSeq
  <1>2. Len(s) \in Nat /\ n \in Nat /\ 2 <= n /\ n <= Len(s) + 1 /\ I \subseteq Nat /\ 0 \notin I
    OBVIOUS
  <1>3. \A i \in I : i <= Len(s) /\ i >= n
    OBVIOUS
  <1>4. n <= Len(s) => n \in I
    OBVIOUS
  <1> HIDE DEF I
  <1>5. CASE I = {}
    BY <1>1, <1>2, <1>4, <1>5
  <1>6. CASE I # {}
    <2>1. \E m \in I : \A k \in I : m <= k
      BY <1>2, <1>6, Least
    <2>2. Dedup!Min(I) \in I /\ \A k \in I : Dedup!Min(I) <= k
      BY <2>1 DEF Dedup!Min
    <2> DEFINE m == Dedup!Min(I)
    <2>3. m \in Nat /\ m # 0 /\ m <= Len(s) /\ m >= n /\ (n <= Len(s) => m <= n)
      BY <1>2, <1>3, <1>4, <2>2
    <2>4. at = m
      BY <1>6
    <2> HIDE DEF m, at
    <2>. QED
      BY <1>1, <1>2, <2>3, <2>4
  <1>. QED
    BY <1>5, <1>6

\* One sequence behind another, piece by piece.
JoinOf(S, s, t, both) ==
  /\ both \in Seq(S) /\ Len(both) = Len(s) + Len(t)
  /\ \A i \in 1 .. Len(s) : both[i] = s[i]
  /\ \A i \in 1 .. Len(t) : both[Len(s) + i] = t[i]

\* So they are joined.
LEMMA Joined ==
  ASSUME NEW S, NEW s \in Seq(S), NEW t \in Seq(S)
  PROVE  JoinOf(S, s, t, s \o t)
  <1>1. s \o t \in Seq(S) /\ Len(s \o t) = Len(s) + Len(t)
    OBVIOUS
  <1>2. \A i \in 1 .. Len(s) : (s \o t)[i] = s[i]
    OBVIOUS
  <1>3. \A i \in 1 .. Len(t) : (s \o t)[Len(s) + i] = t[i]
    OBVIOUS
  <1>. QED
    BY <1>1, <1>2, <1>3 DEF JoinOf

\* Both pieces of a sequence of two.
LEMMA TwoPieces ==
  ASSUME NEW S, NEW s \in Seq(S), Len(s) = 2
  PROVE  s[1] \in S /\ s[2] \in S
  <1>1. \A i \in 1 .. Len(s) : s[i] \in S
    OBVIOUS
  <1>. QED
    BY <1>1

\* A URL: scheme and host, a path, and a tail that begins with one of the delimiters.
Splits(S, D, slash, origin, path, tail) ==
  /\ origin \in Seq(S) /\ path \in Seq(S) /\ tail \in Seq(S) /\ Len(origin) = 2
  /\ origin[2] \notin D /\ origin[2] # slash /\ \A i \in 1 .. Len(path) : path[i] \notin D
  /\ Len(tail) > 0 => tail[1] \in D

\* It is written so.
UrlOf(origin, path, tail) == (origin \o path) \o tail

\* It has its scheme and its host before any delimiter, and behind them, before the
\* first of those that are no slash, this.
ReadsAs(D, slash, s, scheme, rest) ==
  /\ Len(s) > 0 /\ s[1] = scheme
  /\ Dedup!StopAt(s, D \cup {slash}) > 2
  /\ SubSeq(s, 1, Dedup!StopAt(s, D) - 1) = rest

\* Without its tail.
LEMMA TailCut ==
  ASSUME NEW S, NEW D, NEW slash, NEW origin, NEW path, NEW tail, Splits(S, D, slash, origin, path, tail)
  PROVE  ReadsAs(D, slash, UrlOf(origin, path, tail), origin[1], origin \o path)
  <1> DEFINE l == Len(path)
             m == Len(tail)
             r == origin \o path
             s == UrlOf(origin, path, tail)
  <1>1. l \in Nat /\ m \in Nat /\ origin \in Seq(S) /\ Len(origin) = 2 /\ path \in Seq(S) /\ tail \in Seq(S)
    BY DEF Splits
  <1>2. r \in Seq(S) /\ Len(r) = l + 2 /\ r[1] = origin[1] /\ r[2] = origin[2] /\ \A i \in 1 .. l : r[i + 2] = path[i]
    <2>1. JoinOf(S, origin, path, r)
      BY <1>1, Joined, Zenon
    <2> HIDE DEF r
    <2>2. /\ r \in Seq(S) /\ Len(r) = Len(origin) + l
          /\ \A i \in 1 .. Len(origin) : r[i] = origin[i]
          /\ \A i \in 1 .. l : r[Len(origin) + i] = path[i]
      BY <2>1 DEF JoinOf
    <2> HIDE DEF l
    <2>3. r \in Seq(S) /\ Len(r) = l + 2
      BY <1>1, <2>2
    <2>4. r[1] = origin[1] /\ r[2] = origin[2]
      BY <1>1, <2>2
    <2>5. \A i \in 1 .. l : r[i + 2] = path[i]
      <3>1. \A i \in 1 .. l : r[2 + i] = path[i] /\ 2 + i = i + 2
        BY <1>1, <2>2
      <3>. QED
        BY <3>1
    <2>. QED
      BY <2>3, <2>4, <2>5
  <1> HIDE DEF r
  <1>3. /\ s \in Seq(S) /\ Len(s) = l + 2 + m /\ \A i \in 1 .. l + 2 : s[i] = r[i]
        /\ m > 0 => s[l + 3] = tail[1]
    <2>1. s = r \o tail
      BY DEF r, UrlOf
    <2> HIDE DEF s
    <2>2. /\ s \in Seq(S) /\ Len(s) = Len(r) + m
          /\ \A i \in 1 .. Len(r) : s[i] = r[i]
          /\ \A i \in 1 .. m : s[Len(r) + i] = tail[i]
      <3>1. JoinOf(S, r, tail, s)
        BY <1>1, <1>2, <2>1, Joined, Zenon
      <3>. QED
        BY <3>1 DEF JoinOf
    <2> HIDE DEF l, m
    <2>3. m > 0 => 1 \in 1 .. m /\ l + 2 + 1 = l + 3
      BY <1>1
    <2>4. m > 0 => s[l + 3] = tail[1]
      BY <1>2, <2>2, <2>3
    <2>. QED
      BY <1>2, <2>2, <2>4
  <1> HIDE DEF s
  <1>4. Dedup!StopAt(s, D) = l + 3
    <2>1. l + 3 \in 2 .. Len(s) + 1
      BY <1>1, <1>3
    <2>2. ASSUME NEW i \in 2 .. (l + 3) - 1
          PROVE  s[i] \notin D
      <3>1. CASE i = 2
        BY <1>1, <1>2, <1>3, <3>1 DEF Splits
      <3>2. CASE i # 2
        <4>1. i - 2 \in 1 .. l /\ i = (i - 2) + 2 /\ i \in 1 .. l + 2
          BY <1>1, <3>2
        <4>2. s[i] = path[i - 2]
          BY <1>2, <1>3, <4>1
        <4>. QED
          BY <4>1, <4>2 DEF Splits
      <3>. QED
        BY <3>1, <3>2
    <2>3. l + 3 <= Len(s) => s[l + 3] \in D
      BY <1>1, <1>3 DEF Splits
    <2> HIDE DEF l
    <2>. QED
      BY <1>3, <2>1, <2>2, <2>3, Stop
  <1>5. SubSeq(s, 1, l + 2) = r
    <2> DEFINE t == SubSeq(s, 1, l + 2)
    <2> HIDE DEF l, m
    <2>1. l + 2 <= Len(s) /\ l + 2 \in Nat
      BY <1>1, <1>3
    <2>2. t \in Seq(S) /\ Len(t) = l + 2 /\ \A i \in 1 .. l + 2 : t[i] = s[i]
      BY <1>3, <2>1
    <2> HIDE DEF t
    <2>. QED
      BY <1>2, <1>3, <2>2 DEF t
  <1>6. Dedup!StopAt(s, D \cup {slash}) > 2
    <2> DEFINE E == D \cup {slash}
               I == {i \in 2 .. Len(s) : s[i] \in E}
               at == IF I # {} THEN Dedup!Min(I) ELSE 0
    <2>1. Dedup!StopAt(s, E) = IF at = 0 THEN Len(s) + 1 ELSE at
      BY DEF Dedup!StopAt, Dedup!SelectInSubSeq
    <2>2. s[2] \notin E
      BY <1>1, <1>2, <1>3 DEF Splits
    <2> HIDE DEF E
    <2>3. I \subseteq Nat /\ \A i \in I : i > 2
      <3>1. \A i \in I : i \in Nat /\ i >= 2 /\ i # 2
        BY <2>2
      <3>. QED
        BY <3>1
    <2>4. Len(s) + 1 > 2
      BY <1>1, <1>3
    <2> HIDE DEF I
    <2>5. CASE I = {}
      BY <2>1, <2>4, <2>5 DEF E
    <2>6. CASE I # {}
      <3>1. \E k \in I : \A j \in I : k <= j
        BY <2>3, <2>6, Least
      <3> DEFINE k == Dedup!Min(I)
      <3>2. k \in I
        BY <3>1 DEF Dedup!Min
      <3>3. k \in Nat /\ k > 2 /\ at = k
        BY <2>3, <2>6, <3>2
      <3> HIDE DEF k, at
      <3>. QED
        BY <2>1, <3>3 DEF E
    <2>. QED
      BY <2>5, <2>6
  <1>7. Dedup!StopAt(s, D) - 1 = l + 2
    BY <1>1, <1>4
  <1>8. Len(s) > 0 /\ s[1] = origin[1]
    BY <1>1, <1>2, <1>3
  <1>. QED
    BY <1>5, <1>6, <1>7, <1>8 DEF ReadsAs, r, s

\* Without slashes at the end of the path.
LEMMA PathEnd ==
  ASSUME NEW S, NEW origin \in Seq(S), Len(origin) > 0, NEW path \in Seq(S), NEW slash,
         origin[Len(origin)] # slash
  PROVE  Dedup!TrimEnd(origin \o path, slash) = origin \o Dedup!TrimEnd(path, slash)
  <1> DEFINE s == origin \o path
             l == Len(origin)
  <1>1. PICK n \in 0 .. Len(path) : (n # 0 => path[n] # slash) /\ \A i \in n + 1 .. Len(path) : path[i] = slash
    BY AnEnd
  <1>2. Dedup!TrimEnd(path, slash) = SubSeq(path, 1, n)
    BY <1>1, TrimmedEnd
  <1>3. Len(path) \in Nat /\ n \in Nat /\ n <= Len(path) /\ l \in Nat /\ l > 0
    OBVIOUS
  <1>4. /\ s \in Seq(S) /\ Len(s) = l + Len(path)
        /\ \A i \in 1 .. l : s[i] = origin[i]
        /\ \A i \in 1 .. Len(path) : s[l + i] = path[i]
    <2>1. s \in Seq(S) /\ Len(s) = l + Len(path)
      OBVIOUS
    <2>2. \A i \in 1 .. l : s[i] = origin[i]
      OBVIOUS
    <2>3. \A i \in 1 .. Len(path) : s[l + i] = path[i]
      OBVIOUS
    <2>. QED
      BY <2>1, <2>2, <2>3
  <1>5. SubSeq(s, 1, l + n) = origin \o SubSeq(path, 1, n)
    <2> DEFINE t == SubSeq(path, 1, n)
               u == origin \o t
               v == SubSeq(s, 1, l + n)
    <2>1. t \in Seq(S) /\ Len(t) = n /\ \A i \in 1 .. n : t[i] = path[i]
      BY <1>3
    <2> HIDE DEF t
    <2>2. u \in Seq(S) /\ Len(u) = l + n
      BY <1>3, <2>1
    <2>3. \A i \in 1 .. l : u[i] = origin[i]
      BY <1>3, <2>1
    <2>4. \A i \in 1 .. n : u[l + i] = t[i]
      BY <1>3, <2>1
    <2> HIDE DEF u, s, l
    <2>5. v \in Seq(S) /\ Len(v) = l + n /\ \A i \in 1 .. l + n : v[i] = s[i]
      BY <1>3, <1>4
    <2> HIDE DEF v
    <2>6. ASSUME NEW i \in 1 .. l + n
          PROVE  v[i] = u[i]
      <3>1. CASE i <= l
        BY <1>3, <1>4, <2>3, <2>5, <3>1
      <3>2. CASE i > l
        <4> DEFINE k == i - l
        <4>1. k \in 1 .. n /\ i = l + k /\ k \in 1 .. Len(path)
          BY <1>3, <3>2
        <4> HIDE DEF k
        <4>2. v[l + k] = s[l + k] /\ s[l + k] = path[k] /\ u[l + k] = t[k] /\ t[k] = path[k]
          BY <1>3, <1>4, <2>1, <2>4, <2>5, <4>1
        <4>. QED
          BY <4>1, <4>2
      <3>. QED
        BY <1>3, <3>1, <3>2
    <2>7. v = u
      BY <1>3, <2>2, <2>5, <2>6
    <2>. QED
      BY <2>7 DEF u, v, t
  <1>6. Dedup!TrimEnd(s, slash) = SubSeq(s, 1, l + n)
    <2> HIDE DEF s, l
    <2>1. l + n \in 0 .. Len(s)
      BY <1>3, <1>4
    <2>2. s[l + n] # slash
      <3>1. CASE n = 0
        BY <1>3, <1>4, <3>1 DEF l
      <3>2. CASE n # 0
        <4>1. n \in 1 .. Len(path)
          BY <1>3, <3>2
        <4>. QED
          BY <1>1, <1>4, <3>2, <4>1
      <3>. QED
        BY <3>1, <3>2
    <2>3. ASSUME NEW i \in l + n + 1 .. Len(s)
          PROVE  s[i] = slash
      <3> DEFINE k == i - l
      <3>1. k \in n + 1 .. Len(path) /\ k \in 1 .. Len(path) /\ i = l + k
        BY <1>3, <1>4
      <3> HIDE DEF k
      <3>2. s[l + k] = path[k]
        BY <1>4, <3>1
      <3>. QED
        BY <1>1, <3>1, <3>2
    <2>. QED
      BY <1>4, <2>1, <2>2, <2>3, TrimmedEnd
  <1>. QED
    BY <1>2, <1>5, <1>6

\* The scheme that is left out of a URL.
LEMMA SchemeGiven ==
  ASSUME NEW S, NEW slash \in S, NEW scheme \in S, NEW rest \in Seq(S)
  PROVE  /\ scheme # slash => ~Dedup!IsPrefix(<<slash, slash>>, <<scheme>> \o rest)
         /\ LET s == <<slash, slash>> \o rest
            IN  Dedup!IsPrefix(<<slash, slash>>, s) /\ SubSeq(s, 3, Len(s)) = rest
  <1> DEFINE s == <<slash, slash>> \o rest
             u == <<scheme>> \o rest
             two == <<slash, slash>>
  <1>1. s \in Seq(S) /\ Len(s) = Len(rest) + 2 /\ s[1] = slash /\ s[2] = slash
        /\ \A i \in 1 .. Len(rest) : s[i + 2] = rest[i]
    OBVIOUS
  <1>2. u \in Seq(S) /\ Len(u) = Len(rest) + 1 /\ u[1] = scheme
    OBVIOUS
  <1>3. two \in Seq(S) /\ Len(two) = 2 /\ two[1] = slash /\ two[2] = slash
    OBVIOUS
  <1>4. Len(rest) \in Nat
    OBVIOUS
  <1> HIDE DEF s, u, two
  <1>5. ASSUME scheme # slash, Dedup!IsPrefix(two, u)
        PROVE  FALSE
    <2>1. Len(u) >= 2 /\ SubSeq(u, 1, 2) = SubSeq(two, 1, 2)
      BY <1>3, <1>5 DEF Dedup!IsPrefix
    <2>2. SubSeq(u, 1, 2)[1] = u[1] /\ SubSeq(two, 1, 2)[1] = slash
      BY <1>2, <1>3, <2>1
    <2>. QED
      BY <1>2, <1>5, <2>1, <2>2
  <1>6. Dedup!IsPrefix(two, s)
    <2>1. Len(SubSeq(s, 1, 2)) = 2 /\ SubSeq(s, 1, 2)[1] = slash /\ SubSeq(s, 1, 2)[2] = slash
          /\ SubSeq(s, 1, 2) \in Seq(S)
      BY <1>1, <1>4
    <2>2. SubSeq(s, 1, 2) = two
      BY <1>3, <2>1
    <2>3. SubSeq(two, 1, 2) = two
      BY <1>3
    <2>. QED
      BY <1>1, <1>3, <1>4, <2>2, <2>3 DEF Dedup!IsPrefix
  <1>7. SubSeq(s, 3, Len(s)) = rest
    BY <1>1, <1>4
  <1>. QED
    BY <1>5, <1>6, <1>7 DEF s, u, two

\* A piece in lower case.
LowerPiece(x) == IF x \in DOMAIN Dedup!LowerCase THEN Dedup!LowerCase[x] ELSE x

\* Delimiters have no case, and nothing becomes one.
LEMMA CaseOf ==
  /\ \A x : \A d \in {"/", "?", "#"} : LowerPiece(x) = d <=> x = d
  /\ LowerPiece("http://") = "http://" /\ LowerPiece("https://") = "https://" /\ LowerPiece("HTTPS://") = "https://"
  BY DEF LowerPiece, Dedup!LowerCase

\* Of these pieces none has a case, and nothing becomes one.
Caseless(S, D) == \A x \in S : \A d \in D : LowerPiece(x) = d <=> x = d

\* A sequence in lower case has its pieces in lower case.
LEMMA Lowered ==
  ASSUME NEW S, NEW s \in Seq(S), NEW T, \A x \in S : LowerPiece(x) \in T
  PROVE  /\ Dedup!Lower(s) \in Seq(T) /\ Len(Dedup!Lower(s)) = Len(s)
         /\ \A i \in 1 .. Len(s) : Dedup!Lower(s)[i] = LowerPiece(s[i])
  <1>1. DOMAIN s = 1 .. Len(s) /\ Len(s) \in Nat /\ \A i \in 1 .. Len(s) : s[i] \in S
    OBVIOUS
  <1>2. Dedup!Lower(s) = [i \in 1 .. Len(s) |-> LowerPiece(s[i])]
    BY <1>1 DEF Dedup!Lower, LowerPiece
  <1>. QED
    BY <1>1, <1>2

\* So have two of them.
LEMMA LoweredBoth ==
  ASSUME NEW S, NEW s \in Seq(S), NEW t \in Seq(S)
  PROVE  Dedup!Lower(s \o t) = Dedup!Lower(s) \o Dedup!Lower(t)
  <1> DEFINE T == {LowerPiece(x) : x \in S}
             u == s \o t
             lu == Dedup!Lower(u)
             ls == Dedup!Lower(s)
             lt == Dedup!Lower(t)
             v == ls \o lt
  <1>1. \A x \in S : LowerPiece(x) \in T
    OBVIOUS
  <1> HIDE DEF T
  <1>2. u \in Seq(S) /\ Len(u) = Len(s) + Len(t) /\ Len(s) \in Nat /\ Len(t) \in Nat
    OBVIOUS
  <1>3. \A i \in 1 .. Len(s) : u[i] = s[i]
    OBVIOUS
  <1>4. \A i \in 1 .. Len(t) : u[Len(s) + i] = t[i]
    OBVIOUS
  <1>5. ls \in Seq(T) /\ Len(ls) = Len(s) /\ \A i \in 1 .. Len(s) : ls[i] = LowerPiece(s[i])
    BY <1>1, Lowered
  <1>6. lt \in Seq(T) /\ Len(lt) = Len(t) /\ \A i \in 1 .. Len(t) : lt[i] = LowerPiece(t[i])
    BY <1>1, Lowered
  <1> HIDE DEF u, ls, lt
  <1>7. lu \in Seq(T) /\ Len(lu) = Len(u) /\ \A i \in 1 .. Len(u) : lu[i] = LowerPiece(u[i])
    BY <1>1, <1>2, Lowered
  <1>8. v \in Seq(T) /\ Len(v) = Len(ls) + Len(lt)
    <2>1. ls \in Seq(T) /\ lt \in Seq(T)
      BY <1>5, <1>6
    <2>. QED
      BY <2>1
  <1>9. \A i \in 1 .. Len(ls) : v[i] = ls[i]
    <2>1. ls \in Seq(T) /\ lt \in Seq(T)
      BY <1>5, <1>6
    <2>. QED
      BY <2>1
  <1>10. \A i \in 1 .. Len(lt) : v[Len(ls) + i] = lt[i]
    <2>1. ls \in Seq(T) /\ lt \in Seq(T)
      BY <1>5, <1>6
    <2>. QED
      BY <2>1
  <1> HIDE DEF lu, v
  <1>11. ASSUME NEW i \in 1 .. Len(u)
         PROVE  lu[i] = v[i]
    <2>1. lu[i] = LowerPiece(u[i])
      BY <1>7
    <2>2. CASE i <= Len(s)
      <3>1. i \in 1 .. Len(s)
        BY <1>2, <2>2
      <3>. QED
        BY <1>3, <1>5, <1>9, <2>1, <3>1
    <2>3. CASE i > Len(s)
      <3> DEFINE k == i - Len(s)
      <3>1. k \in 1 .. Len(t) /\ i = Len(s) + k
        BY <1>2, <2>3
      <3> HIDE DEF k
      <3>2. u[Len(s) + k] = t[k] /\ lt[k] = LowerPiece(t[k]) /\ v[Len(ls) + k] = lt[k]
        BY <1>4, <1>6, <1>10, <3>1
      <3>. QED
        BY <1>5, <2>1, <3>1, <3>2
    <2>. QED
      BY <1>2, <2>2, <2>3
  <1>12. lu = v
    <2>1. Len(lu) = Len(v) /\ \A i \in 1 .. Len(v) : lu[i] = v[i]
      BY <1>2, <1>5, <1>6, <1>7, <1>8, <1>11
    <2>. QED
      BY <1>7, <1>8, <2>1
  <1>. QED
    BY <1>12 DEF lu, v, u, ls, lt

\* Slashes are the same in lower case.
LEMMA LoweredEnd ==
  ASSUME NEW S, NEW path \in Seq(S), NEW slash, \A x \in S : LowerPiece(x) = slash <=> x = slash
  PROVE  Dedup!TrimEnd(Dedup!Lower(path), slash) = Dedup!Lower(Dedup!TrimEnd(path, slash))
  <1> DEFINE T == {LowerPiece(x) : x \in S}
             lp == Dedup!Lower(path)
  <1>1. \A x \in S : LowerPiece(x) \in T
    OBVIOUS
  <1> HIDE DEF T
  <1>2. PICK n \in 0 .. Len(path) : (n # 0 => path[n] # slash) /\ \A i \in n + 1 .. Len(path) : path[i] = slash
    BY AnEnd
  <1> DEFINE q == SubSeq(path, 1, n)
             lq == Dedup!Lower(q)
  <1>3. Dedup!TrimEnd(path, slash) = q
    BY <1>2, TrimmedEnd
  <1>4. lp \in Seq(T) /\ Len(lp) = Len(path) /\ \A i \in 1 .. Len(path) : lp[i] = LowerPiece(path[i])
    BY <1>1, Lowered
  <1>5. q \in Seq(S) /\ Len(q) = n /\ \A i \in 1 .. n : q[i] = path[i]
    OBVIOUS
  <1> HIDE DEF lp, q
  <1>6. lq \in Seq(T) /\ Len(lq) = n /\ \A i \in 1 .. n : lq[i] = LowerPiece(q[i])
    BY <1>1, <1>5, Lowered
  <1> HIDE DEF lq
  <1>7. Dedup!TrimEnd(lp, slash) = SubSeq(lp, 1, n)
    <2>1. (n # 0 => lp[n] # slash) /\ \A i \in n + 1 .. Len(lp) : lp[i] = slash
      BY <1>2, <1>4
    <2>. QED
      BY <1>4, <2>1, TrimmedEnd
  <1>8. SubSeq(lp, 1, n) \in Seq(T) /\ Len(SubSeq(lp, 1, n)) = n /\ \A i \in 1 .. n : SubSeq(lp, 1, n)[i] = lp[i]
    BY <1>4
  <1>9. SubSeq(lp, 1, n) = lq
    BY <1>4, <1>5, <1>6, <1>8
  <1>. QED
    BY <1>3, <1>7, <1>9 DEF lp, lq

\* What is left of a sequence without its tail and without slashes at its end.
CutsTo(D, slash, s, scheme, left) ==
  \E rest : ReadsAs(D, slash, s, scheme, rest) /\ Dedup!TrimEnd(rest, slash) = left

\* What normalize_url leaves of a URL with its scheme.
LEMMA Normalized ==
  ASSUME NEW S, NEW D, NEW slash, NEW origin, NEW path, NEW tail, Splits(S, D, slash, origin, path, tail),
         Caseless(S, D \cup {slash})
  PROVE  CutsTo(D, slash, Dedup!Lower(UrlOf(origin, path, tail)), LowerPiece(origin[1]),
                Dedup!Lower(origin) \o Dedup!Lower(Dedup!TrimEnd(path, slash)))
  <1> DEFINE T == {LowerPiece(x) : x \in S}
             lo == Dedup!Lower(origin)
             lp == Dedup!Lower(path)
             lt == Dedup!Lower(tail)
             op == origin \o path
             lower == Dedup!Lower(UrlOf(origin, path, tail))
  <1>1. \A x \in S : LowerPiece(x) \in T
    OBVIOUS
  <1> HIDE DEF T
  <1>2. origin \in Seq(S) /\ path \in Seq(S) /\ tail \in Seq(S) /\ Len(origin) = 2
    BY DEF Splits
  <1>3. lp \in Seq(T) /\ Len(lp) = Len(path) /\ \A i \in 1 .. Len(path) : lp[i] = LowerPiece(path[i])
    BY <1>1, <1>2, Lowered
  <1>4. lt \in Seq(T) /\ Len(lt) = Len(tail) /\ \A i \in 1 .. Len(tail) : lt[i] = LowerPiece(tail[i])
    BY <1>1, <1>2, Lowered
  <1>5. lo \in Seq(T) /\ Len(lo) = 2 /\ lo[1] = LowerPiece(origin[1]) /\ lo[2] = LowerPiece(origin[2])
    <2>1. lo \in Seq(T) /\ Len(lo) = Len(origin) /\ \A i \in 1 .. Len(origin) : lo[i] = LowerPiece(origin[i])
      BY <1>1, <1>2, Lowered
    <2> HIDE DEF lo
    <2>. QED
      BY <1>2, <2>1
  <1>6. lower = UrlOf(lo, lp, lt)
    <2>1. op \in Seq(S)
      BY <1>2, Joined
    <2>2. Dedup!Lower(op) = lo \o lp
      BY <1>2, LoweredBoth
    <2>3. lower = Dedup!Lower(op \o tail)
      BY DEF UrlOf
    <2> HIDE DEF op, lo, lp, lower
    <2>4. lower = Dedup!Lower(op) \o lt
      BY <1>2, <2>1, <2>3, LoweredBoth
    <2>. QED
      BY <2>2, <2>4 DEF UrlOf
  <1>7. Dedup!TrimEnd(lp, slash) = Dedup!Lower(Dedup!TrimEnd(path, slash))
    <2>1. \A x \in S : LowerPiece(x) = slash <=> x = slash
      BY DEF Caseless
    <2>. QED
      BY <1>2, <2>1, LoweredEnd
  <1> HIDE DEF lo, lp, lt, lower
  <1>8. ASSUME NEW x \in S
        PROVE  (LowerPiece(x) \in D <=> x \in D) /\ (LowerPiece(x) = slash => x = slash)
    BY DEF Caseless
  <1>9. Splits(T, D, slash, lo, lp, lt)
    <2>1. \A i \in 1 .. Len(path) : path[i] \in S
      BY <1>2
    <2>2. origin[2] \in S
      BY <1>2, TwoPieces, Zenon
    <2>3. Len(tail) > 0 => 1 \in 1 .. Len(tail) /\ tail[1] \in S
      BY <1>2
    <2>4. lo[2] \notin D /\ lo[2] # slash
      BY <1>5, <1>8, <2>2 DEF Splits
    <2>5. \A i \in 1 .. Len(lp) : lp[i] \notin D
      BY <1>3, <1>8, <2>1 DEF Splits
    <2>6. Len(lt) > 0 => lt[1] \in D
      BY <1>4, <1>8, <2>3 DEF Splits
    <2>. QED
      BY <1>3, <1>4, <1>5, <2>4, <2>5, <2>6 DEF Splits
  <1>10. ReadsAs(D, slash, lower, lo[1], lo \o lp)
    BY <1>6, <1>9, TailCut, Zenon
  <1>11. Dedup!TrimEnd(lo \o lp, slash) = lo \o Dedup!TrimEnd(lp, slash)
    <2>1. lo \in Seq(T) /\ lp \in Seq(T) /\ Len(lo) > 0 /\ lo[Len(lo)] # slash
      BY <1>9 DEF Splits
    <2>. QED
      BY <2>1, PathEnd
  <1>. QED
    BY <1>5, <1>7, <1>10, <1>11 DEF CutsTo, lo, lower

\* Which of three sequences are joined first does not matter.
Associate(s, t, u) == s \o (t \o u) = (s \o t) \o u

\* For sequences it does not.
LEMMA Associative ==
  ASSUME NEW S, NEW s \in Seq(S), NEW t \in Seq(S), NEW u \in Seq(S)
  PROVE  Associate(s, t, u)
  <1> DEFINE a == s \o (t \o u)
             b == (s \o t) \o u
  <1>1. t \o u \in Seq(S) /\ s \o t \in Seq(S) /\ Len(t \o u) = Len(t) + Len(u) /\ Len(s \o t) = Len(s) + Len(t)
    OBVIOUS
  <1>2. a \in Seq(S) /\ b \in Seq(S) /\ Len(a) = Len(s) + Len(t) + Len(u) /\ Len(b) = Len(a)
    BY <1>1
  <1>3. \A i \in 1 .. Len(a) : a[i] = b[i]
    BY <1>1, <1>2
  <1> HIDE DEF a, b
  <1>. QED
    BY <1>2, <1>3 DEF a, b, Associate

\* A sequence that may be empty, and otherwise does not end in a blank.
Closes(S, blank, s) == s \in Seq(S) /\ (s # <<>> => s[Len(s)] # blank)

\* One that is not empty.
Opens(S, blank, first, s) == Closes(S, blank, s) /\ Len(s) > 0 /\ s[1] = first

\* What begins and ends a sequence that is joined of two.
LEMMA EndsOf ==
  ASSUME NEW S, NEW blank, NEW first, NEW s, NEW t, Opens(S, blank, first, s), Closes(S, blank, t)
  PROVE  Opens(S, blank, first, s \o t)
  <1> USE DEF Opens, Closes
  <1>1. s \in Seq(S) /\ t \in Seq(S) /\ Len(s) > 0 /\ s[Len(s)] # blank /\ s[1] = first
    OBVIOUS
  <1>2. s \o t \in Seq(S) /\ Len(s \o t) = Len(s) + Len(t) /\ (s \o t)[1] = s[1]
    BY <1>1
  <1>3. CASE t = <<>>
    <2>1. s \o t = s
      BY <1>1, <1>3
    <2>. QED
      BY <2>1
  <1>4. CASE t # <<>>
    <2>1. Len(t) \in Nat /\ Len(t) > 0
      BY <1>4
    <2>2. \A i \in 1 .. Len(t) : (s \o t)[Len(s) + i] = t[i]
      BY <1>1
    <2>. QED
      BY <1>1, <1>4, <1>2, <2>1, <2>2
  <1>. QED
    BY <1>3, <1>4

\* White space around a URL is not read.
Unpads(blank, pad, scheme, host, path, tail) ==
  Dedup!TrimStart(Dedup!TrimEnd(pad \o scheme \o host \o path \o tail \o pad, blank), blank)
    = scheme \o host \o path \o tail

\* So it is, whether there is some.
LEMMA PadCut ==
  ASSUME NEW S, NEW blank \in S, NEW pad \in {<<>>, <<blank>>},
         NEW first, first # blank, NEW scheme, Opens(S, blank, first, scheme),
         NEW host, Closes(S, blank, host), NEW path, Closes(S, blank, path),
         NEW tail, Closes(S, blank, tail)
  PROVE  Unpads(blank, pad, scheme, host, path, tail)
  <1> DEFINE a == scheme \o host
             b == a \o path
             c == b \o tail
             p == <<blank>>
  <1>1. Opens(S, blank, first, a)
    BY EndsOf, Zenon
  <1>2. Opens(S, blank, first, b)
    BY <1>1, EndsOf, Zenon
  <1>3. Opens(S, blank, first, c)
    BY <1>2, EndsOf, Zenon
  <1> HIDE DEF a, b, c
  <1>4. /\ Dedup!TrimStart(Dedup!TrimEnd(c, blank), blank) = c
        /\ Dedup!TrimStart(Dedup!TrimEnd(p \o c \o p, blank), blank) = c
    <2>1. c \in Seq(S) /\ Len(c) > 0 /\ c[1] # blank /\ c[Len(c)] # blank
      BY <1>3 DEF Opens, Closes
    <2>. QED
      BY <2>1, Unpadded
  <1>5. CASE pad = <<>>
    <2>1. \A s \in Seq(S) : <<>> \o s = s /\ s \o <<>> = s
      OBVIOUS
    <2>2. scheme \in Seq(S) /\ c \in Seq(S)
      BY <1>3 DEF Opens, Closes
    <2>3. <<>> \o scheme = scheme /\ c \o <<>> = c
      BY <2>1, <2>2
    <2>4. pad \o scheme \o host \o path \o tail \o pad = c
      BY <1>5, <2>3, Zenon DEF a, b, c
    <2>. QED
      BY <1>4, <2>4, Zenon DEF Unpads, a, b, c
  <1>6. CASE pad = p
    <2>1. p \in Seq(S) /\ scheme \in Seq(S) /\ host \in Seq(S) /\ path \in Seq(S) /\ tail \in Seq(S)
          /\ a \in Seq(S) /\ b \in Seq(S)
      BY <1>1, <1>2 DEF Opens, Closes
    <2> HIDE DEF p
    <2>2. Associate(p, scheme, host) /\ Associate(p, a, path) /\ Associate(p, b, tail)
      BY <2>1, Associative, Zenon
    <2>5. p \o scheme \o host \o path \o tail = p \o c
      BY <2>2, Zenon DEF Associate, a, b, c
    <2>. QED
      BY <1>4, <1>6, <2>5, Zenon DEF Unpads, a, b, c
  <1>. QED
    BY <1>5, <1>6 DEF Unpads, p

\* The scheme a URL is read with.
LEMMA SchemeRead ==
  ASSUME NEW S, {"/", "https://"} \subseteq S, NEW scheme \in S, NEW rest \in Seq(S)
  PROVE  /\ scheme # "/" => Dedup!WithScheme(<<scheme>> \o rest) = <<scheme>> \o rest
         /\ Dedup!WithScheme(<<"/", "/">> \o rest) = <<"https://">> \o rest
  <1> DEFINE slash == "/"
             https == "https://"
             s == <<slash, slash>> \o rest
  <1>1. \A url : Dedup!WithScheme(url) =
          IF Dedup!IsPrefix(<<slash, slash>>, url) THEN <<https>> \o SubSeq(url, 3, Len(url)) ELSE url
    BY DEF Dedup!WithScheme
  <1>2. slash \in S
    OBVIOUS
  <1> HIDE DEF slash, https
  <1>3. scheme # slash => ~Dedup!IsPrefix(<<slash, slash>>, <<scheme>> \o rest)
    BY <1>2, SchemeGiven
  <1>4. Dedup!IsPrefix(<<slash, slash>>, s) /\ SubSeq(s, 3, Len(s)) = rest
    BY <1>2, SchemeGiven
  <1>5. scheme # slash => Dedup!WithScheme(<<scheme>> \o rest) = <<scheme>> \o rest
    BY <1>1, <1>3, Zenon
  <1>6. Dedup!WithScheme(s) = <<https>> \o rest
    BY <1>1, <1>4, Zenon
  <1>. QED
    BY <1>5, <1>6 DEF s, slash, https

\* A sequence of some pieces is one of more.
LEMMA Wider ==
  ASSUME NEW S, NEW T, S \subseteq T, NEW s \in Seq(S)
  PROVE  s \in Seq(T)
  <1>1. s = [i \in 1 .. Len(s) |-> s[i]] /\ Len(s) \in Nat /\ \A i \in 1 .. Len(s) : s[i] \in T
    OBVIOUS
  <1>. QED
    BY <1>1

\* The pieces of a sequence are of its set, the last one too.
LEMMA PiecesOf ==
  ASSUME NEW S, NEW s \in Seq(S)
  PROVE  /\ \A i \in 1 .. Len(s) : s[i] \in S
         /\ s # <<>> <=> Len(s) > 0
         /\ s # <<>> => Len(s) \in 1 .. Len(s)
  <1>1. \A i \in 1 .. Len(s) : s[i] \in S
    OBVIOUS
  <1>2. s # <<>> <=> Len(s) > 0
    OBVIOUS
  <1>3. Len(s) > 0 => Len(s) \in 1 .. Len(s)
    OBVIOUS
  <1>. QED
    BY <1>1, <1>2, <1>3

\* The pieces of URLs.
UrlPieces == STRING \cup {"http://", "https://", "HTTPS://", "/", "?", "#", " "}

\* Delimiters and blanks of URLs are where they belong.
LEMMA PartsOf ==
  ASSUME NEW parts \in Dedup!Parts(Hosts, Paths, Tails)
  PROVE  /\ parts.scheme \in {<<"http://">>, <<"https://">>, <<"HTTPS://">>, <<"/", "/">>}
         /\ parts.pad \in {<<>>, <<" ">>}
         /\ parts.host \in UrlPieces /\ parts.host \notin {"/", "?", "#", " "}
         /\ Closes(UrlPieces, " ", parts.path) /\ Closes(UrlPieces, " ", parts.tail)
         /\ \A i \in 1 .. Len(parts.path) : parts.path[i] \notin {"?", "#"}
         /\ Len(parts.tail) > 0 => parts.tail[1] \in {"?", "#"}
  <1>1. parts.host \in Hosts /\ parts.path \in Paths /\ parts.tail \in Tails
    BY DEF Dedup!Parts
  <1> DEFINE path == parts.path
             tail == parts.tail
             P == STRING \ {"?", "#", " "}
  <1>2. path \in Seq(P) /\ tail \in Seq(STRING)
        /\ (tail # <<>> => tail[1] \in {"?", "#"} /\ tail[Len(tail)] # " ")
    BY <1>1, UrlsAssumption
  <1>3. P \subseteq UrlPieces /\ STRING \subseteq UrlPieces /\ \A x \in P : x \notin {"?", "#"} /\ x # " "
    BY DEF UrlPieces
  <1> HIDE DEF path, tail, P
  <1>4. path \in Seq(UrlPieces) /\ tail \in Seq(UrlPieces)
    BY <1>2, <1>3, Wider, Zenon
  <1>5. \A i \in 1 .. Len(path) : path[i] \in P
    BY <1>2, PiecesOf, Zenon
  <1>6. path # <<>> => Len(path) \in 1 .. Len(path)
    BY <1>2, PiecesOf, Zenon
  <1>7. Len(tail) > 0 => tail # <<>>
    BY <1>2, PiecesOf, Zenon
  <1>8. Closes(UrlPieces, " ", path) /\ Closes(UrlPieces, " ", tail)
    <2>1. path # <<>> => path[Len(path)] # " "
      BY <1>3, <1>5, <1>6, Zenon
    <2>. QED
      BY <1>2, <1>4, <2>1, Zenon DEF Closes
  <1>9. \A i \in 1 .. Len(path) : path[i] \notin {"?", "#"}
    BY <1>3, <1>5, Zenon
  <1>10. parts.host \in UrlPieces /\ parts.host \notin {"/", "?", "#", " "}
    BY <1>1, UrlsAssumption DEF UrlPieces
  <1>11. parts.scheme \in {<<"http://">>, <<"https://">>, <<"HTTPS://">>, <<"/", "/">>} /\ parts.pad \in {<<>>, <<" ">>}
    BY DEF Dedup!Parts
  <1>. QED
    BY <1>2, <1>7, <1>8, <1>9, <1>10, <1>11, Zenon DEF path, tail

\* A scheme has no case but one.
LEMMA OneOrigin ==
  ASSUME NEW S, NEW x \in S, NEW host \in S
  PROVE  Dedup!Lower(<<x>> \o <<host>>) = <<LowerPiece(x)>> \o <<LowerPiece(host)>> /\ Dedup!Lower(<<host>>)[1] = LowerPiece(host)
  <1>1. <<x>> \in Seq(S) /\ <<host>> \in Seq(S)
    OBVIOUS
  <1>2. \A y : Dedup!Lower(<<y>>) = <<LowerPiece(y)>>
    BY DEF Dedup!Lower, LowerPiece
  <1>3. Dedup!Lower(<<x>> \o <<host>>) = Dedup!Lower(<<x>>) \o Dedup!Lower(<<host>>)
    BY <1>1, LoweredBoth
  <1>4. Dedup!Lower(<<host>>)[1] = LowerPiece(host)
    BY <1>2
  <1>. QED
    BY <1>2, <1>3, <1>4, Zenon

\* A URL with its scheme, in lower case and cut.
LEMMA CutOf ==
  ASSUME NEW x \in {"http://", "https://", "HTTPS://"}, NEW parts \in Dedup!Parts(Hosts, Paths, Tails)
  PROVE  CutsTo({"?", "#"}, "/", Dedup!Lower(UrlOf(<<x>> \o <<parts.host>>, parts.path, parts.tail)), LowerPiece(x),
                (<<LowerPiece(x)>> \o <<LowerPiece(parts.host)>>) \o Dedup!Lower(Dedup!TrimEnd(parts.path, "/")))
  <1> DEFINE S == UrlPieces
             D == {"?", "#"}
             slash == "/"
             host == parts.host
             origin == <<x>> \o <<host>>
  <1>1. x \in S
    BY DEF UrlPieces
  <1>2. host \in S /\ host \notin D /\ host # slash
        /\ (\A i \in 1 .. Len(parts.path) : parts.path[i] \notin D) /\ (Len(parts.tail) > 0 => parts.tail[1] \in D)
        /\ parts.path \in Seq(S) /\ parts.tail \in Seq(S)
    BY PartsOf, Zenon DEF Closes
  <1>3. Caseless(S, D \cup {slash})
    BY CaseOf DEF Caseless
  <1> HIDE DEF S, D, slash, host
  <1>4. origin \in Seq(S) /\ Len(origin) = 2 /\ origin[1] = x /\ origin[2] = host
    BY <1>1, <1>2
  <1>5. Dedup!Lower(origin) = <<LowerPiece(x)>> \o <<LowerPiece(host)>>
    BY <1>1, <1>2, OneOrigin
  <1> HIDE DEF origin
  <1>6. Splits(S, D, slash, origin, parts.path, parts.tail)
    BY <1>2, <1>4, Zenon DEF Splits
  <1> DEFINE lower == Dedup!Lower(UrlOf(origin, parts.path, parts.tail))
  <1>7. CutsTo(D, slash, lower, LowerPiece(origin[1]), Dedup!Lower(origin) \o Dedup!Lower(Dedup!TrimEnd(parts.path, slash)))
    BY <1>3, <1>6, Normalized, Zenon
  <1>. QED
    BY <1>4, <1>5, <1>7, Zenon DEF D, slash, host, origin

\* One piece, once or twice.
LEMMA OnePiece ==
  ASSUME NEW S, NEW y \in S, NEW blank, y # blank
  PROVE  Opens(S, blank, y, <<y>>) /\ Opens(S, blank, y, <<y, y>>)
  <1>1. <<y>> \in Seq(S) /\ Len(<<y>>) = 1 /\ <<y>>[1] = y
    OBVIOUS
  <1>2. <<y, y>> \in Seq(S) /\ Len(<<y, y>>) = 2 /\ <<y, y>>[1] = y /\ <<y, y>>[2] = y
    OBVIOUS
  <1>3. Opens(S, blank, y, <<y>>)
    BY <1>1 DEF Opens, Closes
  <1>4. Opens(S, blank, y, <<y, y>>)
    BY <1>2 DEF Opens, Closes
  <1>. QED
    BY <1>3, <1>4

\* What is left of a sequence is one.
LEMMA TrimmedIn ==
  ASSUME NEW S, NEW s \in Seq(S), NEW piece
  PROVE  Dedup!TrimEnd(s, piece) \in Seq(S)
  <1>1. PICK n \in 0 .. Len(s) : (n # 0 => s[n] # piece) /\ \A i \in n + 1 .. Len(s) : s[i] = piece
    BY AnEnd
  <1>2. Dedup!TrimEnd(s, piece) = SubSeq(s, 1, n)
    BY <1>1, TrimmedEnd
  <1>. QED
    BY <1>2

\* In lower case it is one, too.
LEMMA LoweredIn ==
  ASSUME NEW S, NEW s \in Seq(S)
  PROVE  Dedup!Lower(s) \in Seq({LowerPiece(y) : y \in S})
  BY Lowered

\* Nothing before or behind it.
LEMMA Alone ==
  ASSUME NEW a, NEW b, NEW T, NEW path \in Seq(T)
  PROVE  <<>> \o <<a>> \o <<b>> \o path \o <<>> \o <<>> = (<<a>> \o <<b>>) \o path
  <1> DEFINE U == T \cup {a, b}
             s == <<a>> \o <<b>>
  <1>1. T \subseteq U /\ <<a>> \in Seq(U) /\ <<b>> \in Seq(U)
    OBVIOUS
  <1>2. path \in Seq(U)
    BY <1>1, Wider, Zenon
  <1> HIDE DEF U
  <1>3. s \in Seq(U)
    BY <1>1
  <1> HIDE DEF s
  <1>4. s \o path \in Seq(U)
    BY <1>2, <1>3
  <1>5. \A v \in Seq(U) : <<>> \o v = v /\ v \o <<>> = v
    OBVIOUS
  <1>. QED
    BY <1>1, <1>4, <1>5, Zenon DEF s

\* The scheme of a URL.
SchemeOf(parts) == IF parts.scheme = <<"/", "/">> THEN "https://" ELSE parts.scheme[1]

\* It is one of three, and written or left out.
LEMMA Schemes ==
  ASSUME NEW parts \in Dedup!Parts(Hosts, Paths, Tails)
  PROVE  LET x == SchemeOf(parts)
         IN  /\ x \in {"http://", "https://", "HTTPS://"}
             /\ \/ parts.scheme = <<"/", "/">> /\ x = "https://"
                \/ parts.scheme = <<x>>
             /\ LowerPiece(x) = IF parts.scheme = <<"http://">> THEN "http://" ELSE "https://"
             /\ \E first \in UrlPieces : first # " " /\ Opens(UrlPieces, " ", first, parts.scheme)
  <1> DEFINE x == SchemeOf(parts)
             scheme == parts.scheme
  <1>1. scheme \in {<<"http://">>, <<"https://">>, <<"HTTPS://">>, <<"/", "/">>}
    BY PartsOf
  <1>2. {"http://", "https://", "HTTPS://", "/"} \subseteq UrlPieces
    BY DEF UrlPieces
  <1> HIDE DEF scheme
  <1>3. CASE scheme = <<"/", "/">>
    <2>1. x = "https://" /\ scheme # <<"http://">>
      BY <1>3 DEF SchemeOf, scheme
    <2>2. Opens(UrlPieces, " ", "/", scheme)
      BY <1>2, <1>3, OnePiece
    <2>. QED
      BY <1>2, <1>3, <2>1, <2>2, CaseOf DEF scheme
  <1>4. ASSUME NEW y \in {"http://", "https://", "HTTPS://"}, scheme = <<y>>
        PROVE  /\ x \in {"http://", "https://", "HTTPS://"} /\ scheme = <<x>>
               /\ LowerPiece(x) = IF scheme = <<"http://">> THEN "http://" ELSE "https://"
               /\ \E first \in UrlPieces : first # " " /\ Opens(UrlPieces, " ", first, scheme)
    <2>1. x = y /\ (scheme = <<"http://">> <=> y = "http://")
      BY <1>4 DEF SchemeOf, scheme
    <2>2. y \in UrlPieces /\ y # " "
      BY <1>2, <1>4
    <2>3. Opens(UrlPieces, " ", y, scheme)
      BY <1>4, <2>2, OnePiece
    <2>4. LowerPiece(y) = IF y = "http://" THEN "http://" ELSE "https://"
      BY <1>4, CaseOf
    <2>. QED
      BY <1>4, <2>1, <2>2, <2>3, <2>4
  <1>. QED
    BY <1>1, <1>3, <1>4 DEF scheme

\* A URL with its scheme and without white space around it.
LEMMA PlainOf ==
  ASSUME NEW parts \in Dedup!Parts(Hosts, Paths, Tails)
  PROVE  Dedup!WithScheme(Dedup!TrimStart(Dedup!TrimEnd(Dedup!Written(parts), " "), " "))
            = UrlOf(<<SchemeOf(parts)>> \o <<parts.host>>, parts.path, parts.tail)
  <1> DEFINE S == UrlPieces
             scheme == parts.scheme
             hosts == <<parts.host>>
             path == parts.path
             tail == parts.tail
             x == SchemeOf(parts)
             blank == " "
             rest == (hosts \o path) \o tail
             url == scheme \o hosts \o path \o tail
  <1>1. /\ x \in {"http://", "https://", "HTTPS://"}
        /\ \/ scheme = <<"/", "/">> /\ x = "https://"
           \/ scheme = <<x>>
    BY Schemes, Zenon
  <1>2. {"/", "https://", "http://", "HTTPS://"} \subseteq S /\ blank \in S
    BY DEF UrlPieces
  <1>3. Closes(S, blank, path) /\ Closes(S, blank, tail)
    BY PartsOf, Zenon
  <1>4. parts.pad \in {<<>>, <<blank>>} /\ parts.host \in S /\ parts.host # blank
    BY PartsOf
  <1>5. PICK first \in S : first # blank /\ Opens(S, blank, first, scheme)
    BY Schemes, Zenon
  <1>6. Closes(S, blank, hosts)
    BY <1>4, OnePiece, Zenon DEF Opens
  <1>7. Dedup!Written(parts) = parts.pad \o scheme \o hosts \o path \o tail \o parts.pad
    BY DEF Dedup!Written
  <1>8. Dedup!TrimStart(Dedup!TrimEnd(Dedup!Written(parts), blank), blank) = url
    <2> HIDE DEF S, blank, scheme, hosts, path, tail
    <2>1. Unpads(blank, parts.pad, scheme, hosts, path, tail)
      BY <1>2, <1>3, <1>4, <1>5, <1>6, PadCut, Zenon
    <2>. QED
      BY <1>7, <2>1, Zenon DEF Unpads
  <1>9. scheme \in Seq(S) /\ hosts \in Seq(S) /\ path \in Seq(S) /\ tail \in Seq(S)
    BY <1>3, <1>5, <1>6, Zenon DEF Opens, Closes
  <1> HIDE DEF scheme, hosts, path, tail, S, x
  <1>10. hosts \o path \in Seq(S) /\ rest \in Seq(S)
    BY <1>9
  <1>11. \A s \in Seq(S) : s \o rest = s \o hosts \o path \o tail
    <2> SUFFICES ASSUME NEW s \in Seq(S)
                 PROVE  s \o rest = s \o hosts \o path \o tail
      OBVIOUS
    <2>1. s \o hosts \in Seq(S)
      BY <1>9
    <2>2. Associate(s, hosts, path) /\ Associate(s, hosts \o path, tail)
      BY <1>9, <1>10, Associative, Zenon
    <2>. QED
      BY <2>2, Zenon DEF Associate
  <1>12. <<x>> \in Seq(S) /\ x \in S
    <2>1. x \in S
      BY <1>1, <1>2
    <2>. QED
      BY <2>1
  <1>13. url = scheme \o rest /\ UrlOf(<<x>> \o hosts, path, tail) = <<x>> \o rest
    BY <1>9, <1>11, <1>12, Zenon DEF UrlOf
  <1>14. Dedup!WithScheme(scheme \o rest) = <<x>> \o rest
    <2>1. /\ x # "/" => Dedup!WithScheme(<<x>> \o rest) = <<x>> \o rest
          /\ Dedup!WithScheme(<<"/", "/">> \o rest) = <<"https://">> \o rest
      <3> HIDE DEF rest
      <3>. QED
        BY <1>2, <1>10, <1>12, SchemeRead
    <2>. QED
      BY <1>1, <2>1, Zenon
  <1>. QED
    BY <1>8, <1>13, <1>14, Zenon DEF x, blank, scheme, hosts, path, tail

\* However it is written, a URL is normalized to its key.
LEMMA KeyOf ==
  ASSUME NEW parts \in Dedup!Parts(Hosts, Paths, Tails)
  PROVE  Dedup!NormalizeUrl(Dedup!Written(parts)) = Dedup!Written(Dedup!Key(parts))
  <1> DEFINE x == SchemeOf(parts)
             read == Dedup!WithScheme(Dedup!TrimStart(Dedup!TrimEnd(Dedup!Written(parts), " "), " "))
             lower == Dedup!Lower(read)
             path == Dedup!Lower(Dedup!TrimEnd(parts.path, "/"))
             left == (<<LowerPiece(x)>> \o <<LowerPiece(parts.host)>>) \o path
  <1>1. x \in {"http://", "https://", "HTTPS://"} /\ read = UrlOf(<<x>> \o <<parts.host>>, parts.path, parts.tail)
    BY Schemes, PlainOf, Zenon
  <1>2. LowerPiece(x) = IF parts.scheme = <<"http://">> THEN "http://" ELSE "https://"
    BY Schemes, Zenon
  <1> HIDE DEF x, read
  <1>3. CutsTo({"?", "#"}, "/", lower, LowerPiece(x), left)
    BY <1>1, CutOf, Zenon
  <1>4. PICK rest : ReadsAs({"?", "#"}, "/", lower, LowerPiece(x), rest) /\ Dedup!TrimEnd(rest, "/") = left
    BY <1>3 DEF CutsTo
  <1> HIDE DEF lower, left
  <1>5. Dedup!HasHost(lower)
    <2>1. lower # <<>> /\ lower[1] \in {"http://", "https://"}
      <3>1. Len(lower) > 0 /\ lower[1] = LowerPiece(x)
        BY <1>4, Zenon DEF ReadsAs
      <3>2. Len(<<>>) = 0 /\ ~(0 > 0)
        OBVIOUS
      <3>3. lower # <<>>
        BY <3>1, <3>2, Zenon
      <3>. QED
        BY <1>2, <3>1, <3>3
    <2>2. {"?", "#"} \cup {"/"} = {"/", "?", "#"}
      OBVIOUS
    <2>. QED
      BY <1>4, <2>1, <2>2, Zenon DEF Dedup!HasHost, ReadsAs
  <1>6. Dedup!NormalizeUrl(Dedup!Written(parts))
          = Dedup!TrimEnd(SubSeq(lower, 1, Dedup!StopAt(lower, {"?", "#"}) - 1), "/")
    BY <1>5 DEF Dedup!NormalizeUrl, read, lower
  <1>7. Dedup!NormalizeUrl(Dedup!Written(parts)) = left
    BY <1>4, <1>6, Zenon DEF ReadsAs
  <1>8. Dedup!Written(Dedup!Key(parts)) = left
    <2> DEFINE scheme == IF parts.scheme = <<"http://">> THEN <<"http://">> ELSE <<"https://">>
               host == Dedup!Lower(<<parts.host>>)[1]
    <2>1. Dedup!Written(Dedup!Key(parts)) = <<>> \o scheme \o <<host>> \o path \o <<>> \o <<>>
      BY DEF Dedup!Written, Dedup!Key
    <2>2. scheme = <<LowerPiece(x)>>
      BY <1>2
    <2>3. host = LowerPiece(parts.host)
      BY PartsOf, OneOrigin
    <2> DEFINE T == {LowerPiece(y) : y \in UrlPieces}
    <2>4. path \in Seq(T)
      <3> DEFINE kept == Dedup!TrimEnd(parts.path, "/")
      <3>1. kept \in Seq(UrlPieces)
        <4>1. parts.path \in Seq(UrlPieces)
          BY PartsOf, Zenon DEF Closes
        <4>. QED
          BY <4>1, TrimmedIn, Zenon
      <3>. QED
        BY <3>1, LoweredIn, Zenon
    <2> HIDE DEF scheme, host, path
    <2>5. <<>> \o <<LowerPiece(x)>> \o <<LowerPiece(parts.host)>> \o path \o <<>> \o <<>>
            = (<<LowerPiece(x)>> \o <<LowerPiece(parts.host)>>) \o path
      BY <2>4, Alone
    <2>. QED
      BY <2>1, <2>2, <2>3, <2>5, Zenon DEF left
  <1>. QED
    BY <1>7, <1>8

\* The URLs that are normalized are those of the parts.
OfParts == call.of = "normalize_url" => call.parts \in Dedup!Parts(Hosts, Paths, Tails)

\* At the start nothing is called.
LEMMA OfPartsInit == Init => OfParts
  BY DEF Init, Idle, OfParts

\* And every call of normalize_url is of such a URL.
LEMMA OfPartsStep == OfParts /\ [Next]_call => OfParts'
  <1> SUFFICES ASSUME OfParts, [Next]_call, (call.of = "normalize_url")'
               PROVE  (call.parts \in Dedup!Parts(Hosts, Paths, Tails))'
    BY DEF OfParts
  <1>1. CASE Normalize
    BY <1>1 DEF Normalize
  <1>2. ASSUME Plan \/ Compare \/ CleanTitles \/ ExtractPage \/ CleanText \/ JoinLink \/ Parse \/ Resolve
        PROVE  FALSE
    BY <1>2 DEF Plan, Compare, CleanTitles, ExtractPage, CleanText, JoinLink, Parse, Resolve
  <1>3. CASE UNCHANGED call
    BY <1>3 DEF OfParts
  <1>. QED
    BY <1>1, <1>2, <1>3 DEF Next

\* However a URL is written, normalize_url gives its one normal form, for all hosts,
\* paths and tails of pieces: with the scheme or without it, in any case, with white
\* space around it, a query, a fragment, or slashes at the end.
THEOREM NormalizedKey == Spec => []NormalizedUrlIsKey
  <1>1. OfParts => NormalizedUrlIsKey
    BY KeyOf DEF OfParts, NormalizedUrlIsKey
  <1>. QED
    BY <1>1, OfPartsInit, OfPartsStep, PTL DEF Spec

-----------------------------------------------------------------------------
(* normalize_url of the feed parser.                                       *)

\* The first and the last slash behind "scheme://".
FirstSlash(s, slash) == LET I == {i \in 4 .. Len(s) : s[i] = slash} IN IF I # {} THEN Feed!Min(I) ELSE 0
FinalSlash(s, slash) == LET I == {i \in 4 .. Len(s) : s[i] = slash} IN IF I # {} THEN Feed!Max(I) ELSE 0

\* A scheme, two slashes and a host.
IsOrigin(S, slash, origin) == origin \in Seq(S) /\ Len(origin) = 4 /\ origin[4] # slash

\* The path begins behind the host.
HostIsCut(slash, origin, path) ==
  IF FirstSlash(origin \o path, slash) = 0 THEN origin \o path = origin
  ELSE SubSeq(origin \o path, 1, FirstSlash(origin \o path, slash) - 1) = origin

\* So it is found, if there is one.
LEMMA HostCut ==
  ASSUME NEW S, NEW slash, NEW origin, IsOrigin(S, slash, origin), NEW path \in Seq(S),
         path # <<>> => path[1] = slash
  PROVE  HostIsCut(slash, origin, path)
  <1> DEFINE s == origin \o path
             I == {i \in 4 .. Len(s) : s[i] = slash}
  <1>1. origin \in Seq(S) /\ Len(origin) = 4 /\ origin[4] # slash
    BY DEF IsOrigin
  <1>2. /\ s \in Seq(S) /\ Len(s) = 4 + Len(path) /\ \A i \in 1 .. 4 : s[i] = origin[i]
        /\ \A i \in 1 .. Len(path) : s[4 + i] = path[i]
    <2>1. JoinOf(S, origin, path, s)
      BY <1>1, Joined, Zenon
    <2> HIDE DEF s
    <2>. QED
      BY <1>1, <2>1 DEF JoinOf
  <1>3. path # <<>> => s[5] = slash /\ Len(path) > 0
    <2>1. path # <<>> => Len(path) > 0
      OBVIOUS
    <2>2. Len(path) > 0 => 1 \in 1 .. Len(path) /\ 4 + 1 = 5
      OBVIOUS
    <2> HIDE DEF s
    <2>. QED
      BY <1>2, <2>1, <2>2
  <1>4. FirstSlash(s, slash) = IF I # {} THEN Feed!Min(I) ELSE 0
    BY DEF FirstSlash
  <1>5. Len(path) \in Nat
    OBVIOUS
  <1>6. CASE path = <<>>
    <2>1. s = origin
      BY <1>1, <1>6
    <2>2. I = {}
      BY <1>1, <2>1
    <2> HIDE DEF s, I
    <2>. QED
      BY <1>4, <2>1, <2>2 DEF HostIsCut, s
  <1>7. CASE path # <<>>
    <2> HIDE DEF s
    <2>1. 5 \in I /\ I \subseteq Nat /\ \A i \in I : i >= 5
      BY <1>1, <1>2, <1>3, <1>5, <1>7
    <2> HIDE DEF I
    <2>2. \E k \in I : \A j \in I : k <= j
      BY <2>1, Least
    <2> DEFINE m == Feed!Min(I)
    <2>3. m \in I /\ \A j \in I : m <= j
      BY <2>2 DEF Feed!Min
    <2>4. m \in Nat /\ m >= 5 /\ m <= 5
      BY <2>1, <2>3
    <2>5. FirstSlash(s, slash) = m
      BY <1>4, <2>1
    <2> HIDE DEF m
    <2>6. FirstSlash(s, slash) = 5
      BY <2>4, <2>5
    <2>7. SubSeq(s, 1, 4) = origin
      <3> DEFINE t == SubSeq(s, 1, 4)
      <3>1. t \in Seq(S) /\ Len(t) = 4 /\ \A i \in 1 .. 4 : t[i] = s[i]
        BY <1>2, <1>5
      <3> HIDE DEF t
      <3>. QED
        BY <1>1, <1>2, <3>1 DEF t
    <2>8. 5 - 1 = 4 /\ 5 # 0
      OBVIOUS
    <2>. QED
      BY <2>6, <2>7, <2>8, Zenon DEF HostIsCut, s
  <1>. QED
    BY <1>6, <1>7

\* What ends with a slash, and has none behind it, is the directory.
DirectoryIsCut(slash, front, file) ==
  /\ FinalSlash(front \o file, slash) # 0
  /\ SubSeq(front \o file, 1, FinalSlash(front \o file, slash)) = front

\* So it is found.
LEMMA DirectoryCut ==
  ASSUME NEW S, NEW slash, NEW front \in Seq(S), NEW file \in Seq(S), Len(front) >= 4,
         front[Len(front)] = slash, \A i \in 1 .. Len(file) : file[i] # slash
  PROVE  DirectoryIsCut(slash, front, file)
  <1> DEFINE s == front \o file
             I == {i \in 4 .. Len(s) : s[i] = slash}
             n == Len(front)
             m == Feed!Max(I)
  <1>1. s \in Seq(S) /\ Len(s) = n + Len(file) /\ \A i \in 1 .. n : s[i] = front[i]
    OBVIOUS
  <1>2. \A i \in 1 .. Len(file) : s[n + i] = file[i]
    OBVIOUS
  <1>3. n \in Nat /\ n >= 4 /\ Len(file) \in Nat
    OBVIOUS
  <1>4. FinalSlash(s, slash) = IF I # {} THEN m ELSE 0
    BY DEF FinalSlash
  <1> HIDE DEF s
  <1>5. ASSUME NEW i \in I, i > n
        PROVE  FALSE
    <2> DEFINE k == i - n
    <2>1. k \in 1 .. Len(file) /\ i = n + k /\ s[i] = slash
      BY <1>1, <1>3, <1>5
    <2> HIDE DEF k, I, n
    <2>. QED
      BY <1>2, <2>1
  <1>6. n \in I /\ I \in SUBSET (1 .. Len(s)) /\ Len(s) \in Nat
    <2>1. n \in 4 .. Len(s) /\ s[n] = front[n]
      BY <1>1, <1>3
    <2>. QED
      BY <1>1, <2>1
  <1> HIDE DEF I, n
  <1>7. \E k \in I : \A j \in I : k >= j
    BY <1>6, Greatest
  <1>8. m \in I /\ \A j \in I : m >= j
    BY <1>7 DEF Feed!Max
  <1> HIDE DEF m
  <1>9. m = n
    BY <1>3, <1>5, <1>6, <1>8
  <1>10. FinalSlash(s, slash) = n /\ n # 0
    BY <1>3, <1>4, <1>6, <1>9
  <1>11. SubSeq(s, 1, n) = front
    <2> DEFINE t == SubSeq(s, 1, n)
    <2>1. t \in Seq(S) /\ Len(t) = n /\ \A i \in 1 .. n : t[i] = s[i]
      BY <1>1, <1>3
    <2> HIDE DEF t
    <2>. QED
      BY <1>1, <2>1 DEF t, n
  <1>. QED
    BY <1>10, <1>11, Zenon DEF DirectoryIsCut, s

\* Without a path there is no slash.
LEMMA NoPath ==
  ASSUME NEW S, NEW slash, NEW origin, IsOrigin(S, slash, origin)
  PROVE  FinalSlash(origin, slash) = 0
  <1>1. {i \in 4 .. Len(origin) : origin[i] = slash} = {}
    BY DEF IsOrigin
  <1>. QED
    BY <1>1 DEF FinalSlash

\* What begins with another sequence of two begins with its first piece.
LEMMA PrefixBegins ==
  ASSUME NEW S, NEW s \in Seq(S), NEW slash \in S, Feed!IsPrefix(<<slash, slash>>, s)
  PROVE  s[1] = slash
  <1> DEFINE two == <<slash, slash>>
  <1>1. two \in Seq(S) /\ Len(two) = 2 /\ two[1] = slash
    OBVIOUS
  <1> HIDE DEF two
  <1>2. Len(s) >= 2 /\ SubSeq(s, 1, 2) = SubSeq(two, 1, 2)
    BY <1>1 DEF Feed!IsPrefix, two
  <1>3. SubSeq(s, 1, 2)[1] = s[1] /\ SubSeq(two, 1, 2)[1] = slash
    BY <1>1, <1>2
  <1>. QED
    BY <1>2, <1>3

\* Where an address has its host, its directory and its file.
IsAddress(S, slash, origin, dir, between, file) ==
  /\ IsOrigin(S, slash, origin) /\ dir \in Seq(S) /\ file \in Seq(S) /\ between \in Seq(S)
  /\ dir # <<>> => dir[1] = slash
  /\ \A i \in 1 .. Len(file) : file[i] # slash
  /\ \/ between = <<slash>>
     \/ between = <<>> /\ dir = <<>> /\ file = <<>>

\* What a link is joined to: the origin, or the directory with a slash.
JoinedTo(slash, base, origin, dir) ==
  /\ (IF FirstSlash(base, slash) = 0 THEN base ELSE SubSeq(base, 1, FirstSlash(base, slash) - 1)) = origin
  /\ (IF FinalSlash(base, slash) = 0 THEN base \o <<slash>> ELSE SubSeq(base, 1, FinalSlash(base, slash)))
       = origin \o dir \o <<slash>>

\* So they are found.
LEMMA BaseOf ==
  ASSUME NEW S, NEW slash \in S, NEW origin, NEW dir, NEW between, NEW file,
         IsAddress(S, slash, origin, dir, between, file)
  PROVE  JoinedTo(slash, origin \o dir \o between \o file, origin, dir)
  <1> DEFINE one == <<slash>>
             base == origin \o dir \o between \o file
  <1>1. /\ origin \in Seq(S) /\ Len(origin) = 4 /\ dir \in Seq(S) /\ file \in Seq(S)
        /\ IsOrigin(S, slash, origin) /\ one \in Seq(S) /\ Len(one) = 1 /\ one[1] = slash
        /\ \A i \in 1 .. Len(file) : file[i] # slash
        /\ dir # <<>> => dir[1] = slash
        /\ (between = one \/ (between = <<>> /\ dir = <<>> /\ file = <<>>))
    BY DEF IsAddress, IsOrigin
  <1> HIDE DEF one
  <1>2. CASE between = one
    <2> DEFINE od == origin \o dir
               front == od \o one
               do == dir \o one
               path == do \o file
    <2>1. base = front \o file
      BY <1>2
    <2>2. JoinOf(S, origin, dir, od)
      BY <1>1, Joined, Zenon
    <2>3. JoinOf(S, dir, one, do)
      BY <1>1, Joined, Zenon
    <2> HIDE DEF od, do
    <2>4. od \in Seq(S) /\ do \in Seq(S)
      BY <2>2, <2>3 DEF JoinOf
    <2>5. JoinOf(S, od, one, front)
      BY <1>1, <2>4, Joined, Zenon
    <2>6. JoinOf(S, do, file, path)
      BY <1>1, <2>4, Joined, Zenon
    <2> HIDE DEF front, path
    <2>7. front \in Seq(S) /\ Len(front) >= 4 /\ front[Len(front)] = slash
      <3>1. od \in Seq(S) /\ Len(od) = Len(origin) + Len(dir) /\ Len(dir) \in Nat /\ Len(dir) >= 0
        BY <1>1, <2>2 DEF JoinOf
      <3>2. front \in Seq(S) /\ Len(front) = Len(od) + 1 /\ front[Len(od) + 1] = slash
        BY <1>1, <2>5 DEF JoinOf
      <3>. QED
        BY <1>1, <3>1, <3>2
    <2>8. DirectoryIsCut(slash, front, file)
      BY <1>1, <2>7, DirectoryCut
    <2>9. path \in Seq(S) /\ path[1] = slash
      <3>1. do \in Seq(S) /\ Len(do) > 0 /\ do[1] = slash
        <4>1. CASE dir = <<>>
          BY <1>1, <2>3, <4>1 DEF JoinOf
        <4>2. CASE dir # <<>>
          <5>1. 1 \in 1 .. Len(dir) /\ Len(dir) \in Nat
            BY <1>1, <4>2
          <5>. QED
            BY <1>1, <2>3, <4>2, <5>1 DEF JoinOf
        <4>. QED
          BY <4>1, <4>2
      <3>. QED
        BY <2>6, <3>1 DEF JoinOf
    <2>10. HostIsCut(slash, origin, path)
      BY <1>1, <2>9, HostCut, Zenon
    <2>11. base = origin \o path
      <3>1. Associate(origin, dir, one) /\ Associate(origin, do, file)
        BY <1>1, <2>4, Associative, Zenon
      <3>. QED
        BY <2>1, <3>1, Zenon DEF Associate, path, do, front, od
    <2> HIDE DEF base
    <2>12. (IF FirstSlash(base, slash) = 0 THEN base ELSE SubSeq(base, 1, FirstSlash(base, slash) - 1)) = origin
      BY <2>10, <2>11, Zenon DEF HostIsCut
    <2>13. (IF FinalSlash(base, slash) = 0 THEN base \o one ELSE SubSeq(base, 1, FinalSlash(base, slash))) = front
      BY <2>1, <2>8, Zenon DEF DirectoryIsCut
    <2>. QED
      BY <2>12, <2>13, Zenon DEF JoinedTo, front, od, one, base
  <1>3. CASE between = <<>> /\ dir = <<>> /\ file = <<>>
    <2>1. \A s \in Seq(S) : s \o <<>> = s
      OBVIOUS
    <2>2. base = origin /\ origin \o dir = origin
      BY <1>1, <1>3, <2>1, Zenon
    <2>3. FinalSlash(origin, slash) = 0
      BY <1>1, NoPath, Zenon
    <2>4. HostIsCut(slash, origin, <<>>)
      <3>1. <<>> \in Seq(S)
        OBVIOUS
      <3>. QED
        BY <1>1, <3>1, HostCut, Zenon
    <2> HIDE DEF base
    <2>5. (IF FirstSlash(base, slash) = 0 THEN base ELSE SubSeq(base, 1, FirstSlash(base, slash) - 1)) = origin
      BY <1>1, <2>1, <2>2, <2>4, Zenon DEF HostIsCut
    <2>. QED
      BY <2>2, <2>3, <2>5, Zenon DEF JoinedTo, one, base
  <1>. QED
    BY <1>1, <1>2, <1>3

\* The address of a feed is one.
LEMMA AddressOf ==
  ASSUME NEW base \in Feed!Bases(Hosts, Directories, Files, Queries),
         base.query # <<>> => Feed!HasPath(base) /\ ~Feed!Contains(base.query, "/")
  PROVE  JoinedTo("/", Feed!Address(base), Feed!Origin(base), base.dir)
  <1> DEFINE S == STRING \cup {"https:", "/"}
             slash == "/"
             P == STRING \ {slash}
             origin == Feed!Origin(base)
             dir == base.dir
             between == IF Feed!HasPath(base) THEN <<slash>> ELSE <<>>
             file == base.file
             query == base.query
             last == file \o query
  <1>1. base.host \in Hosts /\ dir \in Directories /\ file \in Files /\ query \in Queries
    BY DEF Feed!Bases
  <1>2. dir \in Seq(STRING) /\ (dir # <<>> => dir[1] = slash) /\ file \in Seq(P) /\ query \in Seq(STRING)
    BY <1>1, AddressesAssumption
  <1>3. STRING \subseteq S /\ P \subseteq S /\ slash \in S /\ slash \notin P
    OBVIOUS
  <1>4. base.host \in S /\ base.host # slash /\ "https:" \in S
    BY <1>1, UrlsAssumption
  <1>5. Feed!Address(base) = origin \o dir \o between \o file \o query
    BY DEF Feed!Address
  <1>6. Feed!HasPath(base) \/ (dir = <<>> /\ file = <<>>)
    BY DEF Feed!HasPath
  <1>7. query # <<>> => Feed!HasPath(base) /\ \A i \in 1 .. Len(query) : query[i] # slash
    BY DEF Feed!Contains
  <1>8. origin = <<"https:", slash, slash, base.host>>
    BY DEF Feed!Origin
  <1> HIDE DEF slash, S, P, dir, file, query, origin
  <1>9. dir \in Seq(S) /\ file \in Seq(S) /\ query \in Seq(S)
    BY <1>2, <1>3, Wider, Zenon
  <1>10. IsOrigin(S, slash, origin)
    BY <1>3, <1>4, <1>8 DEF IsOrigin
  <1>11. between \in Seq(S) /\ (between = <<slash>> \/ (between = <<>> /\ dir = <<>> /\ file = <<>> /\ query = <<>>))
    BY <1>3, <1>6, <1>7
  <1> HIDE DEF between
  <1>12. \A i \in 1 .. Len(file) : file[i] # slash
    BY <1>2, <1>3, PiecesOf, Zenon
  <1>13. JoinOf(S, file, query, last)
    BY <1>9, Joined, Zenon
  <1>14. Associate(origin \o dir \o between, file, query)
    <2>1. origin \in Seq(S)
      BY <1>10 DEF IsOrigin
    <2>2. \A s, t \in Seq(S) : s \o t \in Seq(S)
      BY Joined DEF JoinOf
    <2>3. origin \o dir \o between \in Seq(S)
      BY <1>9, <1>11, <2>1, <2>2, Zenon
    <2>. QED
      BY <1>9, <2>3, Associative, Zenon
  <1>15. Feed!Address(base) = origin \o dir \o between \o last
    BY <1>5, <1>14, Zenon DEF Associate
  <1>16. file = <<>> /\ query = <<>> => last = <<>>
    OBVIOUS
  <1> HIDE DEF last
  <1>17. \A i \in 1 .. Len(last) : last[i] # slash
    <2>1. \A i \in 1 .. Len(query) : query[i] # slash
      <3>1. CASE query = <<>>
        BY <3>1
      <3>. QED
        BY <1>7, <3>1
    <2>2. Len(file) \in Nat /\ Len(query) \in Nat
      BY <1>9
    <2> SUFFICES ASSUME NEW i \in 1 .. Len(last)
                 PROVE  last[i] # slash
      OBVIOUS
    <2>3. CASE i \in 1 .. Len(file)
      BY <1>12, <1>13, <2>3 DEF JoinOf
    <2>4. CASE i \notin 1 .. Len(file)
      <3> DEFINE k == i - Len(file)
      <3>1. Len(last) = Len(file) + Len(query)
        BY <1>13 DEF JoinOf
      <3>2. k \in 1 .. Len(query) /\ i = Len(file) + k
        BY <2>2, <2>4, <3>1
      <3> HIDE DEF k
      <3>. QED
        BY <1>13, <2>1, <3>2 DEF JoinOf
    <2>. QED
      BY <2>3, <2>4
  <1>18. IsAddress(S, slash, origin, dir, between, last)
    <2>1. last \in Seq(S)
      BY <1>13 DEF JoinOf
    <2>. QED
      BY <1>2, <1>9, <1>10, <1>11, <1>16, <1>17, <2>1, Zenon DEF IsAddress
  <1>. QED
    BY <1>3, <1>15, <1>18, BaseOf, Zenon DEF slash, origin, dir

\* A link means what it is joined to.
LEMMA LinkOf ==
  ASSUME NEW href \in Hrefs, NEW base \in Feed!Bases(Hosts, Directories, Files, Queries),
         Feed!PathIsClear(href, base)
  PROVE  Feed!NormalizeUrl(href, Feed!Address(base)) = Feed!Resolved(href, base)
  <1> DEFINE slash == "/"
             address == Feed!Address(base)
             origin == Feed!Origin(base)
             first == href[1]
             schemeless == Feed!IsPrefix(<<"/", "/">>, href)
  <1>1. href \in Seq(STRING) /\ href # <<>>
    BY AddressesAssumption
  <1>2. schemeless => first = "/"
    <2> DEFINE S == STRING \cup {slash}
    <2> HIDE DEF slash
    <2>1. STRING \subseteq S /\ slash \in S
      OBVIOUS
    <2> HIDE DEF S
    <2>2. href \in Seq(S)
      BY <1>1, <2>1, Wider, Zenon
    <2>3. Feed!IsPrefix(<<slash, slash>>, href) => href[1] = slash
      BY <2>1, <2>2, PrefixBegins, Zenon
    <2>. QED
      BY <2>3 DEF slash
  <1>3. first \notin {"?", "#"}
    BY DEF Feed!PathIsClear
  <1>4. JoinedTo(slash, address, origin, base.dir)
    BY AddressOf DEF Feed!PathIsClear
  <1>5. Feed!HostEnd(address) = FirstSlash(address, slash) /\ Feed!LastSlash(address) = FinalSlash(address, slash)
    BY DEF Feed!HostEnd, Feed!LastSlash, Feed!SelectInSubSeq, Feed!SelectLastInSubSeq, FirstSlash, FinalSlash
  <1>6. Feed!IsAbsolute(href) <=> first \in {"http:", "https:"}
    BY <1>1, Zenon DEF Feed!IsAbsolute
  <1> HIDE DEF address, origin, schemeless, first
  <1>7. (IF Feed!HostEnd(address) = 0 THEN address ELSE SubSeq(address, 1, Feed!HostEnd(address) - 1)) = origin
    BY <1>4, <1>5, Zenon DEF JoinedTo
  <1>8. (IF Feed!LastSlash(address) = 0 THEN address \o <<"/">> ELSE SubSeq(address, 1, Feed!LastSlash(address)))
          = origin \o base.dir \o <<"/">>
    BY <1>4, <1>5, Zenon DEF JoinedTo
  <1>9. Feed!NormalizeUrl(href, address) =
          CASE Feed!IsAbsolute(href) -> href
            [] ~Feed!IsAbsolute(href) /\ schemeless -> <<"https:">> \o href
            [] ~Feed!IsAbsolute(href) /\ ~schemeless /\ first = "/" -> origin \o href
            [] OTHER -> origin \o base.dir \o <<"/">> \o href
    BY <1>7, <1>8, Zenon DEF Feed!NormalizeUrl, schemeless, first
  <1>10. Feed!Resolved(href, base) =
          CASE Feed!IsAbsolute(href) -> href
            [] schemeless -> <<"https:">> \o href
            [] first = "/" /\ ~schemeless -> origin \o href
            [] first = "?" -> Feed!Address([base EXCEPT !.query = <<>>]) \o href
            [] first = "#" -> address \o href
            [] OTHER -> origin \o base.dir \o <<"/">> \o href
    BY Zenon DEF Feed!Resolved, schemeless, first, origin, address
  <1> DEFINE absolute == Feed!IsAbsolute(href)
             a == <<"https:">> \o href
             b == origin \o href
             c == origin \o base.dir \o <<"/">> \o href
             d == Feed!Address([base EXCEPT !.query = <<>>]) \o href
             e == address \o href
  <1>11. absolute => ~schemeless /\ first # "/"
    BY <1>2, <1>6
  <1> HIDE DEF absolute, a, b, c, d, e
  <1>12. Feed!NormalizeUrl(href, address) =
          CASE absolute -> href [] ~absolute /\ schemeless -> a [] ~absolute /\ ~schemeless /\ first = "/" -> b [] OTHER -> c
    BY <1>9, Zenon DEF absolute, a, b, c
  <1>13. Feed!Resolved(href, base) =
          CASE absolute -> href [] schemeless -> a [] first = "/" /\ ~schemeless -> b [] first = "?" -> d [] first = "#" -> e [] OTHER -> c
    BY <1>10, Zenon DEF absolute, a, b, c, d, e
  <1>14. Feed!NormalizeUrl(href, address) = Feed!Resolved(href, base)
    BY <1>2, <1>3, <1>11, <1>12, <1>13
  <1>. QED
    BY <1>14 DEF address

\* The links that are joined are those of the addresses.
OfAddress ==
  call.of = "feed_link" =>
    call.href \in Hrefs /\ call.base \in Feed!Bases(Hosts, Directories, Files, Queries)

\* At the start nothing is called.
LEMMA OfAddressInit == Init => OfAddress
  BY DEF Init, Idle, OfAddress

\* And every link that is joined is one.
LEMMA OfAddressStep == OfAddress /\ [Next]_call => OfAddress'
  <1> SUFFICES ASSUME OfAddress, [Next]_call, (call.of = "feed_link")'
               PROVE  (call.href \in Hrefs /\ call.base \in Feed!Bases(Hosts, Directories, Files, Queries))'
    BY DEF OfAddress
  <1>1. CASE JoinLink
    BY <1>1 DEF JoinLink
  <1>2. ASSUME Plan \/ Normalize \/ Compare \/ CleanTitles \/ ExtractPage \/ CleanText \/ Parse \/ Resolve
        PROVE  FALSE
    BY <1>2 DEF Plan, Normalize, Compare, CleanTitles, ExtractPage, CleanText, Parse, Resolve
  <1>3. CASE UNCHANGED call
    BY <1>3 DEF OfAddress
  <1>. QED
    BY <1>1, <1>2, <1>3 DEF Next

\* A link means the page RFC 3986 says, for all hosts, directories, files and queries of
\* the address of a feed, whether a slash ends it, and for all links with a path.
THEOREM LinksResolve == Spec => []LinkResolves
  <1>1. OfAddress => LinkResolves
    BY LinkOf DEF OfAddress, LinkResolves
  <1>. QED
    BY <1>1, OfAddressInit, OfAddressStep, PTL DEF Spec

-----------------------------------------------------------------------------
(* The recursion, depth by depth.                                          *)

\* At MaxDepth there is no answer.
Unanswered(web) == [u \in Resolver!Known(web) |-> {Resolver!None}]

\* The recursion is three levels deep.
LEMMA ThreeDeep ==
  ASSUME NEW web, NEW failures
  PROVE  LET one == Resolver!Answers(web, failures, Unanswered(web))
             two == Resolver!Answers(web, failures, one)
         IN  Resolver!Outcomes(web, failures)[0] = Resolver!Answers(web, failures, two)
  <1> DEFINE none == Unanswered(web)
             A(deeper) == Resolver!Answers(web, failures, deeper)
             Body(g) == [d \in 0 .. Resolver!MaxDepth |->
                           IF d = Resolver!MaxDepth THEN none ELSE A(g[d + 1])]
             unrolled == [d \in 0 .. 3 |-> IF d = 3 THEN none ELSE IF d = 2 THEN A(none)
                                           ELSE IF d = 1 THEN A(A(none)) ELSE A(A(A(none)))]
             outcomes == Resolver!Outcomes(web, failures)
  <1>1. outcomes = CHOOSE g : g = Body(g)
    BY DEF Resolver!Outcomes, Unanswered
  <1>2. Resolver!MaxDepth = 3
    BY DEF Resolver!MaxDepth
  <1>3. unrolled = Body(unrolled)
    <2> HIDE DEF none, A
    <2>. QED
      BY <1>2
  <1>4. outcomes = Body(outcomes)
    <2> HIDE DEF Body, unrolled, outcomes
    <2>. QED
      BY <1>1, <1>3
  <1>5. outcomes[3] = none /\ outcomes[2] = A(outcomes[3]) /\ outcomes[1] = A(outcomes[2])
        /\ outcomes[0] = A(outcomes[1])
    <2> HIDE DEF none, A, outcomes
    <2>. QED
      BY <1>2, <1>4
  <1>. QED
    BY <1>5

\* The path takes one hop after the other.
LEMMA PathHops ==
  ASSUME NEW web, NEW url
  PROVE  LET path == Resolver!Path(web, url)
         IN  /\ DOMAIN path = 0 .. 4 /\ path[0] = url /\ path[1] = Resolver!Hop(web, path[0])
             /\ path[2] = Resolver!Hop(web, path[1]) /\ path[3] = Resolver!Hop(web, path[2])
             /\ path[4] = Resolver!Hop(web, path[3])
  <1> DEFINE H(u) == Resolver!Hop(web, u)
             Body(g) == [k \in 0 .. Resolver!MaxDepth + 1 |-> IF k = 0 THEN url ELSE H(g[k - 1])]
             unrolled == [k \in 0 .. 4 |-> IF k = 0 THEN url ELSE IF k = 1 THEN H(url)
                                           ELSE IF k = 2 THEN H(H(url)) ELSE IF k = 3 THEN H(H(H(url)))
                                           ELSE H(H(H(H(url))))]
             path == Resolver!Path(web, url)
  <1>1. path = CHOOSE g : g = Body(g)
    BY DEF Resolver!Path
  <1>2. Resolver!MaxDepth + 1 = 4
    BY DEF Resolver!MaxDepth
  <1>3. unrolled = Body(unrolled)
    <2> HIDE DEF H
    <2>. QED
      BY <1>2
  <1>4. path = Body(path)
    <2> HIDE DEF Body, unrolled, path
    <2>. QED
      BY <1>1, <1>3
  <1>5. /\ DOMAIN path = 0 .. 4 /\ path[0] = url /\ path[1] = H(path[0]) /\ path[2] = H(path[1])
        /\ path[3] = H(path[2]) /\ path[4] = H(path[3])
    <2> HIDE DEF H, path
    <2>. QED
      BY <1>2, <1>4
  <1>. QED
    BY <1>5

-----------------------------------------------------------------------------
(* One level of it.                                                        *)

\* What a page answers, and what the pages it refreshes to may answer, is where a hop
\* leads, or nothing.
LEMMA AnswerLeads ==
  ASSUME NEW web, NEW deeper,
         NEW u \in Resolver!Known(web), NEW r \in Resolver!Answers(web, TRUE, deeper)[u]
  PROVE  \/ r = Resolver!None
         \/ r = Resolver!Hop(web, u)
         \/ Resolver!Hop(web, u) \in Resolver!Known(web) /\ r \in deeper[Resolver!Hop(web, u)]
  <1> USE DEF Resolver!Answers, Resolver!Hop
  <1>1. CASE u \notin DOMAIN web
    BY <1>1
  <1>2. CASE u \in DOMAIN web /\ web[u].lands # u
    BY <1>2
  <1>3. CASE u \in DOMAIN web /\ web[u].lands = u /\ web[u].served /\ web[u].refresh # Resolver!None
    <2>1. Resolver!Hop(web, u) = web[u].refresh /\ web[u].refresh \in Resolver!Known(web)
      BY <1>3 DEF Resolver!Known
    <2>2. r = Resolver!None \/ r \in Resolver!Refreshed(web[u].refresh, deeper[web[u].refresh])
      BY <1>3
    <2>. QED
      BY <2>1, <2>2 DEF Resolver!Refreshed
  <1>4. CASE u \in DOMAIN web /\ web[u].lands = u /\ web[u].served /\ web[u].refresh = Resolver!None
    BY <1>4
  <1>5. CASE u \in DOMAIN web /\ web[u].lands = u /\ ~web[u].served
    BY <1>5
  <1>. QED
    BY <1>1, <1>2, <1>3, <1>4, <1>5

\* The URLs an item with this link may be stored under, by these answers.
Stored(link, answers) == {IF r = Resolver!None THEN link ELSE r : r \in answers}

\* Every page lands somewhere.
Landing(web) == \A v \in DOMAIN web : web[v].lands # Resolver!None

\* While no request fails, a page without a refresh has one answer: where its hop leads.
LEMMA OneAnswer ==
  ASSUME NEW web, Landing(web), NEW deeper, NEW u \in Resolver!Known(web), ~Resolver!Refreshes(web, u)
  PROVE  Stored(u, Resolver!Answers(web, FALSE, deeper)[u]) = {Resolver!Hop(web, u)}
  <1> USE DEF Resolver!Answers, Resolver!Hop, Stored, Landing
  <1>1. CASE u \notin DOMAIN web
    BY <1>1
  <1>2. CASE u \in DOMAIN web /\ web[u].lands # u
    BY <1>2
  <1>3. CASE u \in DOMAIN web /\ web[u].lands = u /\ web[u].served /\ web[u].refresh = Resolver!None
    BY <1>3
  <1>4. CASE u \in DOMAIN web /\ web[u].lands = u /\ ~web[u].served
    BY <1>4
  <1>. QED
    BY <1>1, <1>2, <1>3, <1>4 DEF Resolver!Refreshes

\* One with a refresh leaves it to the page it leads to.
LEMMA LeftToRefresh ==
  ASSUME NEW web, NEW deeper, NEW u, Resolver!Refreshes(web, u)
  PROVE  /\ Resolver!Hop(web, u) # Resolver!None /\ Resolver!Hop(web, u) \in Resolver!Known(web)
         /\ Resolver!Answers(web, FALSE, deeper)[u]
              = Stored(Resolver!Hop(web, u), deeper[Resolver!Hop(web, u)])
         /\ Stored(u, Resolver!Answers(web, FALSE, deeper)[u])
              = Stored(Resolver!Hop(web, u), deeper[Resolver!Hop(web, u)])
  <1> DEFINE v == web[u].refresh
  <1>1. u \in DOMAIN web /\ web[u].lands = u /\ web[u].served /\ v # Resolver!None
    BY DEF Resolver!Refreshes
  <1>2. Resolver!Hop(web, u) = v
    BY <1>1 DEF Resolver!Hop
  <1>3. u \in Resolver!Known(web) /\ v \in Resolver!Known(web)
    BY <1>1 DEF Resolver!Known
  <1>4. Resolver!Answers(web, FALSE, deeper)[u] = Resolver!Refreshed(v, deeper[v])
    BY <1>1, <1>3 DEF Resolver!Answers
  <1>5. Resolver!Refreshed(v, deeper[v]) = Stored(v, deeper[v])
    BY DEF Resolver!Refreshed, Stored
  <1>6. Stored(u, Stored(v, deeper[v])) = Stored(v, deeper[v])
    <2> HIDE DEF v
    <2>. QED
      BY <1>1 DEF Stored
  <1>. QED
    BY <1>1, <1>2, <1>3, <1>4, <1>5, <1>6

-----------------------------------------------------------------------------
(* The whole of it.                                                        *)

\* Whatever fails, an answer is on the path.
LEMMA AnswersOnPath ==
  ASSUME NEW web, NEW u \in Resolver!Known(web),
         NEW r \in Resolver!Outcomes(web, TRUE)[0][u]
  PROVE  r = Resolver!None \/ \E k \in DOMAIN Resolver!Path(web, u) : r = Resolver!Path(web, u)[k]
  <1> DEFINE path == Resolver!Path(web, u)
             one == Resolver!Answers(web, TRUE, Unanswered(web))
             two == Resolver!Answers(web, TRUE, one)
  <1>1. /\ DOMAIN path = 0 .. 4 /\ path[0] = u /\ path[1] = Resolver!Hop(web, path[0])
        /\ path[2] = Resolver!Hop(web, path[1]) /\ path[3] = Resolver!Hop(web, path[2])
    BY PathHops
  <1>2. r \in Resolver!Answers(web, TRUE, two)[u]
    BY ThreeDeep
  <1> HIDE DEF path
  <1>3. \/ r = Resolver!None \/ r = path[1]
        \/ path[1] \in Resolver!Known(web) /\ r \in two[path[1]]
    <2> HIDE DEF two
    <2>. QED
      BY <1>1, <1>2, AnswerLeads
  <1>4. path[1] \in Resolver!Known(web) /\ r \in two[path[1]] =>
          \/ r = Resolver!None \/ r = path[2]
          \/ path[2] \in Resolver!Known(web) /\ r \in one[path[2]]
    <2> HIDE DEF one
    <2>. QED
      BY <1>1, AnswerLeads
  <1>5. path[2] \in Resolver!Known(web) /\ r \in one[path[2]] =>
          \/ r = Resolver!None \/ r = path[3]
          \/ path[3] \in Resolver!Known(web) /\ r \in Unanswered(web)[path[3]]
    BY <1>1, AnswerLeads
  <1>6. path[3] \in Resolver!Known(web) /\ r \in Unanswered(web)[path[3]] => r = Resolver!None
    BY DEF Unanswered
  <1>7. r \in {Resolver!None, path[1], path[2], path[3]}
    <2> HIDE DEF one, two
    <2>. QED
      BY <1>3, <1>4, <1>5, <1>6
  <1>8. 1 \in DOMAIN path /\ 2 \in DOMAIN path /\ 3 \in DOMAIN path
    BY <1>1
  <1>. QED
    BY <1>7, <1>8 DEF path

\* While none fails, and the pages on the path settle, there is one: its end.
LEMMA AnswersTheEnd ==
  ASSUME NEW web, Landing(web), NEW u \in Resolver!Known(web), Resolver!Settled(web, u)
  PROVE  Stored(u, Resolver!Outcomes(web, FALSE)[0][u]) = {Resolver!Path(web, u)[4]}
  <1> DEFINE path == Resolver!Path(web, u)
             none == Unanswered(web)
             one == Resolver!Answers(web, FALSE, none)
             two == Resolver!Answers(web, FALSE, one)
             three == Resolver!Answers(web, FALSE, two)
             H(v) == Resolver!Hop(web, v)
             R(v) == Resolver!Refreshes(web, v)
  <1>1. Resolver!Outcomes(web, FALSE)[0] = three
    BY ThreeDeep
  <1>2. path[0] = u /\ path[1] = H(path[0]) /\ path[2] = H(path[1]) /\ path[3] = H(path[2]) /\ path[4] = H(path[3])
    BY PathHops
  <1>3. /\ H(path[1]) = path[1] \/ R(path[0])
        /\ H(path[2]) = path[2] \/ R(path[1])
        /\ H(path[3]) = path[3]
    <2>1. Resolver!MaxDepth = 3
      BY DEF Resolver!MaxDepth
    <2>2. \A k \in 0 .. 3 : H(path[k + 1]) = path[k + 1] \/ (R(path[k]) /\ k < 2)
      BY <2>1 DEF Resolver!Settled
    <2> HIDE DEF path, H, R
    <2>3. /\ H(path[0 + 1]) = path[0 + 1] \/ R(path[0])
          /\ H(path[1 + 1]) = path[1 + 1] \/ R(path[1])
          /\ H(path[2 + 1]) = path[2 + 1]
      BY <2>2
    <2>. QED
      BY <2>3
  <1>4. ASSUME NEW deeper, NEW v \in Resolver!Known(web), ~R(v)
        PROVE  Stored(v, Resolver!Answers(web, FALSE, deeper)[v]) = {H(v)}
    BY <1>4, OneAnswer
  <1>5. ASSUME NEW deeper, NEW v, R(v)
        PROVE  /\ H(v) \in Resolver!Known(web)
               /\ Stored(v, Resolver!Answers(web, FALSE, deeper)[v]) = Stored(H(v), deeper[H(v)])
    BY <1>5, LeftToRefresh
  <1> HIDE DEF path, H, R
  <1>6. CASE ~R(path[0])
    <2>1. Stored(path[0], three[path[0]]) = {path[1]}
      <3> HIDE DEF two
      <3>. QED
        BY <1>2, <1>6, <1>4
    <2>. QED
      BY <1>1, <1>2, <1>3, <1>6, <2>1 DEF path
  <1>7. CASE R(path[0])
    <2>1. path[1] \in Resolver!Known(web) /\ Stored(path[0], three[path[0]]) = Stored(path[1], two[path[1]])
      <3> HIDE DEF two
      <3>. QED
        BY <1>2, <1>7, <1>5
    <2>2. CASE ~R(path[1])
      <3>1. Stored(path[1], two[path[1]]) = {path[2]}
        <4> HIDE DEF one
        <4>. QED
          BY <1>2, <2>1, <2>2, <1>4
      <3>. QED
        BY <1>1, <1>2, <1>3, <2>1, <2>2, <3>1 DEF path
    <2>3. CASE R(path[1])
      <3>1. path[2] \in Resolver!Known(web) /\ Stored(path[1], two[path[1]]) = Stored(path[2], one[path[2]])
        <4> HIDE DEF one
        <4>. QED
          BY <1>2, <2>3, <1>5, ZenonT(30)
      <3>2. Stored(path[2], one[path[2]]) = {path[3]}
        <4>1. CASE ~R(path[2])
          <5> HIDE DEF none
          <5>. QED
            BY <1>2, <3>1, <4>1, <1>4
        <4>2. CASE R(path[2])
          <5>1. path[3] \in Resolver!Known(web) /\ Stored(path[2], one[path[2]]) = Stored(path[3], none[path[3]])
            <6> HIDE DEF none
            <6>. QED
              BY <1>2, <4>2, <1>5, ZenonT(30)
          <5>2. none[path[3]] = {Resolver!None}
            BY <5>1 DEF Unanswered
          <5>. QED
            BY <5>1, <5>2 DEF Stored
        <4>. QED
          BY <4>1, <4>2
      <3>. QED
        BY <1>1, <1>2, <1>3, <2>1, <3>1, <3>2 DEF path
    <2>. QED
      BY <2>2, <2>3
  <1>. QED
    BY <1>6, <1>7

-----------------------------------------------------------------------------
(* The theorems.                                                           *)

\* The resolver is asked about a link of some web.
Asked == call.of = "resolve_source_url" => call.web \in Webs /\ call.link \in Links

\* At the start nothing is asked, and every question is about a link of a web.
LEMMA AskedInit == Init => Asked
  BY DEF Init, Idle, Asked

\* And so it is after every call.
LEMMA AskedStep == Asked /\ [Next]_call => Asked'
  <1> SUFFICES ASSUME Asked, [Next]_call, (call.of = "resolve_source_url")'
               PROVE  (call.web \in Webs /\ call.link \in Links)'
    BY DEF Asked
  <1>1. CASE Resolve
    BY <1>1 DEF Resolve
  <1>2. ASSUME Plan \/ Normalize \/ Compare \/ CleanTitles \/ ExtractPage \/ CleanText \/ JoinLink \/ Parse
        PROVE  FALSE
    BY <1>2 DEF Plan, Normalize, Compare, CleanTitles, ExtractPage, CleanText, JoinLink, Parse
  <1>3. CASE UNCHANGED call
    BY <1>3 DEF Asked
  <1>. QED
    BY <1>1, <1>2, <1>3 DEF Next

\* So every answer of the resolver is to such a question.
THEOREM AlwaysAsked == Spec => []Asked
  BY AskedInit, AskedStep, PTL DEF Spec

\* Whichever requests fail, and however the pages lead in circles, an item is stored
\* under its link or a page it leads through.
THEOREM StaysOnPath == Spec => []ResolvedIsOnPath
  <1>1. Asked => ResolvedIsOnPath
    <2> SUFFICES ASSUME Asked, call.of = "resolve_source_url",
                        NEW s \in Resolver!SourceUrls(call.web, call.link, TRUE)
                 PROVE  \E k \in DOMAIN Resolver!Path(call.web, call.link) :
                          s = Resolver!Path(call.web, call.link)[k]
      BY DEF ResolvedIsOnPath
    <2> DEFINE web == call.web
               link == call.link
               path == Resolver!Path(web, link)
    <2>1. web \in Webs /\ link \in Links
      BY DEF Asked
    <2>2. link \in Resolver!Known(web)
      BY <2>1, WebsAssumption DEF Resolver!Known
    <2>3. 0 \in DOMAIN path /\ path[0] = link
      BY PathHops
    <2> HIDE DEF web, link
    <2>4. PICK r \in Resolver!ResolveSourceUrl(web, link, TRUE) : s = IF r = Resolver!None THEN link ELSE r
      BY DEF Resolver!SourceUrls, web, link
    <2>5. r = Resolver!None \/ r \in Resolver!Outcomes(web, TRUE)[0][link]
      BY <2>4 DEF Resolver!ResolveSourceUrl
    <2>6. r = Resolver!None \/ \E k \in DOMAIN path : r = path[k]
      <3>1. ASSUME r \in Resolver!Outcomes(web, TRUE)[0][link]
            PROVE  r = Resolver!None \/ \E k \in DOMAIN Resolver!Path(web, link) : r = Resolver!Path(web, link)[k]
        BY <2>2, <3>1, AnswersOnPath, ZenonT(30) DEF web, link
      <3>. QED
        BY <2>5, <3>1
    <2>. QED
      BY <2>3, <2>4, <2>6 DEF web, link
  <1>. QED
    BY <1>1, AlwaysAsked, PTL

\* While no request fails, an item is stored under the page its link leads to at last.
THEOREM EndsAtPage == Spec => []ResolvedIsFinal
  <1>1. Asked => ResolvedIsFinal
    <2> SUFFICES ASSUME Asked, call.of = "resolve_source_url", call.link \in Resolver!Shorteners,
                        Resolver!Settled(call.web, call.link)
                 PROVE  Resolver!SourceUrls(call.web, call.link, FALSE)
                          = {Resolver!Path(call.web, call.link)[Resolver!MaxDepth + 1]}
      BY DEF ResolvedIsFinal
    <2> DEFINE web == call.web
               link == call.link
    <2>1. web \in Webs /\ link \in Links
      BY DEF Asked
    <2>2. link \in Resolver!Known(web) /\ Landing(web)
      BY <2>1, WebsAssumption DEF Resolver!Known, Landing
    <2> HIDE DEF web, link
    <2>3. Resolver!SourceUrls(web, link, FALSE) = Stored(link, Resolver!Outcomes(web, FALSE)[0][link])
      BY DEF Resolver!SourceUrls, Resolver!ResolveSourceUrl, Stored, web, link
    <2>4. Stored(link, Resolver!Outcomes(web, FALSE)[0][link]) = {Resolver!Path(web, link)[4]}
      BY <2>2, AnswersTheEnd DEF web, link
    <2>5. Resolver!MaxDepth + 1 = 4
      BY DEF Resolver!MaxDepth
    <2>. QED
      BY <2>3, <2>4, <2>5 DEF web, link
  <1>. QED
    BY <1>1, AlwaysAsked, PTL
=============================================================================
