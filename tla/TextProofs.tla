------------------------------ MODULE TextProofs ------------------------------
(***************************************************************************)
(* Theorems of texts: what extract_text keeps and cuts, for every nested   *)
(* page; what the text of a field says, for every text and each way to     *)
(* write it; and the link of an item, for every entry.                     *)
(***************************************************************************)
EXTENDS HelpersProofs

\* Every set of positions has a first one.
LEMMA Earliest ==
  ASSUME NEW S \in SUBSET Nat, S # {}
  PROVE  Extract!Min(S) \in S /\ \A k \in S : Extract!Min(S) <= k
  <1>1. \E m \in S : \A k \in S : m <= k
    BY Least
  <1>. QED
    BY <1>1 DEF Extract!Min

\* And a last one, if it ends.
LEMMA Latest ==
  ASSUME NEW n \in Nat, NEW S \in SUBSET (1 .. n), S # {}
  PROVE  Extract!Max(S) \in S /\ \A k \in S : Extract!Max(S) >= k
  <1>1. \E m \in S : \A k \in S : m >= k
    BY Greatest
  <1>. QED
    BY <1>1 DEF Extract!Max

\* The positions of a page.
Positions(page) == 1 .. Len(page)

\* What the nesting of a page says of it.
NestedFacts(page) ==
  /\ DOMAIN page = Positions(page) /\ Len(page) \in Nat
  /\ \A o \in Extract!Elements(page) :
        /\ o \in Positions(page) /\ page[o] = Extract!Open(page[o].name) /\ page[o].name \notin Extract!Void
        /\ Extract!End(page, o) \in Positions(page) /\ o < Extract!End(page, o)
        /\ page[Extract!End(page, o)] = Extract!Close(page[o].name)
  /\ \A o, p \in Extract!Elements(page) :
        o < p /\ p < Extract!End(page, o) => Extract!End(page, p) < Extract!End(page, o)
  /\ \A c \in Positions(page) :
        page[c].kind = "close" =>
          \E o \in Extract!Elements(page) : Extract!End(page, o) = c /\ page[o].name = page[c].name

\* All of that holds of a nested page.
LEMMA Nesting ==
  ASSUME NEW page, Extract!Nested(page)
  PROVE  NestedFacts(page)
  <1> DEFINE end == [o \in Extract!Elements(page) |-> Extract!End(page, o)]
             Token == [kind : {"open", "close", "text"}, name : STRING]
  <1>1. /\ page \in Seq(Token)
        /\ \A o \in Extract!Elements(page) : end[o] # 0
        /\ \A o, p \in Extract!Elements(page) : o < p /\ p < end[o] => end[p] < end[o]
        /\ \A c \in DOMAIN page : page[c].kind = "close" => \E o \in Extract!Elements(page) : end[o] = c
    BY DEF Extract!Nested
  <1>2. DOMAIN page = Positions(page) /\ Len(page) \in Nat /\ \A i \in Positions(page) : page[i] \in Token
    <2> HIDE DEF Token
    <2>. QED
      BY <1>1 DEF Positions
  <1>3. ASSUME NEW o \in Extract!Elements(page)
        PROVE  /\ o \in Positions(page) /\ page[o] = Extract!Open(page[o].name) /\ page[o].name \notin Extract!Void
               /\ Extract!End(page, o) \in Positions(page) /\ o < Extract!End(page, o)
               /\ page[Extract!End(page, o)] = Extract!Close(page[o].name)
    <2>1. o \in Positions(page) /\ page[o].kind = "open" /\ page[o].name \notin Extract!Void
      BY <1>2, <1>3 DEF Extract!Elements
    <2>2. page[o] \in Token
      BY <1>2, <2>1
    <2>3. page[o] = Extract!Open(page[o].name)
      BY <2>1, <2>2 DEF Extract!Open
    <2> DEFINE tag == page[o].name
               within(c, token) == Extract!Cardinality({j \in o + 1 .. c - 1 : page[j] = token})
               ends == {c \in o + 1 .. Len(page) :
                          /\ page[c] = Extract!Close(tag)
                          /\ within(c, Extract!Open(tag)) = within(c, Extract!Close(tag))}
               e == Extract!End(page, o)
    <2>4. e = IF ends = {} THEN 0 ELSE Extract!Min(ends)
      BY DEF Extract!End
    <2>5. e # 0
      BY <1>1
    <2>6. ends \in SUBSET {c \in o + 1 .. Len(page) : page[c] = Extract!Close(tag)}
      OBVIOUS
    <2> HIDE DEF e, ends, tag
    <2>7. ends # {} /\ e = Extract!Min(ends)
      BY <2>4, <2>5
    <2>8. ends \in SUBSET Nat
      BY <1>2, <2>1, <2>6 DEF Positions
    <2>9. e \in ends
      BY <2>7, <2>8, Earliest
    <2>10. e \in Positions(page) /\ o < e /\ page[e] = Extract!Close(tag)
      BY <1>2, <2>1, <2>6, <2>9 DEF Positions
    <2>. QED
      BY <2>1, <2>3, <2>10 DEF e, tag
  <1>4. \A o, p \in Extract!Elements(page) :
          o < p /\ p < Extract!End(page, o) => Extract!End(page, p) < Extract!End(page, o)
    BY <1>1
  <1>5. ASSUME NEW c \in Positions(page), page[c].kind = "close"
        PROVE  \E o \in Extract!Elements(page) : Extract!End(page, o) = c /\ page[o].name = page[c].name
    <2>1. PICK o \in Extract!Elements(page) : Extract!End(page, o) = c
      BY <1>1, <1>2, <1>5
    <2>2. page[c] = Extract!Close(page[o].name)
      BY <1>3, <2>1
    <2>. QED
      BY <2>1, <2>2 DEF Extract!Close
  <1>. QED
    BY <1>2, <1>3, <1>4, <1>5 DEF NestedFacts

-----------------------------------------------------------------------------
(* The region.                                                             *)

\* It holds what is between two positions of it.
LEMMA RegionIsWhole ==
  ASSUME NEW page, NestedFacts(page)
  PROVE  \E a \in Int, b \in Int : Extract!RegionOf(page) = a .. b /\ 1 <= a /\ b <= Len(page)
  <1> DEFINE r == Extract!RegionTag(page)
             tag == Extract!RegionTags[r]
             from == Extract!From(page, tag)
             to == Extract!To(page, tag)
             Stands(t) == Extract!From(page, t) # 0 /\ Extract!From(page, t) < Extract!To(page, t)
  <1>1. Len(page) \in Nat
    BY DEF NestedFacts
  <1>2. CASE r = 0
    <2>1. Extract!RegionOf(page) = 1 .. Len(page)
      BY <1>2 DEF Extract!RegionOf
    <2>. QED
      BY <1>1, <2>1
  <1>3. CASE r # 0
    <2>1. Extract!RegionOf(page) = from .. to
      BY <1>3 DEF Extract!RegionOf
    <2>2. Stands(tag)
      <3> DEFINE I == {i \in 1 .. Len(Extract!RegionTags) : Stands(Extract!RegionTags[i])}
      <3>1. r = IF I # {} THEN Extract!Min(I) ELSE 0
        BY DEF Extract!RegionTag, Extract!SelectInSeq
      <3>2. Len(Extract!RegionTags) = 3
        BY DEF Extract!RegionTags
      <3> HIDE DEF Stands, r
      <3>3. I \in SUBSET Nat
        BY <3>2
      <3>4. I # {} /\ r = Extract!Min(I)
        BY <1>3, <3>1
      <3>5. r \in I
        BY <3>3, <3>4, Earliest
      <3>. QED
        BY <3>5
    <2> DEFINE opens == {i \in 1 .. Len(page) : page[i] = Extract!Open(tag)}
               closes == {i \in 1 .. Len(page) : page[i] = Extract!Close(tag)}
    <2>3. from = IF opens # {} THEN Extract!Min(opens) ELSE 0
      BY DEF Extract!From, Extract!SelectInSeq
    <2>4. to = IF closes # {} THEN Extract!Max(closes) ELSE 0
      BY DEF Extract!To, Extract!SelectLastInSeq
    <2>5. from # 0 /\ from < to
      BY <2>2
    <2> HIDE DEF from, to, tag
    <2>6. opens \in SUBSET (1 .. Len(page)) /\ closes \in SUBSET (1 .. Len(page)) /\ opens \in SUBSET Nat
      BY <1>1
    <2> HIDE DEF opens, closes
    <2>7. from \in opens
      BY <2>3, <2>5, <2>6, Earliest
    <2>8. from \in 1 .. Len(page)
      BY <2>6, <2>7
    <2>9. to # 0
      BY <1>1, <2>5, <2>8
    <2>10. to \in closes
      BY <1>1, <2>4, <2>6, <2>9, Latest
    <2>. QED
      BY <1>1, <2>1, <2>6, <2>8, <2>10
  <1>. QED
    BY <1>2, <1>3

\* So it has positions of the page, and all that lie between two of it.
LEMMA RegionFacts ==
  ASSUME NEW page, NestedFacts(page)
  PROVE  /\ Extract!RegionOf(page) \subseteq Positions(page)
         /\ \A i, k \in Extract!RegionOf(page), j \in Positions(page) : i <= j /\ j <= k => j \in Extract!RegionOf(page)
  <1>1. PICK a \in Int, b \in Int : Extract!RegionOf(page) = a .. b /\ 1 <= a /\ b <= Len(page)
    BY RegionIsWhole
  <1>2. Len(page) \in Nat
    BY DEF NestedFacts
  <1>. QED
    BY <1>1, <1>2 DEF Positions

-----------------------------------------------------------------------------
(* One replacement.                                                        *)

\* An element whose beginning is left has its end left too, if the region has it.
Whole(page, left) ==
  \A o \in Extract!Elements(page) \cap left :
    Extract!End(page, o) \in Extract!RegionOf(page) => Extract!End(page, o) \in left

\* What is cut is within an element's beginning and the first closing tag of its kind
\* that is left.
LEMMA CutFrom ==
  ASSUME NEW page, NestedFacts(page), NEW left \in SUBSET Positions(page), NEW tag,
         NEW i \in left, i \notin Extract!StripTag(page, left, tag)
  PROVE  \E o \in left : /\ page[o] = Extract!Open(tag)
                         /\ \/ i = o
                            \/ /\ o \in Extract!Elements(page) /\ o < i
                               /\ \E c \in left : Extract!IsFirstClose(page, left, tag, o, c) /\ i <= c
  <1>1. PICK o \in left : /\ page[o] = Extract!Open(tag)
                          /\ i = o \/ \E c \in left : Extract!IsFirstClose(page, left, tag, o, c) /\ i \in o .. c
    BY DEF Extract!StripTag
  <1>2. CASE i = o
    BY <1>1, <1>2
  <1>3. CASE i # o
    <2>1. PICK c \in left : Extract!IsFirstClose(page, left, tag, o, c) /\ i \in o .. c
      BY <1>1, <1>3
    <2>2. o < i /\ i <= c
      BY <1>3, <2>1 DEF Positions
    <2>3. c \in Positions(page) /\ page[c].kind = "close" /\ page[c].name = tag
      BY <2>1 DEF Extract!IsFirstClose, Extract!Close
    <2>4. tag \notin Extract!Void
      BY <2>3 DEF NestedFacts
    <2>5. o \in Extract!Elements(page)
      BY <1>1, <2>4 DEF NestedFacts, Extract!Elements, Extract!Open
    <2>. QED
      BY <1>1, <2>1, <2>2, <2>5
  <1>. QED
    BY <1>2, <1>3

\* Conversely all that is cut.
LEMMA CutAll ==
  ASSUME NEW page, NEW left \in SUBSET Positions(page), NEW tag, NEW o \in left, page[o] = Extract!Open(tag)
  PROVE  /\ o \notin Extract!StripTag(page, left, tag)
         /\ \A c \in left, i \in left : 
              Extract!IsFirstClose(page, left, tag, o, c) /\ o <= i /\ i <= c => i \notin Extract!StripTag(page, left, tag)
  <1>1. left \subseteq Int
    BY DEF Positions
  <1>. QED
    BY <1>1 DEF Extract!StripTag

\* No replacement leaves an element without its end.
LEMMA WholeStays ==
  ASSUME NEW page, NestedFacts(page), NEW left \in SUBSET Extract!RegionOf(page), Whole(page, left), NEW tag
  PROVE  Whole(page, Extract!StripTag(page, left, tag))
  <1> DEFINE new == Extract!StripTag(page, left, tag)
  <1>1. left \subseteq Positions(page) /\ new \subseteq left
    BY RegionFacts DEF Extract!StripTag
  <1>2. SUFFICES ASSUME NEW o \in Extract!Elements(page) \cap new,
                        Extract!End(page, o) \in Extract!RegionOf(page), Extract!End(page, o) \notin new
                 PROVE  FALSE
    BY DEF Whole
  <1> DEFINE e == Extract!End(page, o)
  <1>3. o \in left /\ e \in left /\ o < e /\ e \in Positions(page) /\ page[e].kind = "close"
    <2>1. o \in left /\ e \in left
      BY <1>1, <1>2 DEF Whole
    <2>2. o < e /\ e \in Positions(page) /\ page[e] = Extract!Close(page[o].name)
      BY <1>2 DEF NestedFacts
    <2>3. Extract!Close(page[o].name).kind = "close"
      BY DEF Extract!Close
    <2>. QED
      BY <2>1, <2>2, <2>3
  <1>4. PICK p \in left : /\ page[p] = Extract!Open(tag)
                          /\ \/ e = p
                             \/ /\ p \in Extract!Elements(page) /\ p < e
                                /\ \E c \in left : Extract!IsFirstClose(page, left, tag, p, c) /\ e <= c
    BY <1>1, <1>2, <1>3, CutFrom
  <1>5. page[p].kind = "open" /\ page[p].name = tag
    BY <1>4 DEF Extract!Open
  <1>6. p \in Extract!Elements(page) /\ p < e
    BY <1>3, <1>4, <1>5
  <1>7. PICK c \in left : Extract!IsFirstClose(page, left, tag, p, c) /\ e <= c
    BY <1>3, <1>4, <1>5
  <1>8. {o, p, e, c} \subseteq Nat
    BY <1>1, <1>3, <1>4, <1>7 DEF Positions
  <1>9. o < p
    <2>1. CASE p <= o
      <3>1. o <= c
        BY <1>3, <1>7, <1>8
      <3>. QED
        BY <1>1, <1>2, <1>3, <1>4, <1>7, <2>1, <3>1, CutAll
    <2>. QED
      BY <1>8, <2>1
  <1> DEFINE q == Extract!End(page, p)
  <1>10. q < e /\ p < q /\ q \in Positions(page) /\ page[q] = Extract!Close(tag)
    BY <1>2, <1>5, <1>6, <1>9 DEF NestedFacts
  <1>11. q \in left
    <2>1. q \in Extract!RegionOf(page)
      <3>1. p <= q /\ q <= e
        BY <1>8, <1>10 DEF Positions
      <3>. QED
        BY <1>2, <1>10, <3>1, RegionFacts
    <2>. QED
      BY <1>4, <1>6, <2>1 DEF Whole
  <1>12. q < c
    BY <1>7, <1>8, <1>10 DEF Positions
  <1>. QED
    BY <1>7, <1>10, <1>11, <1>12 DEF Extract!IsFirstClose

\* A text outside the elements to strip is in no cut.
LEMMA VisibleStays ==
  ASSUME NEW page, NestedFacts(page), NEW left \in SUBSET Extract!RegionOf(page), Whole(page, left),
         NEW tag \in Extract!ToSet(Extract!StripTags), NEW i \in left, page[i].kind = "text",
         \A o \in Extract!Noise(page) : ~(o < i /\ i < Extract!End(page, o))
  PROVE  i \in Extract!StripTag(page, left, tag)
  <1> SUFFICES ASSUME i \notin Extract!StripTag(page, left, tag)
               PROVE  FALSE
    OBVIOUS
  <1>1. left \subseteq Positions(page)
    BY RegionFacts
  <1>2. PICK p \in left : /\ page[p] = Extract!Open(tag)
                          /\ \/ i = p
                             \/ /\ p \in Extract!Elements(page) /\ p < i
                                /\ \E c \in left : Extract!IsFirstClose(page, left, tag, p, c) /\ i <= c
    BY <1>1, CutFrom
  <1>3. page[p].kind = "open" /\ page[p].name = tag
    BY <1>2 DEF Extract!Open
  <1>4. p \in Extract!Elements(page) /\ p < i
    BY <1>2, <1>3
  <1>5. PICK c \in left : Extract!IsFirstClose(page, left, tag, p, c) /\ i <= c
    BY <1>2, <1>3
  <1> DEFINE q == Extract!End(page, p)
  <1>6. p < q /\ q \in Positions(page) /\ page[q] = Extract!Close(tag)
    BY <1>3, <1>4 DEF NestedFacts
  <1>7. page[q].kind = "close"
    BY <1>6 DEF Extract!Close
  <1>8. p \in Extract!Noise(page)
    BY <1>3, <1>4 DEF Extract!Noise
  <1>9. {i, p, c, q} \subseteq Nat
    BY <1>1, <1>2, <1>5, <1>6 DEF Positions
  <1>10. q < i
    <2> HIDE DEF q
    <2>1. ~(i < q)
      BY <1>4, <1>8 DEF q
    <2>2. i # q
      BY <1>7
    <2>. QED
      BY <1>9, <2>1, <2>2
  <1>11. q \in left
    <2>1. p <= q /\ q <= i
      BY <1>6, <1>9, <1>10
    <2>2. q \in Extract!RegionOf(page)
      BY <1>6, <2>1, RegionFacts
    <2>. QED
      BY <1>2, <1>4, <2>2 DEF Whole
  <1>12. q < c
    BY <1>5, <1>9, <1>10
  <1>. QED
    BY <1>5, <1>6, <1>11, <1>12 DEF Extract!IsFirstClose

\* An element to strip whose beginning is gone is gone, if none holds one of its kind.
Gone(page, left) ==
  \A o \in Extract!Noise(page) \cap Extract!RegionOf(page) :
    o \notin left => \A i \in left : ~(o <= i /\ i <= Extract!End(page, o))

\* Then the first closing tag of its kind that is left is its own.
LEMMA OwnEnd ==
  ASSUME NEW page, NestedFacts(page), Extract!Flat(page),
         NEW left \in SUBSET Extract!RegionOf(page), Whole(page, left),
         NEW p \in Extract!Noise(page) \cap left
  PROVE  /\ Extract!End(page, p) \in left
         /\ Extract!IsFirstClose(page, left, page[p].name, p, Extract!End(page, p))
  <1> DEFINE q == Extract!End(page, p)
             tag == page[p].name
  <1>1. left \subseteq Positions(page)
    BY RegionFacts
  <1>2. p \in Extract!Elements(page) /\ p < q /\ q \in Positions(page) /\ page[q] = Extract!Close(tag)
    BY DEF Extract!Noise, NestedFacts
  <1>3. {p, q} \subseteq Nat
    <2>1. p \in Positions(page) /\ q \in Positions(page)
      BY <1>1, <1>2
    <2>. QED
      BY <2>1 DEF Positions
  <1>4. q \in Extract!RegionOf(page)
    <2>1. p .. q \subseteq Extract!RegionOf(page) \/ (p .. q) \cap Extract!RegionOf(page) = {}
      BY DEF Extract!Flat
    <2> HIDE DEF q
    <2>2. p \in p .. q /\ q \in p .. q
      BY <1>2, <1>3
    <2>. QED
      BY <2>1, <2>2
  <1>5. q \in left
    BY <1>2, <1>4 DEF Whole
  <1>6. ASSUME NEW b \in left, p < b, b < q, page[b] = Extract!Close(tag)
        PROVE  FALSE
    <2>1. page[b].kind = "close" /\ page[b].name = tag
      BY <1>6 DEF Extract!Close
    <2>2. PICK r \in Extract!Elements(page) : Extract!End(page, r) = b /\ page[r].name = tag
      BY <1>1, <2>1 DEF NestedFacts
    <2>3. r \in Nat /\ b \in Nat /\ r < b
      BY <1>1, <2>2 DEF NestedFacts, Positions
    <2> HIDE DEF q, tag
    <2>4. CASE r = p
      BY <1>3, <1>6, <2>2, <2>3, <2>4 DEF q
    <2>5. CASE p < r
      <3>1. r < q
        BY <1>3, <1>6, <2>3
      <3>. QED
        BY <2>2, <2>5, <3>1 DEF Extract!Flat, q, tag
    <2>6. CASE r < p
      <3>1. q < b
        BY <1>2, <1>6, <2>2, <2>6 DEF NestedFacts, q
      <3>. QED
        BY <1>3, <1>6, <2>3, <3>1
    <2>. QED
      BY <1>3, <2>3, <2>4, <2>5, <2>6
  <1>. QED
    BY <1>2, <1>5, <1>6 DEF Extract!IsFirstClose

\* So an element that is cut is cut as a whole.
LEMMA GoneStays ==
  ASSUME NEW page, NestedFacts(page), Extract!Flat(page),
         NEW left \in SUBSET Extract!RegionOf(page), Whole(page, left), Gone(page, left),
         NEW tag \in Extract!ToSet(Extract!StripTags)
  PROVE  Gone(page, Extract!StripTag(page, left, tag))
  <1> DEFINE new == Extract!StripTag(page, left, tag)
  <1>1. left \subseteq Positions(page) /\ new \subseteq left
    BY RegionFacts DEF Extract!StripTag
  <1>2. SUFFICES ASSUME NEW o \in Extract!Noise(page) \cap Extract!RegionOf(page), o \notin new,
                        NEW i \in new, o <= i, i <= Extract!End(page, o)
                 PROVE  FALSE
    BY DEF Gone
  <1>3. o \in left
    BY <1>1, <1>2 DEF Gone
  <1>4. o \in Extract!Elements(page) /\ page[o].kind = "open"
    BY DEF Extract!Noise, Extract!Elements
  <1>5. PICK p \in left : /\ page[p] = Extract!Open(tag)
                          /\ \/ o = p
                             \/ /\ p \in Extract!Elements(page) /\ p < o
                                /\ \E c \in left : Extract!IsFirstClose(page, left, tag, p, c) /\ o <= c
    BY <1>1, <1>2, <1>3, CutFrom
  <1>6. page[p].name = tag
    BY <1>5 DEF Extract!Open
  <1>7. p \in Extract!Noise(page)
    BY <1>4, <1>5, <1>6 DEF Extract!Noise
  <1> DEFINE q == Extract!End(page, p)
             e == Extract!End(page, o)
  <1>8. q \in left /\ Extract!IsFirstClose(page, left, tag, p, q)
    BY <1>6, <1>7, OwnEnd
  <1>9. {o, p, i, e, q} \subseteq Nat
    <2>1. \A k \in left : k \in Nat
      BY <1>1 DEF Positions
    <2>2. e \in Nat
      BY <1>4 DEF NestedFacts
    <2> HIDE DEF e, q
    <2>. QED
      BY <1>1, <1>2, <1>3, <1>5, <1>8, <2>1, <2>2, Zenon
  <1>10. page[q] = Extract!Close(tag) /\ page[q].kind = "close" /\ p < q
    BY <1>8 DEF Extract!IsFirstClose, Extract!Close
  <1>11. p <= o /\ e <= q
    <2>1. CASE o = p
      BY <1>9, <2>1
    <2>2. CASE o # p
      <3>1. PICK c \in left : Extract!IsFirstClose(page, left, tag, p, c) /\ o <= c
        BY <1>5, <2>2
      <3>2. p < o /\ o <= c /\ c \in Nat
        BY <1>1, <1>5, <2>2, <3>1 DEF Positions
      <3>3. ~(q < c)
        BY <1>8, <1>10, <3>1 DEF Extract!IsFirstClose
      <3>4. o # q
        BY <1>4, <1>10
      <3>5. o < q
        <4> HIDE DEF q
        <4>. QED
          BY <1>9, <3>2, <3>3, <3>4
      <3>6. e < q
        BY <1>4, <1>7, <3>2, <3>5 DEF NestedFacts, Extract!Noise
      <3> HIDE DEF e, q
      <3>. QED
        BY <1>9, <3>2, <3>6
    <2>. QED
      BY <2>1, <2>2
  <1>12. p <= i /\ i <= q
    <2>1. i <= e
      BY <1>2
    <2> HIDE DEF e, q
    <2>. QED
      BY <1>2, <1>9, <1>11, <2>1
  <1>. QED
    BY <1>1, <1>2, <1>5, <1>8, <1>12, CutAll

-----------------------------------------------------------------------------
(* All replacements.                                                       *)

\* They are done one after the other, on the region.
LEMMA FiveReplacements ==
  ASSUME NEW page
  PROVE  LET left == Extract!StripNonContent(page)
         IN  /\ left[0] = Extract!RegionOf(page)
             /\ \A k \in 1 .. 5 : left[k] = Extract!StripTag(page, left[k - 1], Extract!StripTags[k])
  <1> DEFINE region == Extract!RegionOf(page)
             S(k, g) == Extract!StripTag(page, g, Extract!StripTags[k])
             Body(g) == [k \in 0 .. Len(Extract!StripTags) |-> IF k = 0 THEN region ELSE S(k, g[k - 1])]
             unrolled == [k \in 0 .. 5 |-> IF k = 0 THEN region ELSE IF k = 1 THEN S(1, region)
                                           ELSE IF k = 2 THEN S(2, S(1, region))
                                           ELSE IF k = 3 THEN S(3, S(2, S(1, region)))
                                           ELSE IF k = 4 THEN S(4, S(3, S(2, S(1, region))))
                                           ELSE S(5, S(4, S(3, S(2, S(1, region)))))]
             left == Extract!StripNonContent(page)
  <1>1. left = CHOOSE g : g = Body(g)
    BY DEF Extract!StripNonContent
  <1>2. Len(Extract!StripTags) = 5
    BY DEF Extract!StripTags
  <1>3. unrolled = Body(unrolled)
    <2> HIDE DEF region, S
    <2>. QED
      BY <1>2
  <1>4. left = Body(left)
    <2> HIDE DEF Body, unrolled, left
    <2>. QED
      BY <1>1, <1>3
  <1>5. left[0] = region /\ \A k \in 1 .. 5 : left[k] = S(k, left[k - 1])
    <2> HIDE DEF region, S, left
    <2>. QED
      BY <1>2, <1>4
  <1>. QED
    BY <1>5

\* The kinds of elements to strip, in their order.
LEMMA Kinds == 
  /\ \A k \in 1 .. 5 : Extract!StripTags[k] \in Extract!ToSet(Extract!StripTags)
  /\ \A tag \in Extract!ToSet(Extract!StripTags) : \E k \in 1 .. 5 : tag = Extract!StripTags[k]
  /\ Len(Extract!StripTags) = 5
  <1>1. DOMAIN Extract!StripTags = 1 .. 5 /\ Len(Extract!StripTags) = 5
    BY DEF Extract!StripTags
  <1>. QED
    BY <1>1 DEF Extract!ToSet

\* After any of the replacements no element is left without its end, and of a flat page
\* what is cut is cut as a whole; nothing comes back.
Replaced(page, k) ==
  /\ Extract!StripNonContent(page)[k] \subseteq Extract!RegionOf(page)
  /\ Whole(page, Extract!StripNonContent(page)[k])
  /\ Extract!Flat(page) => Gone(page, Extract!StripNonContent(page)[k])

\* So it is after each.
LEMMA AllReplaced ==
  ASSUME NEW page, NestedFacts(page)
  PROVE  \A k \in 0 .. 5 : Replaced(page, k)
  <1> DEFINE left == Extract!StripNonContent(page)
  <1>1. Replaced(page, 0)
    BY FiveReplacements DEF Replaced, Whole, Gone
  <1>2. ASSUME NEW k \in 1 .. 5, Replaced(page, k - 1)
        PROVE  Replaced(page, k)
    <2> DEFINE before == left[k - 1]
               tag == Extract!StripTags[k]
    <2>1. left[k] = Extract!StripTag(page, before, tag)
      BY FiveReplacements
    <2>2. tag \in Extract!ToSet(Extract!StripTags)
      BY Kinds
    <2>3. /\ before \subseteq Extract!RegionOf(page) /\ Whole(page, before)
          /\ Extract!Flat(page) => Gone(page, before)
      BY <1>2 DEF Replaced
    <2> HIDE DEF before, tag, left
    <2>4. left[k] \subseteq Extract!RegionOf(page)
      BY <2>1, <2>3 DEF Extract!StripTag
    <2>5. Whole(page, left[k])
      BY <2>1, <2>3, WholeStays
    <2>6. Extract!Flat(page) => Gone(page, left[k])
      BY <2>1, <2>2, <2>3, GoneStays
    <2>. QED
      BY <2>4, <2>5, <2>6 DEF Replaced, left
  <1>3. Replaced(page, 1)
    BY <1>1, <1>2
  <1>4. Replaced(page, 2)
    BY <1>3, <1>2
  <1>5. Replaced(page, 3)
    BY <1>4, <1>2
  <1>6. Replaced(page, 4)
    BY <1>5, <1>2
  <1>7. Replaced(page, 5)
    BY <1>6, <1>2
  <1>. QED
    BY <1>1, <1>3, <1>4, <1>5, <1>6, <1>7

\* A position is among the text of the page.
Remains(page, i) == i \in Extract!StripNonContent(page)[5]

\* What a reader sees is left.
LEMMA VisibleIsLeft ==
  ASSUME NEW page, NestedFacts(page), NEW i \in Extract!RegionOf(page), page[i].kind = "text",
         \A o \in Extract!Noise(page) : ~(o < i /\ i < Extract!End(page, o))
  PROVE  Remains(page, i)
  <1> DEFINE left == Extract!StripNonContent(page)
  <1>1. i \in left[0]
    BY FiveReplacements
  <1>2. ASSUME NEW k \in 1 .. 5, i \in left[k - 1]
        PROVE  i \in left[k]
    <2> DEFINE before == left[k - 1]
               tag == Extract!StripTags[k]
    <2>1. left[k] = Extract!StripTag(page, before, tag)
      BY FiveReplacements
    <2>2. tag \in Extract!ToSet(Extract!StripTags)
      BY Kinds
    <2>3. before \subseteq Extract!RegionOf(page) /\ Whole(page, before)
      BY AllReplaced DEF Replaced
    <2>4. i \in before
      BY <1>2
    <2> HIDE DEF before, tag, left
    <2>. QED
      BY <2>1, <2>2, <2>3, <2>4, VisibleStays
  <1> HIDE DEF left
  <1>3. i \in left[1]
    BY <1>1, <1>2
  <1>4. i \in left[2]
    BY <1>3, <1>2
  <1>5. i \in left[3]
    BY <1>4, <1>2
  <1>6. i \in left[4]
    BY <1>5, <1>2
  <1>7. i \in left[5]
    BY <1>6, <1>2
  <1>. QED
    BY <1>7 DEF Remains, left

\* Of a flat page nothing of an element to strip is left.
LEMMA NoiseIsGone ==
  ASSUME NEW page, NestedFacts(page), Extract!Flat(page), NEW o \in Extract!Noise(page),
         NEW i, Remains(page, i), o <= i, i <= Extract!End(page, o)
  PROVE  FALSE
  <1> DEFINE left == Extract!StripNonContent(page)
             e == Extract!End(page, o)
  <1>1. \A k \in 0 .. 5 : /\ left[k] \subseteq Extract!RegionOf(page) /\ left[k] \subseteq Positions(page)
                           /\ Gone(page, left[k])
    BY AllReplaced, RegionFacts DEF Replaced
  <1>2. /\ o \in Extract!Elements(page) /\ o \in Positions(page) /\ e \in Positions(page)
        /\ page[o].name \in Extract!ToSet(Extract!StripTags) /\ page[o] = Extract!Open(page[o].name)
    BY DEF Extract!Noise, NestedFacts
  <1>3. i \in left[5]
    BY DEF Remains
  <1> HIDE DEF left
  <1>4. i \in Extract!RegionOf(page) /\ i \in Nat /\ o \in Nat /\ e \in Nat
    <2>1. i \in Positions(page)
      BY <1>1, <1>3
    <2> HIDE DEF e
    <2>. QED
      BY <1>1, <1>2, <1>3, <2>1 DEF Positions
  <1>5. o \in Extract!RegionOf(page)
    <2>1. o .. e \subseteq Extract!RegionOf(page) \/ (o .. e) \cap Extract!RegionOf(page) = {}
      BY DEF Extract!Flat
    <2>2. i <= e
      OBVIOUS
    <2> HIDE DEF e
    <2>3. i \in o .. e /\ o \in o .. e
      BY <1>4, <2>2
    <2>. QED
      BY <1>4, <2>1, <2>3
  <1>6. PICK n \in 1 .. 5 : page[o].name = Extract!StripTags[n]
    BY <1>2, Kinds
  <1>7. ASSUME NEW k \in 1 .. 5
        PROVE  /\ left[k] \subseteq left[k - 1]
               /\ k = n => o \notin left[k]
    <2>1. left[k] = Extract!StripTag(page, left[k - 1], Extract!StripTags[k])
      BY FiveReplacements DEF left
    <2>2. left[k] \subseteq left[k - 1]
      BY <2>1 DEF Extract!StripTag
    <2>3. ASSUME k = n, o \in left[k - 1]
          PROVE  o \notin left[k]
      <3>1. left[k - 1] \in SUBSET Positions(page)
        BY <1>1
      <3>2. page[o] = Extract!Open(Extract!StripTags[k])
        BY <1>2, <1>6, <2>3
      <3> DEFINE before == left[k - 1]
                 tag == Extract!StripTags[k]
      <3>3. before \in SUBSET Positions(page) /\ o \in before /\ page[o] = Extract!Open(tag)
        BY <2>3, <3>1, <3>2
      <3> HIDE DEF before, tag
      <3>4. o \notin Extract!StripTag(page, before, tag)
        BY <3>3, CutAll
      <3>. QED
        BY <2>1, <3>4 DEF before, tag
    <2>. QED
      BY <2>2, <2>3
  <1>8. o \notin left[5]
    <2>1. left[1] \subseteq left[0] /\ left[2] \subseteq left[1] /\ left[3] \subseteq left[2]
          /\ left[4] \subseteq left[3] /\ left[5] \subseteq left[4]
      BY <1>7
    <2>2. o \notin left[n]
      BY <1>7
    <2>. QED
      BY <2>1, <2>2
  <1>. QED
    BY <1>1, <1>3, <1>5, <1>8 DEF Gone

-----------------------------------------------------------------------------
(* The theorems.                                                           *)

\* Of the pages of the constants text is extracted.
Extracted == call.of = "extract_text" => call.page \in Documents

\* At the start none is.
LEMMA ExtractedInit == Init => Extracted
  BY DEF Init, Idle, Extracted

\* And every call extracts one of them.
LEMMA ExtractedStep == Extracted /\ [Next]_call => Extracted'
  <1> SUFFICES ASSUME Extracted, [Next]_call, (call.of = "extract_text")'
               PROVE  (call.page \in Documents)'
    BY DEF Extracted
  <1>1. CASE ExtractPage
    BY <1>1 DEF ExtractPage
  <1>2. ASSUME Plan \/ Normalize \/ Compare \/ CleanTitles \/ CleanText \/ JoinLink \/ Parse \/ Resolve
        PROVE  FALSE
    BY <1>2 DEF Plan, Normalize, Compare, CleanTitles, CleanText, JoinLink, Parse, Resolve
  <1>3. CASE UNCHANGED call
    BY <1>3 DEF Extracted
  <1>. QED
    BY <1>1, <1>2, <1>3 DEF Next

\* So it is always.
THEOREM AlwaysExtracted == Spec => []Extracted
  BY ExtractedInit, ExtractedStep, PTL DEF Spec

\* What is kept of a page: the words among the positions that are left.
LEMMA KeptWords ==
  ASSUME NEW page
  PROVE  LET words == Extract!Words(Extract!ExtractText(page))
         IN  /\ DOMAIN words = {i \in Extract!StripNonContent(page)[5] : ~Extract!IsBlank(Extract!TextOf(page[i]))}
             /\ words = [i \in DOMAIN words |-> Extract!TextOf(page[i])]
  <1> DEFINE left == Extract!StripNonContent(page)[5]
             T(i) == Extract!TextOf(page[i])
             text == Extract!ExtractText(page)
             words == Extract!Words(text)
  <1>1. text = [i \in left |-> T(i)]
    BY Kinds DEF Extract!ExtractText
  <1>2. words = [i \in {i \in DOMAIN text : ~Extract!IsBlank(text[i])} |-> text[i]]
    BY DEF Extract!Words, Extract!Restrict
  <1> HIDE DEF left, T, text, words
  <1>3. DOMAIN words = {i \in left : ~Extract!IsBlank(T(i))}
    BY <1>1, <1>2
  <1>4. words = [i \in DOMAIN words |-> T(i)]
    BY <1>1, <1>2, <1>3
  <1>. QED
    BY <1>3, <1>4 DEF left, T, text, words

\* Of any nested pages, no word a reader sees is lost.
THEOREM VisibleKept == Spec => []NothingVisibleIsLost
  <1>1. Extracted => NothingVisibleIsLost
    <2> SUFFICES ASSUME Extracted, call.of = "extract_text",
                        NEW i \in DOMAIN Extract!Visible(call.page)
                 PROVE  LET kept == Extract!Words(Extract!ExtractText(call.page))
                        IN  i \in DOMAIN kept /\ kept[i] = Extract!Visible(call.page)[i]
      BY DEF NothingVisibleIsLost
    <2> DEFINE page == call.page
               kept == Extract!Words(Extract!ExtractText(page))
    <2>1. NestedFacts(page)
      BY DocumentsAssumption, Nesting DEF Extracted
    <2> HIDE DEF page
    <2>2. /\ i \in Extract!RegionOf(page) /\ page[i].kind = "text"
          /\ page[i].name \notin {"", " ", "\n", "&nbsp;"}
          /\ \A o \in Extract!Noise(page) : ~(o < i /\ i < Extract!End(page, o))
          /\ Extract!Visible(page)[i] = page[i].name
      BY DEF Extract!Visible, page
    <2>3. i \in Extract!StripNonContent(page)[5]
      BY <2>1, <2>2, VisibleIsLeft DEF Remains
    <2>4. Extract!TextOf(page[i]) = page[i].name /\ ~Extract!IsBlank(page[i].name)
      BY <2>2 DEF Extract!TextOf, Extract!IsBlank
    <2> DEFINE left == Extract!StripNonContent(page)[5]
    <2>5. /\ DOMAIN kept = {k \in left : ~Extract!IsBlank(Extract!TextOf(page[k]))}
          /\ kept = [k \in DOMAIN kept |-> Extract!TextOf(page[k])]
      BY KeptWords
    <2> HIDE DEF kept, left
    <2>6. i \in DOMAIN kept
      BY <2>3, <2>4, <2>5 DEF left
    <2>7. kept[i] = page[i].name
      BY <2>4, <2>5, <2>6
    <2>. QED
      BY <2>2, <2>6, <2>7 DEF page, kept
  <1>. QED
    BY <1>1, AlwaysExtracted, PTL

\* And of those whose elements to strip are flat, nothing else is kept.
THEOREM NoiseCut == Spec => []NoiseIsStripped
  <1>1. Extracted => NoiseIsStripped
    <2> SUFFICES ASSUME Extracted, call.of = "extract_text", Extract!Flat(call.page)
                 PROVE  Extract!Words(Extract!ExtractText(call.page)) = Extract!Visible(call.page)
      BY DEF NoiseIsStripped
    <2> DEFINE page == call.page
               kept == Extract!Words(Extract!ExtractText(page))
               visible == Extract!Visible(page)
               left == Extract!StripNonContent(page)[5]
               Seen(i) == /\ page[i].kind = "text" /\ page[i].name \notin {"", " ", "\n", "&nbsp;"}
                          /\ \A o \in Extract!Noise(page) : ~(o < i /\ i < Extract!End(page, o))
    <2>1. NestedFacts(page) /\ Extract!Flat(page)
      BY DocumentsAssumption, Nesting DEF Extracted
    <2> HIDE DEF page
    <2>2. /\ DOMAIN kept = {i \in left : ~Extract!IsBlank(Extract!TextOf(page[i]))}
          /\ kept = [i \in DOMAIN kept |-> Extract!TextOf(page[i])]
      BY KeptWords
    <2>3. /\ DOMAIN visible = {i \in Extract!RegionOf(page) : Seen(i)}
          /\ visible = [i \in DOMAIN visible |-> page[i].name]
      BY DEF Extract!Visible
    <2>4. left \subseteq Extract!RegionOf(page)
      BY <2>1, AllReplaced DEF Replaced
    <2> HIDE DEF kept, visible, left
    <2>5. ASSUME NEW i \in left, ~Extract!IsBlank(Extract!TextOf(page[i]))
          PROVE  i \in Extract!RegionOf(page) /\ Seen(i)
      <3>1. page[i].kind = "text"
        BY <2>5 DEF Extract!TextOf, Extract!IsBlank
      <3>2. page[i].name \notin {"", " ", "\n", "&nbsp;"}
        BY <2>5, <3>1 DEF Extract!TextOf, Extract!IsBlank
      <3>3. ASSUME NEW o \in Extract!Noise(page), o < i, i < Extract!End(page, o)
            PROVE  FALSE
        <4>1. o <= i /\ i <= Extract!End(page, o)
          <5>1. i \in Positions(page)
            BY <2>1, <2>4, RegionFacts
          <5>2. o \in Positions(page) /\ Extract!End(page, o) \in Positions(page)
            BY <2>1 DEF NestedFacts, Extract!Noise
          <5> DEFINE e == Extract!End(page, o)
          <5>3. {i, o, e} \subseteq Nat
            BY <5>1, <5>2 DEF Positions
          <5>. QED
            BY <3>3, <5>3
        <4>2. Remains(page, i)
          BY DEF Remains, left
        <4>. QED
          BY <2>1, <4>1, <4>2, NoiseIsGone
      <3>. QED
        BY <2>4, <3>1, <3>2, <3>3
    <2>6. ASSUME NEW i \in Extract!RegionOf(page), Seen(i)
          PROVE  i \in left /\ ~Extract!IsBlank(Extract!TextOf(page[i])) /\ Extract!TextOf(page[i]) = page[i].name
      <3>1. i \in left
        BY <2>1, <2>6, VisibleIsLeft DEF Remains, left
      <3>2. Extract!TextOf(page[i]) = page[i].name /\ ~Extract!IsBlank(page[i].name)
        BY <2>6 DEF Extract!TextOf, Extract!IsBlank
      <3>. QED
        BY <3>1, <3>2
    <2> HIDE DEF Seen
    <2>7. DOMAIN kept = DOMAIN visible
      BY <2>2, <2>3, <2>5, <2>6
    <2>8. \A i \in DOMAIN visible : kept[i] = visible[i]
      BY <2>2, <2>3, <2>6, <2>7
    <2>9. kept = visible
      BY <2>2, <2>3, <2>7, <2>8
    <2>. QED
      BY <2>9 DEF kept, visible, page
  <1>. QED
    BY <1>1, AlwaysExtracted, PTL

-----------------------------------------------------------------------------
(* The text of a field.                                                    *)

\* What a reader sees of a symbol.
Shown(x) ==
    CASE x = "less" -> "<" [] x = "more" -> ">" [] x = "line" -> "\n" [] OTHER -> x

\* What decode_html_entities makes of a piece.
Decoded(x) ==
    CASE x = "&lt;" -> "<" [] x = "&gt;" -> ">"
      [] x = "&amp;lt;" -> "&lt;" [] x = "&amp;gt;" -> "&gt;"
      [] x = "&lt;em&gt;" -> "<em>" [] OTHER -> x

\* The pieces of a text, without delimiters around it.
FieldPieces(content, writing) == [i \in DOMAIN content |-> Feed!Piece(content[i], writing)]

\* A text is made of symbols.
Symbolic(content) ==
    /\ Len(content) \in Nat
    /\ DOMAIN content = 1 .. Len(content)
    /\ \A i \in DOMAIN content : content[i] \in Feed!Symbols

\* What a piece may be.
IsPieceOf(piece, x, w) ==
    /\ piece \notin {"<![CDATA[", "]]>", "absent"}
    /\ piece = "\n" <=> x = "line"
    /\ piece = "<em>" <=> x = "tag" /\ w # "html escaped"
    /\ piece = "<" => w = "text in CDATA"
    /\ w = "text in CDATA" /\ x # "tag" => piece = Shown(x)

\* A symbol is written as a piece.
LEMMA PieceIs ==
  ASSUME NEW x \in Feed!Symbols, NEW w \in Feed!Writings
  PROVE  IsPieceOf(Feed!Piece(x, w), x, w)
  <1>1. CASE x = "word"
    BY <1>1 DEF Feed!Piece, IsPieceOf, Shown
  <1>2. CASE x = "less"
    BY <1>2 DEF Feed!Piece, IsPieceOf, Shown, Feed!Writings, Feed!InCdata
  <1>3. CASE x = "more"
    BY <1>3 DEF Feed!Piece, IsPieceOf, Shown, Feed!Writings, Feed!InCdata
  <1>4. CASE x = "tag"
    BY <1>4 DEF Feed!Piece, IsPieceOf, Shown
  <1>5. CASE x = "line"
    BY <1>5 DEF Feed!Piece, IsPieceOf, Shown
  <1>. QED
    BY <1>1, <1>2, <1>3, <1>4, <1>5 DEF Feed!Symbols

\* A piece that is no tag is decoded to what a reader sees, unless it is escaped twice.
LEMMA PieceDecoded ==
  ASSUME NEW x \in Feed!Symbols \ {"tag"}, NEW w \in Feed!Writings,
         w = "html escaped" => x \notin {"less", "more"}
  PROVE  Decoded(Feed!Piece(x, w)) = Shown(x)
  <1>1. CASE x = "word"
    BY <1>1 DEF Feed!Piece, Decoded, Shown
  <1>2. CASE x = "less"
    BY <1>2 DEF Feed!Piece, Decoded, Shown, Feed!Writings, Feed!InCdata
  <1>3. CASE x = "more"
    BY <1>3 DEF Feed!Piece, Decoded, Shown, Feed!Writings, Feed!InCdata
  <1>5. CASE x = "line"
    BY <1>5 DEF Feed!Piece, Decoded, Shown
  <1>. QED
    BY <1>1, <1>2, <1>3, <1>5 DEF Feed!Symbols

\* Sequences of symbols are texts.
LEMMA ContentIsSymbolic ==
  ASSUME NEW c, c \in Seq(Feed!Symbols)
  PROVE  Symbolic(c)
  <1> DEFINE S == Feed!Symbols
  <1>1. c \in Seq(S)
    OBVIOUS
  <1> HIDE DEF S
  <1>2. Len(c) \in Nat /\ DOMAIN c = 1 .. Len(c) /\ \A i \in DOMAIN c : c[i] \in S
    BY <1>1
  <1>. QED
    BY <1>2 DEF Symbolic, S

\* unwrap_cdata leaves a text without an opening delimiter as it is.
LEMMA NothingUnwrapped ==
  ASSUME NEW s, s = [i \in DOMAIN s |-> s[i]], \A i \in DOMAIN s : s[i] # "<![CDATA["
  PROVE  Feed!UnwrapCdata(s) = s
  <1>1. \A i, j \in DOMAIN s : ~Feed!IsSection(s, i, j)
    BY DEF Feed!IsSection
  <1>2. Feed!UnwrapCdata(s) = Feed!Without(s, {} \cup {})
    BY <1>1 DEF Feed!UnwrapCdata
  <1>. QED
    BY <1>2 DEF Feed!Without, Feed!Restrict

\* And it takes the delimiters around a text of one line away.
LEMMA SectionUnwrapped ==
  ASSUME NEW s, NEW a \in Nat, NEW b \in Nat, a < b, DOMAIN s = a .. b,
         s[a] = "<![CDATA[", s[b] = "]]>",
         \A i \in a + 1 .. b - 1 : s[i] \notin {"<![CDATA[", "]]>", "\n"}
  PROVE  Feed!UnwrapCdata(s) = [i \in a + 1 .. b - 1 |-> s[i]]
  <1> DEFINE ends == {j \in DOMAIN s : \E i \in DOMAIN s : Feed!IsSection(s, i, j)}
             begins == {i \in DOMAIN s : \E j \in ends :
                           Feed!IsSection(s, i, j) /\ \A h \in DOMAIN s : h < i => ~Feed!IsSection(s, h, j)}
  <1>1. Feed!UnwrapCdata(s) = Feed!Without(s, begins \cup ends)
    BY DEF Feed!UnwrapCdata
  <1>2. \A i, j \in DOMAIN s : Feed!IsSection(s, i, j) => i = a /\ j = b
    BY DEF Feed!IsSection
  <1>3. Feed!IsSection(s, a, b)
    <2>1. \A k \in Feed!Between(s, a, b) : k \in a + 1 .. b - 1
      BY DEF Feed!Between
    <2>. QED
      BY <2>1 DEF Feed!IsSection
  <1>4. a \in DOMAIN s /\ b \in DOMAIN s
    OBVIOUS
  <1>5. ends = {b}
    BY <1>2, <1>3, <1>4
  <1>6. begins = {a}
    <2>1. \A h \in DOMAIN s : ~(h < a)
      OBVIOUS
    <2>. QED
      BY <1>2, <1>3, <1>4, <1>5, <2>1
  <1> HIDE DEF begins, ends
  <1>7. DOMAIN s \ (begins \cup ends) = a + 1 .. b - 1
    BY <1>5, <1>6
  <1>. QED
    BY <1>1, <1>7, Zenon DEF Feed!Without, Feed!Restrict

\* The text of a field without its CDATA section.
LEMMA Unwrapped ==
  ASSUME NEW c, Symbolic(c), NEW w \in Feed!Writings,
         w \in Feed!InCdata => \A i \in DOMAIN c : c[i] # "line"
  PROVE  Feed!UnwrapCdata(Feed!Written(c, w)) = FieldPieces(c, w)
  <1> DEFINE s == Feed!Written(c, w)
             n == Len(c)
  <1>1. n \in Nat /\ DOMAIN c = 1 .. n /\ \A i \in 1 .. n : c[i] \in Feed!Symbols
    BY DEF Symbolic
  <1>2. \A i \in 1 .. n : IsPieceOf(Feed!Piece(c[i], w), c[i], w)
    BY <1>1, PieceIs
  <1>3. \A i \in 1 .. n : Feed!Piece(c[i], w) \notin {"<![CDATA[", "]]>"}
                          /\ (Feed!Piece(c[i], w) = "\n" <=> c[i] = "line")
    BY <1>2 DEF IsPieceOf
  <1>4. CASE w \in Feed!InCdata
    <2>1. s = [i \in (1 .. n) \cup {0, n + 1} |->
                  IF i \in 1 .. n THEN Feed!Piece(c[i], w) ELSE IF i = 0 THEN "<![CDATA[" ELSE "]]>"]
      BY <1>1, <1>4, Zenon DEF Feed!Written
    <2>2. (1 .. n) \cup {0, n + 1} = 0 .. n + 1
      BY <1>1
    <2> HIDE DEF s
    <2>3. DOMAIN s = 0 .. n + 1 /\ \A i \in 1 .. n : s[i] = Feed!Piece(c[i], w)
      BY <2>1, <2>2
    <2>4. 0 \in 0 .. n + 1 /\ n + 1 \in 0 .. n + 1 /\ 0 \notin 1 .. n /\ n + 1 \notin 1 .. n /\ n + 1 # 0
      BY <1>1
    <2>5. s[0] = "<![CDATA[" /\ s[n + 1] = "]]>"
      BY <2>1, <2>2, <2>4
    <2>6. \A i \in 1 .. n : s[i] \notin {"<![CDATA[", "]]>", "\n"}
      BY <1>1, <1>3, <1>4, <2>3
    <2>7. Feed!UnwrapCdata(s) = [i \in 1 .. n |-> s[i]]
      <3>1. 0 + 1 = 1 /\ (n + 1) - 1 = n /\ 0 < n + 1 /\ 0 \in Nat /\ n + 1 \in Nat
        BY <1>1
      <3> DEFINE b == n + 1
      <3>2. Feed!UnwrapCdata(s) = [i \in 0 + 1 .. b - 1 |-> s[i]]
        <4>1. 0 < b /\ 0 \in Nat /\ b \in Nat /\ 0 + 1 .. b - 1 = 1 .. n
          BY <3>1
        <4>2. DOMAIN s = 0 .. b /\ s[0] = "<![CDATA[" /\ s[b] = "]]>"
          BY <2>3, <2>5
        <4> HIDE DEF b, n
        <4>3. \A i \in 0 + 1 .. b - 1 : s[i] \notin {"<![CDATA[", "]]>", "\n"}
          BY <2>6, <4>1
        <4>. QED
          BY <4>1, <4>2, <4>3, SectionUnwrapped, ZenonT(30)
      <3> HIDE DEF n
      <3>. QED
        BY <3>1, <3>2
    <2>. QED
      BY <1>1, <2>3, <2>7 DEF FieldPieces, s
  <1>5. CASE w \notin Feed!InCdata
    <2>1. s = [i \in DOMAIN c \cup {} |->
                  IF i \in DOMAIN c THEN Feed!Piece(c[i], w) ELSE IF i = 0 THEN "<![CDATA[" ELSE "]]>"]
      BY <1>5, Zenon DEF Feed!Written
    <2>2. s = FieldPieces(c, w)
      BY <2>1 DEF FieldPieces
    <2>3. DOMAIN s = 1 .. n /\ (\A i \in 1 .. n : s[i] = Feed!Piece(c[i], w)) /\ s = [i \in DOMAIN s |-> s[i]]
      BY <1>1, <2>2 DEF FieldPieces
    <2> HIDE DEF s
    <2>4. Feed!UnwrapCdata(s) = s
      BY <1>3, <2>3, NothingUnwrapped
    <2>. QED
      BY <2>2, <2>4 DEF s
  <1>. QED
    BY <1>4, <1>5

\* strip_html leaves a text without a tag as it is.
LEMMA NothingStripped ==
  ASSUME NEW s, s = [i \in DOMAIN s |-> s[i]], \A i, j \in DOMAIN s : ~Feed!IsTag(s, i, j)
  PROVE  Feed!StripHtml(s) = s
  <1>1. Feed!StripHtml(s) = Feed!Without(s, {})
    BY DEF Feed!StripHtml
  <1>. QED
    BY <1>1 DEF Feed!Without, Feed!Restrict

\* Where no bracket opens, it takes the tags of one piece away.
LEMMA TagsStripped ==
  ASSUME NEW s, NEW n \in Nat, DOMAIN s = 1 .. n, \A i \in 1 .. n : s[i] \notin {"<", "<![CDATA["}
  PROVE  Feed!StripHtml(s) = [i \in {k \in 1 .. n : s[k] # "<em>"} |-> s[i]]
  <1> DEFINE cut == {k \in DOMAIN s : \E i, j \in DOMAIN s : Feed!IsTag(s, i, j) /\ i <= k /\ k <= j}
  <1>1. Feed!StripHtml(s) = Feed!Without(s, cut)
    BY DEF Feed!StripHtml
  <1>2. \A i, j \in 1 .. n : Feed!IsTag(s, i, j) <=> i = j /\ s[i] = "<em>"
    BY DEF Feed!IsTag
  <1>3. cut = {k \in 1 .. n : s[k] = "<em>"}
    BY <1>2
  <1> HIDE DEF cut
  <1>4. DOMAIN s \ cut = {k \in 1 .. n : s[k] # "<em>"}
    BY <1>3
  <1>. QED
    BY <1>1, <1>4, Zenon DEF Feed!Without, Feed!Restrict

\* decode_html_entities decodes piece by piece.
LEMMA DecodedEach ==
  ASSUME NEW s
  PROVE  Feed!Decode(s) = [i \in DOMAIN s |-> Decoded(s[i])]
  BY DEF Feed!Decode, Decoded

\* What a reader sees, symbol by symbol.
LEMMA ReadEach ==
  ASSUME NEW c
  PROVE  Feed!Read(c) = [i \in {k \in DOMAIN c : c[k] # "tag"} |-> Shown(c[i])]
  BY DEF Feed!Read, Shown

\* The symbols of a legible text.
LEMMA LegibleSymbols ==
  ASSUME NEW c, Symbolic(c), NEW w, NEW atom, Feed!Legible(c, w, atom)
  PROVE  /\ w \in Feed!InCdata => \A i \in DOMAIN c : c[i] # "line"
         /\ w \in {"text", "text in CDATA"} => \A i \in DOMAIN c : c[i] # "tag"
         /\ w = "html escaped" => \A i \in DOMAIN c : c[i] \notin {"less", "more"}
         /\ w = "html escaped" /\ ~atom => \A i \in DOMAIN c : c[i] # "tag"
         /\ atom \/ w = "text in CDATA" =>
                \A i, j \in DOMAIN Feed!Read(c) : ~Feed!IsTag(Feed!Read(c), i, j)
  <1>1. \A i \in DOMAIN c : c[i] \in Feed!ToSet(c)
    BY DEF Feed!ToSet
  <1>. QED
    BY <1>1 DEF Feed!Legible

\* Stripped of its tags and decoded, a text is what a reader sees, but for tags that
\* were escaped.
LEMMA StrippedAndDecoded ==
  ASSUME NEW c, Symbolic(c), NEW w \in Feed!Writings, NEW atom \in BOOLEAN, Feed!Legible(c, w, atom)
  PROVE  Feed!Decode(Feed!StripHtml(FieldPieces(c, w))) =
            IF w = "html escaped" THEN [i \in DOMAIN c |-> Decoded(Feed!Piece(c[i], w))] ELSE Feed!Read(c)
  <1> DEFINE n == Len(c)
             p == FieldPieces(c, w)
  <1>1. n \in Nat /\ DOMAIN c = 1 .. n /\ \A i \in 1 .. n : c[i] \in Feed!Symbols
    BY DEF Symbolic
  <1>2. p = [i \in 1 .. n |-> Feed!Piece(c[i], w)]
    BY <1>1, Zenon DEF FieldPieces
  <1>3. \A i \in 1 .. n : IsPieceOf(Feed!Piece(c[i], w), c[i], w)
    BY <1>1, PieceIs
  <1> HIDE DEF p, n
  <1>4. DOMAIN p = 1 .. n /\ p = [i \in DOMAIN p |-> p[i]] /\ \A i \in 1 .. n : p[i] = Feed!Piece(c[i], w)
    BY <1>2
  <1>5. CASE w = "text in CDATA"
    <2>1. \A i \in 1 .. n : c[i] # "tag"
      BY <1>1, <1>5, LegibleSymbols DEF n
    <2>2. {k \in DOMAIN c : c[k] # "tag"} = 1 .. n
      BY <1>1, <2>1
    <2>3. \A i \in 1 .. n : p[i] = Shown(c[i])
      BY <1>3, <1>4, <1>5, <2>1 DEF IsPieceOf
    <2>4. p = Feed!Read(c)
      BY <1>2, <1>4, <2>2, <2>3, ReadEach
    <2>5. \A i, j \in DOMAIN p : ~Feed!IsTag(p, i, j)
      BY <1>5, <2>4, LegibleSymbols, Zenon
    <2>6. Feed!StripHtml(p) = p
      BY <1>4, <2>5, NothingStripped, Zenon
    <2>7. \A i \in 1 .. n : Decoded(p[i]) = Shown(c[i])
      BY <1>1, <1>4, <1>5, <2>1, PieceDecoded
    <2>8. Feed!Decode(p) = [i \in 1 .. n |-> Decoded(p[i])]
      BY <1>4, DecodedEach, Zenon
    <2>9. Feed!Decode(p) = p
      BY <1>4, <2>3, <2>7, <2>8
    <2>. QED
      BY <1>5, <2>4, <2>6, <2>9 DEF p
  <1>6. CASE w # "text in CDATA"
    <2> DEFINE kept == {k \in 1 .. n : p[k] # "<em>"}
    <2>1. \A i \in 1 .. n : p[i] \notin {"<", "<![CDATA["}
      BY <1>3, <1>4, <1>6 DEF IsPieceOf
    <2>2. Feed!StripHtml(p) = [i \in kept |-> p[i]]
      BY <1>1, <1>4, <2>1, TagsStripped, Zenon
    <2>3. \A i \in 1 .. n : p[i] = "<em>" <=> c[i] = "tag" /\ w # "html escaped"
      BY <1>3, <1>4 DEF IsPieceOf
    <2> HIDE DEF kept
    <2>4. Feed!Decode(Feed!StripHtml(p)) = [i \in kept |-> Decoded(p[i])]
      BY <2>2, DecodedEach
    <2>5. CASE w = "html escaped"
      <3>1. kept = 1 .. n
        BY <2>3, <2>5 DEF kept
      <3>. QED
        BY <1>1, <1>4, <2>4, <2>5, <3>1 DEF p
    <2>6. CASE w # "html escaped"
      <3>1. kept = {k \in DOMAIN c : c[k] # "tag"}
        BY <1>1, <2>3, <2>6 DEF kept
      <3>2. \A i \in kept : Decoded(p[i]) = Shown(c[i])
        BY <1>1, <1>4, <2>6, <3>1, PieceDecoded
      <3>. QED
        BY <2>4, <2>6, <3>1, <3>2, ReadEach DEF p
    <2>. QED
      BY <2>5, <2>6
  <1>. QED
    BY <1>5, <1>6

\* Nor is any tag left, once those are stripped that were escaped.
LEMMA StrippedAgain ==
  ASSUME NEW c, Symbolic(c), NEW w \in Feed!Writings, Feed!Legible(c, w, TRUE)
  PROVE  Feed!StripHtml(Feed!Decode(Feed!StripHtml(FieldPieces(c, w)))) = Feed!Read(c)
  <1> DEFINE n == Len(c)
             d == Feed!Decode(Feed!StripHtml(FieldPieces(c, w)))
  <1>1. n \in Nat /\ DOMAIN c = 1 .. n /\ \A i \in 1 .. n : c[i] \in Feed!Symbols
    BY DEF Symbolic
  <1>2. d = IF w = "html escaped" THEN [i \in DOMAIN c |-> Decoded(Feed!Piece(c[i], w))] ELSE Feed!Read(c)
    BY StrippedAndDecoded
  <1> HIDE DEF d, n
  <1>3. CASE w # "html escaped"
    <2>1. d = Feed!Read(c)
      BY <1>2, <1>3
    <2>2. \A i, j \in DOMAIN Feed!Read(c) : ~Feed!IsTag(Feed!Read(c), i, j)
      BY LegibleSymbols
    <2>3. Feed!Read(c) = [i \in DOMAIN Feed!Read(c) |-> Feed!Read(c)[i]]
      BY ReadEach
    <2>4. Feed!StripHtml(Feed!Read(c)) = Feed!Read(c)
      BY <2>2, <2>3, NothingStripped, Zenon
    <2>. QED
      BY <2>1, <2>4 DEF d
  <1>4. CASE w = "html escaped"
    <2> DEFINE kept == {k \in 1 .. n : d[k] # "<em>"}
    <2>1. \A i \in 1 .. n : c[i] \notin {"less", "more"}
      BY <1>1, <1>4, LegibleSymbols
    <2>2. DOMAIN d = 1 .. n /\ \A i \in 1 .. n : d[i] = Decoded(Feed!Piece(c[i], w))
      BY <1>1, <1>2, <1>4
    <2>3. \A i \in 1 .. n : c[i] # "tag" => d[i] = Shown(c[i])
      BY <1>1, <2>1, <2>2, PieceDecoded
    <2>4. \A i \in 1 .. n : c[i] = "tag" => d[i] = "<em>"
      BY <1>4, <2>2 DEF Feed!Piece, Decoded
    <2>5. \A i \in 1 .. n : c[i] # "tag" => Shown(c[i]) \notin {"<", "<![CDATA[", "<em>"}
      BY <1>1, <2>1 DEF Shown, Feed!Symbols
    <2>6. \A i \in 1 .. n : d[i] \notin {"<", "<![CDATA["}
      BY <2>3, <2>4, <2>5
    <2>7. Feed!StripHtml(d) = [i \in kept |-> d[i]]
      BY <1>1, <2>2, <2>6, TagsStripped, Zenon
    <2>8. kept = {k \in DOMAIN c : c[k] # "tag"}
      BY <1>1, <2>3, <2>4, <2>5
    <2> HIDE DEF kept
    <2>9. \A i \in kept : d[i] = Shown(c[i])
      BY <1>1, <2>3, <2>8
    <2>. QED
      BY <2>7, <2>8, <2>9, ReadEach DEF d
  <1>. QED
    BY <1>3, <1>4

\* No text is mistaken for a tag the entry does not have.
LEMMA WrittenIsThere ==
  ASSUME NEW c, Symbolic(c), NEW w \in Feed!Writings
  PROVE  Feed!Written(c, w) # Feed!Absent
  <1> DEFINE s == Feed!Written(c, w)
             n == Len(c)
  <1>1. n \in Nat /\ DOMAIN c = 1 .. n /\ \A i \in 1 .. n : c[i] \in Feed!Symbols
    BY DEF Symbolic
  <1>2. \A i \in 1 .. n : IsPieceOf(Feed!Piece(c[i], w), c[i], w)
    BY <1>1, PieceIs
  <1>3. \A i \in DOMAIN s : s[i] # "absent"
    <2>1. s = [i \in DOMAIN s |-> IF i \in 1 .. n THEN Feed!Piece(c[i], w)
                                 ELSE IF i = 0 THEN "<![CDATA[" ELSE "]]>"]
      <3>1. s = [i \in DOMAIN c \cup (IF w \in Feed!InCdata THEN {0, n + 1} ELSE {}) |->
                    IF i \in DOMAIN c THEN Feed!Piece(c[i], w) ELSE IF i = 0 THEN "<![CDATA[" ELSE "]]>"]
        BY Zenon DEF Feed!Written
      <3> HIDE DEF s
      <3>. QED
        BY <1>1, <3>1
    <2> HIDE DEF s
    <2>. QED
      BY <1>2, <2>1 DEF IsPieceOf
  <1> HIDE DEF s
  <1>4. 1 \in DOMAIN Feed!Absent /\ Feed!Absent[1] = "absent"
    BY DEF Feed!Absent
  <1>. QED
    BY <1>3, <1>4 DEF s

\* What a call of the text functions is given.
TextCalls ==
    call.of = "text" =>
        call.content \in Contents /\ call.writing \in Feed!Writings /\ call.atom \in BOOLEAN

\* Only texts are.
LEMMA AlwaysTexts == Spec => []TextCalls
  <1>1. Init => TextCalls
    BY DEF Init, Idle, TextCalls
  <1>2. TextCalls /\ [Next]_call => TextCalls'
    <2> SUFFICES ASSUME TextCalls, [Next]_call
                 PROVE  TextCalls'
      OBVIOUS
    <2>1. CASE CleanText
      BY <2>1 DEF CleanText, TextCalls
    <2>2. CASE UNCHANGED call
      BY <2>2 DEF TextCalls
    <2>3. CASE Plan \/ Normalize \/ Compare \/ CleanTitles \/ ExtractPage \/ JoinLink \/ Parse \/ Resolve
      BY <2>3 DEF TextCalls, Plan, Normalize, Compare, CleanTitles, ExtractPage, JoinLink, Parse, Resolve
    <2>. QED
      BY <2>1, <2>2, <2>3 DEF Next
  <1>. QED
    BY <1>1, <1>2, PTL DEF Spec

\* The text of a field is what it says, whatever it says, in each way to write it.
THEOREM FieldSays == Spec => []FieldIsText
  <1>1. TextCalls => FieldIsText
    <2> SUFFICES ASSUME TextCalls, call.of = "text", Feed!Legible(call.content, call.writing, call.atom)
                 PROVE  (IF call.atom THEN Feed!AtomText(Feed!Written(call.content, call.writing))
                                      ELSE Feed!RssText(Feed!Written(call.content, call.writing)))
                        = Feed!Says(call.content)
      BY DEF FieldIsText
    <2> DEFINE c == call.content
               w == call.writing
               s == Feed!Written(c, w)
    <2>1. c \in Contents /\ w \in Feed!Writings /\ call.atom \in BOOLEAN
      BY DEF TextCalls
    <2>2. Symbolic(c)
      BY <2>1, ContentsAssumption, ContentIsSymbolic, Zenon
    <2> HIDE DEF c, w
    <2>3. Feed!Legible(c, w, call.atom)
      BY DEF c, w
    <2>4. s # Feed!Absent
      BY <2>1, <2>2, WrittenIsThere
    <2>5. Feed!UnwrapCdata(s) = FieldPieces(c, w)
      BY <2>1, <2>2, <2>3, LegibleSymbols, Unwrapped
    <2> HIDE DEF s
    <2>6. CASE call.atom
      <3>1. Feed!Legible(c, w, TRUE)
        BY <2>1, <2>3, <2>6
      <3>2. Feed!StripHtml(Feed!Decode(Feed!StripHtml(FieldPieces(c, w)))) = Feed!Read(c)
        BY <2>1, <2>2, <3>1, StrippedAgain
      <3>3. Feed!AtomText(s) = Feed!Says(c)
        BY <2>4, <2>5, <3>2, Zenon DEF Feed!AtomText, Feed!Says
      <3>. QED
        BY <2>6, <3>3 DEF s, c, w
    <2>7. CASE ~call.atom
      <3>1. Feed!Decode(Feed!StripHtml(FieldPieces(c, w))) = Feed!Read(c)
        <4>1. Feed!Decode(Feed!StripHtml(FieldPieces(c, w))) =
                 IF w = "html escaped" THEN [i \in DOMAIN c |-> Decoded(Feed!Piece(c[i], w))] ELSE Feed!Read(c)
          BY <2>1, <2>2, <2>3, StrippedAndDecoded
        <4>2. CASE w # "html escaped"
          BY <4>1, <4>2
        <4>3. CASE w = "html escaped"
          <5>1. \A i \in DOMAIN c : c[i] \notin {"less", "more", "tag"}
            <6>1. call.atom = FALSE
              BY <2>1, <2>7
            <6>2. Feed!Legible(c, w, FALSE)
              BY <2>3, <6>1
            <6>. QED
              BY <2>2, <4>3, <6>2, LegibleSymbols
          <5>2. \A i \in DOMAIN c : Decoded(Feed!Piece(c[i], w)) = Shown(c[i])
            BY <2>1, <2>2, <5>1, PieceDecoded DEF Symbolic
          <5>3. {k \in DOMAIN c : c[k] # "tag"} = DOMAIN c
            BY <5>1
          <5>4. Feed!Read(c) = [i \in DOMAIN c |-> Shown(c[i])]
            BY <5>3, ReadEach
          <5>. QED
            BY <4>1, <4>3, <5>2, <5>4
        <4>. QED
          BY <4>2, <4>3
      <3>2. Feed!RssText(s) = Feed!Says(c)
        BY <2>4, <2>5, <3>1, Zenon DEF Feed!RssText, Feed!Says
      <3>. QED
        BY <2>7, <3>2 DEF s, c, w
    <2>. QED
      BY <2>1, <2>6, <2>7
  <1>. QED
    BY <1>1, AlwaysTexts, PTL

-----------------------------------------------------------------------------
(* The link of an entry.                                                   *)

\* The link of an RSS item, without its CDATA section and the line ends around it, is the
\* address it encloses.
LEMMA AddressIsEnclosed ==
  ASSUME NEW s, Feed!Enclosed(s), ~Feed!Broken(s)
  PROVE  Feed!Trim(Feed!UnwrapCdata(s)) = Feed!Words(s)
  <1> DEFINE n == Len(s)
             delimiters == {"<![CDATA[", "]]>"}
             word == {i \in DOMAIN s : s[i] \notin {"<![CDATA[", "]]>", "\n"}}
  <1>1. n \in Nat /\ DOMAIN s = 1 .. n /\ s = [i \in DOMAIN s |-> s[i]]
    <2>1. s \in Seq(STRING)
      BY Zenon DEF Feed!Enclosed
    <2>. QED
      BY <2>1
  <1>2. \A i \in DOMAIN s : s[i] \in delimiters =>
            s[1] = "<![CDATA[" /\ s[n] = "]]>" /\ i = (IF s[i] = "<![CDATA[" THEN 1 ELSE n)
    BY Zenon DEF Feed!Enclosed
  <1>3. Feed!Words(s) = [i \in word |-> s[i]]
    BY Zenon DEF Feed!Words, Feed!Restrict
  <1>4. DOMAIN Feed!Words(s) = word
    BY <1>3
  <1>5. \A i, j \in word, k \in DOMAIN s : i < k /\ k < j => s[k] # "\n"
    BY <1>4 DEF Feed!Enclosed
  <1> HIDE DEF n
  <1>6. CASE \A i \in DOMAIN s : s[i] # "<![CDATA["
    <2>1. Feed!UnwrapCdata(s) = s
      BY <1>1, <1>6, NothingUnwrapped, Zenon
    <2>2. \A i \in DOMAIN s : s[i] # "]]>"
      BY <1>1, <1>2, <1>6
    <2> DEFINE ink == {i \in DOMAIN s : s[i] # "\n"}
               kept == {i \in DOMAIN s : \E j, k \in ink : j <= i /\ i <= k}
    <2>3. ink = word
      BY <1>6, <2>2
    <2>4. kept = word
      <3>1. ASSUME NEW i \in word
            PROVE  i \in kept
        <4>1. i <= i
          BY <1>1
        <4>. QED
          BY <2>3, <4>1
      <3>2. ASSUME NEW i \in DOMAIN s, NEW j \in word, NEW k \in word, j <= i, i <= k
            PROVE  i \in word
        <4>1. CASE i = j \/ i = k
          BY <4>1
        <4>2. CASE i # j /\ i # k
          <5>1. j < i /\ i < k
            BY <1>1, <3>2, <4>2
          <5>2. s[i] # "\n"
            BY <1>5, <5>1
          <5>. QED
            BY <1>6, <2>2, <5>2
        <4>. QED
          BY <4>1, <4>2
      <3>. QED
        BY <2>3, <3>1, <3>2
    <2>5. Feed!Trim(s) = [i \in kept |-> s[i]]
      BY Zenon DEF Feed!Trim, Feed!Restrict
    <2>. QED
      BY <1>3, <2>1, <2>4, <2>5, Zenon
  <1>7. CASE \E i \in DOMAIN s : s[i] = "<![CDATA["
    <2>1. s[1] = "<![CDATA[" /\ s[n] = "]]>" /\ 1 \in DOMAIN s
      BY <1>1, <1>2, <1>7
    <2>2. n # 1
      BY <2>1
    <2>3. 1 < n
      BY <1>1, <2>1, <2>2
    <2>4. \A i \in DOMAIN s : s[i] # "\n"
      BY <2>1 DEF Feed!Broken, Feed!ToSet
    <2>5. \A i \in 1 + 1 .. n - 1 : i \in DOMAIN s /\ s[i] \notin {"<![CDATA[", "]]>", "\n"}
      <3> SUFFICES ASSUME NEW i \in 1 + 1 .. n - 1
                   PROVE  i \in DOMAIN s /\ s[i] \notin {"<![CDATA[", "]]>", "\n"}
        OBVIOUS
      <3>1. i \in DOMAIN s /\ i # 1 /\ i # n
        BY <1>1
      <3>. QED
        BY <1>2, <2>4, <3>1
    <2>6. word = 1 + 1 .. n - 1
      <3>1. \A i \in DOMAIN s : i = 1 \/ i = n \/ i \in 1 + 1 .. n - 1
        BY <1>1
      <3>. QED
        BY <2>1, <2>5, <3>1
    <2>7. Feed!UnwrapCdata(s) = [i \in word |-> s[i]]
      <3>1. Feed!UnwrapCdata(s) = [i \in 1 + 1 .. n - 1 |-> s[i]]
        BY <1>1, <2>1, <2>3, <2>5, SectionUnwrapped
      <3>. QED
        BY <2>6, <3>1, Zenon
    <2>8. \A i \in word : i <= i
      BY <1>1
    <2> DEFINE t == [i \in word |-> s[i]]
    <2>9. DOMAIN t = word /\ \A i \in word : t[i] # "\n"
      BY <2>4
    <2> HIDE DEF word, t
    <2> DEFINE ink == {i \in DOMAIN t : t[i] # "\n"}
               kept == {i \in DOMAIN t : \E j, k \in ink : j <= i /\ i <= k}
    <2>10. Feed!Trim(t) = [i \in kept |-> t[i]]
      BY Zenon DEF Feed!Trim, Feed!Restrict
    <2>11. ink = word
      BY <2>9
    <2> HIDE DEF ink
    <2>12. kept = word
      BY <2>8, <2>9, <2>11
    <2> HIDE DEF kept
    <2>13. [i \in word |-> t[i]] = t
      BY DEF t
    <2>. QED
      BY <1>3, <2>7, <2>10, <2>12, <2>13, Zenon DEF t
  <1>. QED
    BY <1>6, <1>7

\* An address is a link as it is.
LEMMA AbsoluteIsLink ==
  ASSUME NEW url, Feed!IsAbsolute(url), NEW base
  PROVE  Feed!Link(url, base) = url
  <1>1. url # Feed!None /\ url # Feed!Absent
    <2>1. Feed!Absent[1] = "absent"
      BY DEF Feed!Absent
    <2>2. url # <<>> /\ url[1] # "absent"
      BY DEF Feed!IsAbsolute
    <2>. QED
      BY <2>1, <2>2, Zenon DEF Feed!None
  <1>2. Feed!Link(url, base) = Feed!NormalizeUrl(url, base)
    BY <1>1, Zenon DEF Feed!Link
  <1>3. Feed!NormalizeUrl(url, base) = url
    BY Zenon DEF Feed!NormalizeUrl
  <1>. QED
    BY <1>2, <1>3

\* An item for a page is returned first, in the format of its feed.
LEMMA ItemIsReturned ==
  ASSUME NEW e, NEW burner, NEW base, NEW item, item.link # Feed!None,
         \/ e.form = "json" /\ item = Feed!JsonItem(e)
         \/ e.form = "atom" /\ item = Feed!AtomItem(e, base)
         \/ e.form = "rss" /\ ~burner /\ item = Feed!RssItem(e, base)
  PROVE  LET items == Feed!ParseFeed(Feed!FeedOf(e, burner), base)
         IN  1 \in DOMAIN items /\ items[1] = item
  <1> DEFINE feed == Feed!FeedOf(e, burner)
             made(x) == CASE Feed!Format(feed) = "json" -> Feed!JsonItem(x)
                          [] Feed!Format(feed) = "atom" -> Feed!AtomItem(x, base)
                          [] OTHER -> Feed!RssItem(x, base)
             entries == IF Feed!Format(feed) = feed.form THEN feed.entries ELSE <<>>
             items == [k \in DOMAIN entries |-> made(entries[k])]
             kept == {k \in DOMAIN items : items[k].title # Feed!None \/ items[k].link # Feed!None}
  <1>1. feed.form = e.form /\ feed.entries = <<e>>
    BY DEF Feed!FeedOf
  <1>2. Feed!Format(feed) = e.form
    <2>1. CASE e.form = "json"
      <3>1. "{" \in feed.marks
        BY <2>1 DEF Feed!FeedOf
      <3> HIDE DEF feed
      <3>. QED
        BY <2>1, <3>1 DEF Feed!Format
    <2>2. CASE e.form = "atom"
      <3>1. "{" \notin feed.marks /\ "<feed" \in feed.marks
        BY <2>2 DEF Feed!FeedOf
      <3> HIDE DEF feed
      <3>. QED
        BY <2>2, <3>1 DEF Feed!Format
    <2>3. CASE e.form = "rss" /\ ~burner
      <3>1. feed.marks = {"<rss", "<channel"}
        BY <2>3 DEF Feed!FeedOf
      <3> HIDE DEF feed
      <3>. QED
        BY <2>3, <3>1 DEF Feed!Format
    <2>. QED
      BY <2>1, <2>2, <2>3
  <1>3. made(e) = item
    <2> HIDE DEF feed
    <2>. QED
      BY <1>2
  <1> HIDE DEF feed
  <1>4. Feed!ParseFeed(feed, base) = [k \in kept |-> items[k]]
    BY Zenon DEF Feed!ParseFeed, Feed!Restrict
  <1> HIDE DEF made
  <1>5. 1 \in DOMAIN items /\ items[1] = item
    <2>1. entries = <<e>>
      BY <1>1, <1>2
    <2> HIDE DEF entries
    <2>. QED
      BY <1>3, <2>1
  <1> HIDE DEF items
  <1>6. 1 \in kept
    BY <1>5
  <1> HIDE DEF kept
  <1>. QED
    BY <1>4, <1>5, <1>6 DEF feed

\* The first of two tags that is there, and the first that says something, are the same
\* if the first tag says something or is not there.
LEMMA FirstOfTwo ==
  ASSUME NEW e, NEW x, NEW y, Feed!Tag(e, x) # Feed!None,
         Feed!FirstFound(e, <<x, y>>) \notin {Feed!Absent, Feed!None}
  PROVE  Feed!FirstPresent(e, <<x, y>>) = Feed!FirstFound(e, <<x, y>>)
  <1> DEFINE names == <<x, y>>
             there == {i \in 1 .. Len(names) : Feed!Tag(e, names[i]) # Feed!Absent}
             says == {i \in 1 .. Len(names) : Feed!Tag(e, names[i]) \notin {Feed!Absent, Feed!None}}
             k == IF there # {} THEN Feed!Min(there) ELSE 0
             m == IF says # {} THEN Feed!Min(says) ELSE 0
  <1>1. Feed!FirstPresent(e, names) = IF k = 0 THEN Feed!Absent ELSE Feed!Tag(e, names[k])
    BY DEF Feed!FirstPresent, Feed!SelectInSeq
  <1>2. Feed!FirstFound(e, names) = IF m = 0 THEN Feed!Absent ELSE Feed!Tag(e, names[m])
    BY DEF Feed!FirstFound, Feed!SelectInSeq
  <1>3. names[1] = x /\ names[2] = y /\ 1 .. Len(names) = {1, 2}
    OBVIOUS
  <1> HIDE DEF names
  <1>4. says = IF Feed!Tag(e, x) = Feed!Absent THEN (IF Feed!Tag(e, y) \in {Feed!Absent, Feed!None} THEN {} ELSE {2})
               ELSE IF Feed!Tag(e, y) \in {Feed!Absent, Feed!None} THEN {1} ELSE {1, 2}
    BY <1>3
  <1>5. says # {}
    BY <1>2 DEF names
  <1>6. Feed!Min({2}) = 2 /\ Feed!Min({1}) = 1 /\ Feed!Min({1, 2}) = 1
    BY DEF Feed!Min
  <1>7. CASE Feed!Tag(e, x) = Feed!Absent
    <2>1. says = {2} /\ there = {2}
      <3>1. says = {2}
        BY <1>4, <1>5, <1>7
      <3>2. Feed!Tag(e, y) # Feed!Absent
        BY <1>3, <3>1
      <3>3. there = {2}
        BY <1>3, <1>7, <3>2
      <3>. QED
        BY <3>1, <3>3
    <2> HIDE DEF says, there
    <2>2. k = 2 /\ m = 2
      BY <1>6, <2>1
    <2>. QED
      BY <1>1, <1>2, <2>2 DEF names
  <1>8. CASE Feed!Tag(e, x) # Feed!Absent
    <2>1. says = {1} \/ says = {1, 2}
      BY <1>4, <1>8
    <2>2. there = {1} \/ there = {1, 2}
      BY <1>3, <1>8
    <2> HIDE DEF says, there
    <2>3. k = 1 /\ m = 1
      <3>1. says # {} /\ there # {}
        BY <2>1, <2>2
      <3>2. Feed!Min(says) = 1 /\ Feed!Min(there) = 1
        BY <1>6, <2>1, <2>2
      <3>. QED
        BY <3>1, <3>2
    <2>. QED
      BY <1>1, <1>2, <2>3 DEF names
  <1>. QED
    BY <1>7, <1>8

\* A text without an escape means itself.
LEMMA NothingEscaped ==
  ASSUME NEW s, s = [i \in DOMAIN s |-> s[i]], ~Feed!HasEscape(s)
  PROVE  Feed!Unescaped(s) = s
  <1>1. \A i \in DOMAIN s : s[i] # "&amp;"
    BY DEF Feed!HasEscape, Feed!ToSet
  <1>. QED
    BY <1>1 DEF Feed!Unescaped

\* So does the link of an RSS item that has an escape only in a CDATA section.
LEMMA LinkIsWords ==
  ASSUME NEW s, Feed!HasSection(s) \/ ~Feed!HasEscape(s)
  PROVE  Feed!LinkText(s) = Feed!InOrder(Feed!Words(s))
  <1>1. CASE Feed!HasSection(s)
    BY <1>1 DEF Feed!LinkText
  <1>2. CASE ~Feed!HasEscape(s)
    <2> DEFINE word == {i \in DOMAIN s : s[i] \notin {"<![CDATA[", "]]>", "\n"}}
               t == Feed!Words(s)
    <2>1. t = [i \in word |-> s[i]]
      BY Zenon DEF Feed!Words, Feed!Restrict
    <2>2. \A i \in word : s[i] # "&amp;"
      BY <1>2 DEF Feed!HasEscape, Feed!ToSet
    <2> HIDE DEF word, t
    <2>3. t = [i \in DOMAIN t |-> t[i]] /\ ~Feed!HasEscape(t)
      BY <2>1, <2>2 DEF Feed!HasEscape, Feed!ToSet
    <2>4. Feed!Unescaped(t) = t
      BY <2>3, NothingEscaped
    <2>. QED
      BY <2>4 DEF Feed!LinkText, t
  <1>. QED
    BY <1>1, <1>2

\* extract_atom_link finds a link to the page, if an alternate has its rel first, or no
\* other link is before it.
LEMMA PageIsFound ==
  ASSUME NEW e, e.form = "atom", Feed!Linked(e), Feed!Understood(e, FALSE), NEW base
  PROVE  Feed!AtomLink(e, base) \in Feed!PageLinks(e) \ {Feed!None}
  <1>0. \A l \in Feed!ToPage(e) : ~Feed!HasEscape(l.href)
    BY DEF Feed!Understood
  <1> DEFINE links == e.links
             all == Feed!ToSet(e.links)
             I == {i \in 1 .. Len(links) : links[i].rel = "alternate" /\ links[i].relFirst}
             k == IF I # {} THEN Feed!Min(I) ELSE 0
             m == IF k = 0 THEN 1 ELSE k
  <1>1. links \in Seq(all) /\ \A l \in all : l.href \in Seq(STRING) /\ Feed!IsAbsolute(l.href)
    BY DEF Feed!Linked
  <1>2. \/ \E l \in all : l.rel = "alternate" /\ l.relFirst
        \/ links # <<>> /\ links[1].rel \in {"alternate", "none"}
    BY DEF Feed!Understood
  <1>3. Feed!AtomLink(e, base) = IF links = <<>> THEN Feed!None ELSE Feed!Link(links[m].href, base)
    BY DEF Feed!AtomLink, Feed!SelectInSeq
  <1>4. all = {links[i] : i \in DOMAIN links}
    BY DEF Feed!ToSet
  <1>5. Len(links) \in Nat /\ DOMAIN links = 1 .. Len(links) /\ (links = <<>> <=> Len(links) = 0)
    <2> HIDE DEF links, all
    <2>. QED
      BY <1>1
  <1> HIDE DEF links, all
  <1>6. links # <<>> /\ m \in DOMAIN links /\ links[m].rel \in {"alternate", "none"}
    <2>1. CASE I # {}
      <3>1. I \in SUBSET Nat
        OBVIOUS
      <3>2. \E i \in I : \A j \in I : i <= j
        BY <2>1, <3>1, Least
      <3>3. Feed!Min(I) \in I
        BY <3>2 DEF Feed!Min
      <3>4. Feed!Min(I) \in DOMAIN links /\ links[Feed!Min(I)].rel = "alternate"
        BY <1>5, <3>3
      <3> DEFINE first == Feed!Min(I)
      <3> HIDE DEF first, I
      <3>5. first \in DOMAIN links /\ links[first].rel = "alternate"
        BY <3>4 DEF first
      <3>6. m = first
        <4>1. k = first
          BY <2>1 DEF first
        <4>2. first # 0
          BY <1>5, <3>5
        <4>. QED
          BY <4>1, <4>2
      <3> HIDE DEF m
      <3>. QED
        BY <1>5, <3>5, <3>6
    <2>2. CASE I = {}
      <3>1. m = 1
        BY <2>2
      <3>2. ~\E l \in all : l.rel = "alternate" /\ l.relFirst
        BY <1>4, <1>5, <2>2
      <3> HIDE DEF m, I
      <3>3. links # <<>> /\ links[1].rel \in {"alternate", "none"}
        BY <1>2, <3>2
      <3>4. 1 \in DOMAIN links
        BY <1>5, <3>3
      <3>. QED
        BY <3>1, <3>3, <3>4
    <2>. QED
      BY <2>1, <2>2
  <1> HIDE DEF m
  <1>7. links[m] \in all
    BY <1>4, <1>6
  <1>8. Feed!AtomLink(e, base) = links[m].href
    BY <1>1, <1>3, <1>6, <1>7, AbsoluteIsLink
  <1>9. Feed!PageLinks(e) = {Feed!Unescaped(l.href) : l \in Feed!ToPage(e)}
    BY DEF Feed!PageLinks
  <1>10. links[m].href # Feed!None
    BY <1>1, <1>7 DEF Feed!IsAbsolute, Feed!None
  <1>11. links[m] \in Feed!ToPage(e)
    BY <1>6, <1>7 DEF Feed!ToPage, all
  <1>12. Feed!Unescaped(links[m].href) = links[m].href
    <2>1. links[m].href \in Seq(STRING) /\ ~Feed!HasEscape(links[m].href)
      BY <1>0, <1>1, <1>7, <1>11
    <2> DEFINE href == links[m].href
    <2> HIDE DEF href
    <2>2. href = [i \in DOMAIN href |-> href[i]]
      BY <2>1 DEF href
    <2>. QED
      BY <2>1, <2>2, NothingEscaped DEF href
  <1>. QED
    BY <1>8, <1>9, <1>10, <1>11, <1>12

\* What a call of parse_feed is given.
ParseCalls ==
    call.of = "parse_feed" => call.entry \in Entries /\ call.burner \in BOOLEAN

\* Only entries are.
LEMMA AlwaysEntries == Spec => []ParseCalls
  <1>1. Init => ParseCalls
    BY DEF Init, Idle, ParseCalls
  <1>2. ParseCalls /\ [Next]_call => ParseCalls'
    <2> SUFFICES ASSUME ParseCalls, [Next]_call
                 PROVE  ParseCalls'
      OBVIOUS
    <2>1. CASE Parse
      BY <2>1 DEF Parse, ParseCalls
    <2>2. CASE UNCHANGED call
      BY <2>2 DEF ParseCalls
    <2>3. CASE Plan \/ Normalize \/ Compare \/ CleanTitles \/ ExtractPage \/ CleanText \/ JoinLink \/ Resolve
      BY <2>3 DEF ParseCalls, Plan, Normalize, Compare, CleanTitles, ExtractPage, CleanText, JoinLink, Resolve
    <2>. QED
      BY <2>1, <2>2, <2>3 DEF Next
  <1>. QED
    BY <1>1, <1>2, PTL DEF Spec

\* An entry the code understands, and that links to its page, becomes an item with the
\* address the link means, in each format; a link with an escape is not understood unless
\* it is in a CDATA section or in JSON.
THEOREM EntryGetsLink == Spec => []EntryIsRead
  <1>1. ParseCalls => EntryIsRead
    <2> DEFINE e == call.entry
               base == <<"https:", "/", "/", "host">>
               links == Feed!PageLinks(e)
               items == Feed!ParseFeed(Feed!FeedOf(e, call.burner), base)
    <2>1. SUFFICES ASSUME ParseCalls, call.of = "parse_feed", Feed!Understood(e, call.burner), links # {}
                   PROVE  1 \in DOMAIN items /\ items[1].link \in links
      BY Zenon DEF EntryIsRead
    <2>2. Feed!Linked(e)
      BY <2>1, EntriesAssumption DEF ParseCalls
    <2> HIDE DEF e, base
    <2>3. CASE e.form = "rss"
      <3> DEFINE link == Feed!Tag(e, "link")
                 page == Feed!InOrder(Feed!Words(link))
                 item == Feed!RssItem(e, base)
      <3>1. ~call.burner /\ ~Feed!Broken(link) /\ (Feed!HasSection(link) \/ ~Feed!HasEscape(link))
        BY <2>1, <2>3 DEF Feed!Understood
      <3>2. link = Feed!Absent \/ (Feed!Enclosed(link) /\ (page = Feed!None \/ Feed!IsAbsolute(page)))
        BY <2>2, <2>3 DEF Feed!Linked
      <3>3. links = {Feed!LinkText(s) : s \in {link} \ {Feed!Absent}} \ {Feed!None}
        BY <2>3 DEF Feed!PageLinks
      <3>4. link # Feed!Absent /\ page # Feed!None /\ links = {page}
        <4>1. Feed!LinkText(link) = page
          BY <3>1, LinkIsWords
        <4> HIDE DEF link, page
        <4>. QED
          BY <2>1, <3>3, <4>1
      <3>5. item.link = IF link = Feed!Absent THEN Feed!None
                        ELSE Feed!Link(Feed!InOrder(Feed!Trim(Feed!UnwrapCdata(link))), base)
        BY DEF Feed!RssItem
      <3> HIDE DEF item, link, links
      <3>6. Feed!Trim(Feed!UnwrapCdata(link)) = Feed!Words(link)
        BY <3>1, <3>2, <3>4, AddressIsEnclosed
      <3>7. item.link = Feed!Link(page, base)
        BY <3>4, <3>5, <3>6
      <3>8. item.link = page
        BY <3>2, <3>4, <3>7, AbsoluteIsLink
      <3> HIDE DEF page
      <3>9. 1 \in DOMAIN items /\ items[1] = item
        BY <2>3, <3>1, <3>4, <3>8, ItemIsReturned DEF item
      <3>. QED
        BY <3>4, <3>8, <3>9
    <2>4. CASE e.form = "atom"
      <3> DEFINE item == Feed!AtomItem(e, base)
      <3>1. Feed!Understood(e, FALSE)
        BY <2>1, <2>4 DEF Feed!Understood
      <3>2. item.link = Feed!AtomLink(e, base)
        BY DEF Feed!AtomItem
      <3>3. item.link \in links \ {Feed!None}
        BY <2>2, <2>4, <3>1, <3>2, PageIsFound
      <3> HIDE DEF item, links
      <3>4. 1 \in DOMAIN items /\ items[1] = item
        BY <2>4, <3>3, ItemIsReturned DEF item
      <3>. QED
        BY <3>3, <3>4
    <2>5. CASE e.form = "json"
      <3> DEFINE item == Feed!JsonItem(e)
                 page == Feed!FirstFound(e, <<"url", "external_url">>)
      <3>1. Feed!Tag(e, "url") # Feed!None
        BY <2>1, <2>5 DEF Feed!Understood
      <3>2. links = {page} \ {Feed!Absent, Feed!None}
        BY <2>5 DEF Feed!PageLinks
      <3>3. page \notin {Feed!Absent, Feed!None} /\ links = {page}
        <4> HIDE DEF page
        <4>. QED
          BY <2>1, <3>2
      <3>4. Feed!FirstPresent(e, <<"url", "external_url">>) = page
        <4> DEFINE x == "url"
                   y == "external_url"
        <4>1. Feed!Tag(e, x) # Feed!None /\ Feed!FirstFound(e, <<x, y>>) \notin {Feed!Absent, Feed!None}
          BY <3>1, <3>3
        <4>2. Feed!FirstPresent(e, <<x, y>>) = Feed!FirstFound(e, <<x, y>>)
          <5> HIDE DEF x, y
          <5>. QED
            BY <4>1, FirstOfTwo
        <4>. QED
          BY <4>2
      <3>5. item.link = LET first == Feed!FirstPresent(e, <<"url", "external_url">>)
                        IN  IF first = Feed!Absent THEN Feed!None ELSE first
        BY DEF Feed!JsonItem
      <3> HIDE DEF item, links, page
      <3>6. item.link = page /\ page # Feed!None
        BY <3>3, <3>4, <3>5
      <3>7. 1 \in DOMAIN items /\ items[1] = item
        BY <2>5, <3>6, ItemIsReturned DEF item
      <3>. QED
        BY <3>3, <3>6, <3>7
    <2>6. e.form \in {"rss", "atom", "json"}
      BY <2>2 DEF Feed!Linked
    <2>. QED
      BY <2>3, <2>4, <2>5, <2>6
  <1>. QED
    BY <1>1, AlwaysEntries, PTL
=============================================================================
