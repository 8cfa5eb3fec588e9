----------------------------- MODULE HelpersProofs -----------------------------
(***************************************************************************)
(* Theorems of the helpers: when the scheduler wakes, for every instant,   *)
(* step and list of hours, deduplication of any two articles, and what     *)
(* clean_title leaves of any two titles of a site.                         *)
(***************************************************************************)
EXTENDS Helpers, WellFoundedInduction, TLAPS

\* A set of numbers has a least one.
LEMMA Least ==
  ASSUME NEW S \in SUBSET Nat, S # {}
  PROVE  \E m \in S : \A k \in S : m <= k
  <1>1. \E x \in S : \A y \in S : <<y, x>> \notin OpToRel(<, Nat)
    BY NatLessThanWellFounded, WFMin, Zenon
  <1>2. ASSUME NEW x \in Nat, NEW y \in Nat, <<y, x>> \notin OpToRel(<, Nat)
        PROVE  x <= y
    BY <1>2 DEF OpToRel
  <1>. QED
    BY <1>1, <1>2

\* And a greatest one, if it is bounded.
LEMMA Greatest ==
  ASSUME NEW n \in Nat, NEW S \in SUBSET (1 .. n), S # {}
  PROVE  \E m \in S : \A k \in S : m >= k
  <1> DEFINE T == {n - k : k \in S}
  <1>1. ASSUME NEW k \in S
        PROVE  k \in Nat /\ n - k \in Nat
    BY <1>1
  <1>2. T \subseteq Nat
    BY <1>1
  <1>3. \A k \in S : n - k \in T
    OBVIOUS
  <1>4. \A j \in T : \E k \in S : j = n - k
    OBVIOUS
  <1> HIDE DEF T
  <1>5. T # {}
    BY <1>3
  <1>6. PICK l \in T : \A j \in T : l <= j
    BY <1>2, <1>5, Least
  <1>7. PICK m \in S : l = n - m
    BY <1>4, <1>6
  <1>8. ASSUME NEW k \in S
        PROVE  m >= k
    <2>1. n - m <= n - k
      BY <1>3, <1>6, <1>7
    <2>. QED
      BY <1>1, <2>1
  <1>. QED
    BY <1>8

-----------------------------------------------------------------------------
(* The clock.                                                              *)

\* Division with a remainder.
LEMMA Division ==
  ASSUME NEW x \in Nat, NEW n \in Nat, n > 0
  PROVE  x \div n \in Nat /\ x % n \in 0 .. n - 1 /\ x = n * (x \div n) + (x % n)
  <1>1. x \div n \in Nat
    OBVIOUS
  <1>2. x % n \in 0 .. n - 1
    OBVIOUS
  <1>3. x = n * (x \div n) + (x % n)
    OBVIOUS
  <1>. QED
    BY <1>1, <1>2, <1>3

\* Quotient and remainder are the only ones.
LEMMA OneQuotient ==
  ASSUME NEW k \in Nat, NEW n \in Nat, n > 0, NEW r \in 0 .. n - 1, NEW x, x = n * k + r
  PROVE  x \div n = k /\ x % n = r
  <1>1. (n * k + r) % n = r
    OBVIOUS
  <1>2. (n * k + r) \div n = k
    OBVIOUS
  <1>. QED
    BY <1>1, <1>2

\* An instant is read as a day, an hour and a minute, and maybe half a minute more.
Reads(t) ==
  /\ DayOf(t) \in Nat /\ HourOf(t) \in 0 .. 23 /\ MinuteOf(t) \in 0 .. 59 /\ t % 2 \in {0, 1}
  /\ t = 2880 * DayOf(t) + 120 * HourOf(t) + 2 * MinuteOf(t) + (t % 2)

\* Every instant is read so.
LEMMA Reading ==
  ASSUME NEW t \in Nat
  PROVE  Reads(t)
  <1>1. t \div 2880 \in Nat /\ t % 2880 \in 0 .. 2879 /\ t = 2880 * (t \div 2880) + (t % 2880)
    BY Division
  <1> DEFINE r == t % 2880
             s == t % 120
  <1>2. r \div 120 \in 0 .. 23 /\ r % 120 \in 0 .. 119 /\ r = 120 * (r \div 120) + (r % 120)
    <2> HIDE DEF r
    <2>1. r \in Nat /\ r < 2880
      BY <1>1 DEF r
    <2>. QED
      BY <2>1, Division
  <1>3. s = r % 120 /\ s \in 0 .. 119
    OBVIOUS
  <1>4. s \div 2 \in 0 .. 59 /\ s % 2 \in {0, 1} /\ s = 2 * (s \div 2) + (s % 2)
    <2> HIDE DEF s
    <2>. QED
      BY <1>3, Division
  <1>5. s % 2 = t % 2
    OBVIOUS
  <1>6. DayOf(t) = t \div 2880 /\ HourOf(t) = r \div 120 /\ MinuteOf(t) = s \div 2
    BY DEF DayOf, HourOf, MinuteOf, Day, Hour, Minute
  <1> HIDE DEF r, s
  <1>7. t = 2880 * DayOf(t) + r
    BY <1>1, <1>6 DEF r
  <1>8. r = 120 * HourOf(t) + s
    BY <1>2, <1>3, <1>6
  <1>9. s = 2 * MinuteOf(t) + (t % 2)
    BY <1>4, <1>5, <1>6
  <1>10. DayOf(t) \in Nat /\ HourOf(t) \in 0 .. 23 /\ MinuteOf(t) \in 0 .. 59 /\ t % 2 \in {0, 1}
    BY <1>1, <1>2, <1>4, <1>5, <1>6
  <1>. QED
    BY <1>7, <1>8, <1>9, <1>10 DEF Reads

\* An instant is within its day.
InDay(t) == DayOf(t) \in Nat /\ 2880 * DayOf(t) <= t /\ t < 2880 * DayOf(t) + 2880

\* Every instant is.
LEMMA WithinDay ==
  ASSUME NEW t \in Nat
  PROVE  InDay(t)
  <1>1. Reads(t)
    BY Reading
  <1> DEFINE d == DayOf(t)
             h == HourOf(t)
             m == MinuteOf(t)
             b == t % 2
  <1>2. d \in Nat /\ h \in 0 .. 23 /\ m \in 0 .. 59 /\ b \in {0, 1} /\ t = 2880 * d + 120 * h + 2 * m + b
    BY <1>1 DEF Reads
  <1>3. d \in Nat /\ 2880 * d <= t /\ t < 2880 * d + 2880
    <2> HIDE DEF d, h, m, b
    <2>. QED
      BY <1>2
  <1>. QED
    BY <1>3 DEF InDay

\* An instant at which a minute begins has one reading.
Begins(t, d, h, m) == d \in Nat /\ h \in 0 .. 23 /\ m \in 0 .. 59 /\ t = 2880 * d + 120 * h + 2 * m

\* It is the reading it begins with.
LEMMA OneReading ==
  ASSUME NEW t, NEW d, NEW h, NEW m, Begins(t, d, h, m)
  PROVE  t \in Nat /\ DayOf(t) = d /\ HourOf(t) = h /\ MinuteOf(t) = m /\ t % 2 = 0
  <1> USE DEF Begins
  <1>1. t \in Nat /\ t \div 2880 = d /\ t % 2880 = 120 * h + 2 * m
    OBVIOUS
  <1>2. (120 * h + 2 * m) \div 120 = h
    OBVIOUS
  <1>3. t % 120 = 2 * m /\ (2 * m) \div 2 = m /\ t % 2 = 0
    OBVIOUS
  <1>. QED
    BY <1>1, <1>2, <1>3 DEF DayOf, HourOf, MinuteOf, Day, Hour, Minute

-----------------------------------------------------------------------------
(* "*/n".                                                                  *)

\* The next multiple of n after a minute is ahead, and at most n away.
Following(m, n) == (m \div n + 1) * n

\* No multiple is left out in between.
LEMMA NextMultiple ==
  ASSUME NEW m \in Nat, NEW n \in Nat, n > 0
  PROVE  /\ Following(m, n) \in Nat /\ m < Following(m, n) /\ Following(m, n) <= m + n
         /\ Following(m, n) % n = 0
         /\ \A k \in Nat : m < k /\ k % n = 0 => Following(m, n) <= k
  <1> DEFINE q == m \div n
             next == (q + 1) * n
  <1>1. q \in Nat /\ m % n \in 0 .. n - 1 /\ m = n * q + (m % n)
    BY Division
  <1> HIDE DEF q
  <1>2. next = n * (q + 1) /\ next = n * q + n /\ next \in Nat
    BY <1>1
  <1>3. m < next /\ next <= m + n
    <2> DEFINE x == n * q
    <2>1. x \in Nat /\ next = x + n /\ m = x + (m % n)
      BY <1>1, <1>2
    <2> HIDE DEF x, next
    <2>. QED
      BY <1>1, <2>1
  <1>4. next % n = 0
    <2>1. q + 1 \in Nat /\ 0 \in 0 .. n - 1 /\ next = n * (q + 1) + 0
      BY <1>1, <1>2
    <2> HIDE DEF next
    <2>. QED
      BY <2>1, OneQuotient
  <1>5. ASSUME NEW k \in Nat, m < k, k % n = 0
        PROVE  next <= k
    <2> DEFINE p == k \div n
    <2>1. p \in Nat /\ k = n * p
      BY <1>5, Division
    <2> HIDE DEF p
    <2>2. n * q < n * p
      BY <1>1, <1>5, <2>1
    <2>3. q < p
      BY <1>1, <2>1, <2>2
    <2>4. n * (q + 1) <= n * p
      BY <1>1, <2>1, <2>3
    <2>. QED
      BY <1>2, <2>1, <2>4
  <1>. QED
    BY <1>2, <1>3, <1>4, <1>5 DEF q, Following

\* The instant for "*/n", in this hour or the next one, which may be tomorrow's first.
LEMMA EveryInstant ==
  ASSUME NEW t \in Nat, NEW n \in Nat, n > 0
  PROVE  LET next == Following(MinuteOf(t), n)
         IN  NextEvery(n, t) = 2880 * DayOf(t) + 120 * HourOf(t)
                                 + (IF next < 60 THEN 2 * next ELSE 120 + 2 * (next % 60))
  <1> DEFINE next == Following(MinuteOf(t), n)
             d == DayOf(t)
             h == HourOf(t)
  <1>1. d \in Nat /\ h \in 0 .. 23 /\ MinuteOf(t) \in 0 .. 59 /\ MinuteOf(t) \in Nat
    <2>1. Reads(t)
      BY Reading
    <2>. QED
      BY <2>1 DEF Reads
  <1>2. next \in Nat
    BY <1>1, NextMultiple
  <1>3. NextEvery(n, t) = IF next < 60 THEN At(d, h, next)
                          ELSE At(IF (h + 1) % 24 = 0 THEN d + 1 ELSE d, (h + 1) % 24, next % 60)
    BY DEF NextEvery, Following
  <1> HIDE DEF next, d, h
  <1>4. CASE next < 60
    <2>1. NextEvery(n, t) = At(d, h, next)
      BY <1>3, <1>4
    <2>2. NextEvery(n, t) = 2880 * d + 120 * h + 2 * next
      BY <1>1, <1>2, <2>1 DEF At, Day, Hour, Minute
    <2>. QED
      BY <1>4, <2>2 DEF next, d, h
  <1>5. CASE ~(next < 60)
    <2>1. next % 60 \in Nat
      BY <1>2
    <2>2. NextEvery(n, t) = At(IF (h + 1) % 24 = 0 THEN d + 1 ELSE d, (h + 1) % 24, next % 60)
      BY <1>3, <1>5
    <2> DEFINE m == next % 60
    <2>3. CASE h = 23
      <3>1. (h + 1) % 24 = 0
        BY <2>3
      <3> HIDE DEF m
      <3>2. NextEvery(n, t) = 2880 * (d + 1) + 2 * m
        BY <1>1, <2>1, <2>2, <3>1 DEF At, Day, Hour, Minute, m
      <3>3. NextEvery(n, t) = 2880 * d + 120 * h + (120 + 2 * m)
        BY <1>1, <2>1, <2>3, <3>2 DEF m
      <3>. QED
        BY <1>5, <3>3 DEF next, d, h, m
    <2>4. CASE h # 23
      <3>1. (h + 1) % 24 = h + 1 /\ h + 1 # 0
        BY <1>1, <2>4
      <3> HIDE DEF m
      <3>2. NextEvery(n, t) = 2880 * d + 120 * (h + 1) + 2 * m
        BY <1>1, <2>1, <2>2, <3>1 DEF At, Day, Hour, Minute, m
      <3>3. NextEvery(n, t) = 2880 * d + 120 * h + (120 + 2 * m)
        BY <1>1, <2>1, <2>4, <3>2 DEF m
      <3>. QED
        BY <1>5, <3>3 DEF next, d, h, m
    <2>. QED
      BY <2>3, <2>4
  <1>. QED
    BY <1>4, <1>5

\* It is ahead, and at most n minutes away, whether n divides the hour or not.
LEMMA EveryIsAhead ==
  ASSUME NEW t \in Nat, NEW n \in Nat, n > 0
  PROVE  NextEvery(n, t) > t /\ NextEvery(n, t) - t <= n * Minute
  <1> DEFINE next == Following(MinuteOf(t), n)
             base == 2880 * DayOf(t) + 120 * HourOf(t)
  <1>1. /\ DayOf(t) \in Nat /\ HourOf(t) \in 0 .. 23 /\ MinuteOf(t) \in 0 .. 59 /\ t % 2 \in {0, 1}
        /\ t = 2880 * DayOf(t) + 120 * HourOf(t) + 2 * MinuteOf(t) + (t % 2)
    <2>1. Reads(t)
      BY Reading
    <2>. QED
      BY <2>1 DEF Reads
  <1>2. next \in Nat /\ MinuteOf(t) < next /\ next <= MinuteOf(t) + n
    <2>1. MinuteOf(t) \in Nat
      BY <1>1
    <2>. QED
      BY <2>1, NextMultiple
  <1>3. NextEvery(n, t) = base + (IF next < 60 THEN 2 * next ELSE 120 + 2 * (next % 60))
    BY EveryInstant
  <1>4. base \in Nat /\ t = base + 2 * MinuteOf(t) + (t % 2)
    BY <1>1
  <1> HIDE DEF next, base
  <1>5. CASE next < 60
    BY <1>1, <1>2, <1>3, <1>4, <1>5 DEF Minute
  <1>6. CASE ~(next < 60)
    <2>1. next % 60 \in Nat /\ next % 60 <= next - 60
      BY <1>2, <1>6
    <2>2. NextEvery(n, t) = base + (120 + 2 * (next % 60))
      BY <1>3, <1>6
    <2>. QED
      BY <1>1, <1>2, <1>4, <2>1, <2>2 DEF Minute
  <1>. QED
    BY <1>5, <1>6

\* If n divides the hour, it is the next instant of a minute that n divides.
LEMMA EveryIsCron ==
  ASSUME NEW t \in Nat, NEW n \in Nat, n > 0, 60 % n = 0
  PROVE  /\ NextEvery(n, t) % 2 = 0 /\ MinuteOf(NextEvery(n, t)) % n = 0
         /\ \A u \in t + 1 .. NextEvery(n, t) - 1 : ~(u % 2 = 0 /\ MinuteOf(u) % n = 0)
  <1> DEFINE next == Following(MinuteOf(t), n)
             d == DayOf(t)
             h == HourOf(t)
             due == NextEvery(n, t)
  <1>1. /\ d \in Nat /\ h \in 0 .. 23 /\ MinuteOf(t) \in 0 .. 59 /\ t % 2 \in {0, 1}
        /\ t = 2880 * d + 120 * h + 2 * MinuteOf(t) + (t % 2)
    <2>1. Reads(t)
      BY Reading
    <2>. QED
      BY <2>1 DEF Reads
  <1>2. /\ next \in Nat /\ MinuteOf(t) < next /\ next % n = 0
        /\ \A k \in Nat : MinuteOf(t) < k /\ k % n = 0 => next <= k
    <2>1. MinuteOf(t) \in Nat
      BY <1>1
    <2>. QED
      BY <2>1, NextMultiple
  <1>3. next <= 60
    BY <1>1, <1>2
  <1>4. due = 2880 * d + 120 * h + (IF next < 60 THEN 2 * next ELSE 120 + 2 * (next % 60))
    BY EveryInstant
  <1> HIDE DEF next, d, h, due
  <1>5. due = 2880 * d + 120 * h + 2 * next
    <2>1. CASE next < 60
      BY <1>4, <2>1
    <2>2. CASE next = 60
      <3>1. next % 60 = 0 /\ due = 2880 * d + 120 * h + (120 + 2 * (next % 60))
        BY <1>4, <2>2
      <3>. QED
        BY <1>1, <2>2, <3>1
    <2>. QED
      BY <1>2, <1>3, <2>1, <2>2
  <1>6. due % 2 = 0 /\ MinuteOf(due) % n = 0
    <2>1. CASE next < 60
      <3>1. Begins(due, d, h, next)
        BY <1>1, <1>2, <1>5, <2>1 DEF Begins
      <3>2. MinuteOf(due) = next /\ due % 2 = 0
        BY <3>1, OneReading
      <3>. QED
        BY <1>2, <3>2
    <2>2. CASE next = 60 /\ h < 23
      <3>1. Begins(due, d, h + 1, 0)
        BY <1>1, <1>5, <2>2 DEF Begins
      <3>2. MinuteOf(due) = 0 /\ due % 2 = 0
        BY <3>1, OneReading
      <3>. QED
        BY <3>2
    <2>3. CASE next = 60 /\ h = 23
      <3>1. Begins(due, d + 1, 0, 0)
        BY <1>1, <1>5, <2>3 DEF Begins
      <3>2. MinuteOf(due) = 0 /\ due % 2 = 0
        BY <3>1, OneReading
      <3>. QED
        BY <3>2
    <2>. QED
      BY <1>1, <1>2, <1>3, <2>1, <2>2, <2>3
  <1>7. ASSUME NEW u \in t + 1 .. due - 1, u % 2 = 0, MinuteOf(u) % n = 0
        PROVE  FALSE
    <2>1. due \in Nat /\ t < u /\ u < due /\ u \in Nat
      BY <1>1, <1>2, <1>5, <1>7
    <2>2. /\ DayOf(u) \in Nat /\ HourOf(u) \in 0 .. 23 /\ MinuteOf(u) \in 0 .. 59
          /\ u = 2880 * DayOf(u) + 120 * HourOf(u) + 2 * MinuteOf(u)
      <3>1. Reads(u)
        BY <2>1, Reading
      <3>. QED
        BY <1>7, <2>1, <3>1 DEF Reads
    <2>3. DayOf(u) = d /\ HourOf(u) = h
      <3> DEFINE j == 24 * d + h
                 k == 24 * DayOf(u) + HourOf(u)
      <3>1. j \in Nat /\ 120 * j <= t /\ due <= 120 * j + 120
        BY <1>1, <1>2, <1>3, <1>5
      <3>2. k \in Nat /\ 120 * k <= u /\ u < 120 * k + 120
        BY <2>2
      <3>3. k = j
        <4> HIDE DEF j, k
        <4>. QED
          BY <2>1, <3>1, <3>2
      <3>. QED
        BY <1>1, <2>2, <3>3
    <2>4. MinuteOf(t) < MinuteOf(u)
      BY <1>1, <2>1, <2>2, <2>3
    <2>5. next <= MinuteOf(u)
      BY <1>2, <1>7, <2>2, <2>4
    <2>. QED
      BY <1>1, <1>2, <1>5, <2>1, <2>2, <2>3, <2>5
  <1>. QED
    BY <1>6, <1>7 DEF due

-----------------------------------------------------------------------------
(* Lists of hours.                                                         *)

\* An hour that is still to come at t.
ToCome(t, hour) == hour >= 24 \/ t < 2880 * DayOf(t) + 120 * hour

\* The loop over the hours stops at the first that is still to come or is no hour.
LEMMA FirstToCome ==
  ASSUME NEW t \in Nat, NEW hours \in Seq(Nat), Stops(hours, t) # {}
  PROVE  /\ FirstStop(hours, t) \in DOMAIN hours /\ ToCome(t, hours[FirstStop(hours, t)])
         /\ \A l \in DOMAIN hours : ToCome(t, hours[l]) => FirstStop(hours, t) <= l
  <1>1. Stops(hours, t) = {k \in DOMAIN hours : ToCome(t, hours[k])}
    <2>1. DayOf(t) \in Nat
      <3>1. InDay(t)
        BY WithinDay
      <3>. QED
        BY <3>1 DEF InDay
    <2>2. ASSUME NEW k \in DOMAIN hours
          PROVE  At(DayOf(t), hours[k], 0) > t <=> t < 2880 * DayOf(t) + 120 * hours[k]
      <3>1. hours[k] \in Nat /\ DayOf(t) \in Nat
        BY <2>1
      <3>2. At(DayOf(t), hours[k], 0) = 2880 * DayOf(t) + 120 * hours[k]
        BY <3>1 DEF At, Day, Hour, Minute
      <3>. QED
        BY <3>1, <3>2
    <2>. QED
      BY <2>2 DEF Stops, ToCome
  <1>2. Stops(hours, t) \in SUBSET Nat
    BY <1>1
  <1>3. \E k \in Stops(hours, t) : \A l \in Stops(hours, t) : k <= l
    BY <1>2, Least
  <1>4. FirstStop(hours, t) \in Stops(hours, t) /\ \A l \in Stops(hours, t) : FirstStop(hours, t) <= l
    BY <1>3 DEF FirstStop
  <1>. QED
    BY <1>1, <1>4

\* The instant for a list of hours: that one today, or the first of the list tomorrow.
LEMMA HoursInstant ==
  ASSUME NEW t \in Nat, NEW hours \in Seq(Nat), hours # <<>>
  PROVE  NextHours(hours, t) =
           IF Stops(hours, t) = {} THEN 2880 * (DayOf(t) + 1) + 120 * hours[1]
           ELSE 2880 * DayOf(t) + 120 * hours[FirstStop(hours, t)]
  <1>1. DayOf(t) \in Nat
    <2>1. InDay(t)
      BY WithinDay
    <2>. QED
      BY <2>1 DEF InDay
  <1>2. CASE Stops(hours, t) = {}
    <2>1. hours[1] \in Nat
      OBVIOUS
    <2>2. At(DayOf(t) + 1, hours[1], 0) = 2880 * (DayOf(t) + 1) + 120 * hours[1]
      BY <1>1, <2>1 DEF At, Day, Hour, Minute
    <2>. QED
      BY <1>2, <2>2 DEF NextHours
  <1>3. CASE Stops(hours, t) # {}
    <2> DEFINE k == FirstStop(hours, t)
    <2>1. hours[k] \in Nat
      BY <1>3, FirstToCome
    <2>2. At(DayOf(t), hours[k], 0) = 2880 * DayOf(t) + 120 * hours[k]
      <3> HIDE DEF k
      <3>. QED
        BY <1>1, <2>1 DEF At, Day, Hour, Minute
    <2>. QED
      BY <1>3, <2>2 DEF NextHours
  <1>. QED
    BY <1>2, <1>3

\* It is ahead, in whatever order the hours are, unless the loop stops at no hour.
LEMMA HoursAreAhead ==
  ASSUME NEW t \in Nat, NEW hours \in Seq(Nat), hours # <<>>,
         Stops(hours, t) # {} => hours[FirstStop(hours, t)] < 24
  PROVE  NextHours(hours, t) > t
  <1>1. DayOf(t) \in Nat /\ 2880 * DayOf(t) <= t /\ t < 2880 * DayOf(t) + 2880
    <2>1. InDay(t)
      BY WithinDay
    <2>. QED
      BY <2>1 DEF InDay
  <1>2. CASE Stops(hours, t) = {}
    <2>1. hours[1] \in Nat /\ NextHours(hours, t) = 2880 * (DayOf(t) + 1) + 120 * hours[1]
      BY <1>2, HoursInstant
    <2>. QED
      BY <1>1, <2>1, SMTT(20)
  <1>3. CASE Stops(hours, t) # {}
    <2> DEFINE hour == hours[FirstStop(hours, t)]
    <2>1. hour \in Nat /\ ToCome(t, hour) /\ hour < 24
      BY <1>3, FirstToCome
    <2>2. NextHours(hours, t) = 2880 * DayOf(t) + 120 * hour
      BY <1>3, HoursInstant
    <2> HIDE DEF hour
    <2>. QED
      BY <1>1, <2>1, <2>2 DEF ToCome
  <1>. QED
    BY <1>2, <1>3

\* Hours of the day in increasing order.
Increasing(hours) ==
  \A k \in DOMAIN hours : hours[k] < 24 /\ \A l \in 1 .. k - 1 : hours[l] < hours[k]

\* An instant at which one of the hours begins.
OnTheHour(hours, t) == t % 2 = 0 /\ MinuteOf(t) = 0 /\ HourOf(t) \in ToSet(hours)

\* Then it is the next instant at which one of the hours begins.
LEMMA HoursAreCron ==
  ASSUME NEW t \in Nat, NEW hours \in Seq(Nat), hours # <<>>, Increasing(hours)
  PROVE  /\ OnTheHour(hours, NextHours(hours, t))
         /\ \A u \in t + 1 .. NextHours(hours, t) - 1 : ~OnTheHour(hours, u)
  <1> DEFINE due == NextHours(hours, t)
             d == DayOf(t)
  <1>1. d \in Nat /\ 2880 * d <= t /\ t < 2880 * d + 2880
    <2>1. InDay(t)
      BY WithinDay
    <2>. QED
      BY <2>1 DEF InDay
  <1> HIDE DEF d, due
  <1>2. \A k \in DOMAIN hours : k \in Nat /\ 1 <= k /\ hours[k] \in Nat /\ hours[k] < 24
    BY DEF Increasing
  <1>3. \A k, l \in DOMAIN hours : l <= k => hours[l] <= hours[k]
    <2> SUFFICES ASSUME NEW k \in DOMAIN hours, NEW l \in DOMAIN hours, l <= k
                 PROVE  hours[l] <= hours[k]
      OBVIOUS
    <2>1. CASE l = k
      BY <1>2, <2>1
    <2>2. CASE l # k
      <3>1. l \in 1 .. k - 1
        BY <1>2, <2>2
      <3>2. hours[l] < hours[k]
        BY <3>1 DEF Increasing
      <3>. QED
        BY <1>2, <3>2
    <2>. QED
      BY <2>1, <2>2
  <1>4. 1 \in DOMAIN hours
    OBVIOUS
  <1>5. ASSUME NEW u \in Nat, t < u, OnTheHour(hours, u)
        PROVE  /\ DayOf(u) \in Nat
               /\ \E k \in DOMAIN hours : u = 2880 * DayOf(u) + 120 * hours[k]
    <2>1. Reads(u)
      BY Reading
    <2>2. PICK k \in DOMAIN hours : HourOf(u) = hours[k]
      BY <1>5 DEF OnTheHour, ToSet
    <2>3. u = 2880 * DayOf(u) + 120 * hours[k]
      BY <1>2, <1>5, <2>1, <2>2 DEF Reads, OnTheHour
    <2>. QED
      BY <2>1, <2>3 DEF Reads
  <1>6. ASSUME Stops(hours, t) = {}
        PROVE  OnTheHour(hours, due) /\ \A u \in Nat : t < u /\ u < due => ~OnTheHour(hours, u)
    <2>1. due = 2880 * (d + 1) + 120 * hours[1]
      BY <1>6, HoursInstant DEF d, due
    <2>2. OnTheHour(hours, due)
      <3>1. Begins(due, d + 1, hours[1], 0)
        <4> DEFINE x == hours[1]
        <4>1. x \in Nat /\ x < 24
          BY <1>2, <1>4
        <4> HIDE DEF x
        <4>2. x \in 0 .. 23
          BY <4>1
        <4>3. d + 1 \in Nat /\ 0 \in 0 .. 59 /\ due = 2880 * (d + 1) + 120 * x + 2 * 0
          BY <1>1, <2>1, <4>1 DEF x
        <4>. QED
          BY <4>2, <4>3 DEF Begins, x
      <3>2. HourOf(due) = hours[1] /\ MinuteOf(due) = 0 /\ due % 2 = 0
        BY <3>1, OneReading
      <3>. QED
        BY <1>4, <3>2 DEF OnTheHour, ToSet
    <2>3. ASSUME NEW u \in Nat, t < u, u < due, OnTheHour(hours, u)
          PROVE  FALSE
      <3>1. PICK k \in DOMAIN hours : DayOf(u) \in Nat /\ u = 2880 * DayOf(u) + 120 * hours[k]
        BY <1>5, <2>3
      <3>2. ~ToCome(t, hours[k])
        <4>1. ASSUME ToCome(t, hours[k])
              PROVE  k \in Stops(hours, t)
          <5>1. hours[k] \in Nat /\ d \in Nat
            BY <1>1, <1>2
          <5>2. At(d, hours[k], 0) = 2880 * d + 120 * hours[k]
            BY <5>1 DEF At, Day, Hour, Minute
          <5>. QED
            BY <4>1, <5>1, <5>2 DEF ToCome, Stops, d
        <4>. QED
          BY <1>6, <4>1
      <3> DEFINE x == hours[k]
                 y == hours[1]
                 e == DayOf(u)
      <3>3. x \in Nat /\ y \in Nat /\ x < 24 /\ y <= x
        BY <1>2, <1>3, <1>4
      <3>4. ~(t < 2880 * d + 120 * x)
        BY <3>2 DEF ToCome, d
      <3>5. e \in Nat /\ u = 2880 * e + 120 * x /\ due = 2880 * (d + 1) + 120 * y
        BY <2>1, <3>1
      <3> HIDE DEF x, y, e
      <3>6. 2880 * d + 120 * x <= t
        BY <1>1, <3>3, <3>4
      <3>7. d < e /\ e < d + 1
        BY <1>1, <2>3, <3>3, <3>5, <3>6
      <3>. QED
        BY <1>1, <3>5, <3>7
    <2>. QED
      BY <2>2, <2>3
  <1>7. ASSUME Stops(hours, t) # {}
        PROVE  OnTheHour(hours, due) /\ \A u \in Nat : t < u /\ u < due => ~OnTheHour(hours, u)
    <2> DEFINE f == FirstStop(hours, t)
    <2>1. /\ f \in DOMAIN hours /\ ToCome(t, hours[f])
          /\ \A l \in DOMAIN hours : ToCome(t, hours[l]) => f <= l
      BY <1>7, FirstToCome
    <2>2. due = 2880 * d + 120 * hours[f]
      BY <1>7, HoursInstant DEF d, due
    <2> HIDE DEF f
    <2>3. OnTheHour(hours, due)
      <3>1. Begins(due, d, hours[f], 0)
        <4> DEFINE x == hours[f]
        <4>1. x \in Nat /\ x < 24
          BY <1>2, <2>1
        <4> HIDE DEF x
        <4>2. x \in 0 .. 23
          BY <4>1
        <4>3. 0 \in 0 .. 59 /\ due = 2880 * d + 120 * x + 2 * 0
          BY <1>1, <2>2, <4>1 DEF x
        <4>. QED
          BY <1>1, <4>2, <4>3 DEF Begins, x
      <3>2. HourOf(due) = hours[f] /\ MinuteOf(due) = 0 /\ due % 2 = 0
        BY <3>1, OneReading
      <3>. QED
        BY <2>1, <3>2 DEF OnTheHour, ToSet
    <2>4. ASSUME NEW u \in Nat, t < u, u < due, OnTheHour(hours, u)
          PROVE  FALSE
      <3>1. PICK k \in DOMAIN hours : DayOf(u) \in Nat /\ u = 2880 * DayOf(u) + 120 * hours[k]
        BY <1>5, <2>4
      <3>2. d \in Nat /\ 2880 * d <= t
        BY <1>1
      <3> DEFINE x == hours[k]
                 y == hours[f]
                 e == DayOf(u)
      <3>3. x \in Nat /\ x < 24 /\ y \in Nat /\ y < 24
        BY <1>2, <2>1
      <3>4. e \in Nat /\ u = 2880 * e + 120 * x /\ due = 2880 * d + 120 * y
        BY <2>2, <3>1
      <3>5. e = d
        <4> HIDE DEF x, y, e
        <4>1. e <= d /\ d <= e
          BY <1>1, <2>4, <3>3, <3>4
        <4>. QED
          BY <1>1, <3>4, <4>1
      <3>6. ToCome(t, x)
        BY <2>4, <3>4, <3>5 DEF ToCome, d
      <3>7. y <= x
        BY <1>3, <2>1, <3>6
      <3> HIDE DEF x, y, e
      <3>. QED
        BY <1>1, <2>4, <3>3, <3>4, <3>5, <3>7
    <2>. QED
      BY <2>3, <2>4
  <1>8. due \in Nat
    <2>1. CASE Stops(hours, t) = {}
      <3>1. hours[1] \in Nat /\ due = 2880 * (d + 1) + 120 * hours[1]
        BY <1>2, <1>4, <2>1, HoursInstant DEF d, due
      <3>. QED
        BY <1>1, <3>1
    <2>2. CASE Stops(hours, t) # {}
      <3>1. hours[FirstStop(hours, t)] \in Nat
        BY <1>2, <2>2, FirstToCome
      <3>2. due = 2880 * d + 120 * hours[FirstStop(hours, t)]
        BY <2>2, HoursInstant DEF d, due
      <3>. QED
        BY <1>1, <3>1, <3>2
    <2>. QED
      BY <2>1, <2>2
  <1>9. \A u \in t + 1 .. due - 1 : u \in Nat /\ t < u /\ u < due
    BY <1>8
  <1>. QED
    BY <1>6, <1>7, <1>9 DEF due

-----------------------------------------------------------------------------
(* get_next_cron_time.                                                     *)

\* The hours the scheduler falls back to are hours of the day in increasing order.
LEMMA DefaultIsSound == DefaultHours \in Seq(Nat) /\ DefaultHours # <<>> /\ Increasing(DefaultHours)
  <1> DEFINE hours == DefaultHours
  <1>1. hours \in Seq(Nat) /\ hours # <<>> /\ DOMAIN hours = 1 .. 4
    BY DEF DefaultHours
  <1>2. hours[1] = 2 /\ hours[2] = 6 /\ hours[3] = 14 /\ hours[4] = 20
    BY DEF DefaultHours
  <1> HIDE DEF hours
  <1>3. ASSUME NEW k \in 1 .. 4
        PROVE  hours[k] < 24 /\ \A l \in 1 .. k - 1 : hours[l] < hours[k]
    BY <1>2
  <1>. QED
    BY <1>1, <1>3 DEF Increasing, hours

\* An expression is one of the three forms, over the steps and lists that are tried.
LEMMA ExprForms ==
  ASSUME NEW e \in Exprs(Steps, HourLists)
  PROVE  \/ e.form = "every" /\ e.step \in Nat
         \/ e.form = "hours" /\ e.hours \in Seq(Nat)
         \/ e.form = "other"
  BY CronAssumption DEF Exprs

\* For a sound expression it is when cron fires next.
LEMMA SoundFires ==
  ASSUME NEW e \in Exprs(Steps, HourLists), NEW t \in Nat, Sound(e)
  PROVE  /\ Fires(e, NextCronTime(e, t))
         /\ \A u \in t + 1 .. NextCronTime(e, t) - 1 : ~Fires(e, u)
  <1> DEFINE due == NextCronTime(e, t)
  <1>1. CASE e.form = "every" /\ e.step # 0
    <2>1. e.step \in Nat /\ e.step > 0 /\ 60 % e.step = 0
      BY <1>1, ExprForms DEF Sound
    <2>2. due = NextEvery(e.step, t) /\ Parses(e)
      BY <1>1 DEF NextCronTime, Parses
    <2>3. \A u : Fires(e, u) <=> u % 2 = 0 /\ MinuteOf(u) % e.step = 0
      BY <1>1, <2>2 DEF Fires, Minute
    <2>4. /\ NextEvery(e.step, t) % 2 = 0 /\ MinuteOf(NextEvery(e.step, t)) % e.step = 0
          /\ \A u \in t + 1 .. NextEvery(e.step, t) - 1 : ~(u % 2 = 0 /\ MinuteOf(u) % e.step = 0)
      BY <2>1, EveryIsCron
    <2> HIDE DEF due
    <2>. QED
      BY <2>2, <2>3, <2>4 DEF due
  <1>2. ASSUME NEW hours \in Seq(Nat), hours # <<>>, Increasing(hours), due = NextHours(hours, t),
               \A u : Fires(e, u) <=> OnTheHour(hours, u)
        PROVE  Fires(e, due) /\ \A u \in t + 1 .. due - 1 : ~Fires(e, u)
    <2>1. /\ OnTheHour(hours, NextHours(hours, t))
          /\ \A u \in t + 1 .. NextHours(hours, t) - 1 : ~OnTheHour(hours, u)
      BY <1>2, HoursAreCron
    <2> HIDE DEF due
    <2>. QED
      BY <1>2, <2>1
  <1>3. CASE e.form = "hours" /\ e.hours # <<>>
    <2>1. e.hours \in Seq(Nat) /\ Increasing(e.hours)
      BY <1>3, ExprForms DEF Sound, Increasing
    <2>2. due = NextHours(e.hours, t) /\ Parses(e)
      BY <1>3 DEF NextCronTime, Parses
    <2>3. \A u : Fires(e, u) <=> OnTheHour(e.hours, u)
      BY <1>3, <2>2 DEF Fires, OnTheHour, Minute
    <2>. QED
      BY <1>2, <1>3, <2>1, <2>2, <2>3
  <1>4. CASE ~Parses(e)
    <2>1. due = NextHours(DefaultHours, t)
      BY <1>4 DEF NextCronTime
    <2>2. \A u : Fires(e, u) <=> OnTheHour(DefaultHours, u)
      BY <1>4 DEF Fires, OnTheHour, Minute
    <2>. QED
      BY <1>2, <2>1, <2>2, DefaultIsSound
  <1>. QED
    BY <1>1, <1>3, <1>4 DEF Parses

\* For any expression it is ahead.
LEMMA CronIsAhead ==
  ASSUME NEW e \in Exprs(Steps, HourLists), NEW t \in Nat, ~Panics(e, t)
  PROVE  /\ NextCronTime(e, t) > t
         /\ e.form = "every" /\ e.step # 0 => NextCronTime(e, t) - t <= e.step * Minute
  <1>1. CASE e.form = "every" /\ e.step # 0
    <2>1. e.step \in Nat /\ e.step > 0
      BY <1>1, ExprForms
    <2>2. NextCronTime(e, t) = NextEvery(e.step, t)
      BY <1>1 DEF NextCronTime, Parses
    <2>. QED
      BY <2>1, <2>2, EveryIsAhead
  <1>2. CASE e.form = "hours" /\ e.hours # <<>>
    <2>1. e.hours \in Seq(Nat)
      BY <1>2, ExprForms
    <2>2. NextCronTime(e, t) = NextHours(e.hours, t)
      BY <1>2 DEF NextCronTime, Parses
    <2>3. Stops(e.hours, t) # {} => e.hours[FirstStop(e.hours, t)] < 24
      <3>1. ASSUME Stops(e.hours, t) # {}
            PROVE  e.hours[FirstStop(e.hours, t)] < 24
        <4>1. e.hours[FirstStop(e.hours, t)] \in Nat
          BY <2>1, <3>1, FirstToCome
        <4>2. ~(e.hours[FirstStop(e.hours, t)] >= 24)
          BY <1>2, <3>1 DEF Panics
        <4>. QED
          BY <4>1, <4>2
      <3>. QED
        BY <3>1
    <2>. QED
      BY <1>2, <2>1, <2>2, <2>3, HoursAreAhead
  <1>3. CASE ~Parses(e)
    <2> DEFINE hours == DefaultHours
    <2>1. NextCronTime(e, t) = NextHours(hours, t)
      BY <1>3 DEF NextCronTime
    <2>2. hours \in Seq(Nat) /\ hours # <<>> /\ \A k \in DOMAIN hours : hours[k] < 24
      BY DefaultIsSound DEF Increasing
    <2> HIDE DEF hours
    <2>3. Stops(hours, t) # {} => hours[FirstStop(hours, t)] < 24
      BY <2>2, FirstToCome
    <2>4. NextHours(hours, t) > t
      BY <2>2, <2>3, HoursAreAhead
    <2>. QED
      BY <1>3, <2>1, <2>4 DEF Parses
  <1>. QED
    BY <1>1, <1>2, <1>3 DEF Parses

-----------------------------------------------------------------------------
(* Deduplication.                                                          *)

\* Compared with a list of one article, another is the duplicate of that one or of none.
LEMMA OnlyOne ==
  ASSUME NEW a, NEW b
  PROVE  Dedup!CheckDuplicate(a, <<b>>) =
           [of |-> IF Dedup!Reason(a, b) = "distinct" THEN 0 ELSE 1, reason |-> Dedup!Reason(a, b)]
  <1> DEFINE I == {i \in 1 .. 1 : Dedup!Reason(a, <<b>>[i]) # "distinct"}
             first == IF I # {} THEN Dedup!Min(I) ELSE 0
  <1>1. Dedup!SelectInSeq(<<b>>, LAMBDA e : Dedup!Reason(a, e) # "distinct") = first
    BY DEF Dedup!SelectInSeq, Dedup!SelectInSubSeq
  <1>2. Dedup!CheckDuplicate(a, <<b>>) =
          [of |-> first, reason |-> IF first = 0 THEN "distinct" ELSE Dedup!Reason(a, <<b>>[first])]
    BY <1>1, Zenon DEF Dedup!CheckDuplicate
  <1>3. first = IF Dedup!Reason(a, b) = "distinct" THEN 0 ELSE 1
    <2>1. <<b>>[1] = b /\ \A i \in 1 .. 1 : i = 1
      OBVIOUS
    <2>2. CASE Dedup!Reason(a, b) = "distinct"
      <3>1. I = {}
        BY <2>1, <2>2
      <3>. QED
        BY <2>2, <3>1
    <2>3. CASE Dedup!Reason(a, b) # "distinct"
      <3>1. I = {1}
        BY <2>1, <2>3
      <3>2. Dedup!Min({1}) = 1
        BY DEF Dedup!Min
      <3>. QED
        BY <2>3, <3>1, <3>2
    <2>. QED
      BY <2>2, <2>3
  <1> HIDE DEF first
  <1>. QED
    BY <1>2, <1>3

\* Each of the four comparisons of URLs has its mirror image among them.
LEMMA UrlsEitherWay ==
  ASSUME NEW a, NEW b
  PROVE  Dedup!MatchesUrl(a, b) <=> Dedup!MatchesUrl(b, a)
  BY DEF Dedup!MatchesUrl

\* The share of common tokens is taken of those of both titles.
LEMMA TitlesEitherWay ==
  ASSUME NEW s, NEW t
  PROVE  Dedup!Similar(s, t) <=> Dedup!Similar(t, s)
  <1> DEFINE S == Dedup!Tokens(s)
             T == Dedup!Tokens(t)
  <1>1. S \cap T = T \cap S /\ S \cup T = T \cup S
    OBVIOUS
  <1>. QED
    BY <1>1 DEF Dedup!Similar

\* So the reason is the same either way.
LEMMA ReasonEitherWay ==
  ASSUME NEW a, NEW b
  PROVE  Dedup!Reason(a, b) = Dedup!Reason(b, a)
  <1>1. Dedup!MatchesUrl(a, b) <=> Dedup!MatchesUrl(b, a)
    BY UrlsEitherWay
  <1>2. Dedup!Similar(a.title, b.title) <=> Dedup!Similar(b.title, a.title)
    BY TitlesEitherWay
  <1>. QED
    BY <1>1, <1>2 DEF Dedup!Reason

-----------------------------------------------------------------------------
(* clean_title.                                                            *)

\* Where a part that begins after i ends, the part, and the beginnings of the longest ones.
EndOf(title, sep, i) ==
  LET I == {k \in i + 1 .. Len(title) : title[k] = sep}
  IN  IF I # {} THEN Extract!Min(I) ELSE 0
PartOf(title, sep, i) == 
  SubSeq(title, i + 1, IF EndOf(title, sep, i) = 0 THEN Len(title) ELSE EndOf(title, sep, i) - 1)
Longest(title, sep) ==
  LET starts == {0} \cup {i \in DOMAIN title : title[i] = sep}
  IN  {i \in starts : \A k \in starts : Len(PartOf(title, sep, k)) <= Len(PartOf(title, sep, i))}
Kept(title, sep) ==
  PartOf(title, sep, CHOOSE i \in Longest(title, sep) : \A k \in Longest(title, sep) : k <= i)

\* If a title has separators of one kind only, they part it.
LEMMA Parted ==
  ASSUME NEW title, NEW n \in 1 .. 3, Extract!Contains(title, Extract!Separators[n]),
         \A m \in 1 .. 3 \ {n} : ~Extract!Contains(title, Extract!Separators[m])
  PROVE  Extract!CleanTitle(title) = Kept(title, Extract!Separators[n])
  <1> DEFINE s == Extract!SelectInSeq(Extract!Separators, LAMBDA sep : Extract!Contains(title, sep))
             I == {m \in 1 .. Len(Extract!Separators) : Extract!Contains(title, Extract!Separators[m])}
  <1>1. s = IF I # {} THEN Extract!Min(I) ELSE 0
    BY DEF Extract!SelectInSeq
  <1>2. Len(Extract!Separators) = 3
    BY DEF Extract!Separators
  <1>3. I = {n}
    BY <1>2
  <1>4. Extract!Min({n}) = n
    BY DEF Extract!Min
  <1>5. s = n /\ s # 0
    <2> HIDE DEF s, I
    <2>1. {n} # {} /\ n # 0
      OBVIOUS
    <2>. QED
      BY <1>1, <1>3, <1>4, <2>1
  <1> DEFINE ends == {i \in DOMAIN title : title[i] = Extract!Separators[s]}
             starts == {0} \cup ends
             end(i) == Extract!SelectInSubSeq(title, i + 1, Len(title), LAMBDA w : w = Extract!Separators[s])
             part(i) == SubSeq(title, i + 1, IF end(i) = 0 THEN Len(title) ELSE end(i) - 1)
             longest == {i \in starts : \A k \in starts : Len(part(k)) <= Len(part(i))}
  <1>6. Extract!CleanTitle(title) =
          IF s = 0 THEN title ELSE part(CHOOSE i \in longest : \A k \in longest : k <= i)
    BY DEF Extract!CleanTitle
  <1>7. \A i : end(i) = EndOf(title, Extract!Separators[s], i)
    BY DEF Extract!SelectInSubSeq, EndOf
  <1>8. \A i : part(i) = PartOf(title, Extract!Separators[s], i)
    <2> HIDE DEF end, s
    <2>. QED
      BY <1>7, Zenon DEF PartOf
  <1> HIDE DEF s, part
  <1>9. longest = Longest(title, Extract!Separators[s])
    BY <1>8 DEF Longest
  <1>. QED
    BY <1>5, <1>6, <1>8, <1>9 DEF Kept

\* What titles are made of.
Pieces == STRING \cup ToSet(Extract!Separators)

\* A title of two parts, and what stands where in it.
Joins(title, a, sep, b) ==
  /\ a \in Seq(Pieces) /\ b \in Seq(Pieces) /\ title \in Seq(Pieces)
  /\ ~Extract!Contains(a, sep) /\ ~Extract!Contains(b, sep)
  /\ Len(title) = Len(a) + 1 + Len(b)
  /\ \A i \in 1 .. Len(a) : title[i] = a[i]
  /\ title[Len(a) + 1] = sep
  /\ \A i \in 1 .. Len(b) : title[Len(a) + 1 + i] = b[i]

\* The separator is there once.
LEMMA SeparatorAt ==
  ASSUME NEW title, NEW a, NEW sep, NEW b, Joins(title, a, sep, b)
  PROVE  \A i \in 1 .. Len(title) : title[i] = sep <=> i = Len(a) + 1
  <1> SUFFICES ASSUME NEW i \in 1 .. Len(title), i # Len(a) + 1
               PROVE  title[i] # sep
    BY DEF Joins
  <1>1. Len(a) \in Nat /\ Len(b) \in Nat /\ Len(title) = Len(a) + 1 + Len(b)
    BY DEF Joins
  <1>2. CASE i \in 1 .. Len(a)
    BY <1>2 DEF Joins, Extract!Contains
  <1>3. CASE i > Len(a) + 1
    <2> DEFINE k == i - (Len(a) + 1)
    <2>1. k \in 1 .. Len(b) /\ Len(a) + 1 + k = i
      BY <1>1, <1>3
    <2> HIDE DEF k
    <2>2. title[i] = b[k]
      BY <2>1 DEF Joins
    <2>. QED
      BY <2>1, <2>2 DEF Joins, Extract!Contains
  <1>. QED
    BY <1>1, <1>2, <1>3

\* So the parts are the two.
LEMMA TwoParts ==
  ASSUME NEW title, NEW a, NEW sep, NEW b, Joins(title, a, sep, b)
  PROVE  PartOf(title, sep, 0) = a /\ PartOf(title, sep, Len(a) + 1) = b
  <1> DEFINE n == Len(a) + 1
  <1>1. /\ Len(a) \in Nat /\ Len(b) \in Nat /\ Len(title) = n + Len(b) /\ n \in Nat /\ n # 0
        /\ title \in Seq(Pieces)
    BY DEF Joins
  <1>2. \A i \in 1 .. Len(title) : title[i] = sep <=> i = n
    BY SeparatorAt
  <1>3. EndOf(title, sep, 0) = n
    <2> DEFINE I == {k \in 0 + 1 .. Len(title) : title[k] = sep}
    <2>1. I = {n}
      <3> HIDE DEF n
      <3>. QED
        BY <1>1, <1>2
    <2>2. Extract!Min({n}) = n
      <3> HIDE DEF n
      <3>. QED
        BY <1>1 DEF Extract!Min
    <2>3. EndOf(title, sep, 0) = IF I # {} THEN Extract!Min(I) ELSE 0
      BY DEF EndOf
    <2> HIDE DEF I, n
    <2>. QED
      BY <2>1, <2>2, <2>3
  <1>4. EndOf(title, sep, n) = 0
    <2> DEFINE I == {k \in n + 1 .. Len(title) : title[k] = sep}
    <2>1. I = {}
      <3> HIDE DEF n
      <3>. QED
        BY <1>1, <1>2
    <2>2. EndOf(title, sep, n) = IF I # {} THEN Extract!Min(I) ELSE 0
      BY DEF EndOf
    <2> HIDE DEF I, n
    <2>. QED
      BY <2>1, <2>2
  <1>5. PartOf(title, sep, 0) = a
    <2>1. PartOf(title, sep, 0) = SubSeq(title, 1, Len(a))
      BY <1>1, <1>3 DEF PartOf
    <2>2. SubSeq(title, 1, Len(a)) = [i \in 1 .. Len(a) |-> title[i]]
      BY <1>1
    <2>3. a = [i \in 1 .. Len(a) |-> a[i]]
      BY DEF Joins
    <2>4. \A i \in 1 .. Len(a) : title[i] = a[i]
      BY DEF Joins
    <2>. QED
      BY <2>1, <2>2, <2>3, <2>4
  <1>6. PartOf(title, sep, n) = b
    <2>1. PartOf(title, sep, n) = SubSeq(title, n + 1, n + Len(b))
      BY <1>1, <1>4 DEF PartOf
    <2>2. SubSeq(title, n + 1, n + Len(b)) = [i \in 1 .. Len(b) |-> title[n + i]]
      <3> HIDE DEF n
      <3>. QED
        BY <1>1
    <2>3. b = [i \in 1 .. Len(b) |-> b[i]]
      BY DEF Joins
    <2>4. \A i \in 1 .. Len(b) : title[n + i] = b[i]
      BY DEF Joins
    <2> HIDE DEF n
    <2>. QED
      BY <2>1, <2>2, <2>3, <2>4
  <1>. QED
    BY <1>5, <1>6

\* And the longer one is kept.
LEMMA LongerKept ==
  ASSUME NEW title, NEW a, NEW sep, NEW b, Joins(title, a, sep, b)
  PROVE  /\ Len(b) < Len(a) => Kept(title, sep) = a
         /\ Len(a) < Len(b) => Kept(title, sep) = b
  <1> DEFINE n == Len(a) + 1
             longest == Longest(title, sep)
             last == CHOOSE i \in longest : \A k \in longest : k <= i
  <1>1. Len(a) \in Nat /\ Len(b) \in Nat /\ n \in Nat /\ n # 0
    BY DEF Joins
  <1>2. PartOf(title, sep, 0) = a /\ PartOf(title, sep, n) = b
    BY TwoParts
  <1>3. {i \in DOMAIN title : title[i] = sep} = {n}
    <2>1. n \in 1 .. Len(title) /\ DOMAIN title = 1 .. Len(title)
      BY DEF Joins
    <2>. QED
      BY <2>1, SeparatorAt
  <1>4. longest = {i \in {0, n} : \A k \in {0, n} : Len(PartOf(title, sep, k)) <= Len(PartOf(title, sep, i))}
    BY <1>3 DEF Longest
  <1>7. Kept(title, sep) = PartOf(title, sep, last)
    BY DEF Kept
  <1> HIDE DEF n, longest
  <1>5. CASE Len(b) < Len(a)
    <2>1. longest = {0}
      BY <1>1, <1>2, <1>4, <1>5
    <2>2. last = 0
      BY <2>1
    <2>. QED
      <3> HIDE DEF last
      <3>1. Kept(title, sep) = a
        BY <1>2, <1>7, <2>2
      <3>. QED
        BY <1>1, <1>5, <3>1
  <1>6. CASE Len(a) < Len(b)
    <2>1. longest = {n}
      BY <1>1, <1>2, <1>4, <1>6
    <2>2. last = n
      BY <1>1, <2>1
    <2>. QED
      <3> HIDE DEF last
      <3>1. Kept(title, sep) = b
        BY <1>2, <1>7, <2>2
      <3>. QED
        BY <1>1, <1>6, <3>1
  <1>. QED
    BY <1>1, <1>5, <1>6

\* A headline with the name of the site before or behind it, and a separator in between.
TitleOf(headline, before, sep) ==
  IF before THEN Site \o <<sep>> \o headline ELSE headline \o <<sep>> \o Site

\* There are three separators, which differ.
LEMMA Three ==
  /\ DOMAIN Extract!Separators = 1 .. 3
  /\ ToSet(Extract!Separators) = {Extract!Separators[n] : n \in 1 .. 3}
  /\ \A n \in 1 .. 3 : Extract!Separators[n] \in Pieces
  /\ \A n \in 1 .. 3 : \A m \in 1 .. 3 \ {n} : Extract!Separators[m] # Extract!Separators[n]
  <1>1. DOMAIN Extract!Separators = 1 .. 3
    BY DEF Extract!Separators
  <1>2. /\ Extract!Separators[1] = " - "
        /\ Extract!Separators[2] = " | "
        /\ Extract!Separators[3] = " :: "
    BY DEF Extract!Separators
  <1>3. ToSet(Extract!Separators) = {Extract!Separators[n] : n \in 1 .. 3}
    BY <1>1 DEF ToSet
  <1>4. \A n \in 1 .. 3 : Extract!Separators[n] \in Pieces
    BY <1>3 DEF Pieces
  <1>5. ASSUME NEW n \in 1 .. 3, NEW m \in 1 .. 3 \ {n}
        PROVE  Extract!Separators[m] # Extract!Separators[n]
    <2>1. n \in {1, 2, 3} /\ m \in {1, 2, 3} /\ m # n
      OBVIOUS
    <2>2. Extract!Separators[1] # Extract!Separators[2]
      BY <1>2, Zenon
    <2>3. Extract!Separators[1] # Extract!Separators[3]
      BY <1>2, Zenon
    <2>4. Extract!Separators[2] # Extract!Separators[3]
      BY <1>2, Zenon
    <2>. QED
      BY <2>1, <2>2, <2>3, <2>4
  <1>. QED
    BY <1>1, <1>3, <1>4, <1>5

\* If the headline is longer than the name, clean_title gives the headline.
LEMMA HeadlineKept ==
  ASSUME NEW headline \in Headlines, Len(headline) > Len(Site), NEW before \in BOOLEAN,
         NEW sep \in ToSet(Extract!Separators)
  PROVE  Extract!CleanTitle(TitleOf(headline, before, sep)) = headline
  <1>1. PICK n \in 1 .. 3 : sep = Extract!Separators[n]
    BY Three
  <1>2. ASSUME NEW a \in Seq(Pieces), NEW b \in Seq(Pieces), NEW title, title = a \o <<sep>> \o b,
               \A m \in 1 .. 3 : /\ ~Extract!Contains(a, Extract!Separators[m])
                                 /\ ~Extract!Contains(b, Extract!Separators[m])
        PROVE  /\ Len(b) < Len(a) => Extract!CleanTitle(title) = a
               /\ Len(a) < Len(b) => Extract!CleanTitle(title) = b
    <2>1. sep \in Pieces
      BY <1>1, Three
    <2>2. title \in Seq(Pieces) /\ Len(title) = Len(a) + 1 + Len(b) /\ title[Len(a) + 1] = sep
      <3>1. <<sep>> \in Seq(Pieces) /\ Len(<<sep>>) = 1 /\ <<sep>>[1] = sep
        BY <2>1
      <3>2. a \o <<sep>> \in Seq(Pieces) /\ Len(a \o <<sep>>) = Len(a) + 1
        BY <3>1
      <3>3. (a \o <<sep>>)[Len(a) + 1] = sep
        BY <3>1
      <3>. QED
        BY <1>2, <3>2, <3>3
    <2>3. \A i \in 1 .. Len(a) : title[i] = a[i]
      BY <1>2, <2>1
    <2>4. \A i \in 1 .. Len(b) : title[Len(a) + 1 + i] = b[i]
      BY <1>2, <2>1
    <2>5. Joins(title, a, sep, b)
      BY <1>1, <1>2, <2>2, <2>3, <2>4 DEF Joins
    <2>6. Extract!Contains(title, Extract!Separators[n])
      BY <1>1, <2>2 DEF Extract!Contains
    <2>7. ASSUME NEW m \in 1 .. 3 \ {n}, NEW i \in 1 .. Len(title), title[i] = Extract!Separators[m]
          PROVE  FALSE
      <3>1. CASE i \in 1 .. Len(a)
        BY <1>2, <2>3, <2>7, <3>1 DEF Extract!Contains
      <3>2. CASE i = Len(a) + 1
        BY <1>1, <2>2, <2>7, <3>2, Three
      <3>3. CASE i > Len(a) + 1
        <4> DEFINE k == i - (Len(a) + 1)
        <4>1. k \in 1 .. Len(b) /\ Len(a) + 1 + k = i
          BY <2>2, <3>3
        <4> HIDE DEF k
        <4>2. b[k] = Extract!Separators[m]
          BY <2>4, <2>7, <4>1
        <4>. QED
          BY <1>2, <4>1, <4>2 DEF Extract!Contains
      <3>. QED
        BY <2>2, <3>1, <3>2, <3>3
    <2>8. Extract!CleanTitle(title) = Kept(title, sep)
      BY <1>1, <2>6, <2>7, Parted DEF Extract!Contains
    <2>. QED
      BY <2>5, <2>8, LongerKept
  <1>3. ASSUME NEW t \in Headlines \cup {Site}
        PROVE  t \in Seq(Pieces) /\ \A m \in 1 .. 3 : ~Extract!Contains(t, Extract!Separators[m])
    <2>1. t \in Seq(STRING) /\ \A s \in ToSet(Extract!Separators) : ~Extract!Contains(t, s)
      BY TitlesAssumption DEF Contains, Extract!Contains
    <2>2. t \in Seq(Pieces)
      BY <2>1 DEF Pieces
    <2>3. \A m \in 1 .. 3 : Extract!Separators[m] \in ToSet(Extract!Separators)
      BY Three
    <2>. QED
      BY <2>1, <2>2, <2>3
  <1>4. CASE before
    <2>1. TitleOf(headline, before, sep) = Site \o <<sep>> \o headline
      BY <1>4 DEF TitleOf
    <2>. QED
      BY <1>2, <1>3, <2>1
  <1>5. CASE ~before
    <2>1. TitleOf(headline, before, sep) = headline \o <<sep>> \o Site
      BY <1>5 DEF TitleOf
    <2>2. Len(Site) < Len(headline)
      BY <1>3
    <2>. QED
      BY <1>2, <1>3, <2>1, <2>2
  <1>. QED
    BY <1>4, <1>5

-----------------------------------------------------------------------------
(* The theorems.                                                           *)

\* The scheduler plans for one of the expressions, at some instant.
Planned ==
  call.of = "next_cron_time" => call.expr \in Exprs(Steps, HourLists) /\ call.now \in Nat

\* At the start nothing is called, and every call of the scheduler's is such a plan.
LEMMA PlannedInit == Init => Planned
  BY DEF Init, Idle, Planned

\* And so it is after every call.
LEMMA PlannedStep == Planned /\ [Next]_call => Planned'
  <1> SUFFICES ASSUME Planned, [Next]_call, (call.of = "next_cron_time")'
               PROVE  (call.expr \in Exprs(Steps, HourLists) /\ call.now \in Nat)'
    BY DEF Planned
  <1>1. CASE Plan
    <2>1. PICK e \in Exprs(Steps, HourLists), t \in 0 .. Day - 1 :
            call' = [of |-> "next_cron_time", expr |-> e, now |-> t]
      BY <1>1 DEF Plan
    <2>2. t \in Nat
      BY DEF Day, Hour, Minute
    <2>. QED
      BY <2>1, <2>2
  <1>2. ASSUME Normalize \/ Compare \/ CleanTitles \/ ExtractPage \/ CleanText \/ JoinLink \/ Parse \/ Resolve
        PROVE  FALSE
    BY <1>2 DEF Normalize, Compare, CleanTitles, ExtractPage, CleanText, JoinLink, Parse, Resolve
  <1>3. CASE UNCHANGED call
    BY <1>3 DEF Planned
  <1>. QED
    BY <1>1, <1>2, <1>3 DEF Next

\* So every instant the scheduler computes is for such a plan.
THEOREM AlwaysPlanned == Spec => []Planned
  BY PlannedInit, PlannedStep, PTL DEF Spec

\* For a sound expression the scheduler wakes when cron would, and at no other time: no
\* fire is left out and none is added, over hour ends and midnights.
THEOREM WakesAsCron == Spec => []SoundIsCron
  <1>1. Planned => SoundIsCron
    BY SoundFires DEF Planned, SoundIsCron
  <1>. QED
    BY <1>1, AlwaysPlanned, PTL

\* Whatever the expression, the next run is ahead, and for "*/n" at most n minutes away,
\* though n does not divide the hour or exceeds it.
THEOREM WakesLater == Spec => []NextIsAhead
  <1>1. Planned => NextIsAhead
    BY CronIsAhead DEF Planned, NextIsAhead
  <1>. QED
    BY <1>1, AlwaysPlanned, PTL

\* Which of two articles is compared with the other makes no difference.
THEOREM EitherWay == Spec => []OrderDoesNotMatter
  <1>1. OrderDoesNotMatter
    <2>1. Dedup!CheckDuplicate(call.one, <<call.other>>) = Dedup!CheckDuplicate(call.other, <<call.one>>)
      BY OnlyOne, ReasonEitherWay, ZenonT(30)
    <2>. QED
      BY <2>1 DEF OrderDoesNotMatter
  <1>. QED
    BY <1>1, PTL

\* A title is cleaned of the site of two headlines.
Titled ==
  call.of = "clean_title" =>
    {call.one, call.other} \subseteq Headlines /\ call.separator \in ToSet(Extract!Separators)

\* At the start nothing is called, and every call of clean_title is of such titles.
LEMMA TitledInit == Init => Titled
  BY DEF Init, Idle, Titled

\* And so it is after every call.
LEMMA TitledStep == Titled /\ [Next]_call => Titled'
  <1> SUFFICES ASSUME Titled, [Next]_call, (call.of = "clean_title")'
               PROVE  ({call.one, call.other} \subseteq Headlines /\ call.separator \in ToSet(Extract!Separators))'
    BY DEF Titled
  <1>1. CASE CleanTitles
    BY <1>1 DEF CleanTitles
  <1>2. ASSUME Plan \/ Normalize \/ Compare \/ ExtractPage \/ CleanText \/ JoinLink \/ Parse \/ Resolve
        PROVE  FALSE
    BY <1>2 DEF Plan, Normalize, Compare, ExtractPage, CleanText, JoinLink, Parse, Resolve
  <1>3. CASE UNCHANGED call
    BY <1>3 DEF Titled
  <1>. QED
    BY <1>1, <1>2, <1>3 DEF Next

\* Of two titles with the name of the site, headlines longer than the name decide whether
\* they are similar, whatever the separators and wherever the name stands.
THEOREM HeadlinesDecide == Spec => []HeadlineDecides
  <1>1. Titled => HeadlineDecides
    <2> SUFFICES ASSUME Titled, call.of = "clean_title", Len(call.one) > Len(Site), Len(call.other) > Len(Site),
                        NEW first \in BOOLEAN, NEW second \in BOOLEAN
                 PROVE  LET one == TitleOf(call.one, first, call.separator)
                            other == TitleOf(call.other, second, call.separator)
                        IN  Dedup!Similar(Extract!CleanTitle(one), Extract!CleanTitle(other))
                              <=> Dedup!Similar(call.one, call.other)
      BY Zenon DEF HeadlineDecides, TitleOf
    <2>1. call.one \in Headlines /\ call.other \in Headlines /\ call.separator \in ToSet(Extract!Separators)
      BY DEF Titled
    <2>2. Extract!CleanTitle(TitleOf(call.one, first, call.separator)) = call.one
      BY <2>1, HeadlineKept
    <2>3. Extract!CleanTitle(TitleOf(call.other, second, call.separator)) = call.other
      BY <2>1, HeadlineKept
    <2>. QED
      BY <2>2, <2>3
  <1>. QED
    BY <1>1, TitledInit, TitledStep, PTL DEF Spec
=============================================================================
