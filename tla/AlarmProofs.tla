----------------------------- MODULE AlarmProofs -----------------------------
(***************************************************************************)
(* The alarm manager never oversleeps and implements AlarmClock, for every   *)
(* set of alarms and seconds.                                                *)
(***************************************************************************)
EXTENDS Alarm, TLAPS, WellFoundedInduction, SequenceTheorems

Types ==
  /\ now \in Nat \ {0}
  /\ alarm_list \in Seq(Alarms)
  /\ current_alarm \in Nat
  /\ time \in [Alarms -> Nat]
  /\ pc \in {"start", "top", "idle", "timed", "expired"}
  /\ asleep \in BOOLEAN
  /\ alarm \in Alarms \cup {NULL}
  /\ printed \in SUBSET Alarms

InOrder(list, times) ==
  \A i, j \in DOMAIN list : i < j => times[list[i]] <= times[list[j]]

Once(list) == \A i, j \in DOMAIN list : i # j => list[i] # list[j]

Set == {a \in Alarms : time[a] # 0}

\* The alarm the thread has taken off the list.
Hand == IF pc \in {"timed", "expired"} THEN {alarm} ELSE {}

\* Every alarm that is set and not printed is in one place, and the list is
\* in the order of the times.
Kept ==
  /\ InOrder(alarm_list, time) /\ Once(alarm_list)
  /\ printed \subseteq Set
  /\ Set \ printed = Listed \cup Hand
  /\ Hand \cap Listed = {} /\ Hand \subseteq Alarms

\* What the thread waits for.  current_alarm tells whether an earlier alarm
\* has come since it took its own off the list.
Waits ==
  /\ asleep => pc \in {"idle", "timed"}
  /\ pc = "idle" => /\ asleep => alarm_list = <<>>
                    /\ alarm_list = <<>> => current_alarm = 0
  /\ pc = "timed" =>
       /\ asleep => current_alarm = time[alarm]
       /\ current_alarm # 0 /\ current_alarm <= time[alarm]
       /\ current_alarm = time[alarm] =>
            \A a \in Listed : time[alarm] <= time[a]
  /\ pc = "expired" =>
       /\ time[alarm] <= now
       /\ \A a \in Listed : time[alarm] <= time[a]

IInv == Types /\ Kept /\ Waits

-----------------------------------------------------------------------------
LEMMA LeastNumber ==
  ASSUME NEW T \in SUBSET Nat, T # {}
  PROVE  \E n \in T : \A m \in T : n <= m
  <1>1. IsWellFoundedOn(OpToRel(<, Nat), Nat)
    BY NatLessThanWellFounded
  <1>2. PICK n \in T : \A m \in T : ~(<<m, n>> \in OpToRel(<, Nat))
    BY <1>1, WFMin
  <1>3. \A m \in T : ~(m < n)
    BY <1>2 DEF OpToRel
  <1> QED
    BY <1>3

\* The place of a: behind the alarms that are earlier, in front of the first
\* that is not.
LEMMA InsertPlace ==
  ASSUME NEW list \in Seq(Alarms), NEW times \in [Alarms -> Nat], NEW a \in Alarms
  PROVE  LET r == InsertSorted(list, times, a)
         IN  \E n \in 1 .. Len(list) + 1 :
           /\ r \in Seq(Alarms) /\ Len(r) = Len(list) + 1
           /\ \A i \in 1 .. Len(list) + 1 :
                r[i] = IF i < n THEN list[i] ELSE IF i = n THEN a ELSE list[i - 1]
           /\ \A i \in 1 .. n - 1 : times[list[i]] < times[a]
           /\ n <= Len(list) => times[a] <= times[list[n]]
  <1> DEFINE r == InsertSorted(list, times, a)
             I == {i \in 1 .. Len(list) : times[list[i]] >= times[a]}
  <1>1. Len(list) \in Nat /\ I \in SUBSET Nat /\ \A i \in 1 .. Len(list) : list[i] \in Alarms
    BY LenProperties, ElementOfSeq
  <1>2. CASE I = {}
    <2>1. r = Append(list, a)
      BY <1>2 DEF InsertSorted, SelectInSeq
    <2> HIDE DEF r
    <2>2. /\ r \in Seq(Alarms) /\ Len(r) = Len(list) + 1
          /\ \A i \in 1 .. Len(list) : r[i] = list[i]
          /\ r[Len(list) + 1] = a
      BY <2>1, AppendProperties
    <2>3. \A i \in 1 .. (Len(list) + 1) - 1 : times[list[i]] < times[a]
      BY <1>1, <1>2
    <2>4. Len(list) + 1 \in 1 .. Len(list) + 1 /\ ~(Len(list) + 1 <= Len(list))
      BY <1>1
    <2>5. \A i \in 1 .. Len(list) + 1 :
            r[i] = IF i < Len(list) + 1 THEN list[i]
                   ELSE IF i = Len(list) + 1 THEN a ELSE list[i - 1]
      <3>1. \A i \in 1 .. Len(list) + 1 :
              (i < Len(list) + 1 /\ i \in 1 .. Len(list)) \/ (~(i < Len(list) + 1) /\ i = Len(list) + 1)
        BY <1>1
      <3> QED
        BY <2>2, <3>1
    <2> QED
      BY <2>2, <2>3, <2>4, <2>5 DEF r
  <1>3. CASE I # {}
    <2>1. PICK n \in I : \A m \in I : n <= m
      <3> HIDE DEF I
      <3> QED
        BY <1>1, <1>3, LeastNumber
    <2>2. Min(I) = n
      <3> HIDE DEF I
      <3>1. \A m \in I : (\A k \in I : m <= k) => m = n
        BY <1>1, <2>1
      <3> QED
        BY <2>1, <3>1 DEF Min
    <2>3. r = SubSeq(list, 1, n - 1) \o <<a>> \o SubSeq(list, n, Len(list))
      <3>1. n # 0
        BY <1>1
      <3>2. SelectInSeq(list, LAMBDA b : times[b] >= times[a]) = n
        BY <1>3, <2>2 DEF SelectInSeq
      <3> QED
        BY <3>1, <3>2 DEF InsertSorted, InsertAt
    <2> HIDE DEF r
    <2>4. n \in 1 .. Len(list) /\ times[a] <= times[list[n]]
      BY <1>1, <2>1
    <2> DEFINE p == SubSeq(list, 1, n - 1)
               q == SubSeq(list, n, Len(list))
    <2>5. /\ p \in Seq(Alarms) /\ Len(p) = n - 1
          /\ \A i \in 1 .. n - 1 : p[i] = list[i]
      <3>1. \A i \in 1 .. n - 1 : list[i] \in Alarms
        BY <1>1, <2>4
      <3>2. /\ p \in Seq(Alarms)
            /\ Len(p) = IF 1 <= n - 1 THEN (n - 1) - 1 + 1 ELSE 0
            /\ \A i \in 1 .. (n - 1) - 1 + 1 : p[i] = list[1 + i - 1]
        BY <2>4, <3>1, SubSeqProperties
      <3> QED
        BY <2>4, <3>2
    <2>6. /\ q \in Seq(Alarms) /\ Len(q) = Len(list) - n + 1
          /\ \A i \in 1 .. Len(list) - n + 1 : q[i] = list[n + i - 1]
      <3>1. \A i \in n .. Len(list) : list[i] \in Alarms
        BY <1>1, <2>4
      <3> QED
        BY <1>1, <2>4, <3>1, SubSeqProperties
    <2> HIDE DEF p, q
    <2>7. /\ p \o <<a>> \in Seq(Alarms) /\ Len(p \o <<a>>) = n
          /\ \A i \in 1 .. n : (p \o <<a>>)[i] = IF i < n THEN list[i] ELSE a
      <3>1. <<a>> \in Seq(Alarms) /\ Len(<<a>>) = 1 /\ <<a>>[1] = a
        OBVIOUS
      <3>2. /\ p \o <<a>> \in Seq(Alarms) /\ Len(p \o <<a>>) = Len(p) + 1
            /\ \A i \in 1 .. Len(p) + 1 :
                 (p \o <<a>>)[i] = IF i <= Len(p) THEN p[i] ELSE <<a>>[i - Len(p)]
        BY <2>5, <3>1, ConcatProperties
      <3>3. n - 1 + 1 = n /\ \A i \in 1 .. n : (i <= n - 1 <=> i < n) /\ (~(i < n) => i - (n - 1) = 1)
        BY <2>4
      <3> QED
        <4>1. Len(p \o <<a>>) = n
          BY <2>5, <3>2, <3>3
        <4>2. ASSUME NEW i \in 1 .. n
              PROVE  (p \o <<a>>)[i] = IF i < n THEN list[i] ELSE a
          <5>1. (p \o <<a>>)[i] = IF i < n THEN p[i] ELSE <<a>>[i - (n - 1)]
            BY <2>5, <3>2, <3>3
          <5>2. i < n => i \in 1 .. n - 1
            BY <2>4
          <5> QED
            BY <2>5, <3>1, <3>3, <5>1, <5>2
        <4> QED
          BY <3>2, <4>1, <4>2
    <2> DEFINE pa == p \o <<a>>
    <2> HIDE DEF pa
    <2>8. /\ pa \o q \in Seq(Alarms) /\ Len(pa \o q) = n + (Len(list) - n + 1)
          /\ \A i \in 1 .. n + (Len(list) - n + 1) :
               (pa \o q)[i] = IF i <= n THEN pa[i] ELSE q[i - n]
      <3>1. pa \in Seq(Alarms) /\ Len(pa) = n
        BY <2>7 DEF pa
      <3>2. /\ pa \o q \in Seq(Alarms) /\ Len(pa \o q) = Len(pa) + Len(q)
            /\ \A i \in 1 .. Len(pa) + Len(q) :
                 (pa \o q)[i] = IF i <= Len(pa) THEN pa[i] ELSE q[i - Len(pa)]
        <4>1. q \in Seq(Alarms)
          BY <2>6
        <4> QED
          BY <3>1, <4>1, ConcatProperties
      <3>3. Len(pa) = n /\ Len(q) = Len(list) - n + 1
        BY <2>6, <3>1
      <3> QED
        BY <3>2, <3>3
    <2>9. /\ r \in Seq(Alarms) /\ Len(r) = Len(list) + 1
          /\ \A i \in 1 .. Len(list) + 1 : r[i] = IF i <= n THEN pa[i] ELSE q[i - n]
      <3>1. r = pa \o q /\ n + (Len(list) - n + 1) = Len(list) + 1
        BY <1>1, <2>3, <2>4 DEF pa, p, q
      <3> QED
        BY <2>8, <3>1
    <2>10. \A i \in 1 .. Len(list) + 1 :
             r[i] = IF i < n THEN list[i] ELSE IF i = n THEN a ELSE list[i - 1]
      <3> SUFFICES ASSUME NEW i \in 1 .. Len(list) + 1
                   PROVE  r[i] = IF i < n THEN list[i] ELSE IF i = n THEN a ELSE list[i - 1]
        OBVIOUS
      <3>1. CASE i <= n
        <4>1. i \in 1 .. n /\ (i < n \/ i = n)
          BY <2>4, <3>1
        <4>2. r[i] = pa[i] /\ pa[i] = IF i < n THEN list[i] ELSE a
          BY <2>7, <2>9, <3>1, <4>1 DEF pa
        <4> QED
          BY <4>1, <4>2
      <3>2. CASE ~(i <= n)
        <4>1. i - n \in 1 .. Len(list) - n + 1 /\ n + (i - n) - 1 = i - 1
          BY <1>1, <2>4, <3>2
        <4>2. r[i] = list[n + (i - n) - 1]
          BY <2>6, <2>9, <3>2, <4>1
        <4>3. ~(i < n) /\ i # n
          BY <2>4, <3>2
        <4> QED
          BY <4>1, <4>2, <4>3
      <3> QED
        BY <3>1, <3>2
    <2>11. \A i \in 1 .. n - 1 : times[list[i]] < times[a]
      BY <1>1, <2>1, <2>4
    <2>12. n \in 1 .. Len(list) + 1
      BY <1>1, <2>4
    <2> QED
      BY <2>4, <2>9, <2>10, <2>11, <2>12 DEF r
  <1> QED
    BY <1>2, <1>3

\* alarm_insert keeps the list sorted, whatever the times, and adds a to it.
LEMMA InsertKeeps ==
  ASSUME NEW list \in Seq(Alarms), NEW times \in [Alarms -> Nat], NEW a \in Alarms
  PROVE  LET r == InsertSorted(list, times, a)
         IN  /\ r \in Seq(Alarms) /\ r # <<>>
             /\ Range(r) = Range(list) \cup {a}
             /\ InOrder(list, times) => InOrder(r, times)
             /\ Once(list) /\ a \notin Range(list) => Once(r)
  <1> DEFINE r == InsertSorted(list, times, a)
  <1> HIDE DEF r
  <1>1. PICK n \in 1 .. Len(list) + 1 :
           /\ r \in Seq(Alarms) /\ Len(r) = Len(list) + 1
           /\ \A i \in 1 .. Len(list) + 1 :
                r[i] = IF i < n THEN list[i] ELSE IF i = n THEN a ELSE list[i - 1]
           /\ \A i \in 1 .. n - 1 : times[list[i]] < times[a]
           /\ n <= Len(list) => times[a] <= times[list[n]]
    BY InsertPlace DEF r
  <1>2. /\ r \in Seq(Alarms) /\ Len(r) = Len(list) + 1
        /\ \A i \in 1 .. Len(list) + 1 :
             r[i] = IF i < n THEN list[i] ELSE IF i = n THEN a ELSE list[i - 1]
    BY <1>1
  <1>3. /\ DOMAIN r = 1 .. Len(list) + 1 /\ DOMAIN list = 1 .. Len(list)
        /\ Len(list) \in Nat /\ \A i \in 1 .. Len(list) : list[i] \in Alarms
        /\ n \in Nat
    <2>1. Len(list) \in Nat /\ DOMAIN list = 1 .. Len(list)
      BY LenProperties
    <2>2. DOMAIN r = 1 .. Len(list) + 1
      BY <1>2, LenProperties
    <2> QED
      BY <2>1, <2>2, <1>1, ElementOfSeq
  <1>4. Range(r) = Range(list) \cup {a}
    <2>1. Range(r) \subseteq Range(list) \cup {a}
      <3>1. ASSUME NEW i \in 1 .. Len(list) + 1, i # n
            PROVE  \E j \in 1 .. Len(list) : r[i] = list[j]
        <4>1. CASE i < n
          BY <1>1, <1>2, <1>3, <4>1
        <4>2. CASE i > n
          <5>1. i - 1 \in 1 .. Len(list) /\ r[i] = list[i - 1]
            BY <1>1, <1>2, <1>3, <4>2
          <5> QED
            BY <5>1
        <4> QED
          BY <1>3, <3>1, <4>1, <4>2
      <3>2. r[n] = a
        BY <1>1, <1>2, <1>3
      <3> QED
        BY <1>3, <3>1, <3>2 DEF Range
    <2>2. r[n] = a /\ n \in DOMAIN r
      BY <1>1, <1>2, <1>3
    <2>3. ASSUME NEW i \in DOMAIN list
          PROVE  \E j \in DOMAIN r : r[j] = list[i]
      <3>1. CASE i < n
        BY <1>2, <1>3, <3>1
      <3>2. CASE ~(i < n)
        <4>1. i + 1 \in DOMAIN r /\ r[i + 1] = list[(i + 1) - 1] /\ (i + 1) - 1 = i
          BY <1>2, <1>3, <3>2
        <4> QED
          BY <4>1
      <3> QED
        BY <3>1, <3>2
    <2> QED
      BY <2>1, <2>2, <2>3 DEF Range
  <1>5. ASSUME InOrder(list, times)
        PROVE  InOrder(r, times)
    <2> SUFFICES ASSUME NEW i \in 1 .. Len(list) + 1, NEW j \in 1 .. Len(list) + 1, i < j
                 PROVE  times[r[i]] <= times[r[j]]
      BY <1>3 DEF InOrder
    <2>1. \A x, y \in 1 .. Len(list) : x < y => times[list[x]] <= times[list[y]]
      BY <1>3, <1>5 DEF InOrder
    <2>2. \A x \in 1 .. Len(list) : times[list[x]] \in Nat
      BY <1>3
    <2>3. \A x \in 1 .. Len(list) : n <= x => times[a] <= times[list[x]]
      <3> SUFFICES ASSUME NEW x \in 1 .. Len(list), n <= x
                   PROVE  times[a] <= times[list[x]]
        OBVIOUS
      <3>1. n \in 1 .. Len(list) /\ times[a] <= times[list[n]]
        BY <1>1, <1>3
      <3>2. n = x \/ times[list[n]] <= times[list[x]]
        BY <1>3, <2>1, <3>1
      <3> QED
        BY <2>2, <3>1, <3>2
    <2>4. \A x \in 1 .. Len(list) : x < n => times[list[x]] <= times[a]
      BY <1>1, <1>3, <2>2
    <2>5. CASE j < n
      BY <1>2, <1>3, <2>1, <2>5
    <2>6. CASE j = n
      <3>1. i \in 1 .. Len(list) /\ i < n
        BY <1>3, <2>6
      <3> QED
        BY <1>2, <1>3, <2>4, <2>6, <3>1
    <2>7. CASE j > n
      <3>1. j - 1 \in 1 .. Len(list) /\ n <= j - 1 /\ r[j] = list[j - 1]
        BY <1>2, <1>3, <2>7
      <3>2. CASE i < n
        <4>1. i \in 1 .. Len(list) /\ r[i] = list[i] /\ i < j - 1
          BY <1>2, <1>3, <2>7, <3>2
        <4> QED
          BY <2>1, <3>1, <4>1
      <3>3. CASE i = n
        BY <1>2, <2>3, <3>1, <3>3
      <3>4. CASE i > n
        <4>1. i - 1 \in 1 .. Len(list) /\ r[i] = list[i - 1] /\ i - 1 < j - 1
          BY <1>2, <1>3, <3>4
        <4> QED
          BY <2>1, <3>1, <4>1
      <3> QED
        BY <1>3, <3>2, <3>3, <3>4
    <2> QED
      BY <1>3, <2>5, <2>6, <2>7
  <1>6. ASSUME Once(list), a \notin Range(list)
        PROVE  Once(r)
    <2>1. \A x, y \in 1 .. Len(list) : x # y => list[x] # list[y]
      BY <1>3, <1>6 DEF Once
    <2>2. \A x \in 1 .. Len(list) : list[x] # a
      BY <1>3, <1>6 DEF Range
    <2> SUFFICES ASSUME NEW i \in 1 .. Len(list) + 1, NEW j \in 1 .. Len(list) + 1, i < j
                 PROVE  r[i] # r[j]
      BY <1>3 DEF Once
    <2>3. CASE j < n
      BY <1>2, <1>3, <2>1, <2>3
    <2>4. CASE j = n
      <3>1. i \in 1 .. Len(list) /\ r[i] = list[i] /\ r[j] = a
        BY <1>2, <1>3, <2>4
      <3> QED
        BY <2>2, <3>1
    <2>5. CASE j > n
      <3>1. j - 1 \in 1 .. Len(list) /\ r[j] = list[j - 1]
        BY <1>2, <1>3, <2>5
      <3>2. CASE i < n
        <4>1. i \in 1 .. Len(list) /\ r[i] = list[i] /\ i # j - 1
          BY <1>2, <1>3, <2>5, <3>2
        <4> QED
          BY <2>1, <3>1, <4>1
      <3>3. CASE i = n
        BY <1>2, <2>2, <3>1, <3>3
      <3>4. CASE i > n
        <4>1. i - 1 \in 1 .. Len(list) /\ r[i] = list[i - 1] /\ i - 1 # j - 1
          BY <1>2, <1>3, <3>4
        <4> QED
          BY <2>1, <3>1, <4>1
      <3> QED
        BY <1>3, <3>2, <3>3, <3>4
    <2> QED
      BY <1>3, <2>3, <2>4, <2>5
  <1>7. r # <<>>
    BY <1>2, <1>3
  <1> QED
    BY <1>2, <1>4, <1>5, <1>6, <1>7 DEF r

\* Taking the first alarm off.
LEMMA TailKeeps ==
  ASSUME NEW list \in Seq(Alarms), list # <<>>, NEW times \in [Alarms -> Nat],
         InOrder(list, times), Once(list)
  PROVE  /\ Head(list) \in Alarms /\ Tail(list) \in Seq(Alarms)
         /\ InOrder(Tail(list), times) /\ Once(Tail(list))
         /\ Range(list) = Range(Tail(list)) \cup {Head(list)}
         /\ Head(list) \notin Range(Tail(list))
         /\ \A b \in Range(Tail(list)) : times[Head(list)] <= times[b]
  <1> DEFINE t == Tail(list)
             n == Len(list)
  <1>1. /\ Head(list) = list[1] /\ list[1] \in Alarms /\ t \in Seq(Alarms)
        /\ n \in Nat /\ 1 <= n /\ Len(t) = n - 1
        /\ \A i \in 1 .. n - 1 : t[i] = list[i + 1]
        /\ DOMAIN list = 1 .. n /\ DOMAIN t = 1 .. n - 1
    <2>1. n \in Nat /\ 1 <= n /\ DOMAIN list = 1 .. n
      BY LenProperties, EmptySeq
    <2>2. t \in Seq(Alarms) /\ Len(t) = n - 1 /\ \A i \in 1 .. Len(t) : t[i] = list[i + 1]
      BY HeadTailProperties
    <2>3. DOMAIN t = 1 .. n - 1
      BY <2>2, LenProperties
    <2>4. Head(list) = list[1] /\ list[1] \in Alarms
      BY <2>1
    <2> QED
      BY <2>1, <2>2, <2>3, <2>4
  <1> HIDE DEF t, n
  <1>2. /\ \A i, j \in 1 .. n : i < j => times[list[i]] <= times[list[j]]
        /\ \A i, j \in 1 .. n : i # j => list[i] # list[j]
    BY <1>1 DEF InOrder, Once
  <1>3. \A i \in 1 .. n - 1 : i + 1 \in 1 .. n /\ t[i] = list[i + 1] /\ 1 < i + 1
    BY <1>1
  <1>4. \A i, j \in 1 .. n - 1 : (i < j => i + 1 < j + 1) /\ (i # j => i + 1 # j + 1)
    BY <1>1
  <1>5. InOrder(t, times) /\ Once(t)
    <2>1. \A i, j \in 1 .. n - 1 : i < j => times[t[i]] <= times[t[j]]
      BY <1>2, <1>3, <1>4
    <2>2. \A i, j \in 1 .. n - 1 : i # j => t[i] # t[j]
      BY <1>2, <1>3, <1>4
    <2> QED
      BY <1>1, <2>1, <2>2 DEF InOrder, Once
  <1>6. \A i \in 1 .. n - 1 : t[i] # list[1] /\ times[list[1]] <= times[t[i]]
    <2>1. 1 \in 1 .. n
      BY <1>1
    <2> QED
      BY <1>2, <1>3, <2>1
  <1>7. Range(list) = Range(t) \cup {list[1]}
    <2>1. ASSUME NEW i \in 1 .. n, i # 1
          PROVE  \E j \in 1 .. n - 1 : t[j] = list[i]
      <3>1. i - 1 \in 1 .. n - 1 /\ (i - 1) + 1 = i
        BY <1>1, <2>1
      <3> QED
        BY <1>3, <3>1
    <2>2. 1 \in 1 .. n
      BY <1>1
    <2> QED
      <3>1. \A x : x \in Range(t) <=> \E j \in 1 .. n - 1 : x = t[j]
        BY <1>1 DEF Range
      <3>2. \A x : x \in Range(list) <=> \E j \in 1 .. n : x = list[j]
        BY <1>1 DEF Range
      <3>3. ASSUME NEW x \in Range(list) PROVE x \in Range(t) \/ x = list[1]
        BY <2>1, <3>1, <3>2
      <3>4. ASSUME NEW x \in Range(t) PROVE x \in Range(list)
        BY <1>3, <3>1, <3>2
      <3>5. list[1] \in Range(list)
        BY <2>2, <3>2
      <3> QED
        BY <3>3, <3>4, <3>5
  <1> QED
    BY <1>1, <1>5, <1>6, <1>7 DEF Range, t

-----------------------------------------------------------------------------
\* A step of AlarmClock, or none.
ClockStep ==
  [(\E a \in Alarms : Clock!Set(a) \/ Clock!Ring(a)) \/ Clock!Tick]_(Clock!clockVars)

\* Whom Set and Hand say to be where.
LEMMA KeptFacts ==
  ASSUME IInv
  PROVE  /\ Listed \subseteq Alarms
         /\ \A a \in Listed : time[a] # 0 /\ a \notin printed
         /\ pc \in {"timed", "expired"} =>
              alarm \in Alarms /\ time[alarm] # 0 /\ alarm \notin printed /\ alarm \notin Listed
         /\ \A a \in Alarms : time[a] \in Nat
         /\ \A i \in DOMAIN alarm_list : alarm_list[i] \in Listed
  <1>1. Listed \subseteq Alarms /\ \A i \in DOMAIN alarm_list : alarm_list[i] \in Listed
    BY LenProperties DEF IInv, Types, Listed, Range
  <1> QED
    BY <1>1 DEF IInv, Types, Kept, Set, Hand

\* Only the clock and the sleep change.
LEMMA StepQuiet ==
  ASSUME IInv, Spurious \/ tick
  PROVE  IInv' /\ ClockStep
  <1>1. IInv'
    <2>1. Types'
      <3>1. asleep' \in BOOLEAN
        BY DEF IInv, Types, Spurious, tick
      <3>2. now' \in Nat \ {0}
        BY DEF IInv, Types, Spurious, tick
      <3> QED
        BY <3>1, <3>2 DEF IInv, Types, Spurious, tick
    <2>2. Kept'
      <3>1. /\ alarm_list' = alarm_list /\ time' = time /\ printed' = printed
            /\ Set' = Set /\ Hand' = Hand /\ Listed' = Listed
        BY DEF Set, Hand, Listed, Spurious, tick
      <3> QED
        BY <3>1 DEF IInv, Kept, InOrder, Once
    <2>3. Waits'
      BY DEF IInv, Types, Waits, Hand, Kept, Listed, Spurious, tick
    <2> QED
      BY <2>1, <2>2, <2>3 DEF IInv
  <1>2. ClockStep
    BY DEF ClockStep, Spurious, tick, Clock!Tick, Clock!clockVars
  <1> QED
    BY <1>1, <1>2

\* main reads a command: the alarm goes to its place in the list, and the
\* thread is woken if it would oversleep.
LEMMA StepInsert ==
  ASSUME IInv, NEW a \in Alarms, main_insert(a)
  PROVE  IInv' /\ ClockStep
  <1>1. PICK s \in Seconds :
          time' = [time EXCEPT ![a] = now + s] /\ alarm_insert(time', a)
    BY DEF main_insert
  <1>2. /\ pc # "top" /\ time[a] = 0
        /\ now' = now /\ pc' = pc /\ alarm' = alarm /\ printed' = printed
    BY DEF main_insert
  <1>3. s \in Nat /\ now \in Nat /\ now + s # 0 /\ now + s >= now /\ now + s \in Nat
    BY AlarmConstants DEF IInv, Types
  <1>4. /\ time' \in [Alarms -> Nat] /\ time'[a] = now + s
        /\ \A b \in Alarms : b # a => time'[b] = time[b]
    BY <1>1, <1>3 DEF IInv, Types
  <1>5. a \notin Listed /\ a \notin printed /\ a \notin Hand
    BY <1>2, KeptFacts DEF Hand, IInv, Kept, Set
  <1>6. alarm_list' = InsertSorted(alarm_list, time', a) /\ alarm_list \in Seq(Alarms)
    BY <1>1 DEF alarm_insert, IInv, Types
  <1>7. InOrder(alarm_list, time')
    <2>1. \A i \in DOMAIN alarm_list : time'[alarm_list[i]] = time[alarm_list[i]]
      BY <1>4, <1>5, KeptFacts
    <2> QED
      BY <2>1 DEF InOrder, IInv, Kept
  <1>8. /\ alarm_list' \in Seq(Alarms) /\ alarm_list' # <<>>
        /\ Listed' = Listed \cup {a}
        /\ InOrder(alarm_list, time)' /\ Once(alarm_list)'
    <2>1. Once(alarm_list) /\ a \notin Range(alarm_list)
      BY <1>5 DEF IInv, Kept, Listed
    <2>2. LET r == InsertSorted(alarm_list, time', a)
          IN  /\ r \in Seq(Alarms) /\ r # <<>>
              /\ Range(r) = Range(alarm_list) \cup {a}
              /\ InOrder(r, time') /\ Once(r)
      BY <1>4, <1>6, <1>7, <2>1, InsertKeeps
    <2>3. InOrder(alarm_list', time') /\ Once(alarm_list')
      BY <1>6, <2>2
    <2> QED
      BY <1>6, <2>2, <2>3 DEF Listed, InOrder, Once
  <1>9. Set' = Set \cup {a}
    BY <1>3, <1>4 DEF Set
  <1>10. Hand' = Hand
    BY <1>2 DEF Hand
  <1>11. Types'
    BY <1>1, <1>2, <1>4, <1>8 DEF Types, IInv, alarm_insert
  <1>12. Kept'
    BY <1>2, <1>5, <1>8, <1>9, <1>10 DEF Kept, IInv
  <1>13. IF MustWake(time'[a]) THEN current_alarm' = time'[a] /\ asleep' = FALSE
                               ELSE current_alarm' = current_alarm /\ asleep' = asleep
    BY <1>1 DEF alarm_insert
  <1>14. Waits'
    <2>1. pc \in {"timed", "expired"} =>
            alarm \in Alarms /\ time'[alarm] = time[alarm] /\ time[alarm] \in Nat
      BY <1>2, <1>4, KeptFacts
    <2>2. \A b \in Listed : time'[b] = time[b] /\ time[b] \in Nat
      BY <1>4, <1>5, KeptFacts
    <2>3. current_alarm \in Nat /\ asleep \in BOOLEAN
      BY DEF IInv, Types
    <2>4. asleep' => asleep /\ pc' \in {"idle", "timed"}
      BY <1>2, <1>13, <2>3 DEF IInv, Waits
    <2>5. pc = "idle" => ~asleep' /\ alarm_list' # <<>>
      BY <1>8, <1>13, <2>4 DEF IInv, Waits, MustWake
    <2>6. ASSUME pc = "timed"
          PROVE  /\ asleep' => current_alarm' = time'[alarm]
                 /\ current_alarm' # 0 /\ current_alarm' <= time'[alarm]
                 /\ current_alarm' = time'[alarm] =>
                      \A b \in Listed' : time'[alarm] <= time'[b]
      <3>1. /\ asleep => current_alarm = time[alarm]
            /\ current_alarm # 0 /\ current_alarm <= time[alarm]
            /\ current_alarm = time[alarm] => \A b \in Listed : time[alarm] <= time[b]
        BY <2>6 DEF IInv, Waits
      <3>2. CASE MustWake(time'[a])
        BY <1>3, <1>4, <1>13, <2>1, <2>3, <2>6, <3>1, <3>2 DEF MustWake
      <3>3. CASE ~MustWake(time'[a])
        <4>1. current_alarm <= time'[a]
          BY <1>3, <1>4, <2>3, <3>3 DEF MustWake
        <4> QED
          BY <1>8, <1>13, <2>1, <2>2, <2>6, <3>1, <3>3, <4>1
      <3> QED
        BY <3>2, <3>3
    <2>7. ASSUME pc = "expired"
          PROVE  time'[alarm] <= now /\ \A b \in Listed' : time'[alarm] <= time'[b]
      BY <1>3, <1>4, <1>8, <2>1, <2>2, <2>7 DEF IInv, Waits
    <2> QED
      BY <1>2, <2>4, <2>5, <2>6, <2>7 DEF Waits
  <1>15. Clock!Set(a)
    BY <1>1, <1>2, <1>3, <1>4, <1>5 DEF Clock!Set
  <1> QED
    BY <1>11, <1>12, <1>14, <1>15 DEF IInv, ClockStep

\* The thread takes the first alarm, the earliest.
LEMMA StepTake ==
  ASSUME IInv, pc = "top" \/ (pc = "idle" /\ ~asleep), alarm_list # <<>>, Take
  PROVE  IInv' /\ ClockStep
  <1>1. PICK a \in Alarms : a = Head(alarm_list)
    BY HeadTailProperties DEF IInv, Types
  <1>2. /\ alarm_list' \in Seq(Alarms)
        /\ InOrder(alarm_list', time) /\ Once(alarm_list')
        /\ Listed = Listed' \cup {a} /\ a \notin Listed'
        /\ \A b \in Listed' : time[a] <= time[b]
    BY <1>1, TailKeeps DEF Take, Unlink, IInv, Types, Kept, Listed
  <1>3. now' = now /\ time' = time /\ Hand = {} /\ ~asleep
    BY DEF Take, Hand, IInv, Waits
  <1>4. InOrder(alarm_list, time)' /\ Once(alarm_list)' /\ Set' = Set
    BY <1>2, <1>3 DEF InOrder, Once, Set
  <1>5. time[a] \in Nat /\ time[a] # 0 /\ a \notin printed /\ a \in Set
    BY <1>1, <1>2, KeptFacts DEF Set
  <1>6. CASE time[a] > now
    <2>1. /\ current_alarm' = time[a] /\ pc' = "timed" /\ asleep' = TRUE
          /\ alarm' = a /\ printed' = printed
      BY <1>1, <1>6 DEF Take
    <2>2. Types'
      BY <1>2, <1>3, <1>5, <2>1 DEF Types, IInv
    <2>3. Hand' = {a}
      BY <2>1 DEF Hand
    <2>4. Kept'
      BY <1>2, <1>3, <1>4, <1>5, <2>1, <2>3 DEF Kept, IInv
    <2>5. Waits'
      BY <1>2, <1>3, <1>5, <2>1 DEF Waits
    <2>6. ClockStep
      BY <1>3, <2>1 DEF ClockStep, Clock!clockVars
    <2> QED
      BY <2>2, <2>4, <2>5, <2>6 DEF IInv
  <1>7. CASE ~(time[a] > now)
    <2>1. /\ printed' = printed \cup {a} /\ pc' = "top" /\ current_alarm' = 0
          /\ asleep' = asleep /\ alarm' = alarm
      BY <1>1, <1>7 DEF Take
    <2>2. Types'
      BY <1>2, <1>3, <1>5, <2>1 DEF Types, IInv
    <2>3. Hand' = {}
      BY <2>1 DEF Hand
    <2>4. Kept'
      BY <1>2, <1>3, <1>4, <1>5, <2>1, <2>3 DEF Kept, IInv
    <2>5. Waits'
      BY <1>3, <2>1 DEF Waits
    <2>6. time[a] <= now
      BY <1>5, <1>7 DEF IInv, Types
    <2>7. \A b \in Set \ printed : time[a] <= time[b]
      BY <1>2, <1>3, <1>5 DEF IInv, Kept
    <2>8. Clock!Ring(a)
      BY <1>3, <1>5, <2>1, <2>6, <2>7 DEF Clock!Ring, Set
    <2> QED
      BY <2>2, <2>4, <2>5, <2>8 DEF IInv, ClockStep
  <1> QED
    BY <1>6, <1>7

\* The thread sleeps again, starts, or finds that its time has come.
LEMMA StepWait ==
  ASSUME IInv,
         \/ thread_start
         \/ thread_top /\ alarm_list = <<>>
         \/ idle_woken /\ alarm_list = <<>>
         \/ timed_woken /\ current_alarm = time[alarm]
         \/ timed_out
  PROVE  IInv' /\ ClockStep
  <1>1. /\ now' = now /\ time' = time /\ printed' = printed
        /\ alarm_list' = alarm_list /\ alarm' = alarm
    BY DEF thread_start, thread_top, idle_woken, timed_woken, timed_out, WaitAgain
  <1>2. Hand' = Hand
    BY <1>1 DEF thread_start, thread_top, idle_woken, timed_woken, timed_out, WaitAgain, Hand
  <1>3. Types'
    <2>1. asleep' = asleep \/ asleep' = TRUE \/ asleep' = FALSE
      BY DEF thread_start, thread_top, idle_woken, timed_woken, timed_out, WaitAgain
    <2>2. asleep' \in BOOLEAN
      BY <2>1 DEF Types, IInv
    <2>3. /\ pc' \in {"start", "top", "idle", "timed", "expired"}
          /\ current_alarm' \in Nat
      BY DEF thread_start, thread_top, idle_woken, timed_woken, timed_out, WaitAgain, Types, IInv
    <2> QED
      BY <1>1, <2>2, <2>3 DEF Types, IInv
  <1>4. Kept'
    BY <1>1, <1>2 DEF Kept, IInv, Listed, Set, InOrder, Once
  <1>5. Listed' = Listed
    BY <1>1 DEF Listed
  <1>6. Waits'
    <2>1. CASE thread_start
      BY <1>1, <1>5, <2>1 DEF thread_start, Waits, IInv
    <2>2. CASE thread_top /\ alarm_list = <<>>
      BY <1>1, <2>2 DEF thread_top, Waits, IInv
    <2>3. CASE idle_woken /\ alarm_list = <<>>
      BY <1>1, <2>3 DEF idle_woken, Waits, IInv
    <2>4. CASE timed_woken /\ current_alarm = time[alarm]
      BY <1>1, <1>5, <2>4 DEF timed_woken, WaitAgain, Waits, IInv
    <2>5. CASE timed_out
      BY <1>1, <1>5, <2>5 DEF timed_out, Waits, IInv
    <2> QED
      BY <2>1, <2>2, <2>3, <2>4, <2>5
  <1>7. ClockStep
    BY <1>1 DEF ClockStep, Clock!clockVars
  <1> QED
    BY <1>3, <1>4, <1>6, <1>7 DEF IInv

\* The thread puts its alarm back for an earlier one.
LEMMA StepBack ==
  ASSUME IInv, timed_woken, current_alarm # time[alarm]
  PROVE  IInv' /\ ClockStep
  <1>1. /\ pc = "timed" /\ ~asleep /\ pc' = "top" /\ alarm' = NULL
        /\ alarm_insert(time, alarm)
        /\ now' = now /\ time' = time /\ printed' = printed
    BY DEF timed_woken, WaitAgain
  <1>2. /\ alarm \in Alarms /\ alarm \notin Listed /\ time[alarm] \in Nat
        /\ current_alarm \in Nat /\ current_alarm # 0 /\ current_alarm <= time[alarm]
        /\ Hand = {alarm}
    BY <1>1, KeptFacts DEF IInv, Types, Waits, Hand
  <1>3. current_alarm' = current_alarm /\ asleep' = asleep
    BY <1>1, <1>2 DEF alarm_insert, MustWake
  <1>4. /\ alarm_list' \in Seq(Alarms)
        /\ Listed' = Listed \cup {alarm}
        /\ InOrder(alarm_list', time) /\ Once(alarm_list')
    <2>1. /\ alarm_list \in Seq(Alarms) /\ time \in [Alarms -> Nat]
          /\ InOrder(alarm_list, time) /\ Once(alarm_list) /\ alarm \notin Range(alarm_list)
      BY <1>2 DEF IInv, Types, Kept, Listed
    <2> QED
      BY <1>1, <1>2, <2>1, InsertKeeps DEF alarm_insert, Listed
  <1>5. InOrder(alarm_list, time)' /\ Once(alarm_list)' /\ Set' = Set
    BY <1>1, <1>4 DEF InOrder, Once, Set
  <1>6. Types'
    BY <1>1, <1>3, <1>4 DEF Types, IInv
  <1>7. Hand' = {}
    BY <1>1 DEF Hand
  <1>8. Kept'
    BY <1>1, <1>2, <1>4, <1>5, <1>7 DEF Kept, IInv
  <1>9. Waits'
    BY <1>1, <1>3 DEF Waits
  <1>10. ClockStep
    BY <1>1 DEF ClockStep, Clock!clockVars
  <1> QED
    BY <1>6, <1>8, <1>9, <1>10 DEF IInv

\* The alarm in its hands rings.
LEMMA StepRing ==
  ASSUME IInv, timed_expired
  PROVE  IInv' /\ ClockStep
  <1>1. /\ pc = "expired" /\ printed' = printed \cup {alarm}
        /\ pc' = "top" /\ alarm' = NULL /\ current_alarm' = 0
        /\ now' = now /\ alarm_list' = alarm_list /\ time' = time /\ asleep' = asleep
    BY DEF timed_expired
  <1>2. /\ alarm \in Alarms /\ time[alarm] # 0 /\ alarm \notin printed
        /\ alarm \notin Listed /\ time[alarm] \in Nat /\ ~asleep
        /\ Hand = {alarm} /\ time[alarm] <= now
        /\ \A b \in Listed : time[alarm] <= time[b]
    BY <1>1, KeptFacts DEF IInv, Waits, Hand
  <1>3. Hand' = {} /\ Listed' = Listed /\ Set' = Set
    BY <1>1 DEF Hand, Listed, Set
  <1>4. Types'
    BY <1>1, <1>2 DEF Types, IInv
  <1>5. alarm \in Set
    BY <1>2 DEF Set
  <1>6. Kept'
    BY <1>1, <1>2, <1>3, <1>5 DEF Kept, IInv, InOrder, Once
  <1>7. Waits'
    BY <1>1, <1>2 DEF Waits
  <1>8. \A b \in Set \ printed : time[alarm] <= time[b]
    BY <1>2 DEF IInv, Kept
  <1>9. PICK a \in Alarms : a = alarm
    BY <1>2
  <1>10. Clock!Ring(a)
    BY <1>1, <1>2, <1>8, <1>9 DEF Clock!Ring, Set
  <1> QED
    BY <1>4, <1>6, <1>7, <1>10 DEF IInv, ClockStep

-----------------------------------------------------------------------------
LEMMA AlarmInit ==
  ASSUME Init
  PROVE  IInv /\ Clock!ClockInit
  <1>1. Types /\ Waits
    <2>1. alarm_list \in Seq(Alarms)
      BY EmptySeq DEF Init
    <2>2. asleep \in BOOLEAN /\ Waits
      BY DEF Init, Waits
    <2> QED
      BY <2>1, <2>2 DEF Init, Types
  <1>2. Set = {} /\ Hand = {} /\ Listed = {} /\ printed = {}
    BY DEF Init, Set, Hand, Listed, Range
  <1>3. Kept
    BY <1>2 DEF Init, Kept, InOrder, Once
  <1>4. Clock!ClockInit
    BY DEF Init, Clock!ClockInit
  <1> QED
    BY <1>1, <1>3, <1>4 DEF IInv

LEMMA AlarmNext ==
  ASSUME IInv, [Next]_vars
  PROVE  IInv' /\ ClockStep
  <1>1. CASE UNCHANGED vars
    <2>1. Listed' = Listed /\ Set' = Set /\ Hand' = Hand
      BY <1>1 DEF vars, Listed, Set, Hand
    <2>2. IInv'
      BY <1>1, <2>1 DEF vars, IInv, Types, Kept, Waits, InOrder, Once
    <2>3. ClockStep
      BY <1>1 DEF vars, ClockStep, Clock!clockVars
    <2> QED
      BY <2>2, <2>3
  <1>2. CASE \E a \in Alarms : main_insert(a)
    BY <1>2, StepInsert
  <1>3. CASE thread_start \/ timed_out
    BY <1>3, StepWait
  <1>4. CASE thread_top
    <2>1. CASE alarm_list = <<>>
      BY <1>4, <2>1, StepWait
    <2>2. CASE alarm_list # <<>>
      BY <1>4, <2>2, StepTake DEF thread_top
    <2> QED
      BY <2>1, <2>2
  <1>5. CASE idle_woken
    <2>1. CASE alarm_list = <<>>
      BY <1>5, <2>1, StepWait
    <2>2. CASE alarm_list # <<>>
      BY <1>5, <2>2, StepTake DEF idle_woken
    <2> QED
      BY <2>1, <2>2
  <1>6. CASE timed_woken
    BY <1>6, StepWait, StepBack
  <1>7. CASE timed_expired
    BY <1>7, StepRing
  <1>8. CASE Spurious \/ tick
    BY <1>8, StepQuiet
  <1> QED
    BY <1>1, <1>2, <1>3, <1>4, <1>5, <1>6, <1>7, <1>8 DEF Next, alarm_thread

\* The alarm thread never oversleeps, however many alarms there are: current_alarm
\* tells main whenever the thread sleeps longer than a new alarm allows.
THEOREM NeverOversleeps == FairSpec => []SleepsUntilEarliest
  <1>1. Init => IInv
    BY AlarmInit
  <1>2. IInv /\ [Next]_vars => IInv'
    BY AlarmNext
  <1>3. IInv => SleepsUntilEarliest
    BY DEF IInv, Waits, SleepsUntilEarliest
  <1> QED
    BY <1>1, <1>2, <1>3, PTL DEF FairSpec

\* alarm_cond.c is an alarm clock: every step of main and of the alarm thread
\* sets an alarm, rings the earliest when it is due, or does neither.
THEOREM AlarmClockImplemented == FairSpec => IsAlarmClock
  <1>1. Init => IInv /\ Clock!ClockInit
    BY AlarmInit
  <1>2. IInv /\ [Next]_vars => IInv' /\ ClockStep
    BY AlarmNext
  <1>3. ClockStep <=>
          [(\E a \in Alarms : Clock!Set(a) \/ Clock!Ring(a)) \/ Clock!Tick]_(Clock!clockVars)
    BY DEF ClockStep
  <1> QED
    BY <1>1, <1>2, <1>3, PTL DEF FairSpec, IsAlarmClock, Clock!ClockSpec
=============================================================================
