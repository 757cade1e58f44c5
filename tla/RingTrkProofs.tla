--------------------------- MODULE RingTrkProofs ---------------------------
(***************************************************************************)
(* What the tracker's queue operations do to a queue, for any depth and    *)
(* any queue contents: the facts the proofs about RingCmd cite.            *)
(***************************************************************************)
EXTENDS RingTrk, SequenceTheorems, NaturalsInduction, WellFoundedInduction, TLAPS

(* Every nonempty set of naturals has a least element: the library's        *)
(* well-foundedness of <, restated without its operator parameter.          *)
LEMMA LeastNat ==
  ASSUME NEW T \in SUBSET Nat, T # {}
  PROVE  \E m \in T : \A n \in T : m <= n
<1> DEFINE R == {ss \in Nat \X Nat : ss[1] < ss[2]}
<1>1. IsWellFoundedOn(R, Nat)
  BY NatLessThanWellFounded DEF OpToRel
<1>2. \E m \in T : \A n \in T : <<n, m>> \notin R
  <2> HIDE DEF R
  <2> QED BY <1>1, WFMin
<1>3. \A n, m \in Nat : n < m => <<n, m>> \in R
  OBVIOUS
<1> HIDE DEF R
<1>4. PICK m \in T : \A n \in T : <<n, m>> \notin R
  BY <1>2
<1>5. \A n \in T : m <= n
  <2> TAKE n \in T
  <2>1. n \in Nat /\ m \in Nat
    OBVIOUS
  <2>2. ~(n < m)
    BY <2>1, <1>3, <1>4
  <2>3. QED BY <2>1, <2>2
<1>6. QED BY <1>5

(* Inserting at k keeps what precedes k and shifts the rest by one.         *)
LEMMA InsertAtProperties ==
  ASSUME NEW S, NEW s \in Seq(S), NEW k \in 1 .. Len(s) + 1, NEW e \in S
  PROVE  /\ InsertAt(s, k, e) \in Seq(S)
         /\ Len(InsertAt(s, k, e)) = Len(s) + 1
         /\ \A i \in 1 .. Len(s) + 1 :
              InsertAt(s, k, e)[i] = IF i < k THEN s[i] ELSE IF i = k THEN e ELSE s[i - 1]
<1> DEFINE a == SubSeq(s, 1, k - 1)
           c == SubSeq(s, k, Len(s))
<1>1. /\ a \in Seq(S)
      /\ Len(a) = k - 1
      /\ \A i \in 1 .. k - 1 : a[i] = s[i]
  BY SubSeqProperties, ElementOfSeq
<1>2. /\ c \in Seq(S)
      /\ Len(c) = Len(s) + 1 - k
      /\ \A i \in 1 .. Len(s) + 1 - k : c[i] = s[k + i - 1]
  BY SubSeqProperties, ElementOfSeq
<1>3. <<e>> \in Seq(S) /\ Len(<<e>>) = 1 /\ <<e>>[1] = e
  OBVIOUS
<1> DEFINE b == a \o <<e>>
<1>4. /\ b \in Seq(S)
      /\ Len(b) = k
      /\ \A i \in 1 .. k : b[i] = IF i < k THEN s[i] ELSE e
  <2> HIDE DEF a
  <2> QED BY <1>1, <1>3, ConcatProperties
<1>5. /\ b \o c \in Seq(S)
      /\ Len(b \o c) = Len(s) + 1
      /\ \A i \in 1 .. Len(s) + 1 : (b \o c)[i] = IF i <= k THEN b[i] ELSE c[i - k]
  <2> HIDE DEF b, c
  <2>1. /\ b \o c \in Seq(S)
        /\ Len(b \o c) = Len(b) + Len(c)
        /\ \A i \in 1 .. Len(b) + Len(c) :
             (b \o c)[i] = IF i <= Len(b) THEN b[i] ELSE c[i - Len(b)]
    BY <1>2, <1>4, ConcatProperties
  <2>2. Len(b) + Len(c) = Len(s) + 1
    BY <1>2, <1>4, LenProperties
  <2>3. QED BY <1>4, <2>1, <2>2
<1>6. \A i \in 1 .. Len(s) + 1 :
        (b \o c)[i] = IF i < k THEN s[i] ELSE IF i = k THEN e ELSE s[i - 1]
  <2> HIDE DEF b, c
  <2> QED BY <1>2, <1>4, <1>5
<1>7. InsertAt(s, k, e) = b \o c
  BY DEF InsertAt
<1>8. QED BY <1>5, <1>6, <1>7

(* Removing position k shifts what follows it down by one.                  *)
LEMMA RemoveAtProperties ==
  ASSUME NEW S, NEW s \in Seq(S), NEW k \in 1 .. Len(s)
  PROVE  /\ RemoveAt(s, k) \in Seq(S)
         /\ Len(RemoveAt(s, k)) = Len(s) - 1
         /\ \A i \in 1 .. Len(s) - 1 :
              RemoveAt(s, k)[i] = IF i < k THEN s[i] ELSE s[i + 1]
<1> DEFINE a == SubSeq(s, 1, k - 1)
           c == SubSeq(s, k + 1, Len(s))
<1>1. /\ a \in Seq(S)
      /\ Len(a) = k - 1
      /\ \A i \in 1 .. k - 1 : a[i] = s[i]
  BY SubSeqProperties, ElementOfSeq
<1>2. /\ c \in Seq(S)
      /\ Len(c) = Len(s) - k
      /\ \A i \in 1 .. Len(s) - k : c[i] = s[k + i]
  BY SubSeqProperties, ElementOfSeq
<1>3. /\ a \o c \in Seq(S)
      /\ Len(a \o c) = Len(s) - 1
      /\ \A i \in 1 .. Len(s) - 1 : (a \o c)[i] = IF i < k THEN s[i] ELSE s[i + 1]
  <2> HIDE DEF a, c
  <2>1. /\ a \o c \in Seq(S)
        /\ Len(a \o c) = Len(a) + Len(c)
        /\ \A i \in 1 .. Len(a) + Len(c) :
             (a \o c)[i] = IF i <= Len(a) THEN a[i] ELSE c[i - Len(a)]
    BY <1>1, <1>2, ConcatProperties
  <2>2. Len(a) + Len(c) = Len(s) - 1
    BY <1>1, <1>2, LenProperties
  <2>3. ASSUME NEW i \in 1 .. Len(s) - 1
        PROVE  (a \o c)[i] = IF i < k THEN s[i] ELSE s[i + 1]
    <3>1. (a \o c)[i] = IF i <= k - 1 THEN a[i] ELSE c[i - (k - 1)]
      BY <1>1, <2>1, <2>2
    <3>2. CASE i < k
      BY <1>1, <3>1, <3>2
    <3>3. CASE ~(i < k)
      <4>1. i - (k - 1) \in 1 .. Len(s) - k /\ k + (i - (k - 1)) = i + 1
        BY <3>3, LenProperties
      <4>2. c[i - (k - 1)] = s[k + (i - (k - 1))]
        BY <4>1, <1>2
      <4>3. QED BY <3>1, <3>3, <4>1, <4>2
    <3>4. QED BY <3>2, <3>3
  <2>4. QED BY <2>1, <2>2, <2>3
<1>4. QED BY <1>3 DEF RemoveAt

-----------------------------------------------------------------------------
(* The conditions on a queue that its operations must keep. *)

Distinct(q) == \A i, j \in DOMAIN q : q[i].seq = q[j].seq => i = j

Ordered(q) ==
  \A i, j \in DOMAIN q : i < j =>
    /\ q[j].att = 0
    /\ (q[i].type \in ConfigTypes /\ q[j].type \in PriorityTypes) => q[i].att > 0

(* The insertion point exists, is never in front of the frame in flight,    *)
(* and a command that goes there passes config frames only.                 *)
LEMMA InsertSlotProperties ==
  ASSUME NEW S, NEW q \in Seq(S), NEW type
  PROVE  /\ InsertSlot(q, type) \in FirstSlot(q) .. Len(q) + 1
         /\ type \in PriorityTypes =>
              \A i \in FirstSlot(q) .. InsertSlot(q, type) - 1 : q[i].type \in PriorityTypes
         /\ type \notin PriorityTypes => InsertSlot(q, type) = Len(q) + 1
<1> DEFINE F == FirstSlot(q)
           Stop == {k \in F .. Len(q) + 1 : k <= Len(q) => q[k].type \notin PriorityTypes}
           Good(k) == /\ \A i \in F .. k - 1 : q[i].type \in PriorityTypes
                      /\ k <= Len(q) => q[k].type \notin PriorityTypes
<1>1. /\ Len(q) \in Nat
      /\ F \in Nat
      /\ F <= Len(q) + 1
  <2>1. Len(q) \in Nat
    BY LenProperties
  <2>2. q # <<>> => Len(q) > 0
    BY EmptySeq
  <2>3. QED BY <2>1, <2>2 DEF FirstSlot, InFlight
<1>2. CASE type \in PriorityTypes
  <2>1. Stop \in SUBSET Nat /\ Len(q) + 1 \in Stop
    BY <1>1
  <2>2. PICK m \in Stop : \A n \in Stop : m <= n
    BY <2>1, LeastNat
  <2>3. m \in F .. Len(q) + 1 /\ Good(m)
    <3>1. m \in F .. Len(q) + 1 /\ (m <= Len(q) => q[m].type \notin PriorityTypes)
      OBVIOUS
    <3>2. ASSUME NEW i \in F .. m - 1, q[i].type \notin PriorityTypes
          PROVE  FALSE
      <4>1. i \in Stop
        BY <1>1, <3>1, <3>2
      <4>2. m <= i
        BY <4>1, <2>2
      <4>3. QED BY <4>2, <3>1, <1>1
    <3>3. QED BY <3>1, <3>2
  <2>4. \E k \in F .. Len(q) + 1 : Good(k)
    BY <2>3
  <2>5. InsertSlot(q, type) = CHOOSE k \in F .. Len(q) + 1 : Good(k)
    BY <1>2 DEF InsertSlot
  <2>6. InsertSlot(q, type) \in F .. Len(q) + 1 /\ Good(InsertSlot(q, type))
    BY <2>4, <2>5
  <2>7. QED BY <1>2, <2>6
<1>3. CASE type \notin PriorityTypes
  BY <1>1, <1>3 DEF InsertSlot
<1>4. QED BY <1>2, <1>3

(* Queueing an entry loses none, repeats none and keeps the queue's order.  *)
LEMMA SubmittedProperties ==
  ASSUME NEW S, NEW q \in Seq(S), NEW e \in S
  PROVE  /\ Submitted(q, e) \in Seq(S)
         /\ Len(Submitted(q, e)) = Len(q) + 1
         /\ SeqsOf(Submitted(q, e)) = SeqsOf(q) \cup {e.seq}
         /\ Distinct(q) /\ e.seq \notin SeqsOf(q) => Distinct(Submitted(q, e))
         /\ Ordered(q) /\ e.att = 0 /\ (\A x \in S : x.att \in Nat) => Ordered(Submitted(q, e))
<1> DEFINE k == InsertSlot(q, e.type)
           t == Submitted(q, e)
           n == Len(q)
<1>1. /\ n \in Nat
      /\ DOMAIN q = 1 .. n
      /\ k \in 1 .. n + 1
      /\ InFlight(q) => k >= 2
  <2>1. n \in Nat /\ DOMAIN q = 1 .. n
    BY LenProperties
  <2>2. k \in FirstSlot(q) .. n + 1
    BY InsertSlotProperties
  <2>3. QED BY <2>1, <2>2 DEF FirstSlot
<1>2. /\ t \in Seq(S)
      /\ Len(t) = n + 1
      /\ \A i \in 1 .. n + 1 : t[i] = IF i < k THEN q[i] ELSE IF i = k THEN e ELSE q[i - 1]
  <2>1. t = InsertAt(q, k, e)
    BY DEF Submitted
  <2>2. PICK m \in 1 .. Len(q) + 1 : m = k
    BY <1>1
  <2>3. /\ InsertAt(q, m, e) \in Seq(S)
        /\ Len(InsertAt(q, m, e)) = Len(q) + 1
    <3>1. InsertAt(q, m, e) \in Seq(S)
      BY InsertAtProperties
    <3>2. Len(InsertAt(q, m, e)) = Len(q) + 1
      BY InsertAtProperties
    <3>3. QED BY <3>1, <3>2
  <2>4. \A i \in 1 .. Len(q) + 1 :
          InsertAt(q, m, e)[i] = IF i < m THEN q[i] ELSE IF i = m THEN e ELSE q[i - 1]
    BY InsertAtProperties
  <2> HIDE DEF t, k
  <2>5. QED BY <2>1, <2>2, <2>3, <2>4
<1>3. DOMAIN t = 1 .. n + 1
  BY <1>2, LenProperties
<1>4. /\ (e.type \in PriorityTypes =>
            \A i \in 1 .. k - 1 : q[i].type \in PriorityTypes \/ (i = 1 /\ InFlight(q)))
      /\ (e.type \notin PriorityTypes => k = n + 1)
  BY <1>1, InsertSlotProperties DEF FirstSlot
<1> HIDE DEF k, t, n
<1>5. SeqsOf(t) = SeqsOf(q) \cup {e.seq}
  <2>1. ASSUME NEW i \in 1 .. n PROVE \E j \in 1 .. n + 1 : t[j] = q[i]
    <3>1. CASE i < k
      BY <1>1, <1>2, <3>1
    <3>2. CASE ~(i < k)
      <4>1. i + 1 \in 1 .. n + 1 /\ t[i + 1] = q[i]
        BY <1>1, <1>2, <3>2
      <4>2. QED BY <4>1
    <3>3. QED BY <3>1, <3>2
  <2>2. t[k] = e
    BY <1>1, <1>2
  <2>3. ASSUME NEW j \in 1 .. n + 1 PROVE t[j] = e \/ \E i \in 1 .. n : t[j] = q[i]
    <3>1. CASE j < k
      <4>1. j \in 1 .. n
        BY <1>1, <3>1
      <4>2. QED BY <4>1, <1>2, <3>1
    <3>2. CASE j = k
      BY <2>2, <3>2
    <3>3. CASE j > k
      <4>1. j - 1 \in 1 .. n /\ t[j] = q[j - 1]
        BY <1>1, <1>2, <3>3
      <4>2. QED BY <4>1
    <3>4. QED BY <1>1, <3>1, <3>2, <3>3
  <2>4. ASSUME NEW s \in SeqsOf(q) PROVE s \in SeqsOf(t)
    BY <1>1, <1>3, <2>1 DEF SeqsOf
  <2>5. e.seq \in SeqsOf(t)
    BY <1>1, <1>3, <2>2 DEF SeqsOf
  <2>6. ASSUME NEW s \in SeqsOf(t) PROVE s \in SeqsOf(q) \cup {e.seq}
    <3>1. PICK j \in 1 .. n + 1 : s = t[j].seq
      BY <1>3 DEF SeqsOf
    <3>2. QED BY <1>1, <2>3, <3>1 DEF SeqsOf
  <2>7. QED BY <2>4, <2>5, <2>6
<1>6. Distinct(q) /\ e.seq \notin SeqsOf(q) => Distinct(t)
  <2> SUFFICES ASSUME Distinct(q), e.seq \notin SeqsOf(q),
                      NEW i \in 1 .. n + 1, NEW j \in 1 .. n + 1, i < j
               PROVE  t[i].seq # t[j].seq
    BY <1>1, <1>3 DEF Distinct
  <2>1. \A a, b \in 1 .. n : a # b => q[a].seq # q[b].seq
    BY <1>1 DEF Distinct
  <2>2. \A a \in 1 .. n : q[a].seq # e.seq
    BY <1>1 DEF SeqsOf
  <2>3. CASE j < k
    BY <1>1, <1>2, <2>1, <2>3
  <2>4. CASE j = k
    BY <1>1, <1>2, <2>2, <2>4
  <2>5. CASE j > k /\ i < k
    <3>1. i \in 1 .. n /\ j - 1 \in 1 .. n /\ i # j - 1 /\ t[i] = q[i] /\ t[j] = q[j - 1]
      BY <1>1, <1>2, <2>5
    <3>2. QED BY <2>1, <3>1
  <2>6. CASE j > k /\ i = k
    <3>1. j - 1 \in 1 .. n /\ t[i] = e /\ t[j] = q[j - 1]
      BY <1>1, <1>2, <2>6
    <3>2. QED BY <2>2, <3>1
  <2>7. CASE j > k /\ i > k
    <3>1. i - 1 \in 1 .. n /\ j - 1 \in 1 .. n /\ i - 1 # j - 1 /\ t[i] = q[i - 1] /\ t[j] = q[j - 1]
      BY <1>1, <1>2, <2>7
    <3>2. QED BY <2>1, <3>1
  <2>8. QED BY <1>1, <2>3, <2>4, <2>5, <2>6, <2>7
<1>7. Ordered(q) /\ e.att = 0 /\ (\A x \in S : x.att \in Nat) => Ordered(t)
  <2> SUFFICES ASSUME Ordered(q), e.att = 0, \A x \in S : x.att \in Nat,
                      NEW i \in 1 .. n + 1, NEW j \in 1 .. n + 1, i < j
               PROVE  /\ t[j].att = 0
                      /\ (t[i].type \in ConfigTypes /\ t[j].type \in PriorityTypes) => t[i].att > 0
    BY <1>3 DEF Ordered
  <2>1. InFlight(q) \/ \A m \in 1 .. n : q[m].att = 0
    <3>1. q # <<>> => (InFlight(q) \/ q[1].att = 0)
      <4>1. q # <<>> => q[1].att \in Nat
        BY ElementOfSeq, EmptySeq, LenProperties
      <4>2. QED BY <4>1 DEF InFlight
    <3>2. \A m \in 1 .. n : m > 1 => q[m].att = 0
      BY <1>1 DEF Ordered
    <3>3. \A m \in 1 .. n : q # <<>>
      BY <1>1
    <3>4. QED BY <3>1, <3>2, <3>3
  <2>2. ConfigTypes \cap PriorityTypes = {}
    BY DEF ConfigTypes, PriorityTypes
  <2>3. CASE j < k
    <3>1. i \in 1 .. n /\ j \in 1 .. n /\ t[i] = q[i] /\ t[j] = q[j]
      BY <1>1, <1>2, <2>3
    <3>2. QED BY <1>1, <3>1 DEF Ordered
  <2>4. CASE j = k
    <3>1. t[j] = e /\ t[i] = q[i] /\ i \in 1 .. k - 1
      BY <1>1, <1>2, <2>4
    <3>2. QED BY <1>4, <2>2, <3>1 DEF InFlight
  <2>5. CASE j > k /\ i < k
    <3>1. i \in 1 .. n /\ j - 1 \in 1 .. n /\ t[i] = q[i] /\ t[j] = q[j - 1] /\ i < j - 1
      BY <1>1, <1>2, <2>5
    <3>2. QED BY <1>1, <3>1 DEF Ordered
  <2>6. CASE j > k /\ i = k
    <3>1. j - 1 \in 1 .. n /\ t[i] = e /\ t[j] = q[j - 1]
      BY <1>1, <1>2, <2>6
    <3>2. e.type \in PriorityTypes
      BY <1>1, <1>4, <2>6
    <3>3. q[j - 1].att = 0
      <4>1. CASE InFlight(q)
        <5>1. j - 1 > 1
          BY <1>1, <2>6, <4>1
        <5>2. 1 \in 1 .. n /\ 1 < j - 1
          BY <5>1, <3>1, <1>1
        <5>3. QED BY <1>1, <3>1, <5>2 DEF Ordered
      <4>2. QED BY <2>1, <3>1, <4>1
    <3>4. QED BY <2>2, <3>1, <3>2, <3>3
  <2>7. CASE j > k /\ i > k
    <3>1. i - 1 \in 1 .. n /\ j - 1 \in 1 .. n /\ t[i] = q[i - 1] /\ t[j] = q[j - 1] /\ i - 1 < j - 1
      BY <1>1, <1>2, <2>7
    <3>2. QED BY <1>1, <3>1 DEF Ordered
  <2>8. QED BY <1>1, <2>3, <2>4, <2>5, <2>6, <2>7
<1>8. QED BY <1>2, <1>5, <1>6, <1>7 DEF t, n

(* t is q without its k-th entry. *)
Without(t, q, k) ==
  /\ Len(t) = Len(q) - 1
  /\ \A i \in 1 .. Len(q) - 1 : t[i] = IF i < k THEN q[i] ELSE q[i + 1]

(* Taking one entry out leaves the others as they were: the head on an ACK  *)
(* or a failure, any entry that has not been sent on a cancel.              *)
LEMMA RemovedProperties ==
  ASSUME NEW S, NEW q \in Seq(S), NEW k \in 1 .. Len(q), NEW t \in Seq(S), Without(t, q, k)
  PROVE  /\ SeqsOf(t) \subseteq SeqsOf(q)
         /\ SeqsOf(q) \subseteq SeqsOf(t) \cup {q[k].seq}
         /\ Distinct(q) => Distinct(t) /\ q[k].seq \notin SeqsOf(t)
         /\ Ordered(q) => Ordered(t)
<1> DEFINE n == Len(q)
           From(i) == IF i < k THEN i ELSE i + 1
<1>1. /\ n \in Nat
      /\ DOMAIN q = 1 .. n
      /\ DOMAIN t = 1 .. n - 1
  BY LenProperties DEF Without
<1>2. /\ \A i \in 1 .. n - 1 : From(i) \in 1 .. n /\ From(i) # k /\ t[i] = q[From(i)]
      /\ \A i, j \in 1 .. n - 1 : i < j => From(i) < From(j)
  BY <1>1 DEF Without
<1>3. \A m \in 1 .. n : m = k \/ \E i \in 1 .. n - 1 : From(i) = m
  <2> SUFFICES ASSUME NEW m \in 1 .. n, m # k
               PROVE  \E i \in 1 .. n - 1 : From(i) = m
    OBVIOUS
  <2>1. CASE m < k
    <3>1. m \in 1 .. n - 1 /\ From(m) = m
      BY <1>1, <2>1
    <3>2. QED BY <3>1
  <2>2. CASE m > k
    <3>1. m - 1 \in 1 .. n - 1 /\ From(m - 1) = m
      BY <1>1, <2>2
    <3>2. QED BY <3>1
  <2>3. QED BY <1>1, <2>1, <2>2
<1> HIDE DEF n, From
<1>4. SeqsOf(t) \subseteq SeqsOf(q)
  BY <1>1, <1>2 DEF SeqsOf
<1>5. SeqsOf(q) \subseteq SeqsOf(t) \cup {q[k].seq}
  <2> SUFFICES ASSUME NEW m \in 1 .. n, m # k
               PROVE  q[m].seq \in SeqsOf(t)
    BY <1>1 DEF SeqsOf
  <2>1. PICK i \in 1 .. n - 1 : From(i) = m
    BY <1>3
  <2>2. QED BY <1>1, <1>2, <2>1 DEF SeqsOf
<1>6. ASSUME Distinct(q)
      PROVE  Distinct(t) /\ q[k].seq \notin SeqsOf(t)
  <2>0. k \in 1 .. n
    BY DEF n
  <2>1. \A a, b \in 1 .. n : a # b => q[a].seq # q[b].seq
    BY <1>1, <1>6 DEF Distinct
  <2>2. \A i \in 1 .. n - 1 : t[i].seq # q[k].seq
    BY <1>2, <2>0, <2>1
  <2>3. \A i, j \in 1 .. n - 1 : i # j => From(i) # From(j)
    BY <1>1 DEF From
  <2>4. Distinct(t)
    BY <1>1, <1>2, <2>1, <2>3 DEF Distinct
  <2>5. QED BY <1>1, <2>2, <2>4 DEF SeqsOf
<1>7. ASSUME Ordered(q)
      PROVE  Ordered(t)
  <2>1. ASSUME NEW i \in 1 .. n - 1, NEW j \in 1 .. n - 1, i < j
        PROVE  /\ From(i) \in DOMAIN q /\ From(j) \in DOMAIN q /\ From(i) < From(j)
               /\ t[i] = q[From(i)] /\ t[j] = q[From(j)]
    BY <1>1, <1>2, <2>1
  <2>2. ASSUME NEW a \in DOMAIN q, NEW b \in DOMAIN q, a < b
        PROVE  /\ q[b].att = 0
               /\ (q[a].type \in ConfigTypes /\ q[b].type \in PriorityTypes) => q[a].att > 0
    BY <1>7, <2>2 DEF Ordered
  <2>3. ASSUME NEW i \in 1 .. n - 1, NEW j \in 1 .. n - 1, i < j
        PROVE  /\ t[j].att = 0
               /\ (t[i].type \in ConfigTypes /\ t[j].type \in PriorityTypes) => t[i].att > 0
    <3>1. /\ From(i) \in DOMAIN q /\ From(j) \in DOMAIN q /\ From(i) < From(j)
          /\ t[i] = q[From(i)] /\ t[j] = q[From(j)]
      BY <2>1, <2>3
    <3>2. /\ q[From(j)].att = 0
          /\ (q[From(i)].type \in ConfigTypes /\ q[From(j)].type \in PriorityTypes)
               => q[From(i)].att > 0
      BY <2>2, <3>1
    <3>3. QED BY <3>1, <3>2
  <2>4. \A i, j \in DOMAIN t :
           i < j => /\ t[j].att = 0
                    /\ (t[i].type \in ConfigTypes /\ t[j].type \in PriorityTypes) => t[i].att > 0
    BY <1>1, <2>3
  <2>5. QED BY <2>4 DEF Ordered
<1>8. QED BY <1>4, <1>5, <1>6, <1>7
=============================================================================
