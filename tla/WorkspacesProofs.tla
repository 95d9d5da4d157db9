-------------------------- MODULE WorkspacesProofs --------------------------
(***************************************************************************)
(* For any number of hosts, tabs, panes and clicks: what the recursive      *)
(* functions of paneTree.ts do to a tree's leaves follows from their        *)
(* equations; tabs and panes stay well formed, a drop and a pane edit do    *)
(* what they say, and a workspace brings back what was saved.               *)
(***************************************************************************)
EXTENDS Workspaces, NaturalsInduction, WellFoundedInduction, SequenceTheorems, TLAPS

-----------------------------------------------------------------------------
(* Naturals and sequences                                                  *)

\* Every set of naturals has a least element: the library's well-foundedness,
\* for a set instead of a predicate.
LEMMA LeastNat ==
  ASSUME NEW T \in SUBSET Nat, T # {}
  PROVE  \E x \in T : \A y \in T : x <= y
<1> DEFINE R == OpToRel(<, Nat)
<1>1. PICK x \in T : \A y \in T : ~(<<y, x>> \in R)
  BY NatLessThanWellFounded, WFMin
<1>2. \A y, z \in Nat : y < z => <<y, z>> \in R
  BY DEF OpToRel
<1> HIDE DEF R
<1>3. \A y \in T : ~(y < x)
  BY <1>1, <1>2
<1>4. \A y \in T : x <= y
  BY <1>3
<1> QED
  BY <1>4

\* Min of a set of naturals is one of them.
LEMMA MinNat ==
  ASSUME NEW S \in SUBSET Nat, S # {}
  PROVE  Min(S) \in S
<1>1. PICK m \in S : \A k \in S : m <= k
  BY LeastNat
<1> QED
  BY <1>1 DEF Min

\* Max of a bounded set of naturals is one of them.
LEMMA MaxNat ==
  ASSUME NEW S \in SUBSET Nat, S # {}, NEW n \in Nat, \A x \in S : x <= n
  PROVE  Max(S) \in S
<1> DEFINE U == {k \in Nat : \A x \in S : x <= k}
<1>1. PICK m \in U : \A k \in U : m <= k
  BY LeastNat
<1>2. m \in S
  <2> SUFFICES ASSUME m \notin S PROVE FALSE
    OBVIOUS
  <2>1. PICK z \in S : TRUE
    OBVIOUS
  <2>2. m - 1 \in Nat
    BY <2>1
  <2>3. m - 1 \in U
    BY <2>2
  <2> QED
    BY <1>1, <2>2, <2>3
<1> QED
  BY <1>1, <1>2 DEF Max

\* The elements of a sequence without its k-th.
LEMMA RemoveAtProps ==
  ASSUME NEW S, NEW s \in Seq(S), NEW k \in 1..Len(s)
  PROVE  /\ RemoveAt(s, k) \in Seq(S)
         /\ Len(RemoveAt(s, k)) = Len(s) - 1
         /\ \A i \in 1..(Len(s) - 1) : RemoveAt(s, k)[i] = s[IF i < k THEN i ELSE i + 1]
<1> DEFINE a == SubSeq(s, 1, k - 1)
           b == SubSeq(s, k + 1, Len(s))
<1>1. /\ a \in Seq(S) /\ Len(a) = k - 1 /\ \A i \in 1..(k - 1) : a[i] = s[i]
      /\ b \in Seq(S) /\ Len(b) = Len(s) - k /\ \A i \in 1..(Len(s) - k) : b[i] = s[k + i]
  BY SubSeqProperties, LenProperties
<1> HIDE DEF a, b
<1>2. /\ a \o b \in Seq(S) /\ Len(a \o b) = Len(s) - 1
      /\ \A i \in 1..(Len(s) - 1) : (a \o b)[i] = s[IF i < k THEN i ELSE i + 1]
  <2>1. /\ a \o b \in Seq(S) /\ Len(a \o b) = Len(a) + Len(b)
        /\ \A i \in 1..(Len(a) + Len(b)) :
             (a \o b)[i] = IF i <= Len(a) THEN a[i] ELSE b[i - Len(a)]
    BY <1>1, ConcatProperties
  <2>2. Len(s) \in Nat
    BY LenProperties
  <2> HIDE DEF a, b
  <2>3. ASSUME NEW i \in 1..(Len(s) - 1)
        PROVE  (a \o b)[i] = s[IF i < k THEN i ELSE i + 1]
    BY <1>1, <2>1, <2>2
  <2> QED
    BY <1>1, <2>1, <2>2, <2>3
<1> QED
  BY <1>2 DEF RemoveAt, a, b

\* t is s with e at its k-th place.
Inserted(s, k, e, t) ==
    /\ Len(t) = Len(s) + 1
    /\ \A i \in 1..(k - 1) : t[i] = s[i]
    /\ t[k] = e
    /\ \A i \in (k + 1)..(Len(s) + 1) : t[i] = s[i - 1]

\* The elements of a sequence with e at its k-th place.
LEMMA InsertAtProps ==
  ASSUME NEW S, NEW s \in Seq(S), NEW k \in 1..(Len(s) + 1), NEW e \in S
  PROVE  InsertAt(s, k, e) \in Seq(S) /\ Inserted(s, k, e, InsertAt(s, k, e))
<1> DEFINE a == SubSeq(s, 1, k - 1)
           b == SubSeq(s, k, Len(s))
           m == a \o <<e>>
<1>1. /\ a \in Seq(S) /\ Len(a) = k - 1 /\ \A i \in 1..(k - 1) : a[i] = s[i]
      /\ b \in Seq(S) /\ Len(b) = Len(s) - k + 1
      /\ \A i \in 1..(Len(s) - k + 1) : b[i] = s[k + i - 1]
  BY SubSeqProperties, LenProperties
<1> HIDE DEF a, b
<1>2. /\ m \in Seq(S) /\ Len(m) = k /\ m[k] = e
      /\ \A i \in 1..(k - 1) : m[i] = s[i]
  BY <1>1, AppendIsConcat, AppendProperties
<1> HIDE DEF m
<1>3. /\ m \o b \in Seq(S) /\ Len(m \o b) = Len(m) + Len(b)
      /\ \A i \in 1..(Len(m) + Len(b)) :
           (m \o b)[i] = IF i <= Len(m) THEN m[i] ELSE b[i - Len(m)]
  BY <1>1, <1>2, ConcatProperties
<1>4. Len(s) \in Nat
  BY LenProperties
<1>5. (m \o b)[k] = e /\ \A i \in 1..(k - 1) : (m \o b)[i] = s[i]
  BY <1>1, <1>2, <1>3, <1>4
<1>6. ASSUME NEW i \in (k + 1)..(Len(s) + 1) PROVE (m \o b)[i] = s[i - 1]
  <2>1. (m \o b)[i] = b[i - k] /\ i - k \in 1..(Len(s) - k + 1)
    BY <1>1, <1>2, <1>3, <1>4
  <2>2. b[i - k] = s[k + (i - k) - 1] /\ k + (i - k) - 1 = i - 1
    BY <1>1, <1>4, <2>1
  <2> QED
    BY <2>1, <2>2
<1>7. Len(m \o b) = Len(s) + 1
  BY <1>1, <1>2, <1>3, <1>4
<1> QED
  BY <1>3, <1>5, <1>6, <1>7 DEF Inserted, InsertAt, a, b, m

\* Taking out what was put in.
LEMMA RemoveInserted ==
  ASSUME NEW S, NEW s \in Seq(S), NEW k \in 1..(Len(s) + 1), NEW e \in S
  PROVE  RemoveAt(InsertAt(s, k, e), k) = s
<1> DEFINE t == InsertAt(s, k, e)
           u == RemoveAt(t, k)
           n == Len(s)
<1>1. n \in Nat
  BY LenProperties
<1>2. t \in Seq(S) /\ Inserted(s, k, e, t)
  BY InsertAtProps
<1> HIDE DEF t
<1>3. /\ Len(t) = n + 1 /\ \A i \in 1..(k - 1) : t[i] = s[i]
      /\ \A i \in (k + 1)..(n + 1) : t[i] = s[i - 1]
  BY <1>2 DEF Inserted
<1>4. /\ u \in Seq(S) /\ Len(u) = Len(t) - 1
      /\ \A i \in 1..(Len(t) - 1) : u[i] = t[IF i < k THEN i ELSE i + 1]
  <2>1. k \in 1..Len(t)
    BY <1>1, <1>3
  <2> QED
    BY <1>2, <2>1, RemoveAtProps
<1> HIDE DEF u
<1>5. ASSUME NEW i \in 1..n PROVE u[i] = s[i]
  <2>1. CASE i < k
    BY <1>1, <1>3, <1>4, <2>1
  <2>2. CASE ~(i < k)
    <3>1. i + 1 \in (k + 1)..(n + 1) /\ (i + 1) - 1 = i /\ u[i] = t[i + 1]
      BY <1>1, <1>3, <1>4, <2>2
    <3> QED
      BY <1>3, <3>1
  <2> QED
    BY <2>1, <2>2
<1>6. Len(u) = n
  BY <1>1, <1>3, <1>4
<1>7. u = s
  BY <1>4, <1>5, <1>6, SeqEqual
<1> QED
  BY <1>7 DEF u, t

\* Induction up to a bound.
LEMMA UpTo ==
  ASSUME NEW N \in Nat, NEW S, \A c \in 1..N : (\A i \in 1..(c - 1) : i \in S) => c \in S
  PROVE  \A c \in 1..N : c \in S
<1> DEFINE T == {c \in 1..N : c \notin S}
<1> SUFFICES ASSUME T # {} PROVE FALSE
  OBVIOUS
<1>0. T \in SUBSET Nat
  OBVIOUS
<1> HIDE DEF T
<1>1. PICK c \in T : \A d \in T : c <= d
  BY <1>0, LeastNat
<1> USE DEF T
<1>2. \A i \in 1..(c - 1) : i \in 1..N /\ ~(c <= i)
  BY <1>1
<1>3. \A i \in 1..(c - 1) : i \in S
  BY <1>1, <1>2
<1> QED
  BY <1>1, <1>3

\* One sequence after another.
Joined(s, t, u) ==
    /\ Len(u) = Len(s) + Len(t)
    /\ \A i \in 1..Len(s) : u[i] = s[i]
    /\ \A i \in 1..Len(t) : u[Len(s) + i] = t[i]
LEMMA JoinProps ==
  ASSUME NEW S, NEW s \in Seq(S), NEW t \in Seq(S)
  PROVE  /\ s \o t \in Seq(S) /\ Joined(s, t, s \o t) /\ Len(s) \in Nat /\ Len(t) \in Nat
         /\ \A i \in 1..Len(s \o t) :
              (s \o t)[i] = IF i <= Len(s) THEN s[i] ELSE t[i - Len(s)]
<1>1. Len(s) \in Nat /\ Len(t) \in Nat
  BY LenProperties
<1>2. /\ s \o t \in Seq(S) /\ Len(s \o t) = Len(s) + Len(t)
      /\ \A i \in 1..(Len(s) + Len(t)) : (s \o t)[i] = IF i <= Len(s) THEN s[i] ELSE t[i - Len(s)]
  BY ConcatProperties
<1> DEFINE m == Len(s)
           n == Len(t)
           u == s \o t
<1> HIDE DEF m, n, u
<1>3. m \in Nat /\ n \in Nat /\ Len(u) = m + n
      /\ \A i \in 1..(m + n) : u[i] = IF i <= m THEN s[i] ELSE t[i - m]
  BY <1>1, <1>2 DEF m, n, u
<1>4. \A i \in 1..m : u[i] = s[i]
  BY <1>3
<1>5. ASSUME NEW i \in 1..n PROVE u[m + i] = t[i]
  <2>1. m + i \in 1..(m + n) /\ ~(m + i <= m) /\ (m + i) - m = i
    BY <1>3
  <2> QED
    BY <1>3, <2>1
<1> QED
  BY <1>1, <1>2, <1>3, <1>4, <1>5 DEF Joined, m, n, u

\* Inserting into one of two joined sequences.
LEMMA InsertLeft ==
  ASSUME NEW S, NEW s \in Seq(S), NEW t \in Seq(S), NEW k \in 1..(Len(s) + 1), NEW e \in S
  PROVE  InsertAt(s, k, e) \o t = InsertAt(s \o t, k, e)
<1> DEFINE m == Len(s)
           n == Len(t)
           v == s \o t
           a == InsertAt(s, k, e)
           l == a \o t
           r == InsertAt(v, k, e)
<1>1. /\ m \in Nat /\ n \in Nat /\ v \in Seq(S) /\ Len(v) = m + n
      /\ \A i \in 1..m : v[i] = s[i]
      /\ \A i \in 1..n : v[m + i] = t[i]
  BY JoinProps DEF Joined
<1>2. /\ a \in Seq(S) /\ Len(a) = m + 1 /\ a[k] = e /\ \A i \in 1..(k - 1) : a[i] = s[i]
      /\ \A i \in (k + 1)..(m + 1) : a[i] = s[i - 1]
  BY InsertAtProps DEF Inserted
<1> HIDE DEF m, n, v, a
<1>3. k \in 1..(m + 1) /\ k \in 1..(Len(v) + 1)
  <2>1. k \in 1..(m + 1)
    BY DEF m
  <2> QED
    BY <1>1, <2>1
<1>4. /\ l \in Seq(S) /\ Len(l) = (m + 1) + n
      /\ \A i \in 1..(m + 1) : l[i] = a[i]
      /\ \A i \in 1..n : l[(m + 1) + i] = t[i]
  <2>1. l \in Seq(S) /\ Joined(a, t, l)
    BY <1>2, JoinProps
  <2> HIDE DEF l
  <2> QED
    BY <1>1, <1>2, <2>1 DEF Joined, n
<1>5. /\ r \in Seq(S) /\ Len(r) = (m + n) + 1 /\ r[k] = e /\ \A i \in 1..(k - 1) : r[i] = v[i]
      /\ \A i \in (k + 1)..((m + n) + 1) : r[i] = v[i - 1]
  <2>1. r \in Seq(S) /\ Inserted(v, k, e, r)
    BY <1>1, <1>3, InsertAtProps
  <2> HIDE DEF r
  <2> QED
    BY <1>1, <2>1 DEF Inserted
<1> HIDE DEF l, r
<1>6. Len(l) = Len(r)
  BY <1>1, <1>4, <1>5
<1>7. ASSUME NEW i \in 1..Len(l) PROVE l[i] = r[i]
  <2>1. CASE i < k
    <3>1. i \in 1..(k - 1) /\ i \in 1..m /\ i \in 1..(m + 1)
      BY <1>1, <1>3, <2>1
    <3> QED
      BY <1>1, <1>2, <1>4, <1>5, <3>1
  <2>2. CASE i = k
    BY <1>2, <1>3, <1>4, <1>5, <2>2
  <2>3. CASE i > k /\ i <= m + 1
    <3>1. i \in (k + 1)..(m + 1) /\ i \in 1..(m + 1) /\ i - 1 \in 1..m /\ i \in (k + 1)..((m + n) + 1)
      BY <1>1, <1>3, <2>3
    <3> QED
      BY <1>1, <1>2, <1>4, <1>5, <3>1
  <2>4. CASE i > m + 1
    <3>1. PICK j \in 1..n : i = (m + 1) + j /\ i - 1 = m + j
      <4>1. i - (m + 1) \in 1..n /\ i = (m + 1) + (i - (m + 1)) /\ i - 1 = m + (i - (m + 1))
        BY <1>1, <1>4, <2>4
      <4> QED
        BY <4>1
    <3>2. i \in (k + 1)..((m + n) + 1)
      BY <1>1, <1>3, <1>4, <2>4
    <3> QED
      BY <1>1, <1>4, <1>5, <3>1, <3>2
  <2> QED
    BY <1>1, <1>3, <1>4, <2>1, <2>2, <2>3, <2>4
<1>8. l = r
  BY <1>4, <1>5, <1>6, <1>7, SeqEqual
<1> QED
  BY <1>8 DEF l, r, a, v

LEMMA InsertRight ==
  ASSUME NEW S, NEW s \in Seq(S), NEW t \in Seq(S), NEW k \in 1..(Len(t) + 1), NEW e \in S
  PROVE  s \o InsertAt(t, k, e) = InsertAt(s \o t, Len(s) + k, e)
<1> DEFINE m == Len(s)
           n == Len(t)
           v == s \o t
           a == InsertAt(t, k, e)
           l == s \o a
           d == m + k
           r == InsertAt(v, d, e)
<1>1. /\ m \in Nat /\ n \in Nat /\ v \in Seq(S) /\ Len(v) = m + n
      /\ \A i \in 1..m : v[i] = s[i]
      /\ \A i \in 1..n : v[m + i] = t[i]
  BY JoinProps DEF Joined
<1>2. /\ a \in Seq(S) /\ Len(a) = n + 1 /\ a[k] = e /\ \A i \in 1..(k - 1) : a[i] = t[i]
      /\ \A i \in (k + 1)..(n + 1) : a[i] = t[i - 1]
  BY InsertAtProps DEF Inserted
<1> HIDE DEF m, n, v, a, d
<1>3. k \in 1..(n + 1) /\ d = m + k /\ d \in 1..(Len(v) + 1)
  <2>1. k \in 1..(n + 1) /\ d = m + k
    BY DEF n, d
  <2> QED
    BY <1>1, <2>1
<1>4. /\ l \in Seq(S) /\ Len(l) = m + (n + 1)
      /\ \A i \in 1..m : l[i] = s[i]
      /\ \A i \in 1..(n + 1) : l[m + i] = a[i]
  <2>1. l \in Seq(S) /\ Joined(s, a, l)
    BY <1>2, JoinProps
  <2> HIDE DEF l
  <2> QED
    BY <1>1, <1>2, <2>1 DEF Joined, m
<1>5. /\ r \in Seq(S) /\ Len(r) = (m + n) + 1 /\ r[d] = e /\ \A i \in 1..(d - 1) : r[i] = v[i]
      /\ \A i \in (d + 1)..((m + n) + 1) : r[i] = v[i - 1]
  <2>1. r \in Seq(S) /\ Inserted(v, d, e, r)
    BY <1>1, <1>3, InsertAtProps
  <2> HIDE DEF r
  <2> QED
    BY <1>1, <2>1 DEF Inserted
<1> HIDE DEF l, r
<1>6. Len(l) = Len(r)
  BY <1>1, <1>4, <1>5
<1>7. ASSUME NEW i \in 1..Len(l) PROVE l[i] = r[i]
  <2>1. CASE i <= m
    <3>1. i \in 1..(d - 1) /\ i \in 1..m
      BY <1>1, <1>3, <2>1
    <3> QED
      BY <1>1, <1>4, <1>5, <3>1
  <2>2. ASSUME NEW j \in 1..(n + 1), i = m + j PROVE l[i] = r[i]
    <3>1. CASE j < k
      <4>1. j \in 1..(k - 1) /\ j \in 1..n /\ m + j \in 1..(d - 1)
        BY <1>1, <1>3, <3>1
      <4> QED
        BY <1>1, <1>2, <1>4, <1>5, <2>2, <4>1
    <3>2. CASE j = k
      BY <1>2, <1>3, <1>4, <1>5, <2>2, <3>2
    <3>3. CASE j > k
      <4>1. j \in (k + 1)..(n + 1) /\ j - 1 \in 1..n /\ m + j \in (d + 1)..((m + n) + 1) /\ (m + j) - 1 = m + (j - 1)
        BY <1>1, <1>3, <3>3
      <4>2. l[i] = a[j] /\ a[j] = t[j - 1]
        BY <1>2, <1>4, <2>2, <4>1
      <4>3. r[i] = v[m + (j - 1)]
        BY <1>5, <2>2, <4>1
      <4> QED
        BY <1>1, <4>1, <4>2, <4>3
    <3> QED
      BY <1>3, <3>1, <3>2, <3>3
  <2>3. CASE i > m
    <3>1. i - m \in 1..(n + 1) /\ i = m + (i - m)
      BY <1>1, <1>4, <2>3
    <3> QED
      BY <2>2, <3>1
  <2> QED
    BY <1>1, <2>1, <2>3
<1>8. l = r
  BY <1>4, <1>5, <1>6, <1>7, SeqEqual
<1> QED
  BY <1>8 DEF l, r, a, v, d, m

\* Taking out of one of two joined sequences.
LEMMA RemoveLeft ==
  ASSUME NEW S, NEW s \in Seq(S), NEW t \in Seq(S), NEW k \in 1..Len(s)
  PROVE  RemoveAt(s, k) \o t = RemoveAt(s \o t, k)
<1> DEFINE m == Len(s)
           n == Len(t)
           v == s \o t
           a == RemoveAt(s, k)
           l == a \o t
           r == RemoveAt(v, k)
<1>1. /\ m \in Nat /\ n \in Nat /\ v \in Seq(S) /\ Len(v) = m + n
      /\ \A i \in 1..m : v[i] = s[i]
      /\ \A i \in 1..n : v[m + i] = t[i]
  BY JoinProps DEF Joined
<1>2. /\ a \in Seq(S) /\ Len(a) = m - 1
      /\ \A i \in 1..(m - 1) : a[i] = s[IF i < k THEN i ELSE i + 1]
  BY RemoveAtProps
<1> HIDE DEF m, n, v, a
<1>3. k \in 1..m /\ k \in 1..Len(v)
  <2>1. k \in 1..m
    BY DEF m
  <2> QED
    BY <1>1, <2>1
<1>4. /\ l \in Seq(S) /\ Len(l) = (m - 1) + n
      /\ \A i \in 1..(m - 1) : l[i] = a[i]
      /\ \A i \in 1..n : l[(m - 1) + i] = t[i]
  <2>1. l \in Seq(S) /\ Joined(a, t, l)
    BY <1>2, JoinProps
  <2> HIDE DEF l
  <2> QED
    BY <1>1, <1>2, <2>1 DEF Joined, n
<1>5. /\ r \in Seq(S) /\ Len(r) = (m + n) - 1
      /\ \A i \in 1..((m + n) - 1) : r[i] = v[IF i < k THEN i ELSE i + 1]
  BY <1>1, <1>3, RemoveAtProps
<1> HIDE DEF l, r
<1>6. Len(l) = Len(r)
  BY <1>1, <1>3, <1>4, <1>5
<1>7. ASSUME NEW i \in 1..Len(l) PROVE l[i] = r[i]
  <2>0. i \in 1..((m + n) - 1)
    BY <1>1, <1>3, <1>4
  <2>1. CASE i <= m - 1
    <3>1. i \in 1..(m - 1) /\ (IF i < k THEN i ELSE i + 1) \in 1..m
      BY <1>1, <1>3, <2>1
    <3> QED
      BY <1>1, <1>2, <1>4, <1>5, <2>0, <3>1
  <2>2. CASE ~(i <= m - 1)
    <3>1. PICK j \in 1..n : i = (m - 1) + j /\ i + 1 = m + j
      <4>1. i - (m - 1) \in 1..n /\ i = (m - 1) + (i - (m - 1)) /\ i + 1 = m + (i - (m - 1))
        BY <1>1, <1>3, <2>0, <2>2
      <4> QED
        BY <4>1
    <3>2. ~(i < k)
      BY <1>1, <1>3, <2>0, <2>2
    <3> QED
      BY <1>1, <1>4, <1>5, <2>0, <3>1, <3>2
  <2> QED
    BY <2>1, <2>2
<1>8. l = r
  BY <1>4, <1>5, <1>6, <1>7, SeqEqual
<1> QED
  BY <1>8 DEF l, r, a, v

LEMMA RemoveRight ==
  ASSUME NEW S, NEW s \in Seq(S), NEW t \in Seq(S), NEW k \in 1..Len(t)
  PROVE  s \o RemoveAt(t, k) = RemoveAt(s \o t, Len(s) + k)
<1> DEFINE m == Len(s)
           n == Len(t)
           v == s \o t
           a == RemoveAt(t, k)
           l == s \o a
           d == m + k
           r == RemoveAt(v, d)
<1>1. /\ m \in Nat /\ n \in Nat /\ v \in Seq(S) /\ Len(v) = m + n
      /\ \A i \in 1..m : v[i] = s[i]
      /\ \A i \in 1..n : v[m + i] = t[i]
  BY JoinProps DEF Joined
<1>2. /\ a \in Seq(S) /\ Len(a) = n - 1
      /\ \A i \in 1..(n - 1) : a[i] = t[IF i < k THEN i ELSE i + 1]
  BY RemoveAtProps
<1> HIDE DEF m, n, v, a, d
<1>3. k \in 1..n /\ d = m + k /\ d \in 1..Len(v)
  <2>1. k \in 1..n /\ d = m + k
    BY DEF n, d
  <2> QED
    BY <1>1, <2>1
<1>4. /\ l \in Seq(S) /\ Len(l) = m + (n - 1)
      /\ \A i \in 1..m : l[i] = s[i]
      /\ \A i \in 1..(n - 1) : l[m + i] = a[i]
  <2>1. l \in Seq(S) /\ Joined(s, a, l)
    BY <1>2, JoinProps
  <2> HIDE DEF l
  <2> QED
    BY <1>1, <1>2, <2>1 DEF Joined, m
<1>5. /\ r \in Seq(S) /\ Len(r) = (m + n) - 1
      /\ \A i \in 1..((m + n) - 1) : r[i] = v[IF i < d THEN i ELSE i + 1]
  BY <1>1, <1>3, RemoveAtProps
<1> HIDE DEF l, r
<1>6. Len(l) = Len(r)
  BY <1>1, <1>3, <1>4, <1>5
<1>7. ASSUME NEW i \in 1..Len(l) PROVE l[i] = r[i]
  <2>0. i \in 1..((m + n) - 1)
    BY <1>1, <1>3, <1>4
  <2>1. CASE i <= m
    <3>1. i \in 1..m /\ i < d
      BY <1>1, <1>3, <2>1
    <3> QED
      BY <1>1, <1>4, <1>5, <2>0, <3>1
  <2>2. ASSUME NEW j \in 1..(n - 1), i = m + j PROVE l[i] = r[i]
    <3>1. l[i] = t[IF j < k THEN j ELSE j + 1]
      BY <1>2, <1>4, <2>2
    <3>2. CASE j < k
      <4>1. m + j < d /\ j \in 1..n
        BY <1>1, <1>3, <3>2
      <4> QED
        BY <1>1, <1>5, <2>0, <2>2, <3>1, <3>2, <4>1
    <3>3. CASE ~(j < k)
      <4>1. ~(m + j < d) /\ j + 1 \in 1..n /\ (m + j) + 1 = m + (j + 1)
        BY <1>1, <1>3, <3>3
      <4> QED
        BY <1>1, <1>5, <2>0, <2>2, <3>1, <3>3, <4>1
    <3> QED
      BY <3>2, <3>3
  <2>3. CASE ~(i <= m)
    <3>1. i - m \in 1..(n - 1) /\ i = m + (i - m)
      BY <1>1, <1>3, <2>0, <2>3
    <3> QED
      BY <2>2, <3>1
  <2> QED
    BY <2>1, <2>3
<1>8. l = r
  BY <1>4, <1>5, <1>6, <1>7, SeqEqual
<1> QED
  BY <1>8 DEF l, r, a, v, d, m

-----------------------------------------------------------------------------
(* Pane trees: what the equations of paneTree.ts come to, in terms of the  *)
(* leaves from left to right                                               *)

\* The pane of the k-th leaf is in no other place.
OnlyLeaf(n, k) == \A i \in 1..CountLeaves(n) :
                     CollectLeaves(n)[i].pane = CollectLeaves(n)[k].pane => i = k
LeavesLaw ==
    /\ \A c \in 1..MAX_PANES : \A n \in Layouts(c) :
         /\ CollectLeaves(n) \in Seq(Leaves) /\ CountLeaves(n) = c
         /\ SerializeLayout(n) \in SavedLayouts(c)
    /\ \A q \in PaneIds, h \in Hosts :
         Leaf(q, h) \in Layouts(1) /\ CollectLeaves(Leaf(q, h)) = <<Leaf(q, h)>>
SplitLaw ==
    \A c \in 1..(MAX_PANES - 1) : \A n \in Layouts(c), k \in 1..c : OnlyLeaf(n, k) =>
        \A e \in Leaves :
            LET l == SplitLeaf(n, CollectLeaves(n)[k].pane, e)
            IN  l \in Layouts(c + 1) /\ CollectLeaves(l) = InsertAt(CollectLeaves(n), k + 1, e)
RemoveLaw ==
    \A c \in 2..MAX_PANES : \A n \in Layouts(c), k \in 1..c : OnlyLeaf(n, k) =>
        LET l == RemoveLeaf(n, CollectLeaves(n)[k].pane)
        IN  l \in Layouts(c - 1) /\ CollectLeaves(l) = RemoveAt(CollectLeaves(n), k)

\* A tree is a leaf or a split.
Forked(L, c, i, a, b) ==
    c \in 2..MAX_PANES /\ i \in 1..(c - 1) /\ a \in Trees(L, i) /\ b \in Trees(L, c - i)
LEMMA TreeCases ==
  ASSUME NEW L \in {Leaves, NewLeaves, SavedLeaves}, NEW c \in 1..MAX_PANES, NEW n \in Trees(L, c)
  PROVE  \/ c = 1 /\ n \in L
         \/ \E i, a, b : Forked(L, c, i, a, b) /\ n = Fork(a, b)
<1>1. MAX_PANES \in Nat
  BY WorkspacesAssumption
<1>2. CASE c = 1
  BY <1>2, PaneTreeEquations DEF TreesEq
<1>3. CASE c # 1
  <2>1. c \in 2..MAX_PANES
    BY <1>1, <1>3
  <2>2. n \in UNION {{Fork(a, b) : a \in Trees(L, i), b \in Trees(L, c - i)} : i \in 1..(c - 1)}
    BY <2>1, PaneTreeEquations DEF TreesEq
  <2> QED
    BY <2>1, <2>2 DEF Forked
<1> QED
  BY <1>2, <1>3

\* Both ways round; and no tree is null.
LEMMA TreesMade ==
  ASSUME NEW L \in {Leaves, NewLeaves, SavedLeaves}
  PROVE  /\ \A n \in L : n \in Trees(L, 1)
         /\ \A c, i, a, b : Forked(L, c, i, a, b) => Fork(a, b) \in Trees(L, c)
         /\ \A c \in 1..MAX_PANES : Dead \notin Trees(L, c)
<1>1. Trees(L, 1) = L /\ \A c \in 1..MAX_PANES : Dead \notin Trees(L, c)
  BY PaneTreeEquations DEF TreesEq
<1>2. ASSUME NEW c, NEW i, NEW a, NEW b, Forked(L, c, i, a, b) PROVE Fork(a, b) \in Trees(L, c)
  <2>1. c \in 2..MAX_PANES /\ i \in 1..(c - 1) /\ a \in Trees(L, i) /\ b \in Trees(L, c - i)
    BY <1>2 DEF Forked
  <2>2. Trees(L, c) = UNION {{Fork(x, y) : x \in Trees(L, j), y \in Trees(L, c - j)} : j \in 1..(c - 1)}
    BY <2>1, PaneTreeEquations DEF TreesEq
  <2> QED
    BY <2>1, <2>2
<1> QED
  BY <1>1, <1>2

\* The sizes of both sides.
LEMMA SideSizes ==
  ASSUME NEW L, NEW c, NEW i, NEW a, NEW b, Forked(L, c, i, a, b)
  PROVE  /\ c \in 1..MAX_PANES /\ c \in 2..MAX_PANES /\ MAX_PANES \in Nat
         /\ i \in 1..(c - 1) /\ i \in 1..MAX_PANES /\ c - i \in 1..(c - 1) /\ c - i \in 1..MAX_PANES
         /\ a \in Trees(L, i) /\ b \in Trees(L, c - i) /\ i + (c - i) = c
BY WorkspacesAssumption DEF Forked

\* A tree has as many leaves as it should.
LEMMA TreeLeaves ==
  ASSUME NEW L \in {Leaves, NewLeaves}
  PROVE  \A c \in 1..MAX_PANES : \A n \in Trees(L, c) :
            CollectLeaves(n) \in Seq(L) /\ Len(CollectLeaves(n)) = c
<1> DEFINE P(c) == \A n \in Trees(L, c) : CollectLeaves(n) \in Seq(L) /\ Len(CollectLeaves(n)) = c
           S == {c \in 1..MAX_PANES : P(c)}
<1>1. ASSUME NEW c \in 1..MAX_PANES, \A i \in 1..(c - 1) : i \in S PROVE P(c)
  <2> SUFFICES ASSUME NEW n \in Trees(L, c)
               PROVE  CollectLeaves(n) \in Seq(L) /\ Len(CollectLeaves(n)) = c
    OBVIOUS
  <2>1. CASE c = 1 /\ n \in L
    <3>1. CollectLeaves(n) = <<n>>
      BY <2>1, PaneTreeEquations DEF CollectEq
    <3> QED
      BY <2>1, <3>1
  <2>2. ASSUME NEW i, NEW a, NEW b, Forked(L, c, i, a, b), n = Fork(a, b)
        PROVE  CollectLeaves(n) \in Seq(L) /\ Len(CollectLeaves(n)) = c
    <3>1. /\ c \in 2..MAX_PANES /\ i \in 1..(c - 1) /\ c - i \in 1..(c - 1)
          /\ a \in Trees(L, i) /\ b \in Trees(L, c - i) /\ i + (c - i) = c
      BY <2>2, SideSizes
    <3>2. /\ CollectLeaves(a) \in Seq(L) /\ Len(CollectLeaves(a)) = i
          /\ CollectLeaves(b) \in Seq(L) /\ Len(CollectLeaves(b)) = c - i
      BY <1>1, <3>1
    <3>3. CollectLeaves(n) = CollectLeaves(a) \o CollectLeaves(b)
      BY <2>2, <3>1, PaneTreeEquations DEF CollectEq
    <3>4. CollectLeaves(n) \in Seq(L) /\ Joined(CollectLeaves(a), CollectLeaves(b), CollectLeaves(n))
      BY <3>2, <3>3, JoinProps
    <3> QED
      BY <3>1, <3>2, <3>4 DEF Joined
  <2> QED
    BY <2>1, <2>2, TreeCases
<1>2. MAX_PANES \in Nat
  BY WorkspacesAssumption
<1>3. \A c \in 1..MAX_PANES : (\A i \in 1..(c - 1) : i \in S) => c \in S
  BY <1>1
<1> HIDE DEF S
<1>4. \A c \in 1..MAX_PANES : c \in S
  BY <1>2, <1>3, UpTo
<1> QED
  BY <1>4 DEF S

\* The leaves of a split are those of its left side and then those of its right.
LEMMA ForkLeaves ==
  ASSUME NEW L \in {Leaves, NewLeaves}, NEW c, NEW i, NEW a, NEW b, Forked(L, c, i, a, b),
         NEW n, n = Fork(a, b)
  PROVE  /\ CollectLeaves(n) = CollectLeaves(a) \o CollectLeaves(b)
         /\ CollectLeaves(a) \in Seq(L) /\ CollectLeaves(b) \in Seq(L) /\ CollectLeaves(n) \in Seq(L)
         /\ CountLeaves(a) = i /\ CountLeaves(b) = c - i /\ CountLeaves(n) = c
         /\ \A k \in 1..i : CollectLeaves(n)[k] = CollectLeaves(a)[k]
         /\ \A k \in 1..(c - i) : CollectLeaves(n)[i + k] = CollectLeaves(b)[k]
<1>1. /\ c \in 2..MAX_PANES /\ c \in 1..MAX_PANES /\ i \in 1..MAX_PANES /\ c - i \in 1..MAX_PANES
      /\ i \in 1..(c - 1) /\ a \in Trees(L, i) /\ b \in Trees(L, c - i)
  BY SideSizes
<1>2. CollectLeaves(n) = CollectLeaves(a) \o CollectLeaves(b)
  BY <1>1, PaneTreeEquations DEF CollectEq
<1>3. n \in Trees(L, c)
  BY TreesMade
<1>4. /\ CollectLeaves(a) \in Seq(L) /\ CollectLeaves(b) \in Seq(L) /\ CollectLeaves(n) \in Seq(L)
      /\ Len(CollectLeaves(a)) = i /\ Len(CollectLeaves(b)) = c - i /\ Len(CollectLeaves(n)) = c
  BY <1>1, <1>3, TreeLeaves
<1>5. Joined(CollectLeaves(a), CollectLeaves(b), CollectLeaves(n))
  BY <1>2, <1>4, JoinProps
<1> QED
  BY <1>2, <1>4, <1>5 DEF Joined, CountLeaves

\* A saved layout has as many.
LEMMA SerializedLeaves ==
  \A c \in 1..MAX_PANES : \A n \in Layouts(c) : SerializeLayout(n) \in SavedLayouts(c)
<1> DEFINE P(c) == \A n \in Trees(Leaves, c) : SerializeLayout(n) \in Trees(SavedLeaves, c)
           S == {c \in 1..MAX_PANES : P(c)}
<1>1. ASSUME NEW c \in 1..MAX_PANES, \A i \in 1..(c - 1) : i \in S PROVE P(c)
  <2> SUFFICES ASSUME NEW n \in Trees(Leaves, c)
               PROVE  SerializeLayout(n) \in Trees(SavedLeaves, c)
    OBVIOUS
  <2>1. CASE c = 1 /\ n \in Leaves
    <3>1. SerializeLayout(n) = SavedLeaf(n.host) /\ n.host \in Hosts
      BY <2>1, PaneTreeEquations DEF SerializeEq, Leaves
    <3>2. SerializeLayout(n) \in SavedLeaves
      BY <3>1 DEF SavedLeaves
    <3> QED
      BY <2>1, <3>2, TreesMade
  <2>2. ASSUME NEW i, NEW a, NEW b, Forked(Leaves, c, i, a, b), n = Fork(a, b)
        PROVE  SerializeLayout(n) \in Trees(SavedLeaves, c)
    <3>1. /\ c \in 2..MAX_PANES /\ i \in 1..(c - 1) /\ c - i \in 1..(c - 1)
          /\ a \in Trees(Leaves, i) /\ b \in Trees(Leaves, c - i)
      BY <2>2, SideSizes
    <3>2. SerializeLayout(a) \in Trees(SavedLeaves, i) /\ SerializeLayout(b) \in Trees(SavedLeaves, c - i)
      BY <1>1, <3>1
    <3>3. SerializeLayout(n) = Fork(SerializeLayout(a), SerializeLayout(b))
      BY <2>2, <3>1, PaneTreeEquations DEF SerializeEq, Layouts
    <3>4. Forked(SavedLeaves, c, i, SerializeLayout(a), SerializeLayout(b))
      BY <3>1, <3>2 DEF Forked
    <3> QED
      BY <3>3, <3>4, TreesMade
  <2> QED
    BY <2>1, <2>2, TreeCases
<1>2. MAX_PANES \in Nat
  BY WorkspacesAssumption
<1>3. \A c \in 1..MAX_PANES : (\A i \in 1..(c - 1) : i \in S) => c \in S
  BY <1>1
<1> HIDE DEF S
<1>4. \A c \in 1..MAX_PANES : c \in S
  BY <1>2, <1>3, UpTo
<1> QED
  BY <1>4 DEF S, Layouts, SavedLayouts

\* collectLeaves and serializeLayout.
LEMMA LeavesOfTrees == LeavesLaw
<1>1. \A c \in 1..MAX_PANES : \A n \in Layouts(c) : CollectLeaves(n) \in Seq(Leaves) /\ CountLeaves(n) = c
  BY TreeLeaves DEF Layouts, CountLeaves
<1>2. ASSUME NEW q \in PaneIds, NEW h \in Hosts
      PROVE  Leaf(q, h) \in Layouts(1) /\ CollectLeaves(Leaf(q, h)) = <<Leaf(q, h)>>
  <2>1. Leaf(q, h) \in Leaves
    BY DEF Leaf, Leaves
  <2>2. Leaf(q, h) \in Trees(Leaves, 1)
    BY <2>1, TreesMade
  <2> QED
    BY <2>1, <2>2, PaneTreeEquations DEF CollectEq, Layouts
<1> QED
  BY <1>1, <1>2, SerializedLeaves DEF LeavesLaw

\* A pane of a split is on one of its sides.
LEMMA OnOneSide ==
  ASSUME NEW c, NEW i, NEW a, NEW b, Forked(Leaves, c, i, a, b), NEW n, n = Fork(a, b),
         NEW k \in 1..c, OnlyLeaf(n, k), NEW q, q = CollectLeaves(n)[k].pane
  PROVE  /\ q \in PaneIds
         /\ \/ /\ k \in 1..i /\ OnlyLeaf(a, k) /\ q = CollectLeaves(a)[k].pane /\ q \notin PanesIn(b)
            \/ /\ k - i \in 1..(c - i) /\ OnlyLeaf(b, k - i) /\ q = CollectLeaves(b)[k - i].pane
               /\ q \notin PanesIn(a)
<1>1. /\ CountLeaves(a) = i /\ CountLeaves(b) = c - i /\ CountLeaves(n) = c
      /\ CollectLeaves(n) \in Seq(Leaves)
      /\ \A m \in 1..i : CollectLeaves(n)[m] = CollectLeaves(a)[m]
      /\ \A m \in 1..(c - i) : CollectLeaves(n)[i + m] = CollectLeaves(b)[m]
  BY ForkLeaves
<1>2. c \in Nat /\ i \in 1..(c - 1)
  BY SideSizes
<1>3. \A m \in 1..c : CollectLeaves(n)[m].pane = q => m = k
  BY <1>1 DEF OnlyLeaf
<1>4. q \in PaneIds
  <2>1. CollectLeaves(n)[k] \in Leaves
    BY <1>1, ElementOfSeq DEF CountLeaves
  <2> QED
    BY <2>1 DEF Leaves
<1>5. ASSUME NEW m \in 1..i PROVE m \in 1..c /\ (CollectLeaves(a)[m].pane = q => m = k)
  <2>1. m \in 1..c
    BY <1>2
  <2> QED
    BY <1>1, <1>3, <2>1
<1>6. ASSUME NEW m \in 1..(c - i) PROVE i + m \in 1..c /\ (CollectLeaves(b)[m].pane = q => i + m = k)
  <2>1. i + m \in 1..c
    BY <1>2
  <2> QED
    BY <1>1, <1>3, <2>1
<1>7. CASE k \in 1..i
  <2>1. q = CollectLeaves(a)[k].pane
    BY <1>1, <1>7
  <2>2. OnlyLeaf(a, k)
    BY <1>1, <1>5, <2>1 DEF OnlyLeaf
  <2>3. q \notin PanesIn(b)
    BY <1>1, <1>2, <1>6, <1>7 DEF PanesIn
  <2> QED
    BY <1>4, <1>7, <2>1, <2>2, <2>3
<1>8. CASE ~(k \in 1..i)
  <2> DEFINE m == k - i
  <2>1. m \in 1..(c - i) /\ i + m = k
    BY <1>2, <1>8
  <2> HIDE DEF m
  <2>2. q = CollectLeaves(b)[m].pane
    BY <1>1, <2>1
  <2>3. \A j \in 1..(c - i) : CollectLeaves(b)[j].pane = q => j = m
    BY <1>2, <1>6, <2>1
  <2>4. OnlyLeaf(b, m)
    BY <1>1, <2>2, <2>3 DEF OnlyLeaf
  <2>5. q \notin PanesIn(a)
    BY <1>1, <1>5, <1>8 DEF PanesIn
  <2> QED
    BY <1>4, <2>1, <2>2, <2>4, <2>5 DEF m
<1> QED
  BY <1>7, <1>8

\* Nor is one that is not there.
LEMMA OnNoSide ==
  ASSUME NEW c, NEW i, NEW a, NEW b, Forked(Leaves, c, i, a, b), NEW q, q \notin PanesIn(Fork(a, b))
  PROVE  q \notin PanesIn(a) /\ q \notin PanesIn(b)
<1> DEFINE n == Fork(a, b)
<1>1. /\ CountLeaves(a) = i /\ CountLeaves(b) = c - i /\ CountLeaves(n) = c
      /\ \A m \in 1..i : CollectLeaves(n)[m] = CollectLeaves(a)[m]
      /\ \A m \in 1..(c - i) : CollectLeaves(n)[i + m] = CollectLeaves(b)[m]
  BY ForkLeaves
<1> HIDE DEF n
<1>2. c \in Nat /\ i \in 1..(c - 1)
  BY SideSizes
<1>3. \A m \in 1..c : CollectLeaves(n)[m].pane # q
  BY <1>1 DEF PanesIn, n
<1>4. \A m \in 1..i : m \in 1..c /\ CollectLeaves(a)[m].pane # q
  BY <1>1, <1>2, <1>3
<1>5. \A m \in 1..(c - i) : i + m \in 1..c /\ CollectLeaves(b)[m].pane # q
  BY <1>1, <1>2, <1>3
<1> QED
  BY <1>1, <1>4, <1>5 DEF PanesIn

\* splitLeaf leaves a tree alone that does not have the pane.
LEMMA SplitElsewhere ==
  \A c \in 1..(MAX_PANES - 1) : \A n \in Layouts(c), q \in PaneIds, e \in Leaves :
      q \notin PanesIn(n) => SplitLeaf(n, q, e) = n
<1> DEFINE P(c) == \A n \in Layouts(c), q \in PaneIds, e \in Leaves :
                      q \notin PanesIn(n) => SplitLeaf(n, q, e) = n
           S == {c \in 1..(MAX_PANES - 1) : P(c)}
<1>1. MAX_PANES - 1 \in Nat /\ \A c \in 1..(MAX_PANES - 1) : c \in 1..MAX_PANES
  BY WorkspacesAssumption
<1>2. ASSUME NEW c \in 1..(MAX_PANES - 1), \A i \in 1..(c - 1) : i \in S PROVE P(c)
  <2> SUFFICES ASSUME NEW n \in Layouts(c), NEW q \in PaneIds, NEW e \in Leaves, q \notin PanesIn(n)
               PROVE  SplitLeaf(n, q, e) = n
    OBVIOUS
  <2>1. CASE c = 1 /\ n \in Leaves
    <3>1. CollectLeaves(n) = <<n>>
      BY <2>1, PaneTreeEquations DEF CollectEq
    <3>2. n.pane # q
      BY <3>1 DEF PanesIn, CountLeaves
    <3> QED
      BY <2>1, <3>2, PaneTreeEquations DEF SplitEq
  <2>2. ASSUME NEW i, NEW a, NEW b, Forked(Leaves, c, i, a, b), n = Fork(a, b)
        PROVE  SplitLeaf(n, q, e) = n
    <3>1. /\ i \in 1..(c - 1) /\ c - i \in 1..(c - 1) /\ c \in 2..(MAX_PANES - 1)
          /\ a \in Layouts(i) /\ b \in Layouts(c - i)
      BY <1>1, <2>2, SideSizes DEF Layouts
    <3>2. SplitLeaf(a, q, e) = a /\ SplitLeaf(b, q, e) = b
      BY <1>2, <2>2, <3>1, OnNoSide
    <3>3. SplitLeaf(n, q, e) = Fork(SplitLeaf(a, q, e), SplitLeaf(b, q, e))
      BY <2>2, <3>1, PaneTreeEquations DEF SplitEq
    <3> QED
      BY <2>2, <3>2, <3>3
  <2> QED
    BY <1>1, <2>1, <2>2, TreeCases DEF Layouts
<1>3. \A c \in 1..(MAX_PANES - 1) : (\A i \in 1..(c - 1) : i \in S) => c \in S
  BY <1>2
<1> HIDE DEF S
<1>4. \A c \in 1..(MAX_PANES - 1) : c \in S
  BY <1>1, <1>3, UpTo
<1> QED
  BY <1>4 DEF S

\* splitLeaf puts the new leaf right after the one that is split.
LEMMA SplitOfTrees == SplitLaw
<1> DEFINE Good1(c, n, k, e, l) ==
             l \in Layouts(c + 1) /\ CollectLeaves(l) = InsertAt(CollectLeaves(n), k + 1, e)
           P(c) == \A n \in Layouts(c), k \in 1..c, e \in Leaves : OnlyLeaf(n, k) =>
                      Good1(c, n, k, e, SplitLeaf(n, CollectLeaves(n)[k].pane, e))
           S == {c \in 1..(MAX_PANES - 1) : P(c)}
<1>1. MAX_PANES \in Nat /\ MAX_PANES - 1 \in Nat /\ \A c \in 1..(MAX_PANES - 1) : c \in 1..MAX_PANES
  BY WorkspacesAssumption
<1>2. ASSUME NEW c \in 1..(MAX_PANES - 1), \A i \in 1..(c - 1) : i \in S PROVE P(c)
  <2> SUFFICES ASSUME NEW n \in Layouts(c), NEW k \in 1..c, NEW e \in Leaves, OnlyLeaf(n, k),
                      NEW q, q = CollectLeaves(n)[k].pane
               PROVE  Good1(c, n, k, e, SplitLeaf(n, q, e))
    OBVIOUS
  <2> DEFINE l == SplitLeaf(n, q, e)
  <2>1. CASE c = 1 /\ n \in Leaves
    <3>1. CollectLeaves(n) = <<n>> /\ CollectLeaves(e) = <<e>> /\ k = 1
      BY <2>1, PaneTreeEquations DEF CollectEq
    <3>2. q = n.pane /\ q \in PaneIds
      BY <2>1, <3>1 DEF Leaves
    <3>3. l = Fork(n, e)
      BY <2>1, <3>2, PaneTreeEquations DEF SplitEq
    <3>4. Forked(Leaves, 2, 1, n, e)
      <4>1. 2 \in 2..MAX_PANES /\ 1 \in 1..(2 - 1) /\ 2 - 1 = 1
        BY <1>1, <2>1
      <4>2. n \in Trees(Leaves, 1) /\ e \in Trees(Leaves, 1)
        BY <2>1, TreesMade
      <4> QED
        BY <4>1, <4>2 DEF Forked
    <3>5. l \in Layouts(2) /\ CollectLeaves(l) = <<n>> \o <<e>>
      <4> HIDE DEF l
      <4>1. l \in Layouts(2)
        BY <3>3, <3>4, TreesMade DEF Layouts
      <4>2. CollectLeaves(l) = CollectLeaves(n) \o CollectLeaves(e)
        BY <3>3, <3>4, ForkLeaves
      <4> QED
        BY <3>1, <4>1, <4>2
    <3>6. <<n>> \in Seq(Leaves) /\ Len(<<n>>) = 1 /\ <<e>> \in Seq(Leaves)
      BY <2>1
    <3>7. <<n>> \o <<e>> = InsertAt(<<n>>, 2, e)
      <4> DEFINE s == <<n>>
                 r == InsertAt(s, 2, e)
                 j == s \o <<e>>
      <4>1. s \in Seq(Leaves) /\ 2 \in 1..(Len(s) + 1)
        BY <3>6
      <4>2. r \in Seq(Leaves) /\ Inserted(s, 2, e, r)
        BY <4>1, InsertAtProps
      <4>3. j \in Seq(Leaves) /\ Joined(s, <<e>>, j)
        BY <3>6, JoinProps
      <4> HIDE DEF r, j
      <4>4. Len(r) = 2 /\ r[1] = n /\ r[2] = e
        BY <3>6, <4>2 DEF Inserted
      <4>5. Len(j) = 2 /\ j[1] = n /\ j[1 + 1] = e
        BY <3>6, <4>3 DEF Joined
      <4>6. j = r
        BY <4>2, <4>3, <4>4, <4>5, SeqEqual
      <4> QED
        BY <4>6 DEF r, j
    <3> QED
      BY <2>1, <3>1, <3>5, <3>7
  <2>2. ASSUME NEW i, NEW a, NEW b, Forked(Leaves, c, i, a, b), n = Fork(a, b)
        PROVE  Good1(c, n, k, e, l)
    <3>1. /\ i \in 1..(c - 1) /\ c - i \in 1..(c - 1) /\ c \in 2..(MAX_PANES - 1)
          /\ a \in Layouts(i) /\ b \in Layouts(c - i)
          /\ i \in 1..(MAX_PANES - 1) /\ c - i \in 1..(MAX_PANES - 1)
      BY <1>1, <2>2, SideSizes DEF Layouts
    <3>2. /\ CollectLeaves(n) = CollectLeaves(a) \o CollectLeaves(b)
          /\ CollectLeaves(a) \in Seq(Leaves) /\ CollectLeaves(b) \in Seq(Leaves)
          /\ Len(CollectLeaves(a)) = i /\ Len(CollectLeaves(b)) = c - i
      BY <2>2, ForkLeaves DEF CountLeaves
    <3>3. q \in PaneIds
      BY <2>2, OnOneSide
    <3>4. l = Fork(SplitLeaf(a, q, e), SplitLeaf(b, q, e))
      BY <2>2, <3>1, <3>3, PaneTreeEquations DEF SplitEq
    <3>5. CASE k \in 1..i /\ OnlyLeaf(a, k) /\ q = CollectLeaves(a)[k].pane /\ q \notin PanesIn(b)
      <4> DEFINE x == SplitLeaf(a, q, e)
      <4>1. Good1(i, a, k, e, x)
        BY <1>2, <3>1, <3>5
      <4>2. l = Fork(x, b)
        BY <3>1, <3>3, <3>4, <3>5, SplitElsewhere
      <4> HIDE DEF x, l
      <4>3. Forked(Leaves, c + 1, i + 1, x, b)
        BY <1>1, <3>1, <4>1 DEF Forked, Layouts
      <4>4. l \in Layouts(c + 1)
        BY <4>2, <4>3, TreesMade DEF Layouts
      <4>5. CollectLeaves(l) = CollectLeaves(x) \o CollectLeaves(b)
        BY <4>2, <4>3, ForkLeaves
      <4>6. k + 1 \in 1..(Len(CollectLeaves(a)) + 1)
        BY <3>1, <3>2, <3>5
      <4>7. InsertAt(CollectLeaves(a), k + 1, e) \o CollectLeaves(b) = InsertAt(CollectLeaves(n), k + 1, e)
        <5> DEFINE j == k + 1
                   s == CollectLeaves(a)
                   t == CollectLeaves(b)
        <5>1. s \in Seq(Leaves) /\ t \in Seq(Leaves) /\ j \in 1..(Len(s) + 1) /\ e \in Leaves
          BY <3>2, <4>6
        <5> HIDE DEF j, s, t
        <5>2. InsertAt(s, j, e) \o t = InsertAt(s \o t, j, e)
          BY <5>1, InsertLeft
        <5>3. CollectLeaves(n) = s \o t
          BY <3>2 DEF s, t
        <5>4. InsertAt(s, j, e) \o t = InsertAt(CollectLeaves(n), j, e)
          BY <5>2, <5>3
        <5> QED
          BY <5>4 DEF j, s, t
      <4> QED
        BY <4>1, <4>4, <4>5, <4>7
    <3>6. CASE /\ k - i \in 1..(c - i) /\ OnlyLeaf(b, k - i) /\ q = CollectLeaves(b)[k - i].pane
               /\ q \notin PanesIn(a)
      <4> DEFINE x == SplitLeaf(b, q, e)
                 m == k - i
      <4>1. Good1(c - i, b, m, e, x)
        BY <1>2, <3>1, <3>6
      <4>2. l = Fork(a, x)
        BY <3>1, <3>3, <3>4, <3>6, SplitElsewhere
      <4>3. m \in 1..(c - i) /\ k = i + m
        BY <3>1, <3>6
      <4> HIDE DEF x, l, m
      <4>4. Forked(Leaves, c + 1, i, a, x)
        <5>1. (c + 1) - i = (c - i) + 1 /\ i \in 1..((c + 1) - 1) /\ c + 1 \in 2..MAX_PANES
          BY <1>1, <3>1
        <5> QED
          BY <3>1, <4>1, <5>1 DEF Forked, Layouts
      <4>5. l \in Layouts(c + 1)
        BY <4>2, <4>4, TreesMade DEF Layouts
      <4>6. CollectLeaves(l) = CollectLeaves(a) \o CollectLeaves(x)
        BY <4>2, <4>4, ForkLeaves
      <4>7. m + 1 \in 1..(Len(CollectLeaves(b)) + 1) /\ Len(CollectLeaves(a)) + (m + 1) = k + 1
        BY <3>1, <3>2, <4>3
      <4>8. CollectLeaves(a) \o InsertAt(CollectLeaves(b), m + 1, e)
              = InsertAt(CollectLeaves(n), Len(CollectLeaves(a)) + (m + 1), e)
        <5> DEFINE j == m + 1
                   s == CollectLeaves(a)
                   t == CollectLeaves(b)
        <5>1. s \in Seq(Leaves) /\ t \in Seq(Leaves) /\ j \in 1..(Len(t) + 1) /\ e \in Leaves
          BY <3>2, <4>7
        <5> HIDE DEF j, s, t
        <5>2. s \o InsertAt(t, j, e) = InsertAt(s \o t, Len(s) + j, e)
          BY <5>1, InsertRight
        <5>3. CollectLeaves(n) = s \o t
          BY <3>2 DEF s, t
        <5>4. s \o InsertAt(t, j, e) = InsertAt(CollectLeaves(n), Len(s) + j, e)
          BY <5>2, <5>3
        <5> QED
          BY <5>4 DEF j, s, t
      <4> QED
        BY <4>1, <4>5, <4>6, <4>7, <4>8
    <3> QED
      BY <2>2, <3>5, <3>6, OnOneSide
  <2> QED
    BY <1>1, <2>1, <2>2, TreeCases DEF Layouts
<1>3. \A c \in 1..(MAX_PANES - 1) : (\A i \in 1..(c - 1) : i \in S) => c \in S
  BY <1>2
<1> HIDE DEF S
<1>4. \A c \in 1..(MAX_PANES - 1) : c \in S
  BY <1>1, <1>3, UpTo
<1>5. \A c \in 1..(MAX_PANES - 1) : P(c)
  BY <1>4 DEF S
<1> QED
  BY <1>5 DEF SplitLaw

\* removeLeaf takes one leaf away, and the sibling takes the split's place.
LEMMA RemoveOfTrees == RemoveLaw
<1> DEFINE Left(c, n, k, l) ==
             IF c = 1 THEN l = Dead
             ELSE l \in Layouts(c - 1) /\ CollectLeaves(l) = RemoveAt(CollectLeaves(n), k)
           P(c) == \A n \in Layouts(c), k \in 1..c : OnlyLeaf(n, k) =>
                      Left(c, n, k, RemoveLeaf(n, CollectLeaves(n)[k].pane))
           S == {c \in 1..MAX_PANES : P(c)}
<1>1. MAX_PANES \in Nat
  BY WorkspacesAssumption
<1>2. ASSUME NEW c \in 1..MAX_PANES, \A i \in 1..(c - 1) : i \in S PROVE P(c)
  <2> SUFFICES ASSUME NEW n \in Layouts(c), NEW k \in 1..c, OnlyLeaf(n, k),
                      NEW q, q = CollectLeaves(n)[k].pane
               PROVE  Left(c, n, k, RemoveLeaf(n, q))
    OBVIOUS
  <2> DEFINE l == RemoveLeaf(n, q)
  <2>1. CASE c = 1 /\ n \in Leaves
    <3>1. CollectLeaves(n) = <<n>> /\ k = 1
      BY <2>1, PaneTreeEquations DEF CollectEq
    <3>2. q = n.pane /\ q \in PaneIds
      BY <2>1, <3>1 DEF Leaves
    <3> QED
      BY <2>1, <3>2, PaneTreeEquations DEF RemoveEq
  <2>2. ASSUME NEW i, NEW a, NEW b, Forked(Leaves, c, i, a, b), n = Fork(a, b)
        PROVE  Left(c, n, k, l)
    <3>1. /\ i \in 1..(c - 1) /\ c - i \in 1..(c - 1) /\ c \in 2..MAX_PANES
          /\ i \in 1..MAX_PANES /\ c - i \in 1..MAX_PANES
          /\ a \in Layouts(i) /\ b \in Layouts(c - i)
      BY <2>2, SideSizes DEF Layouts
    <3>2. /\ CollectLeaves(n) = CollectLeaves(a) \o CollectLeaves(b)
          /\ CollectLeaves(a) \in Seq(Leaves) /\ CollectLeaves(b) \in Seq(Leaves)
          /\ Len(CollectLeaves(a)) = i /\ Len(CollectLeaves(b)) = c - i
      BY <2>2, ForkLeaves DEF CountLeaves
    <3>3. q \in PaneIds /\ a # Dead /\ b # Dead
      BY <2>2, <3>1, OnOneSide, TreesMade DEF Layouts
    <3>4. l = IF q \in PanesIn(a) THEN WithoutDead(RemoveLeaf(a, q), b)
              ELSE IF q \in PanesIn(b) THEN WithoutDead(a, RemoveLeaf(b, q))
              ELSE Fork(a, b)
      BY <2>2, <3>1, <3>3, PaneTreeEquations DEF RemoveEq
    <3>5. CASE k \in 1..i /\ OnlyLeaf(a, k) /\ q = CollectLeaves(a)[k].pane /\ q \notin PanesIn(b)
      <4> DEFINE x == RemoveLeaf(a, q)
      <4>1. Left(i, a, k, x)
        BY <1>2, <3>1, <3>5
      <4>2. l = WithoutDead(x, b)
        <5>1. q \in PanesIn(a)
          BY <3>2, <3>5 DEF PanesIn, CountLeaves
        <5> QED
          BY <3>4, <5>1
      <4>3. k \in 1..Len(CollectLeaves(a))
        BY <3>2, <3>5
      <4>4. RemoveAt(CollectLeaves(a), k) \o CollectLeaves(b) = RemoveAt(CollectLeaves(n), k)
        BY <3>2, <4>3, RemoveLeft
      <4> HIDE DEF x, l
      <4>5. CASE i = 1
        <5>1. x = Dead /\ l = b /\ c - i = c - 1
          BY <4>1, <4>2, <4>5 DEF WithoutDead
        <5>2. RemoveAt(CollectLeaves(a), k) = <<>>
          <6>1. RemoveAt(CollectLeaves(a), k) \in Seq(Leaves) /\ Len(RemoveAt(CollectLeaves(a), k)) = Len(CollectLeaves(a)) - 1
            BY <3>2, <4>3, RemoveAtProps
          <6>2. Len(RemoveAt(CollectLeaves(a), k)) = 0
            BY <3>2, <4>5, <6>1
          <6> QED
            BY <6>1, <6>2, EmptySeq
        <5>3. CollectLeaves(b) = RemoveAt(CollectLeaves(n), k)
          BY <3>2, <4>4, <5>2, ConcatEmptySeq
        <5> QED
          BY <3>1, <5>1, <5>3
      <4>6. CASE i # 1
        <5>1. x \in Layouts(i - 1) /\ CollectLeaves(x) = RemoveAt(CollectLeaves(a), k)
          BY <4>1, <4>6
        <5>2. i - 1 \in 1..MAX_PANES /\ c - 1 \in 2..MAX_PANES /\ i - 1 \in 1..((c - 1) - 1) /\ (c - 1) - (i - 1) = c - i
          BY <1>1, <3>1, <4>6
        <5>3. x # Dead
          BY <5>1, <5>2, TreesMade DEF Layouts
        <5>4. l = Fork(x, b)
          BY <3>3, <4>2, <5>3 DEF WithoutDead
        <5>5. Forked(Leaves, c - 1, i - 1, x, b)
          BY <3>1, <5>1, <5>2 DEF Forked, Layouts
        <5>6. l \in Layouts(c - 1) /\ CollectLeaves(l) = CollectLeaves(x) \o CollectLeaves(b)
          BY <5>4, <5>5, TreesMade, ForkLeaves DEF Layouts
        <5> QED
          BY <3>1, <4>4, <5>1, <5>6
      <4> QED
        BY <4>5, <4>6
    <3>6. CASE /\ k - i \in 1..(c - i) /\ OnlyLeaf(b, k - i) /\ q = CollectLeaves(b)[k - i].pane
               /\ q \notin PanesIn(a)
      <4> DEFINE x == RemoveLeaf(b, q)
                 m == k - i
                 j == c - i
      <4>1. Left(j, b, m, x)
        BY <1>2, <3>1, <3>6
      <4>2. l = WithoutDead(a, x)
        <5>1. q \in PanesIn(b)
          BY <3>2, <3>6 DEF PanesIn, CountLeaves
        <5> QED
          BY <3>4, <3>6, <5>1
      <4>3. m \in 1..j /\ k = i + m /\ j \in 1..(c - 1) /\ c = i + j /\ Len(CollectLeaves(b)) = j
        BY <3>1, <3>2, <3>6
      <4> HIDE DEF x, l, m, j
      <4>4. CollectLeaves(a) \o RemoveAt(CollectLeaves(b), m) = RemoveAt(CollectLeaves(n), k)
        <5>1. m \in 1..Len(CollectLeaves(b)) /\ Len(CollectLeaves(a)) + m = k
          BY <3>2, <4>3
        <5>2. CollectLeaves(a) \o RemoveAt(CollectLeaves(b), m)
                = RemoveAt(CollectLeaves(a) \o CollectLeaves(b), Len(CollectLeaves(a)) + m)
          BY <3>2, <5>1, RemoveRight
        <5> QED
          BY <3>2, <5>1, <5>2
      <4>5. CASE j = 1
        <5>1. x = Dead /\ l = a /\ i = c - 1
          BY <3>1, <3>3, <4>1, <4>2, <4>3, <4>5 DEF WithoutDead
        <5>2. RemoveAt(CollectLeaves(b), m) = <<>>
          <6>1. RemoveAt(CollectLeaves(b), m) \in Seq(Leaves) /\ Len(RemoveAt(CollectLeaves(b), m)) = Len(CollectLeaves(b)) - 1
            BY <3>2, <4>3, RemoveAtProps
          <6>2. Len(RemoveAt(CollectLeaves(b), m)) = 0
            BY <4>3, <4>5, <6>1
          <6> QED
            BY <6>1, <6>2, EmptySeq
        <5>3. CollectLeaves(a) = RemoveAt(CollectLeaves(n), k)
          BY <3>2, <4>4, <5>2, ConcatEmptySeq
        <5> QED
          BY <3>1, <5>1, <5>3
      <4>6. CASE j # 1
        <5>1. x \in Layouts(j - 1) /\ CollectLeaves(x) = RemoveAt(CollectLeaves(b), m)
          BY <4>1, <4>6
        <5>2. j - 1 \in 1..MAX_PANES /\ c - 1 \in 2..MAX_PANES /\ i \in 1..((c - 1) - 1) /\ (c - 1) - i = j - 1
          BY <1>1, <3>1, <4>3, <4>6
        <5>3. x # Dead
          BY <5>1, <5>2, TreesMade DEF Layouts
        <5>4. l = Fork(a, x)
          BY <3>3, <4>2, <5>3 DEF WithoutDead
        <5>5. Forked(Leaves, c - 1, i, a, x)
          BY <3>1, <5>1, <5>2 DEF Forked, Layouts
        <5>6. l \in Layouts(c - 1) /\ CollectLeaves(l) = CollectLeaves(a) \o CollectLeaves(x)
          BY <5>4, <5>5, TreesMade, ForkLeaves DEF Layouts
        <5> QED
          BY <3>1, <4>4, <5>1, <5>6
      <4> QED
        BY <4>5, <4>6
    <3> QED
      BY <2>2, <3>5, <3>6, OnOneSide
  <2> QED
    BY <2>1, <2>2, TreeCases DEF Layouts
<1>3. \A c \in 1..MAX_PANES : (\A i \in 1..(c - 1) : i \in S) => c \in S
  BY <1>2
<1> HIDE DEF S
<1>4. \A c \in 1..MAX_PANES : c \in S
  BY <1>1, <1>3, UpTo
<1>5. \A c \in 2..MAX_PANES : c \in 1..MAX_PANES /\ c # 1 /\ P(c)
  BY <1>1, <1>4 DEF S
<1> QED
  BY <1>5 DEF RemoveLaw


\* What is left of a sequence, spelled out.
Picks(s, keep, n, f) ==
    /\ n \in 0..Len(s) /\ f \in [1..n -> keep]
    /\ \A i, j \in 1..n : i < j => f[i] < f[j]
    /\ \A x \in keep : \E i \in 1..n : f[i] = x
LEMMA ThinnedIs ==
  ASSUME NEW s, NEW keep, NEW t
  PROVE  t \in Thinned(s, keep) <=> \E n, f : Picks(s, keep, n, f) /\ t = [k \in 1..n |-> s[f[k]]]
<1>1. ASSUME t \in Thinned(s, keep)
      PROVE  \E n, f : Picks(s, keep, n, f) /\ t = [k \in 1..n |-> s[f[k]]]
  <2>1. PICK n \in 0..Len(s) : \E f \in [1..n -> keep] :
          /\ \A i, j \in 1..n : i < j => f[i] < f[j]
          /\ keep = {f[i] : i \in 1..n}
          /\ t = [k \in 1..n |-> s[f[k]]]
    BY <1>1 DEF Thinned
  <2>2. PICK f \in [1..n -> keep] :
          /\ \A i, j \in 1..n : i < j => f[i] < f[j]
          /\ keep = {f[i] : i \in 1..n}
          /\ t = [k \in 1..n |-> s[f[k]]]
    BY <2>1
  <2>3. \A x \in keep : \E i \in 1..n : f[i] = x
    BY <2>2
  <2>4. Picks(s, keep, n, f)
    BY <2>1, <2>2, <2>3 DEF Picks
  <2> QED
    BY <2>2, <2>4
<1>2. ASSUME NEW n, NEW f, Picks(s, keep, n, f), t = [k \in 1..n |-> s[f[k]]]
      PROVE  t \in Thinned(s, keep)
  <2>1. /\ n \in 0..Len(s) /\ f \in [1..n -> keep]
        /\ \A i, j \in 1..n : i < j => f[i] < f[j]
        /\ \A x \in keep : \E i \in 1..n : f[i] = x
    BY <1>2 DEF Picks
  <2>2. keep = {f[i] : i \in 1..n}
    BY <2>1
  <2> DEFINE G(m) == {g \in [1..m -> keep] : /\ \A i, j \in 1..m : i < j => g[i] < g[j]
                                             /\ keep = {g[i] : i \in 1..m}}
             T(m) == {[k \in 1..m |-> s[g[k]]] : g \in G(m)}
  <2>3. f \in G(n)
    BY <2>1, <2>2
  <2>4. Thinned(s, keep) = UNION {T(m) : m \in 0..Len(s)}
    BY DEF Thinned
  <2> HIDE DEF G
  <2>5. t \in T(n)
    BY <1>2, <2>3
  <2> HIDE DEF T
  <2> QED
    BY <2>1, <2>4, <2>5
<1> QED
  BY <1>1, <1>2

\* Nothing is left where nothing is kept.
LEMMA ThinnedEmpty ==
  ASSUME NEW S, NEW s \in Seq(S)
  PROVE  <<>> \in Thinned(s, {})
<1> DEFINE f == [k \in 1..0 |-> k]
<1>1. Len(s) \in Nat
  BY LenProperties
<1>2. Picks(s, {}, 0, f)
  BY <1>1 DEF Picks
<1>3. <<>> = [k \in 1..0 |-> s[f[k]]]
  OBVIOUS
<1> HIDE DEF f
<1>4. \E n, g : Picks(s, {}, n, g) /\ <<>> = [k \in 1..n |-> s[g[k]]]
  BY <1>2, <1>3
<1> QED
  BY <1>4, ThinnedIs

\* What is left of two joined sequences.
Shifted(K, m) == {m + k : k \in K}
LEMMA ThinnedJoin ==
  ASSUME NEW S, NEW s \in Seq(S), NEW t \in Seq(S),
         NEW A \in SUBSET (1..Len(s)), NEW B \in SUBSET (1..Len(t)),
         NEW u \in Thinned(s, A), NEW v \in Thinned(t, B)
  PROVE  u \o v \in Thinned(s \o t, A \cup Shifted(B, Len(s)))
<1> DEFINE w == s \o t
           d == Len(s)
           K == A \cup Shifted(B, d)
<1>1. PICK n, f : Picks(s, A, n, f) /\ u = [k \in 1..n |-> s[f[k]]]
  BY ThinnedIs
<1>2. PICK m, g : Picks(t, B, m, g) /\ v = [k \in 1..m |-> t[g[k]]]
  BY ThinnedIs
<1>3. /\ d \in Nat /\ Len(t) \in Nat /\ Len(w) = d + Len(t)
      /\ \A i \in 1..d : w[i] = s[i]
      /\ \A i \in 1..Len(t) : w[d + i] = t[i]
      /\ A \subseteq 1..d
  BY JoinProps DEF Joined
<1> HIDE DEF w, d
<1>4. /\ n \in 0..d /\ f \in [1..n -> A]
      /\ \A i, j \in 1..n : i < j => f[i] < f[j]
      /\ \A x \in A : \E i \in 1..n : f[i] = x
  BY <1>1 DEF Picks, d
<1>5. /\ m \in 0..Len(t) /\ g \in [1..m -> B]
      /\ \A i, j \in 1..m : i < j => g[i] < g[j]
      /\ \A x \in B : \E i \in 1..m : g[i] = x
  BY <1>2 DEF Picks
<1>6. n \in Nat /\ m \in Nat /\ n + m \in 0..Len(w)
  BY <1>3, <1>4, <1>5
<1> DEFINE h == [k \in 1..(n + m) |-> IF k <= n THEN f[k] ELSE d + g[k - n]]
<1>h. \A k \in 1..(n + m) : h[k] = IF k <= n THEN f[k] ELSE d + g[k - n]
  OBVIOUS
<1>10. h = [k \in 1..(n + m) |-> h[k]]
  OBVIOUS
<1> HIDE DEF h
<1>7. ASSUME NEW k \in 1..n
      PROVE  k \in 1..(n + m) /\ h[k] = f[k] /\ f[k] \in A /\ f[k] \in 1..d
  <2>1. k \in 1..(n + m) /\ k <= n
    BY <1>6
  <2>2. f[k] \in A /\ f[k] \in 1..d
    BY <1>3, <1>4
  <2> QED
    BY <1>h, <2>1, <2>2
<1>8. ASSUME NEW k \in 1..m
      PROVE  n + k \in 1..(n + m) /\ h[n + k] = d + g[k] /\ g[k] \in B /\ g[k] \in 1..Len(t)
  <2>1. n + k \in 1..(n + m) /\ ~(n + k <= n) /\ (n + k) - n = k
    BY <1>6
  <2>2. g[k] \in B /\ g[k] \in 1..Len(t)
    BY <1>5
  <2> QED
    BY <1>h, <2>1, <2>2
<1>9. ASSUME NEW k \in 1..(n + m)
      PROVE  k \in 1..n \/ \E j \in 1..m : k = n + j
  <2>1. CASE k <= n
    BY <1>6, <2>1
  <2>2. CASE ~(k <= n)
    <3>1. k - n \in 1..m /\ k = n + (k - n)
      BY <1>6, <2>2
    <3> QED
      BY <3>1
  <2> QED
    BY <2>1, <2>2
<1>11. \A k \in 1..(n + m) : h[k] \in K
  BY <1>7, <1>8, <1>9 DEF Shifted
<1>12. h \in [1..(n + m) -> K]
  BY <1>10, <1>11
<1>13. ASSUME NEW i \in 1..(n + m), NEW j \in 1..(n + m), i < j PROVE h[i] < h[j]
  <2>1. CASE i \in 1..n /\ j \in 1..n
    BY <1>4, <1>7, <1>13, <2>1
  <2>2. ASSUME NEW y \in 1..m, i \in 1..n, j = n + y PROVE h[i] < h[j]
    <3>1. h[i] \in 1..d /\ h[j] = d + g[y] /\ g[y] \in 1..Len(t)
      BY <1>7, <1>8, <2>2
    <3> QED
      BY <1>3, <3>1
  <2>3. ASSUME NEW x \in 1..m, NEW y \in 1..m, i = n + x, j = n + y PROVE h[i] < h[j]
    <3>1. x < y
      BY <1>6, <1>13, <2>3
    <3>2. g[x] < g[y] /\ g[x] \in 1..Len(t) /\ g[y] \in 1..Len(t) /\ h[i] = d + g[x] /\ h[j] = d + g[y]
      BY <1>5, <1>8, <2>3, <3>1
    <3> QED
      BY <1>3, <3>2
  <2>4. ASSUME NEW x \in 1..m, i = n + x, j \in 1..n PROVE FALSE
    BY <1>6, <1>13, <2>4
  <2> QED
    BY <1>9, <2>1, <2>2, <2>3, <2>4
<1>14. ASSUME NEW x \in K PROVE \E i \in 1..(n + m) : h[i] = x
  <2>1. CASE x \in A
    BY <1>4, <1>7, <2>1
  <2>2. ASSUME NEW y \in B, x = d + y PROVE \E i \in 1..(n + m) : h[i] = x
    <3>1. PICK j \in 1..m : g[j] = y
      BY <1>5
    <3> QED
      BY <1>8, <2>2, <3>1
  <2> QED
    BY <2>1, <2>2 DEF Shifted
<1>15. Picks(w, K, n + m, h)
  <2> HIDE DEF K
  <2> QED
    BY <1>6, <1>12, <1>13, <1>14 DEF Picks
<1>16. u \in Seq(S) /\ Len(u) = n /\ \A k \in 1..n : u[k] = s[f[k]]
  <2>1. \A k \in 1..n : s[f[k]] \in S
    <3>1. \A k \in 1..d : s[k] \in S
      BY ElementOfSeq DEF d
    <3> QED
      BY <1>7, <3>1
  <2> QED
    BY <1>1, <1>6, <2>1
<1>17. v \in Seq(S) /\ Len(v) = m /\ \A k \in 1..m : v[k] = t[g[k]]
  <2>1. \A k \in 1..m : t[g[k]] \in S
    <3>1. \A k \in 1..Len(t) : t[k] \in S
      BY ElementOfSeq
    <3> QED
      BY <1>8, <3>1
  <2> QED
    BY <1>2, <1>6, <2>1
<1> DEFINE z == u \o v
<1>18. /\ z \in Seq(S) /\ Len(z) = n + m
       /\ \A i \in 1..n : z[i] = u[i]
       /\ \A i \in 1..m : z[n + i] = v[i]
  <2>1. z \in Seq(S) /\ Joined(u, v, z)
    BY <1>16, <1>17, JoinProps
  <2> HIDE DEF z
  <2> QED
    BY <1>16, <1>17, <2>1 DEF Joined
<1> HIDE DEF z
<1>19. ASSUME NEW k \in 1..(n + m) PROVE z[k] = w[h[k]]
  <2>1. CASE k \in 1..n
    BY <1>3, <1>7, <1>16, <1>18, <2>1
  <2>2. ASSUME NEW j \in 1..m, k = n + j PROVE z[k] = w[h[k]]
    <3>1. h[k] = d + g[j] /\ g[j] \in 1..Len(t)
      BY <1>8, <2>2
    <3>2. w[h[k]] = t[g[j]]
      BY <1>3, <3>1
    <3> QED
      BY <1>17, <1>18, <2>2, <3>2
  <2> QED
    BY <1>9, <2>1, <2>2
<1>20. z = [k \in 1..(n + m) |-> w[h[k]]]
  <2>1. z = [k \in 1..(n + m) |-> z[k]]
    BY <1>18
  <2> QED
    BY <1>19, <2>1
<1>21. z \in Thinned(w, K)
  <2> HIDE DEF K
  <2> QED
    BY <1>15, <1>20, ThinnedIs
<1> QED
  BY <1>21 DEF z, w, K, d

\* A saved layout has a host per pane.
LEMMA SavedSeq ==
  \A c \in 1..MAX_PANES : \A s \in SavedLayouts(c) : SavedHosts(s) \in Seq(Hosts) /\ Len(SavedHosts(s)) = c
<1> DEFINE P(c) == \A s \in Trees(SavedLeaves, c) : SavedHosts(s) \in Seq(Hosts) /\ Len(SavedHosts(s)) = c
           S == {c \in 1..MAX_PANES : P(c)}
<1>1. ASSUME NEW c \in 1..MAX_PANES, \A i \in 1..(c - 1) : i \in S PROVE P(c)
  <2> SUFFICES ASSUME NEW s \in Trees(SavedLeaves, c)
               PROVE  SavedHosts(s) \in Seq(Hosts) /\ Len(SavedHosts(s)) = c
    OBVIOUS
  <2>1. CASE c = 1 /\ s \in SavedLeaves
    <3>1. PICK h \in Hosts : s = SavedLeaf(h)
      BY <2>1 DEF SavedLeaves
    <3>2. SavedHosts(s) = <<h>>
      BY <3>1, PaneTreeEquations DEF SavedEq
    <3> QED
      BY <2>1, <3>2
  <2>2. ASSUME NEW i, NEW a, NEW b, Forked(SavedLeaves, c, i, a, b), s = Fork(a, b)
        PROVE  SavedHosts(s) \in Seq(Hosts) /\ Len(SavedHosts(s)) = c
    <3>1. /\ c \in 2..MAX_PANES /\ i \in 1..(c - 1) /\ c - i \in 1..(c - 1)
          /\ a \in Trees(SavedLeaves, i) /\ b \in Trees(SavedLeaves, c - i) /\ i + (c - i) = c
      BY <2>2, SideSizes
    <3>2. /\ SavedHosts(a) \in Seq(Hosts) /\ Len(SavedHosts(a)) = i
          /\ SavedHosts(b) \in Seq(Hosts) /\ Len(SavedHosts(b)) = c - i
      BY <1>1, <3>1
    <3>3. SavedHosts(s) = SavedHosts(a) \o SavedHosts(b)
      BY <2>2, <3>1, PaneTreeEquations DEF SavedEq, SavedLayouts
    <3>4. SavedHosts(s) \in Seq(Hosts) /\ Joined(SavedHosts(a), SavedHosts(b), SavedHosts(s))
      BY <3>2, <3>3, JoinProps
    <3> QED
      BY <3>1, <3>2, <3>4 DEF Joined
  <2> QED
    BY <2>1, <2>2, TreeCases
<1>2. MAX_PANES \in Nat
  BY WorkspacesAssumption
<1>3. \A c \in 1..MAX_PANES : (\A i \in 1..(c - 1) : i \in S) => c \in S
  BY <1>1
<1> HIDE DEF S
<1>4. \A c \in 1..MAX_PANES : c \in S
  BY <1>2, <1>3, UpTo
<1> QED
  BY <1>4 DEF S, SavedLayouts

\* The places of a saved split that are kept are those of its two sides.
LEMMA KeptOfFork ==
  ASSUME NEW c, NEW i, NEW a, NEW b, Forked(SavedLeaves, c, i, a, b), NEW s, s = Fork(a, b), NEW known
  PROVE  /\ SavedHosts(a) \in Seq(Hosts) /\ SavedHosts(b) \in Seq(Hosts)
         /\ SavedHosts(s) = SavedHosts(a) \o SavedHosts(b)
         /\ KeptPlaces(a, known) \in SUBSET (1..Len(SavedHosts(a)))
         /\ KeptPlaces(b, known) \in SUBSET (1..Len(SavedHosts(b)))
         /\ KeptPlaces(s, known) = KeptPlaces(a, known) \cup Shifted(KeptPlaces(b, known), Len(SavedHosts(a)))
<1>1. /\ c \in 2..MAX_PANES /\ i \in 1..MAX_PANES /\ c - i \in 1..MAX_PANES /\ i \in 1..(c - 1)
      /\ a \in SavedLayouts(i) /\ b \in SavedLayouts(c - i)
  BY SideSizes DEF SavedLayouts
<1> DEFINE x == SavedHosts(a)
           y == SavedHosts(b)
           z == SavedHosts(s)
           m == Len(x)
           n == Len(y)
<1>2. x \in Seq(Hosts) /\ y \in Seq(Hosts)
  BY <1>1, SavedSeq
<1>3. z = x \o y
  BY <1>1, PaneTreeEquations DEF SavedEq
<1>4. m \in Nat /\ n \in Nat /\ Len(z) = m + n
      /\ (\A k \in 1..m : z[k] = x[k]) /\ (\A k \in 1..n : z[m + k] = y[k])
  <2> HIDE DEF x, y, z
  <2>1. Joined(x, y, x \o y) /\ m \in Nat /\ n \in Nat
    BY <1>2, JoinProps
  <2> QED
    BY <1>3, <2>1 DEF Joined
<1> DEFINE A == KeptPlaces(a, known)
           B == KeptPlaces(b, known)
           K == KeptPlaces(s, known)
<1>5. /\ A = {k \in 1..m : x[k] \in known} /\ B = {k \in 1..n : y[k] \in known}
      /\ K = {k \in 1..Len(z) : z[k] \in known}
  BY DEF KeptPlaces
<1> HIDE DEF x, y, z, m, n, A, B, K
<1>6. ASSUME NEW k \in K PROVE k \in A \cup Shifted(B, m)
  <2>0. k \in 1..(m + n) /\ z[k] \in known
    BY <1>4, <1>5
  <2>1. CASE k <= m
    <3>1. k \in 1..m
      BY <1>4, <2>0, <2>1
    <3> QED
      BY <1>4, <1>5, <2>0, <3>1
  <2>2. CASE ~(k <= m)
    <3>1. PICK j \in 1..n : k = m + j
      <4>1. k - m \in 1..n /\ k = m + (k - m)
        BY <1>4, <2>0, <2>2
      <4> QED
        BY <4>1
    <3>2. j \in B
      BY <1>4, <1>5, <2>0, <3>1
    <3> QED
      BY <3>1, <3>2 DEF Shifted
  <2> QED
    BY <2>1, <2>2
<1>7. ASSUME NEW k \in A PROVE k \in K
  <2>1. k \in 1..m /\ k \in 1..(m + n) /\ x[k] \in known
    BY <1>4, <1>5
  <2> QED
    BY <1>4, <1>5, <2>1
<1>8. ASSUME NEW j \in B PROVE m + j \in K
  <2>1. j \in 1..n /\ m + j \in 1..(m + n) /\ y[j] \in known
    BY <1>4, <1>5
  <2> QED
    BY <1>4, <1>5, <2>1
<1>9. K = A \cup Shifted(B, m)
  BY <1>6, <1>7, <1>8 DEF Shifted
<1>10. A \in SUBSET (1..m) /\ B \in SUBSET (1..n)
  BY <1>5
<1> QED
  BY <1>2, <1>3, <1>9, <1>10 DEF x, y, z, m, n, A, B, K

\* The hosts of a split's leaves.
LEMMA ForkHosts ==
  ASSUME NEW L \in {Leaves, NewLeaves}, NEW c, NEW i, NEW a, NEW b, Forked(L, c, i, a, b), NEW n, n = Fork(a, b)
  PROVE  LeafHosts(n) = LeafHosts(a) \o LeafHosts(b)
<1>1. /\ CountLeaves(a) = i /\ CountLeaves(b) = c - i /\ CountLeaves(n) = c
      /\ \A k \in 1..i : CollectLeaves(n)[k] = CollectLeaves(a)[k]
      /\ \A k \in 1..(c - i) : CollectLeaves(n)[i + k] = CollectLeaves(b)[k]
  BY ForkLeaves
<1>2. c \in 2..MAX_PANES /\ i \in 1..(c - 1) /\ c - i \in 1..(c - 1) /\ MAX_PANES \in Nat /\ i + (c - i) = c
  BY SideSizes
<1> DEFINE x == LeafHosts(a)
           y == LeafHosts(b)
           z == LeafHosts(n)
           H == {x[k] : k \in 1..i} \cup {y[k] : k \in 1..(c - i)}
<1>3. /\ x = [k \in 1..i |-> CollectLeaves(a)[k].host]
      /\ y = [k \in 1..(c - i) |-> CollectLeaves(b)[k].host]
      /\ z = [k \in 1..c |-> CollectLeaves(n)[k].host]
  BY <1>1 DEF LeafHosts
<1>4. \A k \in 1..i : k \in 1..c /\ z[k] = x[k]
  BY <1>1, <1>2, <1>3
<1>5. ASSUME NEW k \in 1..(c - i) PROVE i + k \in 1..c /\ z[i + k] = y[k]
  <2>1. i + k \in 1..c
    BY <1>2
  <2> QED
    BY <1>1, <1>3, <2>1
<1> HIDE DEF x, y, z
<1>6. x \in Seq(H) /\ y \in Seq(H) /\ Len(x) = i /\ Len(y) = c - i
  <2>1. x = [k \in 1..i |-> x[k]] /\ y = [k \in 1..(c - i) |-> y[k]]
    BY <1>3
  <2>2. (\A k \in 1..i : x[k] \in H) /\ (\A k \in 1..(c - i) : y[k] \in H)
    OBVIOUS
  <2>3. i \in Nat /\ c - i \in Nat
    BY <1>2
  <2> HIDE DEF H
  <2> QED
    BY <2>1, <2>2, <2>3
<1> HIDE DEF H
<1> DEFINE w == x \o y
<1>7. w \in Seq(H) /\ Joined(x, y, w)
  BY <1>6, JoinProps
<1> HIDE DEF w
<1>8. /\ Len(w) = c /\ (\A k \in 1..i : w[k] = x[k]) /\ (\A k \in 1..(c - i) : w[i + k] = y[k])
  BY <1>2, <1>6, <1>7 DEF Joined
<1>9. ASSUME NEW k \in 1..c PROVE z[k] = w[k]
  <2>1. CASE k <= i
    BY <1>2, <1>4, <1>8, <2>1
  <2>2. CASE ~(k <= i)
    <3>1. PICK j \in 1..(c - i) : k = i + j
      <4>1. k - i \in 1..(c - i) /\ k = i + (k - i)
        BY <1>2, <2>2
      <4> QED
        BY <4>1
    <3> QED
      BY <1>5, <1>8, <3>1
  <2> QED
    BY <2>1, <2>2
<1>10. z = [k \in 1..c |-> z[k]] /\ w = [k \in 1..c |-> w[k]]
  BY <1>3, <1>7, <1>8
<1>11. z = w
  BY <1>9, <1>10
<1> QED
  BY <1>11 DEF x, y, z, w

\* serializeLayout keeps the hosts of the panes in their order.
SerializeLaw ==
    \A c \in 1..MAX_PANES : \A n \in Layouts(c) : SavedHosts(SerializeLayout(n)) = LeafHosts(n)
LEMMA SerializeOfTrees == SerializeLaw
<1> DEFINE P(c) == \A n \in Layouts(c) : SavedHosts(SerializeLayout(n)) = LeafHosts(n)
           S == {c \in 1..MAX_PANES : P(c)}
<1>1. ASSUME NEW c \in 1..MAX_PANES, \A i \in 1..(c - 1) : i \in S PROVE P(c)
  <2> SUFFICES ASSUME NEW n \in Layouts(c)
               PROVE  SavedHosts(SerializeLayout(n)) = LeafHosts(n)
    OBVIOUS
  <2>1. CASE c = 1 /\ n \in Leaves
    <3>1. SerializeLayout(n) = SavedLeaf(n.host) /\ n.host \in Hosts
      BY <2>1, PaneTreeEquations DEF SerializeEq, Leaves
    <3>2. SavedHosts(SerializeLayout(n)) = <<n.host>>
      BY <3>1, PaneTreeEquations DEF SavedEq
    <3>3. CollectLeaves(n) = <<n>>
      BY <2>1, PaneTreeEquations DEF CollectEq
    <3>4. LeafHosts(n) = [k \in 1..1 |-> n.host]
      BY <3>3 DEF LeafHosts, CountLeaves
    <3> QED
      BY <3>2, <3>4
  <2>2. ASSUME NEW i, NEW a, NEW b, Forked(Leaves, c, i, a, b), n = Fork(a, b)
        PROVE  SavedHosts(SerializeLayout(n)) = LeafHosts(n)
    <3>1. /\ c \in 2..MAX_PANES /\ i \in 1..(c - 1) /\ c - i \in 1..(c - 1)
          /\ i \in 1..MAX_PANES /\ c - i \in 1..MAX_PANES
          /\ a \in Layouts(i) /\ b \in Layouts(c - i)
      BY <2>2, SideSizes DEF Layouts
    <3> DEFINE x == SerializeLayout(a)
               y == SerializeLayout(b)
    <3>2. SerializeLayout(n) = Fork(x, y)
      BY <2>2, <3>1, PaneTreeEquations DEF SerializeEq
    <3>3. x \in SavedLayouts(i) /\ y \in SavedLayouts(c - i)
      BY <3>1, SerializedLeaves
    <3>4. SavedHosts(x) = LeafHosts(a) /\ SavedHosts(y) = LeafHosts(b)
      BY <1>1, <3>1
    <3> HIDE DEF x, y
    <3>5. SavedHosts(Fork(x, y)) = SavedHosts(x) \o SavedHosts(y)
      BY <3>1, <3>3, PaneTreeEquations DEF SavedEq
    <3>6. LeafHosts(n) = LeafHosts(a) \o LeafHosts(b)
      BY <2>2, ForkHosts
    <3> QED
      BY <3>2, <3>4, <3>5, <3>6
  <2> QED
    BY <2>1, <2>2, TreeCases DEF Layouts
<1>2. MAX_PANES \in Nat
  BY WorkspacesAssumption
<1>3. \A c \in 1..MAX_PANES : (\A i \in 1..(c - 1) : i \in S) => c \in S
  BY <1>1
<1> HIDE DEF S
<1>4. \A c \in 1..MAX_PANES : c \in S
  BY <1>2, <1>3, UpTo
<1> QED
  BY <1>4 DEF S, SerializeLaw

\* deserializeLayout brings back the panes of the hosts that are known, in
\* their order; null stands for none.
BackFrom(c, s, known, l) ==
    \/ l = Dead /\ KeptPlaces(s, known) = {}
    \/ /\ l # Dead /\ KeptPlaces(s, known) # {} /\ \E d \in 1..c : l \in Trees(NewLeaves, d)
       /\ LeafHosts(l) \in Thinned(SavedHosts(s), KeptPlaces(s, known))
LEMMA DeserializedTrees ==
  \A c \in 1..MAX_PANES : \A s \in SavedLayouts(c), known \in SUBSET Hosts :
      BackFrom(c, s, known, DeserializeLayout(s, known))
<1> DEFINE P(c) == \A s \in SavedLayouts(c), known \in SUBSET Hosts :
                      BackFrom(c, s, known, DeserializeLayout(s, known))
           S == {c \in 1..MAX_PANES : P(c)}
<1>1. ASSUME NEW c \in 1..MAX_PANES, \A i \in 1..(c - 1) : i \in S PROVE P(c)
  <2> SUFFICES ASSUME NEW s \in SavedLayouts(c), NEW known \in SUBSET Hosts
               PROVE  BackFrom(c, s, known, DeserializeLayout(s, known))
    OBVIOUS
  <2> DEFINE l == DeserializeLayout(s, known)
             K == KeptPlaces(s, known)
  <2>1. CASE c = 1 /\ s \in SavedLeaves
    <3>1. PICK h \in Hosts : s = SavedLeaf(h)
      BY <2>1 DEF SavedLeaves
    <3>2. SavedHosts(s) = <<h>>
      BY <3>1, PaneTreeEquations DEF SavedEq
    <3>3. l = IF h \in known THEN Leaf(0, h) ELSE Dead
      BY <3>1, PaneTreeEquations DEF DeserializeEq
    <3>4. K = {i \in 1..1 : h \in known}
      BY <3>2 DEF KeptPlaces
    <3>5. CASE h \notin known
      BY <3>3, <3>4, <3>5 DEF BackFrom
    <3>6. CASE h \in known
      <4>1. l = Leaf(0, h) /\ l \in NewLeaves /\ K = {1}
        BY <3>3, <3>4, <3>6 DEF NewLeaves
      <4> HIDE DEF l, K
      <4>2. l \in Trees(NewLeaves, 1) /\ l # Dead /\ 1 \in 1..c
        BY <2>1, <4>1, TreesMade
      <4>3. CollectLeaves(l) = <<l>> /\ l.host = h
        BY <4>1, PaneTreeEquations DEF CollectEq, Leaf
      <4>4. LeafHosts(l) = [k \in 1..1 |-> h]
        BY <4>3 DEF LeafHosts, CountLeaves
      <4> DEFINE f == [k \in 1..1 |-> 1]
                 t == <<h>>
      <4>5. Picks(t, {1}, 1, f) /\ [k \in 1..1 |-> h] = [k \in 1..1 |-> t[f[k]]]
        BY DEF Picks
      <4> HIDE DEF f, t
      <4>6. LeafHosts(l) \in Thinned(t, {1})
        <5>1. \E n, g : Picks(t, {1}, n, g) /\ LeafHosts(l) = [k \in 1..n |-> t[g[k]]]
          BY <4>4, <4>5
        <5> QED
          BY <5>1, ThinnedIs
      <4>7. LeafHosts(l) \in Thinned(SavedHosts(s), K)
        BY <3>2, <4>1, <4>6 DEF t
      <4>8. BackFrom(c, s, known, l)
        BY <4>1, <4>2, <4>7 DEF BackFrom, K
      <4> QED
        BY <4>8 DEF l
    <3> QED
      BY <3>5, <3>6
  <2>2. ASSUME NEW i, NEW a, NEW b, Forked(SavedLeaves, c, i, a, b), s = Fork(a, b)
        PROVE  BackFrom(c, s, known, DeserializeLayout(s, known))
    <3>1. /\ c \in 2..MAX_PANES /\ i \in 1..(c - 1) /\ c - i \in 1..(c - 1)
          /\ a \in SavedLayouts(i) /\ b \in SavedLayouts(c - i) /\ MAX_PANES \in Nat
      BY <2>2, SideSizes DEF SavedLayouts
    <3> DEFINE x == DeserializeLayout(a, known)
               y == DeserializeLayout(b, known)
               A == KeptPlaces(a, known)
               B == KeptPlaces(b, known)
               u == SavedHosts(a)
               v == SavedHosts(b)
    <3>2. l = WithoutDead(x, y)
      <4>1. DeserializeEq
        BY PaneTreeEquations
      <4>2. \A j \in 1..(c - 1) : \A n \in SavedLayouts(j), m \in SavedLayouts(c - j) :
              DeserializeLayout(Fork(n, m), known)
                = WithoutDead(DeserializeLayout(n, known), DeserializeLayout(m, known))
        BY <3>1, <4>1 DEF DeserializeEq
      <4> QED
        BY <2>2, <3>1, <4>2
    <3>3. /\ u \in Seq(Hosts) /\ v \in Seq(Hosts) /\ SavedHosts(s) = u \o v
          /\ A \in SUBSET (1..Len(u)) /\ B \in SUBSET (1..Len(v))
          /\ K = A \cup Shifted(B, Len(u))
      BY <2>2, KeptOfFork
    <3>4. BackFrom(i, a, known, x) /\ BackFrom(c - i, b, known, y)
      BY <1>1, <3>1
    <3>5. /\ x = Dead <=> A = {}
          /\ y = Dead <=> B = {}
          /\ x # Dead => (\E d \in 1..i : x \in Trees(NewLeaves, d)) /\ LeafHosts(x) \in Thinned(u, A)
          /\ y # Dead => (\E d \in 1..(c - i) : y \in Trees(NewLeaves, d)) /\ LeafHosts(y) \in Thinned(v, B)
      BY <3>4 DEF BackFrom
    <3> HIDE DEF l, K, x, y, A, B, u, v
    <3>6. A # {} \/ B # {} => K # {}
      BY <3>3 DEF Shifted
    <3>7. ASSUME x # Dead, y = Dead PROVE BackFrom(c, s, known, l)
      <4>1. l = x /\ A # {} /\ B = {}
        BY <3>2, <3>5, <3>7 DEF WithoutDead
      <4>2. PICK d \in 1..i : x \in Trees(NewLeaves, d)
        BY <3>5, <3>7
      <4>3. d \in 1..c
        BY <3>1
      <4>4. LeafHosts(x) \in Thinned(u, A) /\ <<>> \in Thinned(v, B)
        BY <3>3, <3>5, <3>7, <4>1, ThinnedEmpty
      <4>5. LeafHosts(x) \o <<>> \in Thinned(u \o v, K)
        BY <3>3, <4>4, ThinnedJoin
      <4>6. LeafHosts(x) \o <<>> = LeafHosts(x)
        <5>1. LeafHosts(x) = [k \in 1..CountLeaves(x) |-> LeafHosts(x)[k]] /\ CountLeaves(x) \in Nat
          <6>1. d \in 1..MAX_PANES
            BY <3>1
          <6>2. CollectLeaves(x) \in Seq(NewLeaves)
            BY <4>2, <6>1, TreeLeaves
          <6> QED
            BY <6>2, LenProperties DEF LeafHosts, CountLeaves
        <5>2. LeafHosts(x) \in Seq({LeafHosts(x)[k] : k \in 1..CountLeaves(x)})
          BY <5>1
        <5> QED
          BY <5>2, ConcatEmptySeq
      <4> QED
        BY <3>3, <3>6, <3>7, <4>1, <4>2, <4>3, <4>5, <4>6 DEF BackFrom, K
    <3>8. ASSUME x = Dead, y # Dead PROVE BackFrom(c, s, known, l)
      <4>1. l = y /\ A = {} /\ B # {}
        BY <3>2, <3>5, <3>8 DEF WithoutDead
      <4>2. PICK d \in 1..(c - i) : y \in Trees(NewLeaves, d)
        BY <3>5, <3>8
      <4>3. d \in 1..c
        BY <3>1
      <4>4. LeafHosts(y) \in Thinned(v, B) /\ <<>> \in Thinned(u, A)
        BY <3>3, <3>5, <3>8, <4>1, ThinnedEmpty
      <4>5. <<>> \o LeafHosts(y) \in Thinned(u \o v, K)
        BY <3>3, <4>4, ThinnedJoin
      <4>6. <<>> \o LeafHosts(y) = LeafHosts(y)
        <5>1. LeafHosts(y) = [k \in 1..CountLeaves(y) |-> LeafHosts(y)[k]] /\ CountLeaves(y) \in Nat
          <6>1. d \in 1..MAX_PANES
            BY <3>1
          <6>2. CollectLeaves(y) \in Seq(NewLeaves)
            BY <4>2, <6>1, TreeLeaves
          <6> QED
            BY <6>2, LenProperties DEF LeafHosts, CountLeaves
        <5>2. LeafHosts(y) \in Seq({LeafHosts(y)[k] : k \in 1..CountLeaves(y)})
          BY <5>1
        <5> QED
          BY <5>2, ConcatEmptySeq
      <4> QED
        BY <3>3, <3>6, <3>8, <4>1, <4>2, <4>3, <4>5, <4>6 DEF BackFrom, K
    <3>9. ASSUME x # Dead, y # Dead PROVE BackFrom(c, s, known, l)
      <4>1. l = Fork(x, y) /\ A # {} /\ B # {}
        BY <3>2, <3>5, <3>9 DEF WithoutDead
      <4>2. PICK d \in 1..i : x \in Trees(NewLeaves, d)
        BY <3>5, <3>9
      <4>3. PICK e \in 1..(c - i) : y \in Trees(NewLeaves, e)
        BY <3>5, <3>9
      <4>4. PICK g \in 1..c : g = d + e
        BY <3>1
      <4>5. Forked(NewLeaves, g, d, x, y)
        <5>1. g \in 2..MAX_PANES /\ d \in 1..(g - 1) /\ g - d = e
          BY <3>1, <4>4
        <5> QED
          BY <4>2, <4>3, <5>1 DEF Forked
      <4>6. l \in Trees(NewLeaves, g)
        BY <4>1, <4>5, TreesMade
      <4>7. LeafHosts(l) = LeafHosts(x) \o LeafHosts(y)
        BY <4>1, <4>5, ForkHosts
      <4>8. l # Dead
        <5>1. g \in 1..MAX_PANES
          BY <3>1
        <5> QED
          BY <4>6, <5>1, TreesMade
      <4>9. LeafHosts(x) \o LeafHosts(y) \in Thinned(u \o v, K)
        <5>1. LeafHosts(x) \in Thinned(u, A) /\ LeafHosts(y) \in Thinned(v, B)
          BY <3>5, <3>9
        <5> QED
          BY <3>3, <5>1, ThinnedJoin
      <4> QED
        BY <3>3, <3>6, <4>1, <4>4, <4>6, <4>7, <4>8, <4>9 DEF BackFrom, K
    <3>10. ASSUME x = Dead, y = Dead PROVE BackFrom(c, s, known, l)
      <4>1. l = Dead /\ A = {} /\ B = {}
        BY <3>2, <3>5, <3>10 DEF WithoutDead
      <4>2. K = {}
        BY <3>3, <4>1 DEF Shifted
      <4> QED
        BY <4>1, <4>2 DEF BackFrom, K
    <3>11. BackFrom(c, s, known, l)
      BY <3>7, <3>8, <3>9, <3>10
    <3> QED
      BY <3>11 DEF l
  <2> QED
    BY <2>1, <2>2, TreeCases DEF SavedLayouts
<1>2. MAX_PANES \in Nat
  BY WorkspacesAssumption
<1>3. \A c \in 1..MAX_PANES : (\A i \in 1..(c - 1) : i \in S) => c \in S
  BY <1>1
<1> HIDE DEF S
<1>4. \A c \in 1..MAX_PANES : c \in S
  BY <1>2, <1>3, UpTo
<1> QED
  BY <1>4 DEF S

\* The new panes get the identifiers in their order.
NumberedFrom(c, n, ids, r) ==
    /\ r \in Layouts(c)
    /\ \A k \in 1..c : CollectLeaves(r)[k] = Leaf(ids[k], CollectLeaves(n)[k].host)
LEMMA NumberedTrees ==
  \A c \in 1..MAX_PANES : \A n \in Trees(NewLeaves, c), ids \in [1..c -> PaneIds] :
      NumberedFrom(c, n, ids, Number(n, ids))
<1> DEFINE P(c) == \A n \in Trees(NewLeaves, c), ids \in [1..c -> PaneIds] :
                      NumberedFrom(c, n, ids, Number(n, ids))
           S == {c \in 1..MAX_PANES : P(c)}
<1>1. ASSUME NEW c \in 1..MAX_PANES, \A i \in 1..(c - 1) : i \in S PROVE P(c)
  <2> SUFFICES ASSUME NEW n \in Trees(NewLeaves, c), NEW ids \in [1..c -> PaneIds],
                      NEW r, r = Number(n, ids)
               PROVE  NumberedFrom(c, n, ids, r)
    OBVIOUS
  <2>1. CASE c = 1 /\ n \in NewLeaves
    <3>1. PICK h \in Hosts : n = Leaf(0, h)
      BY <2>1 DEF NewLeaves
    <3>2. CollectLeaves(n) = <<n>> /\ n.host = h
      BY <2>1, <3>1, PaneTreeEquations DEF CollectEq, Leaf
    <3>3. ids \in [1..1 -> PaneIds] /\ ids[1] \in PaneIds
      BY <2>1
    <3>4. r = Leaf(ids[1], h)
      BY <3>1, <3>3, PaneTreeEquations DEF NumberEq
    <3>5. r \in Layouts(1) /\ CollectLeaves(r) = <<r>>
      BY <3>3, <3>4, LeavesOfTrees DEF LeavesLaw
    <3> QED
      BY <2>1, <3>2, <3>4, <3>5 DEF NumberedFrom
  <2>2. ASSUME NEW i, NEW a, NEW b, Forked(NewLeaves, c, i, a, b), n = Fork(a, b)
        PROVE  NumberedFrom(c, n, ids, r)
    <3>1. /\ c \in 2..MAX_PANES /\ i \in 1..(c - 1) /\ c - i \in 1..(c - 1)
          /\ a \in Trees(NewLeaves, i) /\ b \in Trees(NewLeaves, c - i) /\ i + (c - i) = c /\ MAX_PANES \in Nat
      BY <2>2, SideSizes
    <3> DEFINE p == SubSeq(ids, 1, i)
               q == SubSeq(ids, i + 1, c)
               x == Number(a, p)
               y == Number(b, q)
    <3>2. r = Fork(x, y)
      BY <2>2, <3>1, PaneTreeEquations DEF NumberEq
    <3>3. /\ p \in [1..i -> PaneIds] /\ \A k \in 1..i : p[k] = ids[k]
          /\ q \in [1..(c - i) -> PaneIds] /\ \A k \in 1..(c - i) : q[k] = ids[i + k]
      <4>1. ids \in Seq(PaneIds) /\ Len(ids) = c
        BY <3>1
      <4>2. p \in Seq(PaneIds) /\ Len(p) = i /\ \A k \in 1..i : p[k] = ids[k]
        BY <3>1, <4>1, SubSeqProperties
      <4>3. q \in Seq(PaneIds) /\ Len(q) = c - i /\ \A k \in 1..(c - i) : q[k] = ids[i + k]
        BY <3>1, <4>1, SubSeqProperties
      <4> HIDE DEF p, q
      <4> QED
        BY <4>2, <4>3
    <3> HIDE DEF p, q
    <3>4. NumberedFrom(i, a, p, x) /\ NumberedFrom(c - i, b, q, y)
      BY <1>1, <3>1, <3>3
    <3> HIDE DEF x, y
    <3>5. /\ x \in Layouts(i) /\ y \in Layouts(c - i)
          /\ \A k \in 1..i : CollectLeaves(x)[k] = Leaf(p[k], CollectLeaves(a)[k].host)
          /\ \A k \in 1..(c - i) : CollectLeaves(y)[k] = Leaf(q[k], CollectLeaves(b)[k].host)
      BY <3>4 DEF NumberedFrom
    <3>6. Forked(Leaves, c, i, x, y)
      BY <3>1, <3>5 DEF Forked, Layouts
    <3>7. r \in Layouts(c)
      BY <3>2, <3>6, TreesMade DEF Layouts
    <3>8. /\ \A k \in 1..i : CollectLeaves(r)[k] = CollectLeaves(x)[k]
          /\ \A k \in 1..(c - i) : CollectLeaves(r)[i + k] = CollectLeaves(y)[k]
      BY <3>2, <3>6, ForkLeaves
    <3>9. /\ \A k \in 1..i : CollectLeaves(n)[k] = CollectLeaves(a)[k]
          /\ \A k \in 1..(c - i) : CollectLeaves(n)[i + k] = CollectLeaves(b)[k]
      BY <2>2, ForkLeaves
    <3>10. ASSUME NEW k \in 1..c PROVE CollectLeaves(r)[k] = Leaf(ids[k], CollectLeaves(n)[k].host)
      <4>1. CASE k <= i
        <5>1. k \in 1..i
          BY <3>1, <4>1
        <5> QED
          BY <3>3, <3>5, <3>8, <3>9, <5>1
      <4>2. CASE ~(k <= i)
        <5>1. PICK j \in 1..(c - i) : k = i + j
          <6>1. k - i \in 1..(c - i) /\ k = i + (k - i)
            BY <3>1, <4>2
          <6> QED
            BY <6>1
        <5> QED
          BY <3>3, <3>5, <3>8, <3>9, <5>1
      <4> QED
        BY <4>1, <4>2
    <3> QED
      BY <3>7, <3>10 DEF NumberedFrom
  <2> QED
    BY <2>1, <2>2, TreeCases
<1>2. MAX_PANES \in Nat
  BY WorkspacesAssumption
<1>3. \A c \in 1..MAX_PANES : (\A i \in 1..(c - 1) : i \in S) => c \in S
  BY <1>1
<1> HIDE DEF S
<1>4. \A c \in 1..MAX_PANES : c \in S
  BY <1>2, <1>3, UpTo
<1> QED
  BY <1>4 DEF S

\* deserializeLayout, and the identifiers its panes get.
RestoreLaw ==
    \A c \in 1..MAX_PANES : \A s \in SavedLayouts(c), known \in SUBSET Hosts :
        LET l == DeserializeLayout(s, known)
        IN  /\ l = Dead <=> KeptPlaces(s, known) = {}
            /\ l # Dead =>
                 /\ CountLeaves(l) \in 1..c
                 /\ LeafHosts(l) \in Thinned(SavedHosts(s), KeptPlaces(s, known))
                 /\ \A ids \in [1..CountLeaves(l) -> PaneIds] :
                      NumberedFrom(CountLeaves(l), l, ids, Number(l, ids))
LEMMA RestoreOfTrees == RestoreLaw
<1> SUFFICES ASSUME NEW c \in 1..MAX_PANES, NEW s \in SavedLayouts(c), NEW known \in SUBSET Hosts,
                    NEW l, l = DeserializeLayout(s, known)
             PROVE  /\ l = Dead <=> KeptPlaces(s, known) = {}
                    /\ l # Dead =>
                         /\ CountLeaves(l) \in 1..c
                         /\ LeafHosts(l) \in Thinned(SavedHosts(s), KeptPlaces(s, known))
                         /\ \A ids \in [1..CountLeaves(l) -> PaneIds] :
                              NumberedFrom(CountLeaves(l), l, ids, Number(l, ids))
  BY DEF RestoreLaw
<1>1. BackFrom(c, s, known, l)
  BY DeserializedTrees
<1>2. l = Dead <=> KeptPlaces(s, known) = {}
  BY <1>1 DEF BackFrom
<1>3. ASSUME l # Dead
      PROVE  /\ CountLeaves(l) \in 1..c
             /\ LeafHosts(l) \in Thinned(SavedHosts(s), KeptPlaces(s, known))
             /\ \A ids \in [1..CountLeaves(l) -> PaneIds] :
                  NumberedFrom(CountLeaves(l), l, ids, Number(l, ids))
  <2>1. LeafHosts(l) \in Thinned(SavedHosts(s), KeptPlaces(s, known))
    BY <1>1, <1>3 DEF BackFrom
  <2>2. PICK d \in 1..c : l \in Trees(NewLeaves, d)
    BY <1>1, <1>3 DEF BackFrom
  <2>3. d \in 1..MAX_PANES
    BY <2>2, WorkspacesAssumption
  <2>4. CountLeaves(l) = d
    BY <2>2, <2>3, TreeLeaves DEF CountLeaves
  <2>5. \A ids \in [1..d -> PaneIds] : NumberedFrom(d, l, ids, Number(l, ids))
    BY <2>2, <2>3, NumberedTrees
  <2> QED
    BY <2>1, <2>4, <2>5
<1> QED
  BY <1>2, <1>3

\* What the functions of paneTree.ts do, for trees with any number of panes:
\* splitLeaf puts the new pane right after the one that is split, removeLeaf takes
\* one pane away and keeps the others in their order, serializeLayout saves the
\* panes' hosts in theirs, and from deserializeLayout those come back that are
\* still known, in that order, or nothing if none is.
THEOREM PaneTreeLaws == LeavesLaw /\ SplitLaw /\ RemoveLaw /\ SerializeLaw /\ RestoreLaw
BY LeavesOfTrees, SplitOfTrees, RemoveOfTrees, SerializeOfTrees, RestoreOfTrees

-----------------------------------------------------------------------------
(* Layouts                                                                 *)

AnyLayout == UNION {Layouts(c) : c \in 1..MAX_PANES}

\* No pane twice.
OncePer(l) == \A k, m \in 1..CountLeaves(l) :
                CollectLeaves(l)[k].pane = CollectLeaves(l)[m].pane => k = m

\* A layout has between one and MAX_PANES leaves, each with a pane and a host.
LEMMA LayoutLeaves ==
  ASSUME NEW n \in AnyLayout
  PROVE  /\ CollectLeaves(n) \in Seq(Leaves)
         /\ CountLeaves(n) \in 1..MAX_PANES /\ CountLeaves(n) = Len(CollectLeaves(n))
         /\ n \in Layouts(CountLeaves(n))
         /\ n # None
         /\ SerializeLayout(n) \in SavedLayouts(CountLeaves(n))
         /\ \A k \in 1..CountLeaves(n) : CollectLeaves(n)[k] \in Leaves
<1>1. PICK c \in 1..MAX_PANES : n \in Layouts(c)
  BY DEF AnyLayout
<1>2. /\ CollectLeaves(n) \in Seq(Leaves) /\ CountLeaves(n) = c
      /\ SerializeLayout(n) \in SavedLayouts(c)
  BY <1>1, PaneTreeLaws DEF LeavesLaw, Leaves
<1>3. n # None
  BY <1>1, WorkspacesAssumption
<1>4. CountLeaves(n) = Len(CollectLeaves(n))
  BY DEF CountLeaves
<1>5. \A k \in 1..CountLeaves(n) : CollectLeaves(n)[k] \in Leaves
  BY <1>2, <1>4, ElementOfSeq
<1> QED
  BY <1>1, <1>2, <1>3, <1>4, <1>5

\* What a leaf holds.
LEMMA LeafFields == \A q, h : Leaf(q, h).pane = q /\ Leaf(q, h).host = h
BY DEF Leaf

\* One pane.
LEMMA LeafLayout ==
  ASSUME NEW q \in PaneIds, NEW h \in Hosts
  PROVE  /\ Leaf(q, h) \in AnyLayout /\ CountLeaves(Leaf(q, h)) = 1
         /\ CollectLeaves(Leaf(q, h))[1].pane = q /\ CollectLeaves(Leaf(q, h))[1].host = h
         /\ OncePer(Leaf(q, h))
<1>1. Leaf(q, h) \in Layouts(1) /\ CollectLeaves(Leaf(q, h)) = <<Leaf(q, h)>>
  BY PaneTreeLaws DEF LeavesLaw
<1>2. CountLeaves(Leaf(q, h)) = 1 /\ CollectLeaves(Leaf(q, h))[1] = Leaf(q, h)
  BY <1>1 DEF CountLeaves
<1>3. Leaf(q, h) \in AnyLayout
  BY <1>1, WorkspacesAssumption DEF AnyLayout
<1> QED
  BY <1>2, <1>3 DEF Leaf, OncePer

\* A split puts the new leaf right after the one that is split.
LEMMA SplitLayout ==
  ASSUME NEW n \in AnyLayout, OncePer(n), HasRoom(n),
         NEW k \in 1..CountLeaves(n), NEW q \in PaneIds, NEW h \in Hosts,
         NEW l, l = SplitLeaf(n, CollectLeaves(n)[k].pane, Leaf(q, h))
  PROVE  /\ l \in AnyLayout /\ CountLeaves(l) = CountLeaves(n) + 1
         /\ CollectLeaves(l) = InsertAt(CollectLeaves(n), k + 1, Leaf(q, h))
         /\ \A i \in 1..k : CollectLeaves(l)[i] = CollectLeaves(n)[i]
         /\ CollectLeaves(l)[k + 1] = Leaf(q, h)
         /\ \A i \in (k + 2)..CountLeaves(l) : CollectLeaves(l)[i] = CollectLeaves(n)[i - 1]
<1> DEFINE c == CountLeaves(n)
           s == CollectLeaves(n)
<1>1. /\ n \in Layouts(c) /\ c \in 1..(MAX_PANES - 1) /\ s \in Seq(Leaves) /\ Len(s) = c
  BY LayoutLeaves, WorkspacesAssumption DEF HasRoom
<1>2. OnlyLeaf(n, k)
  BY DEF OncePer, OnlyLeaf
<1>5. Leaf(q, h) \in Leaves
  BY DEF Leaf, Leaves
<1>3. l \in Layouts(c + 1) /\ CollectLeaves(l) = InsertAt(s, k + 1, Leaf(q, h))
  BY <1>1, <1>2, <1>5, PaneTreeLaws DEF SplitLaw
<1>4. l \in AnyLayout
  BY <1>1, <1>3, WorkspacesAssumption DEF AnyLayout
<1> HIDE DEF c, s
<1>6. PICK j \in 1..(Len(s) + 1), e \in Leaves : j = k + 1 /\ e = Leaf(q, h)
  BY <1>1, <1>5 DEF c
<1>10. /\ Len(InsertAt(s, j, e)) = c + 1 /\ InsertAt(s, j, e)[j] = e
       /\ \A i \in 1..(j - 1) : InsertAt(s, j, e)[i] = s[i]
       /\ \A i \in (j + 1)..(c + 1) : InsertAt(s, j, e)[i] = s[i - 1]
  <2>1. s \in Seq(Leaves) /\ Len(s) = c
    BY <1>1
  <2>2. Inserted(s, j, e, InsertAt(s, j, e))
    BY <2>1, InsertAtProps
  <2> QED
    BY <2>1, <2>2 DEF Inserted
<1>7. CountLeaves(l) = c + 1
  BY <1>3, <1>6, <1>10 DEF CountLeaves
<1>8. /\ k \in Nat /\ c \in Nat /\ \A i \in 1..k : CollectLeaves(l)[i] = s[i]
      /\ CollectLeaves(l)[k + 1] = Leaf(q, h)
      /\ \A i \in (k + 2)..(c + 1) : CollectLeaves(l)[i] = s[i - 1]
  BY <1>1, <1>3, <1>6, <1>10
<1>9. l \in AnyLayout /\ CountLeaves(l) = c + 1 /\ CollectLeaves(l) = InsertAt(s, k + 1, Leaf(q, h))
  BY <1>3, <1>4, <1>7
<1> QED
  BY <1>8, <1>9 DEF c, s

\* Closing a pane of several takes its leaf away and nothing else.
LEMMA RemoveLayout ==
  ASSUME NEW n \in AnyLayout, OncePer(n), CountLeaves(n) > 1,
         NEW k \in 1..CountLeaves(n),
         NEW l, l = RemoveLeaf(n, CollectLeaves(n)[k].pane)
  PROVE  /\ l \in AnyLayout /\ CountLeaves(l) = CountLeaves(n) - 1
         /\ CollectLeaves(l) = RemoveAt(CollectLeaves(n), k)
         /\ \A i \in 1..CountLeaves(l) :
              CollectLeaves(l)[i] = CollectLeaves(n)[IF i < k THEN i ELSE i + 1]
<1> DEFINE c == CountLeaves(n)
           s == CollectLeaves(n)
<1>1. /\ n \in Layouts(c) /\ c \in 2..MAX_PANES /\ s \in Seq(Leaves) /\ Len(s) = c
  BY LayoutLeaves, WorkspacesAssumption
<1>2. OnlyLeaf(n, k)
  BY DEF OncePer, OnlyLeaf
<1>3. l \in Layouts(c - 1) /\ CollectLeaves(l) = RemoveAt(s, k)
  BY <1>1, <1>2, PaneTreeLaws DEF RemoveLaw
<1>4. l \in AnyLayout
  BY <1>1, <1>3, WorkspacesAssumption DEF AnyLayout
<1> HIDE DEF c, s
<1>5. /\ Len(RemoveAt(s, k)) = c - 1
      /\ \A i \in 1..(c - 1) : RemoveAt(s, k)[i] = s[IF i < k THEN i ELSE i + 1]
  <2>1. /\ Len(RemoveAt(s, k)) = Len(s) - 1
        /\ \A i \in 1..(Len(s) - 1) : RemoveAt(s, k)[i] = s[IF i < k THEN i ELSE i + 1]
    <3>1. k \in 1..Len(s)
      BY <1>1 DEF c
    <3> QED
      BY <1>1, <3>1, RemoveAtProps
  <2> QED
    BY <1>1, <2>1
<1>6. CountLeaves(l) = c - 1
  BY <1>3, <1>5 DEF CountLeaves
<1> QED
  BY <1>1, <1>3, <1>4, <1>5, <1>6 DEF c, s

\* A restored layout has the hosts that are still known, in their order, and
\* the panes it is numbered with.
RestoredAs(r, known, l, ids, n) ==
    /\ r.layout # None /\ KeptPlaces(r.layout, known) # {}
    /\ n \in AnyLayout /\ CountLeaves(n) = CountLeaves(l)
    /\ \A k \in 1..CountLeaves(l) : CollectLeaves(n)[k].pane = ids[k]
    /\ LeafHosts(n) \in Thinned(SavedHosts(r.layout), KeptPlaces(r.layout, known))
LEMMA RestoredLayout ==
  ASSUME NEW r \in Rows, NEW known \in SUBSET Hosts,
         NEW l, l = Restored(r, known), l # Dead,
         NEW ids \in [1..CountLeaves(l) -> PaneIds]
  PROVE  RestoredAs(r, known, l, ids, Number(l, ids))
<1> DEFINE s == r.layout
           n == Number(l, ids)
           m == CountLeaves(l)
<1>1. s # None /\ l = DeserializeLayout(s, known)
  BY DEF Restored
<1>2. PICK c \in 1..MAX_PANES : s \in SavedLayouts(c)
  BY <1>1 DEF Rows
<1>3. /\ KeptPlaces(s, known) # {} /\ m \in 1..c /\ NumberedFrom(m, l, ids, n)
      /\ LeafHosts(l) \in Thinned(SavedHosts(s), KeptPlaces(s, known))
  BY <1>1, <1>2, PaneTreeLaws DEF RestoreLaw
<1> HIDE DEF n, m
<1>4. m \in 1..MAX_PANES
  BY <1>2, <1>3, WorkspacesAssumption
<1>5. n \in Layouts(m) /\ \A k \in 1..m : CollectLeaves(n)[k] = Leaf(ids[k], CollectLeaves(l)[k].host)
  BY <1>3 DEF NumberedFrom
<1>6. n \in AnyLayout /\ CountLeaves(n) = m
  BY <1>4, <1>5, PaneTreeLaws DEF AnyLayout, LeavesLaw
<1>7. \A k \in 1..m : CollectLeaves(n)[k].pane = ids[k] /\ CollectLeaves(n)[k].host = CollectLeaves(l)[k].host
  BY <1>5, LeafFields
<1>8. LeafHosts(n) = LeafHosts(l)
  <2>1. /\ LeafHosts(n) = [k \in 1..m |-> CollectLeaves(n)[k].host]
        /\ LeafHosts(l) = [k \in 1..m |-> CollectLeaves(l)[k].host]
    BY <1>6 DEF LeafHosts, m
  <2> QED
    BY <1>7, <2>1
<1> QED
  BY <1>1, <1>3, <1>6, <1>7, <1>8 DEF n, m, RestoredAs

-----------------------------------------------------------------------------
(* Well-formed tabs                                                        *)

TabRow == [id : TabIds, kind : Kinds, host : Hosts, layout : AnyLayout \cup {None}]
Places(r) == IF r.kind = "terminal" THEN 1..CountLeaves(r.layout) ELSE {}
PaneOf(r, k) == CollectLeaves(r.layout)[k].pane
InUse(ts, q) == \E i \in 1..Len(ts) : \E k \in Places(ts[i]) : PaneOf(ts[i], k) = q

\* A terminal has a layout and nothing else has; no identifier is given twice.
RowGood(r) == r \in TabRow /\ (r.kind = "terminal" <=> r.layout # None)
IdsApart(ts) == \A i, j \in 1..Len(ts) : ts[i].id = ts[j].id => i = j
OnceEach(r) == \A k, m \in Places(r) : PaneOf(r, k) = PaneOf(r, m) => k = m
Apart(r, s) == \A k \in Places(r), m \in Places(s) : PaneOf(r, k) # PaneOf(s, m)
PanesApart(ts) ==
    /\ \A i \in 1..Len(ts) : OnceEach(ts[i])
    /\ \A i, j \in 1..Len(ts) : i # j => Apart(ts[i], ts[j])
Good(ts) ==
    /\ ts \in Seq(TabRow)
    /\ \A i \in 1..Len(ts) : RowGood(ts[i])
    /\ IdsApart(ts) /\ PanesApart(ts)

\* The parts of a tab.
LEMMA GoodRow ==
  ASSUME NEW r, RowGood(r)
  PROVE  /\ r.id \in TabIds /\ r.kind \in Kinds /\ r.host \in Hosts
         /\ r.layout \in AnyLayout \cup {None}
         /\ r.kind = "terminal" => r.layout \in AnyLayout /\ Places(r) = 1..CountLeaves(r.layout)
         /\ r.kind # "terminal" => Places(r) = {} /\ r.kind = "sftp" /\ r.layout = None
BY DEF RowGood, TabRow, Places, Kinds

\* The length of the tab bar.
LEMMA GoodLen ==
  ASSUME NEW ts, Good(ts)
  PROVE  Len(ts) \in Nat /\ \A i \in 1..Len(ts) : RowGood(ts[i]) /\ ts[i] \in TabRow
BY LenProperties DEF Good, RowGood

\* Tabs taken from well-formed ones, none twice, are well formed: closing and
\* reordering.
LEMMA GoodPicked ==
  ASSUME NEW ts, Good(ts), NEW us \in Seq(TabRow),
         NEW f \in [1..Len(us) -> 1..Len(ts)],
         \A i, j \in 1..Len(us) : f[i] = f[j] => i = j,
         \A i \in 1..Len(us) : us[i] = ts[f[i]]
  PROVE  Good(us)
<1>1. \A i \in 1..Len(us) : RowGood(us[i])
  BY DEF Good
<1>2. IdsApart(us)
  BY DEF Good, IdsApart
<1>3. PanesApart(us)
  <2>1. \A i \in 1..Len(us) : OnceEach(us[i])
    BY DEF Good, PanesApart
  <2>2. ASSUME NEW i \in 1..Len(us), NEW j \in 1..Len(us), i # j PROVE Apart(us[i], us[j])
    <3>1. f[i] \in 1..Len(ts) /\ f[j] \in 1..Len(ts) /\ f[i] # f[j]
      BY <2>2
    <3>2. Apart(ts[f[i]], ts[f[j]])
      BY <3>1 DEF Good, PanesApart
    <3> QED
      BY <3>2
  <2> QED
    BY <2>1, <2>2 DEF PanesApart
<1> QED
  BY <1>1, <1>2, <1>3 DEF Good

\* A new tab with a new identifier and new panes.
LEMMA GoodAppended ==
  ASSUME NEW ts, Good(ts), NEW r, RowGood(r),
         \A i \in 1..Len(ts) : ts[i].id # r.id,
         r.kind = "terminal" => OncePer(r.layout),
         \A k \in Places(r) : ~InUse(ts, PaneOf(r, k))
  PROVE  /\ Good(Append(ts, r)) /\ Len(Append(ts, r)) = Len(ts) + 1
         /\ \A i \in 1..Len(ts) : Append(ts, r)[i] = ts[i]
         /\ Append(ts, r)[Len(ts) + 1] = r
<1> DEFINE us == Append(ts, r)
           n == Len(ts)
<1>1. ts \in Seq(TabRow) /\ r \in TabRow /\ n \in Nat
  BY GoodLen DEF Good, RowGood
<1>2. /\ us \in Seq(TabRow) /\ Len(us) = n + 1 /\ us[n + 1] = r
      /\ \A i \in 1..n : us[i] = ts[i]
  BY <1>1, AppendProperties
<1> HIDE DEF us
<1>3. \A i \in 1..Len(us) : (i \in 1..n /\ us[i] = ts[i]) \/ (i = n + 1 /\ us[i] = r)
  BY <1>1, <1>2
<1>4. \A i \in 1..Len(us) : RowGood(us[i])
  BY <1>3 DEF Good
<1>5. IdsApart(us)
  BY <1>3 DEF Good, IdsApart
<1>6. PanesApart(us)
  <2>1. OnceEach(r)
    BY DEF OnceEach, OncePer, Places, PaneOf
  <2>2. \A i \in 1..n : Apart(ts[i], r) /\ Apart(r, ts[i])
    BY DEF Apart, InUse
  <2> QED
    BY <1>3, <2>1, <2>2 DEF Good, PanesApart
<1> QED
  BY <1>2, <1>4, <1>5, <1>6 DEF Good, us

\* The panes of l are new or in the p-th tab already.
OldOrNew(ts, p, l) ==
    \A k \in 1..CountLeaves(l) :
        \/ \E m \in Places(ts[p]) : PaneOf(ts[p], m) = CollectLeaves(l)[k].pane
        \/ ~InUse(ts, CollectLeaves(l)[k].pane)

\* Nothing but the layout of the p-th tab, a terminal, changes.
Relaid(ts, us, p) ==
    /\ p \in 1..Len(ts) /\ Len(us) = Len(ts)
    /\ \A i \in 1..Len(ts) : i # p => us[i] = ts[i]
    /\ ts[p].kind = "terminal" /\ us[p].kind = "terminal"
    /\ us[p].id = ts[p].id /\ us[p].host = ts[p].host
WithLayout(ts, p, l) == [ts EXCEPT ![p].layout = l]

\* Another layout in a terminal tab, with its own panes and new ones.
LEMMA GoodReplaced ==
  ASSUME NEW ts, Good(ts), NEW p \in 1..Len(ts), ts[p].kind = "terminal",
         NEW l \in AnyLayout, OncePer(l), OldOrNew(ts, p, l),
         NEW us, us = WithLayout(ts, p, l)
  PROVE  Good(us) /\ Relaid(ts, us, p) /\ us[p].layout = l
<1> DEFINE r == [ts[p] EXCEPT !.layout = l]
           n == Len(ts)
<1>1. ts \in Seq(TabRow) /\ n \in Nat /\ RowGood(ts[p]) /\ ts[p] \in TabRow
  BY GoodLen DEF Good
<1>2. r \in TabRow /\ r.id = ts[p].id /\ r.kind = "terminal" /\ r.host = ts[p].host /\ r.layout = l
  BY <1>1 DEF TabRow
<1>3. l # None
  BY LayoutLeaves
<1> HIDE DEF r
<1>4. us = [ts EXCEPT ![p] = r]
  BY DEF r, WithLayout
<1>5. us \in Seq(TabRow) /\ Len(us) = n /\ us[p] = r /\ \A i \in 1..n : i # p => us[i] = ts[i]
  BY <1>1, <1>2, <1>4, ExceptSeq
<1>6. \A i \in 1..n : RowGood(us[i])
  BY <1>2, <1>3, <1>5 DEF Good, RowGood
<1>7. \A i \in 1..n : us[i].id = ts[i].id
  BY <1>2, <1>5
<1>8. IdsApart(us)
  BY <1>5, <1>7 DEF Good, IdsApart
<1>9. PanesApart(us)
  <2>1. OnceEach(r)
    BY <1>2 DEF OnceEach, OncePer, Places, PaneOf
  <2>2. ASSUME NEW a \in 1..n, a # p PROVE Apart(ts[a], r) /\ Apart(r, ts[a])
    <3> SUFFICES ASSUME NEW x \in Places(ts[a]), NEW y \in Places(r)
                 PROVE  PaneOf(ts[a], x) # PaneOf(r, y)
      BY DEF Apart
    <3>1. y \in 1..CountLeaves(l) /\ PaneOf(r, y) = CollectLeaves(l)[y].pane
      BY <1>2 DEF Places, PaneOf
    <3>2. CASE ~InUse(ts, CollectLeaves(l)[y].pane)
      BY <3>1, <3>2 DEF InUse
    <3>3. ASSUME NEW z \in Places(ts[p]), PaneOf(ts[p], z) = CollectLeaves(l)[y].pane
          PROVE  PaneOf(ts[a], x) # PaneOf(r, y)
      <4>1. Apart(ts[a], ts[p])
        BY <2>2 DEF Good, PanesApart
      <4> QED
        BY <3>1, <3>3, <4>1 DEF Apart
    <3> QED
      BY <3>1, <3>2, <3>3 DEF OldOrNew
  <2> QED
    BY <1>5, <2>1, <2>2 DEF Good, PanesApart
<1> QED
  BY <1>2, <1>5, <1>6, <1>8, <1>9 DEF Good, Relaid

\* The tab with an open identifier.
LEMMA TabAt ==
  ASSUME Good(tabs), NEW t \in OpenIds
  PROVE  /\ IndexOf(t) \in 1..Len(tabs) /\ Tab(t) = tabs[IndexOf(t)]
         /\ Tab(t).id = t /\ RowGood(Tab(t)) /\ t \in TabIds
         /\ \A i \in 1..Len(tabs) : tabs[i].id = t => i = IndexOf(t)
<1>1. PICK i \in 1..Len(tabs) : tabs[i].id = t
  BY DEF OpenIds
<1>2. IndexOf(t) \in 1..Len(tabs) /\ tabs[IndexOf(t)].id = t
  BY <1>1 DEF IndexOf
<1>3. RowGood(tabs[IndexOf(t)])
  BY <1>2 DEF Good
<1>4. \A j \in 1..Len(tabs) : tabs[j].id = t => j = IndexOf(t)
  BY <1>2 DEF Good, IdsApart
<1> QED
  BY <1>2, <1>3, <1>4, GoodRow DEF Tab

\* A tab is found again by its identifier.
LEMMA TabsAreOpen ==
  ASSUME Good(tabs), NEW i \in 1..Len(tabs)
  PROVE  tabs[i].id \in OpenIds /\ Tab(tabs[i].id) = tabs[i] /\ IndexOf(tabs[i].id) = i
<1>1. tabs[i].id \in OpenIds
  BY DEF OpenIds
<1> QED
  BY <1>1, TabAt

\* What is split or closed: the place of a pane in its tab.
LEMMA PanePlace ==
  ASSUME Good(tabs), NEW q, NEW t \in TabOf(q)
  PROVE  /\ t \in OpenIds /\ Tab(t).kind = "terminal" /\ Tab(t).layout \in AnyLayout
         /\ OncePer(Tab(t).layout)
         /\ LET l == Tab(t).layout
            IN  FindLeaf(l, q) \in 1..CountLeaves(l) /\ CollectLeaves(l)[FindLeaf(l, q)].pane = q
<1>1. t \in OpenIds /\ Tab(t).kind = "terminal" /\ q \in PanesIn(Tab(t).layout)
  BY DEF TabOf, IsTerminal
<1>2. Tab(t).layout \in AnyLayout /\ Places(Tab(t)) = 1..CountLeaves(Tab(t).layout)
  BY <1>1, TabAt, GoodRow
<1>3. OncePer(Tab(t).layout)
  <2>1. OnceEach(Tab(t))
    BY <1>1, TabAt DEF Good, PanesApart
  <2> QED
    BY <1>2, <2>1 DEF OnceEach, OncePer, PaneOf
<1>4. PICK k \in 1..CountLeaves(Tab(t).layout) : CollectLeaves(Tab(t).layout)[k].pane = q
  BY <1>1 DEF PanesIn
<1> QED
  BY <1>1, <1>2, <1>3, <1>4 DEF FindLeaf

\* The panes that are open are those of the tabs.
LEMMA PanesInUse ==
  ASSUME Good(tabs), NEW q, InUse(tabs, q)
  PROVE  q \in PanesOpen
<1>1. PICK i \in 1..Len(tabs) : \E k \in Places(tabs[i]) : PaneOf(tabs[i], k) = q
  BY DEF InUse
<1>2. PICK k \in Places(tabs[i]) : PaneOf(tabs[i], k) = q
  BY <1>1
<1>3. tabs[i].kind = "terminal" /\ k \in 1..CountLeaves(tabs[i].layout)
  BY <1>2 DEF Places
<1>4. tabs[i].id \in OpenIds /\ Tab(tabs[i].id) = tabs[i]
  BY TabsAreOpen
<1>5. q \in PanesIn(Tab(tabs[i].id).layout) /\ IsTerminal(tabs[i].id)
  BY <1>2, <1>3, <1>4 DEF PanesIn, PaneOf, IsTerminal
<1> QED
  BY <1>4, <1>5 DEF PanesOpen

\* New identifiers are new.
LEMMA FreshIds ==
  ASSUME Good(tabs)
  PROVE  /\ FreeTabs # {} => /\ FreshTab \in TabIds /\ FreshTab \notin OpenIds
                             /\ FreshTab # opening.tab /\ FreshTab # click.tab
                             /\ \A i \in 1..Len(tabs) : tabs[i].id # FreshTab
         /\ FreePanes # {} => FreshPane \in FreePanes
         /\ \A q \in FreePanes : q \in PaneIds /\ ~InUse(tabs, q)
<1>1. FreeTabs # {} => FreshTab \in FreeTabs
  BY DEF FreshTab
<1>2. FreePanes # {} => FreshPane \in FreePanes
  BY DEF FreshPane
<1>3. FreeTabs # {} => \A i \in 1..Len(tabs) : tabs[i].id # FreshTab
  BY <1>1 DEF FreeTabs, OpenIds
<1>4. ASSUME NEW q \in FreePanes PROVE q \in PaneIds /\ ~InUse(tabs, q)
  BY PanesInUse DEF FreePanes
<1> QED
  BY <1>1, <1>2, <1>3, <1>4 DEF FreeTabs

\* The first terminal of a host.
LEMMA FirstTerminal ==
  ASSUME Good(tabs), NEW h, TerminalsOf(h) # {}
  PROVE  /\ FirstTerminalOf(h) \in OpenIds
         /\ FirstTerminalOf(h) \in TabIds
         /\ Tab(FirstTerminalOf(h)).kind = "terminal" /\ Tab(FirstTerminalOf(h)).host = h
<1>1. TerminalsOf(h) \in SUBSET Nat
  BY DEF TerminalsOf
<1>2. Min(TerminalsOf(h)) \in TerminalsOf(h)
  BY <1>1, MinNat
<1>3. PICK m \in 1..Len(tabs) :
         m = Min(TerminalsOf(h)) /\ tabs[m].kind = "terminal" /\ tabs[m].host = h
  BY <1>2 DEF TerminalsOf
<1>4. FirstTerminalOf(h) = tabs[m].id
  BY <1>3 DEF FirstTerminalOf
<1> QED
  BY <1>3, <1>4, TabsAreOpen, TabAt

-----------------------------------------------------------------------------
(* sessionsStore keeps the tabs well formed                                *)

\* openSession adds a tab with one pane, and it becomes the one that is shown.
LEMMA OpenSessionGood ==
  ASSUME Good(tabs), NEW h \in Hosts, NEW kind \in Kinds, OpenSession(h, kind)
  PROVE  /\ Good(tabs') /\ Len(tabs') = Len(tabs) + 1
         /\ \A i \in 1..Len(tabs) : tabs'[i] = tabs[i]
         /\ LET r == tabs'[Len(tabs) + 1]
            IN  /\ r.id = FreshTab /\ r.kind = kind /\ r.host = h
                /\ kind = "terminal" => LeafHosts(r.layout) = [k \in 1..1 |-> h]
         /\ main' = FreshTab /\ FreeTabs # {}
<1> DEFINE r == [id |-> FreshTab, kind |-> kind, host |-> h,
                 layout |-> IF kind = "terminal" THEN Leaf(FreshPane, h) ELSE None]
<1>1. FreeTabs # {} /\ FreePanes # {} /\ tabs' = Append(tabs, r) /\ main' = FreshTab
  BY DEF OpenSession
<1>2. /\ FreshTab \in TabIds /\ FreshPane \in PaneIds /\ ~InUse(tabs, FreshPane)
      /\ \A i \in 1..Len(tabs) : tabs[i].id # FreshTab
  BY <1>1, FreshIds
<1>3. /\ Leaf(FreshPane, h) \in AnyLayout /\ CountLeaves(Leaf(FreshPane, h)) = 1
      /\ CollectLeaves(Leaf(FreshPane, h))[1].pane = FreshPane
      /\ CollectLeaves(Leaf(FreshPane, h))[1].host = h /\ OncePer(Leaf(FreshPane, h))
      /\ Leaf(FreshPane, h) # None
  BY <1>2, LeafLayout, LayoutLeaves
<1>4. /\ r.id = FreshTab /\ r.kind = kind /\ r.host = h
      /\ r.layout = IF kind = "terminal" THEN Leaf(FreshPane, h) ELSE None
  OBVIOUS
<1>5. RowGood(r)
  BY <1>2, <1>3 DEF RowGood, TabRow
<1> HIDE DEF r
<1>6. \A k \in Places(r) : ~InUse(tabs, PaneOf(r, k))
  BY <1>2, <1>3, <1>4 DEF Places, PaneOf
<1>7. /\ Good(tabs') /\ Len(tabs') = Len(tabs) + 1
      /\ \A i \in 1..Len(tabs) : tabs'[i] = tabs[i]
      /\ tabs'[Len(tabs) + 1] = r
  BY <1>1, <1>2, <1>3, <1>4, <1>5, <1>6, GoodAppended
<1>8. kind = "terminal" => LeafHosts(r.layout) = [k \in 1..1 |-> h]
  BY <1>3, <1>4 DEF LeafHosts
<1> QED
  BY <1>1, <1>4, <1>7, <1>8

\* A new leaf of host h after the p-th tab's leaf with pane q.
SplitAt(p, k, q, e) ==
    /\ Relaid(tabs, tabs', p) /\ k \in 1..CountLeaves(tabs[p].layout) /\ e \in Leaves
    /\ CollectLeaves(tabs[p].layout)[k].pane = q
    /\ CollectLeaves(tabs'[p].layout) = InsertAt(CollectLeaves(tabs[p].layout), k + 1, e)

\* splitPane does nothing, or splits the pane it was asked to split.
LEMMA SplitPaneGood ==
  ASSUME Good(tabs), NEW t, NEW q, NEW h \in Hosts \cup {None}, SplitPane(t, q, h)
  PROVE  /\ Good(tabs')
         /\ \/ tabs' = tabs /\ ~(t \in TabOf(q) /\ HasRoom(Tab(t).layout))
            \/ \E p \in 1..Len(tabs), k \in Nat, e \in Leaves :
                 /\ SplitAt(p, k, q, e) /\ tabs[p].id = t
                 /\ e.host = IF h = None THEN CollectLeaves(tabs[p].layout)[k].host ELSE h
<1>1. CASE ~(t \in TabOf(q) /\ HasRoom(Tab(t).layout))
  BY <1>1 DEF SplitPane
<1>2. CASE t \in TabOf(q) /\ HasRoom(Tab(t).layout)
  <2> DEFINE p == IndexOf(t)
             l == Tab(t).layout
             k == FindLeaf(l, q)
             host == IF h = None THEN CollectLeaves(l)[k].host ELSE h
             e == Leaf(FreshPane, host)
             n == SplitLeaf(l, q, e)
  <2>1. /\ t \in OpenIds /\ Tab(t).kind = "terminal" /\ l \in AnyLayout /\ OncePer(l)
        /\ k \in 1..CountLeaves(l) /\ CollectLeaves(l)[k].pane = q
    BY <1>2, PanePlace
  <2>2. FreePanes # {} /\ tabs' = WithLayout(tabs, p, n)
    BY <1>2 DEF SplitPane, Target, WithLayout
  <2>3. p \in 1..Len(tabs) /\ tabs[p] = Tab(t) /\ tabs[p].id = t
    BY <2>1, TabAt
  <2>4. FreshPane \in PaneIds /\ ~InUse(tabs, FreshPane)
    BY <2>2, FreshIds
  <2>5. host \in Hosts
    BY <2>1, LayoutLeaves DEF Leaves
  <2>6. e \in Leaves /\ e.host = host /\ e.pane = FreshPane
    BY <2>4, <2>5, LeafFields DEF Leaf, Leaves
  <2> HIDE DEF p, l, k, host
  <2>7. /\ n \in AnyLayout /\ CountLeaves(n) = CountLeaves(l) + 1
        /\ CollectLeaves(n) = InsertAt(CollectLeaves(l), k + 1, e)
        /\ \A i \in 1..k : CollectLeaves(n)[i] = CollectLeaves(l)[i]
        /\ CollectLeaves(n)[k + 1] = e
        /\ \A i \in (k + 2)..CountLeaves(n) : CollectLeaves(n)[i] = CollectLeaves(l)[i - 1]
    <3>1. HasRoom(l)
      BY <1>2 DEF l
    <3> QED
      BY <2>1, <2>4, <2>5, <3>1, SplitLayout
  <2> HIDE DEF e, n
  <2>8. CountLeaves(l) \in Nat /\ k \in Nat
    BY <2>1, LayoutLeaves
  <2>9. \A i \in 1..CountLeaves(n) :
          \/ i \in 1..k /\ i \in 1..CountLeaves(l) /\ CollectLeaves(n)[i] = CollectLeaves(l)[i]
          \/ i = k + 1 /\ CollectLeaves(n)[i] = e
          \/ /\ i \in (k + 2)..CountLeaves(n) /\ i - 1 \in 1..CountLeaves(l)
             /\ CollectLeaves(n)[i] = CollectLeaves(l)[i - 1]
    BY <2>1, <2>7, <2>8
  <2>10. Places(tabs[p]) = 1..CountLeaves(l) /\ \A m : PaneOf(tabs[p], m) = CollectLeaves(l)[m].pane
    BY <2>1, <2>3 DEF Places, PaneOf, l
  <2>11. \A m \in 1..CountLeaves(l) : CollectLeaves(l)[m].pane # FreshPane
    BY <2>3, <2>4, <2>10 DEF InUse
  <2>12. OncePer(n)
    <3> SUFFICES ASSUME NEW i \in 1..CountLeaves(n), NEW j \in 1..CountLeaves(n),
                        CollectLeaves(n)[i].pane = CollectLeaves(n)[j].pane
                 PROVE  i = j
      BY DEF OncePer
    <3> DEFINE old(x) == IF x \in 1..k THEN x ELSE x - 1
    <3>1. ASSUME NEW x \in 1..CountLeaves(n), x # k + 1
          PROVE  /\ old(x) \in 1..CountLeaves(l) /\ CollectLeaves(n)[x] = CollectLeaves(l)[old(x)]
                 /\ CollectLeaves(n)[x].pane # FreshPane
      BY <2>8, <2>9, <2>11, <3>1
    <3>2. CASE i = k + 1 \/ j = k + 1
      BY <2>6, <2>7, <3>1, <3>2
    <3>3. CASE i # k + 1 /\ j # k + 1
      <4>1. old(i) = old(j)
        BY <2>1, <3>1, <3>3 DEF OncePer
      <4> QED
        BY <2>7, <2>8, <3>3, <4>1
    <3> QED
      BY <3>2, <3>3
  <2>13. OldOrNew(tabs, p, n)
    BY <2>4, <2>6, <2>9, <2>10 DEF OldOrNew
  <2>14. Good(tabs') /\ Relaid(tabs, tabs', p) /\ tabs'[p].layout = n
    BY <2>1, <2>2, <2>3, <2>7, <2>12, <2>13, GoodReplaced
  <2>15. SplitAt(p, k, q, e)
    BY <2>1, <2>3, <2>6, <2>7, <2>14 DEF SplitAt, l
  <2>16. e.host = IF h = None THEN CollectLeaves(tabs[p].layout)[k].host ELSE h
    BY <2>3, <2>6 DEF host, l
  <2> QED
    BY <2>3, <2>6, <2>8, <2>14, <2>15, <2>16
<1> QED
  BY <1>1, <1>2

\* setLayout does nothing, or restores the hosts that are still known.
LEMMA SetLayoutGood ==
  ASSUME Good(tabs), NEW t, NEW r \in Rows, NEW known \in SUBSET Hosts,
         Restored(r, known) # Dead, SetLayout(t, Restored(r, known)),
         \A i \in 1..Len(tabs) : tabs[i].id = t => tabs[i].kind = "terminal"
  PROVE  /\ Good(tabs')
         /\ \/ tabs' = tabs /\ t \notin OpenIds
            \/ \E p \in 1..Len(tabs) :
                 /\ Relaid(tabs, tabs', p) /\ tabs[p].id = t /\ r.layout # None
                 /\ KeptPlaces(r.layout, known) # {}
                 /\ LeafHosts(tabs'[p].layout) \in Thinned(SavedHosts(r.layout), KeptPlaces(r.layout, known))
<1>1. CASE t \notin OpenIds
  BY <1>1 DEF SetLayout
<1>2. CASE t \in OpenIds
  <2> DEFINE p == IndexOf(t)
             l == Restored(r, known)
             ids == CHOOSE f \in Numberings(CountLeaves(l)) : TRUE
             n == Number(l, ids)
  <2>1. p \in 1..Len(tabs) /\ tabs[p].id = t /\ tabs[p].kind = "terminal"
    BY <1>2, TabAt
  <2>2. ids \in Numberings(CountLeaves(l)) /\ tabs' = WithLayout(tabs, p, n)
    BY <1>2 DEF SetLayout, WithLayout
  <2>3. ids \in [1..CountLeaves(l) -> FreePanes] /\ IsInjective(ids)
    BY <2>2 DEF Numberings
  <2> HIDE DEF ids, p, l
  <2>4. ids \in [1..CountLeaves(l) -> PaneIds]
    BY <2>3 DEF FreePanes
  <2>5. /\ r.layout # None /\ KeptPlaces(r.layout, known) # {}
        /\ n \in AnyLayout /\ CountLeaves(n) = CountLeaves(l)
        /\ \A k \in 1..CountLeaves(l) : CollectLeaves(n)[k].pane = ids[k]
        /\ LeafHosts(n) \in Thinned(SavedHosts(r.layout), KeptPlaces(r.layout, known))
    <3>1. l = Restored(r, known) /\ l # Dead
      BY DEF l
    <3>2. RestoredAs(r, known, l, ids, n)
      BY <2>4, <3>1, RestoredLayout
    <3> HIDE DEF n
    <3> QED
      BY <3>2 DEF RestoredAs
  <2> HIDE DEF n
  <2>6. \A k \in 1..CountLeaves(n) : CollectLeaves(n)[k].pane = ids[k] /\ ~InUse(tabs, ids[k])
    BY <2>3, <2>5, FreshIds
  <2>7. OncePer(n)
    BY <2>3, <2>5, <2>6 DEF OncePer, IsInjective
  <2>8. OldOrNew(tabs, p, n)
    BY <2>6 DEF OldOrNew
  <2>9. Good(tabs') /\ Relaid(tabs, tabs', p) /\ tabs'[p].layout = n
    BY <2>1, <2>2, <2>5, <2>7, <2>8, GoodReplaced
  <2> QED
    BY <2>1, <2>5, <2>9
<1> QED
  BY <1>1, <1>2

\* closePane takes one leaf away.
LEMMA ClosePaneGood ==
  ASSUME Good(tabs), NEW q, NEW t \in TabOf(q), CountLeaves(Tab(t).layout) > 1,
         tabs' = WithLayout(tabs, IndexOf(t), RemoveLeaf(Tab(t).layout, q))
  PROVE  /\ Good(tabs')
         /\ \E p \in 1..Len(tabs), k \in 1..CountLeaves(Tab(t).layout) :
              /\ Relaid(tabs, tabs', p) /\ tabs[p].id = t /\ tabs[p] = Tab(t)
              /\ CollectLeaves(tabs'[p].layout) = RemoveAt(CollectLeaves(tabs[p].layout), k)
<1> DEFINE p == IndexOf(t)
           l == Tab(t).layout
           k == FindLeaf(l, q)
           n == RemoveLeaf(l, q)
<1>1. /\ t \in OpenIds /\ Tab(t).kind = "terminal" /\ l \in AnyLayout /\ OncePer(l)
      /\ k \in 1..CountLeaves(l) /\ CollectLeaves(l)[k].pane = q
  BY PanePlace
<1>2. p \in 1..Len(tabs) /\ tabs[p] = Tab(t) /\ tabs[p].id = t
  BY <1>1, TabAt
<1>3. tabs' = WithLayout(tabs, p, n)
  OBVIOUS
<1>4. CountLeaves(l) > 1
  OBVIOUS
<1> HIDE DEF p, l, k
<1>5. /\ n \in AnyLayout /\ CountLeaves(n) = CountLeaves(l) - 1
      /\ CollectLeaves(n) = RemoveAt(CollectLeaves(l), k)
      /\ \A i \in 1..CountLeaves(n) : CollectLeaves(n)[i] = CollectLeaves(l)[IF i < k THEN i ELSE i + 1]
  BY <1>1, <1>4, RemoveLayout
<1> HIDE DEF n
<1>6. CountLeaves(l) \in Nat /\ k \in Nat
  BY <1>1, LayoutLeaves
<1> DEFINE old(x) == IF x < k THEN x ELSE x + 1
<1>7. \A i \in 1..CountLeaves(n) :
        old(i) \in 1..CountLeaves(l) /\ CollectLeaves(n)[i] = CollectLeaves(l)[old(i)]
  BY <1>5, <1>6
<1>8. Places(tabs[p]) = 1..CountLeaves(l) /\ \A m : PaneOf(tabs[p], m) = CollectLeaves(l)[m].pane
  BY <1>1, <1>2 DEF Places, PaneOf, l
<1>9. OncePer(n)
  <2> SUFFICES ASSUME NEW i \in 1..CountLeaves(n), NEW j \in 1..CountLeaves(n),
                      CollectLeaves(n)[i].pane = CollectLeaves(n)[j].pane
               PROVE  i = j
    BY DEF OncePer
  <2>1. old(i) = old(j)
    BY <1>1, <1>7 DEF OncePer
  <2> QED
    BY <1>5, <1>6, <2>1
<1>10. OldOrNew(tabs, p, n)
  BY <1>7, <1>8 DEF OldOrNew
<1>11. Good(tabs') /\ Relaid(tabs, tabs', p) /\ tabs'[p].layout = n
  BY <1>1, <1>2, <1>3, <1>5, <1>9, <1>10, GoodReplaced
<1> QED
  BY <1>1, <1>2, <1>5, <1>11 DEF l

\* The identifiers stay where the layout of one tab changes.
LEMMA RelaidIds ==
  ASSUME NEW p, Relaid(tabs, tabs', p)
  PROVE  /\ OpenIds' = OpenIds
         /\ \A i \in 1..Len(tabs) :
              tabs'[i].id = tabs[i].id /\ tabs'[i].kind = tabs[i].kind /\ tabs'[i].host = tabs[i].host
<1>1. Len(tabs') = Len(tabs)
  BY DEF Relaid
<1>2. \A i \in 1..Len(tabs) :
        tabs'[i].id = tabs[i].id /\ tabs'[i].kind = tabs[i].kind /\ tabs'[i].host = tabs[i].host
  BY DEF Relaid
<1> QED
  BY <1>1, <1>2 DEF OpenIds

\* removeSession: the other tabs stay, in their order.
LEMMA CloseTabGood ==
  ASSUME Good(tabs), NEW t \in OpenIds, tabs' = RemoveAt(tabs, IndexOf(t))
  PROVE  /\ Good(tabs') /\ Len(tabs') = Len(tabs) - 1
         /\ \A i \in 1..Len(tabs') : \E j \in 1..Len(tabs) : tabs'[i] = tabs[j]
         /\ \A u \in OpenIds : u # t => u \in OpenIds'
         /\ tabs' # <<>> => Last(tabs').id \in OpenIds'
<1> DEFINE k == IndexOf(t)
           n == Len(tabs)
           f == [i \in 1..(n - 1) |-> IF i < k THEN i ELSE i + 1]
<1>1. k \in 1..n /\ n \in Nat /\ tabs \in Seq(TabRow) /\ tabs[k].id = t
  BY TabAt, GoodLen DEF Good
<1> HIDE DEF k
<1>2. /\ tabs' \in Seq(TabRow) /\ Len(tabs') = n - 1
      /\ \A i \in 1..(n - 1) : tabs'[i] = tabs[IF i < k THEN i ELSE i + 1]
  BY <1>1, RemoveAtProps DEF k
<1>3. f \in [1..Len(tabs') -> 1..Len(tabs)]
  BY <1>1, <1>2
<1>4. \A i, j \in 1..Len(tabs') : f[i] = f[j] => i = j
  BY <1>1, <1>2
<1>5. \A i \in 1..Len(tabs') : tabs'[i] = tabs[f[i]]
  BY <1>2
<1>6. Good(tabs')
  <2> HIDE DEF f
  <2> QED
    BY <1>2, <1>3, <1>4, <1>5, GoodPicked
<1>7. ASSUME NEW u \in OpenIds, u # t PROVE u \in OpenIds'
  <2>1. PICK i \in 1..n : tabs[i].id = u
    BY DEF OpenIds
  <2>2. i # k
    BY <1>1, <1>7, <2>1
  <2>3. PICK j \in 1..(n - 1) : (IF j < k THEN j ELSE j + 1) = i
    <3>1. CASE i < k
      BY <1>1, <3>1
    <3>2. CASE i > k
      <4>1. i - 1 \in 1..(n - 1) /\ ~(i - 1 < k) /\ (i - 1) + 1 = i
        BY <1>1, <3>2
      <4> QED
        BY <4>1
    <3> QED
      BY <1>1, <2>2, <3>1, <3>2
  <2>4. tabs'[j] = tabs[i]
    BY <1>2, <2>3
  <2> QED
    BY <1>2, <2>1, <2>4 DEF OpenIds
<1>8. tabs' # <<>> => Last(tabs').id \in OpenIds'
  <2>1. tabs' # <<>> => Len(tabs') \in 1..Len(tabs')
    BY <1>1, <1>2, EmptySeq
  <2> QED
    BY <2>1 DEF Last, OpenIds
<1> QED
  BY <1>2, <1>3, <1>5, <1>6, <1>7, <1>8

\* Where a dropped tab is: before the one it was dropped on, or last.
DroppedRight(from, to, k) ==
    /\ tabs'[k] = tabs[from] /\ RemoveAt(tabs', k) = RemoveAt(tabs, from)
    /\ IF from = to THEN k = from
       ELSE IF to > Len(tabs) THEN k = Len(tabs)
       ELSE k < Len(tabs) /\ tabs'[k + 1] = tabs[to]

\* reorderSessions moves one tab and nothing else.
LEMMA ReorderGood ==
  ASSUME Good(tabs), NEW from \in 1..Len(tabs), NEW to \in 1..(Len(tabs) + 1),
         ReorderSessions(from, to)
  PROVE  /\ Good(tabs') /\ Len(tabs') = Len(tabs)
         /\ \A i \in 1..Len(tabs') : \E j \in 1..Len(tabs) : tabs'[i] = tabs[j]
         /\ OpenIds \subseteq OpenIds'
         /\ \E k \in 1..Len(tabs) : DroppedRight(from, to, k)
<1> DEFINE n == Len(tabs)
           rest == RemoveAt(tabs, from)
           k == IndexShifted(from, to)
           e == tabs[from]
<1>1. n \in Nat /\ tabs \in Seq(TabRow) /\ e \in TabRow
  BY GoodLen DEF Good
<1>2. CASE from = to
  <2>1. tabs' = tabs
    BY <1>2 DEF ReorderSessions
  <2> QED
    BY <1>1, <1>2, <2>1 DEF DroppedRight, OpenIds
<1>3. CASE from # to
  <2>1. tabs' = InsertAt(rest, k, e)
    BY <1>3 DEF ReorderSessions
  <2>2. k \in 1..n
    BY <1>1, <1>3 DEF IndexShifted
  <2>3. /\ rest \in Seq(TabRow) /\ Len(rest) = n - 1
        /\ \A i \in 1..(n - 1) : rest[i] = tabs[IF i < from THEN i ELSE i + 1]
    BY <1>1, RemoveAtProps
  <2> HIDE DEF rest, k, e
  <2>4. tabs' \in Seq(TabRow) /\ Inserted(rest, k, e, tabs')
    <3>1. k \in 1..(Len(rest) + 1)
      BY <1>1, <2>2, <2>3
    <3> QED
      BY <1>1, <2>1, <2>3, <3>1, InsertAtProps
  <2>5. /\ Len(tabs') = n /\ tabs'[k] = e
        /\ \A i \in 1..(k - 1) : tabs'[i] = rest[i]
        /\ \A i \in (k + 1)..n : tabs'[i] = rest[i - 1]
    BY <1>1, <2>3, <2>4 DEF Inserted
  <2>6. \A i \in 1..(n - 1) : tabs'[IF i < k THEN i ELSE i + 1] = rest[i]
    <3> SUFFICES ASSUME NEW i \in 1..(n - 1) PROVE tabs'[IF i < k THEN i ELSE i + 1] = rest[i]
      OBVIOUS
    <3>1. CASE i < k
      BY <1>1, <2>2, <2>5, <3>1
    <3>2. CASE ~(i < k)
      <4>1. i + 1 \in (k + 1)..n /\ (i + 1) - 1 = i
        BY <1>1, <2>2, <3>2
      <4> QED
        BY <2>5, <3>2, <4>1
    <3> QED
      BY <3>1, <3>2
  <2>7. RemoveAt(tabs', k) = rest
    <3>1. /\ RemoveAt(tabs', k) \in Seq(TabRow) /\ Len(RemoveAt(tabs', k)) = n - 1
          /\ \A i \in 1..(n - 1) : RemoveAt(tabs', k)[i] = tabs'[IF i < k THEN i ELSE i + 1]
      BY <2>2, <2>4, <2>5, RemoveAtProps
    <3>2. \A i \in 1..(n - 1) : RemoveAt(tabs', k)[i] = rest[i]
      BY <2>6, <3>1
    <3> QED
      BY <2>3, <3>1, <3>2, SeqEqual
  <2> DEFINE at(i) == IF i < from THEN i ELSE i + 1
             f == [i \in 1..n |-> IF i = k THEN from ELSE IF i < k THEN at(i) ELSE at(i - 1)]
  <2>8. f \in [1..Len(tabs') -> 1..Len(tabs)]
    BY <1>1, <2>2, <2>5
  <2>9. \A i, j \in 1..Len(tabs') : f[i] = f[j] => i = j
    BY <1>1, <2>2, <2>5
  <2>10. \A i \in 1..Len(tabs') : tabs'[i] = tabs[f[i]]
    <3> SUFFICES ASSUME NEW i \in 1..n PROVE tabs'[i] = tabs[f[i]]
      BY <2>5
    <3>1. CASE i = k
      BY <2>5, <3>1 DEF e
    <3>2. CASE i < k
      <4>1. tabs'[i] = rest[i] /\ i \in 1..(n - 1) /\ f[i] = at(i)
        BY <1>1, <2>2, <2>5, <3>2
      <4>2. rest[i] = tabs[at(i)]
        BY <2>3, <4>1
      <4> QED
        BY <4>1, <4>2
    <3>3. CASE i > k
      <4>1. tabs'[i] = rest[i - 1] /\ i - 1 \in 1..(n - 1)
        BY <1>1, <2>2, <2>5, <3>3
      <4>2. rest[i - 1] = tabs[at(i - 1)]
        BY <2>3, <4>1
      <4> QED
        BY <1>1, <2>2, <3>3, <4>1, <4>2
    <3> QED
      BY <1>1, <2>2, <3>1, <3>2, <3>3
  <2>11. Good(tabs')
    <3> HIDE DEF f
    <3> QED
      BY <2>4, <2>8, <2>9, <2>10, GoodPicked
  <2>12. OpenIds \subseteq OpenIds'
    <3> SUFFICES ASSUME NEW i \in 1..n PROVE tabs[i].id \in OpenIds'
      BY DEF OpenIds
    <3>1. CASE i = from
      BY <2>2, <2>5, <3>1 DEF e, OpenIds
    <3>2. CASE i # from
      <4> DEFINE j == IF i < from THEN i ELSE i - 1
                 m == IF j < k THEN j ELSE j + 1
      <4>1. j \in 1..(n - 1) /\ (IF j < from THEN j ELSE j + 1) = i
        BY <1>1, <3>2
      <4>2. rest[j] = tabs[i] /\ m \in 1..n
        BY <1>1, <2>2, <2>3, <4>1
      <4>3. tabs'[m] = tabs[i]
        BY <2>6, <4>1, <4>2
      <4> QED
        BY <2>5, <4>2, <4>3 DEF OpenIds
    <3> QED
      BY <3>1, <3>2
  <2>13. IF to > n THEN k = n ELSE k < n /\ tabs'[k + 1] = tabs[to]
    <3>1. CASE to > n
      BY <1>1, <3>1 DEF k, IndexShifted
    <3>2. CASE ~(to > n)
      <4>1. k < n /\ k \in 1..(n - 1) /\ (IF k < from THEN k ELSE k + 1) = to
        BY <1>1, <1>3, <3>2 DEF k, IndexShifted
      <4>2. tabs'[k + 1] = rest[k] /\ rest[k] = tabs[to]
        BY <2>3, <2>6, <4>1
      <4> QED
        BY <3>2, <4>1, <4>2
    <3> QED
      BY <3>1, <3>2
  <2>14. DroppedRight(from, to, k)
    BY <1>3, <2>5, <2>7, <2>13 DEF DroppedRight, rest, e
  <2>15. \A i \in 1..Len(tabs') : \E j \in 1..Len(tabs) : tabs'[i] = tabs[j]
    BY <2>8, <2>10
  <2> QED
    BY <2>2, <2>5, <2>11, <2>12, <2>14, <2>15
<1> QED
  BY <1>2, <1>3

-----------------------------------------------------------------------------
(* The inductive invariant                                                 *)

Arranging == {"layout", "flat", "split"}
Clicked == [op : {"none", "connect", "sftp", "split"}, host : Hosts \cup {None},
            tab : TabIds \cup {None}, pane : PaneIds \cup {None}]
Handler == [pc : {"idle", "list", "tab", "gate", "layout", "flat", "split"},
            todo : Seq(Rows), known : SUBSET Hosts, tab : TabIds \cup {None},
            pane : PaneIds \cup {None}, host : Hosts \cup {None}, left : 0..(MAX_PANES - 1)]

\* A handler that waits knows the host it was asked for.
ClickOK ==
    /\ click \in Clicked /\ clicks \in Nat
    /\ (click # NoClick /\ click.op # "split") => click.host \in Hosts

\* Rows are those of hosts that are there, also in the list that is read next.
SavedOK ==
    /\ saved \in Seq(Rows) /\ hosts \subseteq Hosts
    /\ \A i \in 1..Len(saved) : saved[i].host \in hosts
    /\ opening.pc = "list" => hosts \subseteq opening.known

\* handleOpenWorkspace at one of its rows; the tab it arranges is a terminal
\* as long as it is open.
RowOK ==
    /\ opening.pc \in Arranging \cup {"gate"} => opening.todo # <<>> /\ ThisRow.host \in opening.known
    /\ opening.pc \in Arranging => opening.tab \in TabIds /\ ThisRow.kind = "terminal"
    /\ opening.pc = "layout" => Restored(ThisRow, opening.known) # Dead
    /\ opening.pc = "split" => opening.left > 0
TabOK ==
    opening.pc \in Arranging =>
        \A i \in 1..Len(tabs) : tabs[i].id = opening.tab => tabs[i].kind = "terminal"

Inv == Good(tabs) /\ MainIsOpen /\ ClickOK /\ SavedOK /\ opening \in Handler /\ RowOK /\ TabOK

\* The next row of a list that is not at its end.
LEMMA RowTypes ==
  ASSUME opening \in Handler, opening.todo # <<>>
  PROVE  /\ ThisRow \in Rows /\ Tail(opening.todo) \in Seq(Rows)
         /\ ThisRow.host \in Hosts /\ ThisRow.kind \in Kinds /\ ThisRow.count \in 1..MAX_PANES
<1>1. opening.todo \in Seq(Rows)
  BY DEF Handler
<1>2. ThisRow \in Rows /\ Tail(opening.todo) \in Seq(Rows)
  BY <1>1, HeadTailProperties DEF ThisRow
<1> QED
  BY <1>2 DEF Rows

\* It holds in the initial states.
LEMMA InvInit == Init => Inv
<1> SUFFICES ASSUME Init PROVE Inv
  OBVIOUS
<1> USE DEF Init
<1>1. Good(tabs)
  <2>1. tabs = <<>> /\ <<>> \in Seq(TabRow) /\ Len(tabs) = 0
    BY EmptySeq
  <2> QED
    BY <2>1 DEF Good, IdsApart, PanesApart
<1>2. MainIsOpen
  BY DEF MainIsOpen
<1>3. ClickOK
  BY DEF ClickOK, NoClick, Clicked
<1>4. SavedOK
  <2>1. saved \in Seq(Rows)
    BY WorkspacesAssumption
  <2>2. \A i \in 1..Len(saved) : saved[i].host \in Hosts
    <3>1. \A i \in 1..Len(saved) : saved[i] \in Rows
      BY <2>1, ElementOfSeq
    <3> QED
      BY <3>1 DEF Rows
  <2> QED
    BY <2>1, <2>2 DEF SavedOK, NotOpening
<1>5. opening \in Handler
  <2>1. <<>> \in Seq(Rows) /\ 0 \in 0..(MAX_PANES - 1)
    BY EmptySeq, WorkspacesAssumption
  <2> QED
    BY <2>1 DEF NotOpening, Handler
<1>6. RowOK /\ TabOK
  BY DEF RowOK, TabOK, NotOpening, Arranging
<1> QED
  BY <1>1, <1>2, <1>3, <1>4, <1>5, <1>6 DEF Inv

-----------------------------------------------------------------------------
(* What one step does to the tabs                                          *)

TabsEffect ==
    \/ tabs' = tabs
    \/ \E h \in Hosts, kind \in Kinds : OpenSession(h, kind)
    \/ \E t \in OpenIds : CloseTab(t)
    \/ \E from \in 1..Len(tabs), to \in 1..(Len(tabs) + 1) : ReorderSessions(from, to)
    \/ \E t, q : \E h \in Hosts \cup {None} :
         SplitPane(t, q, h) /\ (clicks' = clicks => q \in Remembered)
    \/ \E q : \E t \in TabOf(q) :
         /\ CountLeaves(Tab(t).layout) > 1
         /\ tabs' = WithLayout(tabs, IndexOf(t), RemoveLeaf(Tab(t).layout, q))
    \/ opening.pc = "layout" /\ SetLayout(opening.tab, Restored(ThisRow, opening.known))

\* A user's action.
LEMMA UserEffect ==
  ASSUME Inv, User
  PROVE  TabsEffect
<1> USE DEF Inv
<1>0. clicks' # clicks
  BY DEF User, ClickOK
<1>1. ASSUME NEW h \in Hosts, ShowExisting(h) \/ DeleteHost(h) PROVE TabsEffect
  BY <1>1 DEF ShowExisting, DeleteHost, TabsEffect
<1>2. ASSUME NEW h \in Hosts, NEW op \in {"connect", "sftp"}, Open(h, op) PROVE TabsEffect
  <2>1. CASE h \in VpnHosts
    BY <1>2, <2>1 DEF Open, TabsEffect
  <2>2. CASE h \notin VpnHosts
    <3>1. OpenSession(h, IF op = "sftp" THEN "sftp" ELSE "terminal")
      BY <1>2, <2>2 DEF Open
    <3>2. (IF op = "sftp" THEN "sftp" ELSE "terminal") \in Kinds
      BY DEF Kinds
    <3> QED
      BY <3>1, <3>2 DEF TabsEffect
  <2> QED
    BY <2>1, <2>2
<1>3. ASSUME NEW t \in OpenIds, CloseTab(t) PROVE TabsEffect
  BY <1>3 DEF TabsEffect
<1>4. ASSUME NEW q, ClosePane(q) PROVE TabsEffect
  <2>1. PICK t \in TabOf(q) :
          IF CountLeaves(Tab(t).layout) <= 1 THEN CloseTab(t)
          ELSE tabs' = [tabs EXCEPT ![IndexOf(t)].layout = RemoveLeaf(@, q)]
    BY <1>4 DEF ClosePane
  <2>2. t \in OpenIds /\ Tab(t).layout \in AnyLayout
    BY PanePlace
  <2>3. CASE CountLeaves(Tab(t).layout) <= 1
    BY <1>3, <2>1, <2>2, <2>3
  <2>4. CASE ~(CountLeaves(Tab(t).layout) <= 1)
    <3>1. tabs' = WithLayout(tabs, IndexOf(t), RemoveLeaf(Tab(t).layout, q))
      BY <2>1, <2>2, <2>4 DEF WithLayout, Tab
    <3>2. CountLeaves(Tab(t).layout) > 1
      BY <2>2, <2>4, LayoutLeaves
    <3> QED
      BY <3>1, <3>2 DEF TabsEffect
  <2> QED
    BY <2>3, <2>4
<1>5. ASSUME NEW q, NEW h \in Hosts \cup {None}, Split(q, h) PROVE TabsEffect
  <2> DEFINE t == CHOOSE u \in TabOf(q) : TRUE
  <2>1. tabs' = tabs \/ SplitPane(t, q, h)
    BY <1>5 DEF Split
  <2> HIDE DEF t
  <2> QED
    BY <1>0, <2>1 DEF TabsEffect
<1>6. ASSUME NEW t \in OpenIds, Show(t) PROVE TabsEffect
  BY <1>6 DEF Show, TabsEffect
<1>7. ASSUME ActivitySelect \/ \E delta \in {1, -1} : CycleTab(delta) PROVE TabsEffect
  BY <1>7 DEF ActivitySelect, CycleTab, TabsEffect
<1>8. ASSUME NEW i, NEW j, Drop(i, j) PROVE TabsEffect
  BY <1>8 DEF Drop, TabsEffect
<1>9. ASSUME SaveCurrentLayout \/ DeleteWorkspace \/ OpenWorkspace PROVE TabsEffect
  BY <1>9 DEF SaveCurrentLayout, DeleteWorkspace, OpenWorkspace, TabsEffect
<1> QED
  BY <1>1, <1>2, <1>3, <1>4, <1>5, <1>6, <1>7, <1>8, <1>9 DEF User, UserAction

\* A gate's answer, or the opening of a workspace going on.
LEMMA HandlerEffect ==
  ASSUME Inv, Opening \/ \E ok \in BOOLEAN : GateReturns(ok)
  PROVE  TabsEffect
<1> USE DEF Inv
<1>1. ASSUME NEW ok \in BOOLEAN, GateReturns(ok) PROVE TabsEffect
  <2>1. CASE ~ok
    BY <1>1, <2>1 DEF GateReturns, TabsEffect
  <2>2. CASE ok /\ click.op = "split"
    <3>1. SplitPane(click.tab, click.pane, click.host)
      BY <1>1, <2>2 DEF GateReturns
    <3>2. click.host \in Hosts \cup {None} /\ click.pane \in Remembered
      BY DEF ClickOK, Clicked, Remembered
    <3> QED
      BY <3>1, <3>2 DEF TabsEffect
  <2>3. CASE ok /\ click.op # "split"
    <3>1. OpenSession(click.host, IF click.op = "sftp" THEN "sftp" ELSE "terminal")
      BY <1>1, <2>3 DEF GateReturns
    <3>2. click.host \in Hosts /\ (IF click.op = "sftp" THEN "sftp" ELSE "terminal") \in Kinds
      BY <1>1, <2>3 DEF GateReturns, ClickOK, Kinds
    <3> QED
      BY <3>1, <3>2 DEF TabsEffect
  <2> QED
    BY <2>1, <2>2, <2>3
<1>2. ASSUME NEW ok \in BOOLEAN, RowGate(ok) PROVE TabsEffect
  <2>1. ThisRow.host \in Hosts /\ ThisRow.kind \in Kinds
    BY <1>2, RowTypes DEF RowGate, RowOK
  <2> QED
    BY <1>2, <2>1 DEF RowGate, TabsEffect
<1>3. ASSUME NEW ok \in BOOLEAN, FlatGate(ok) PROVE TabsEffect
  <2>1. tabs' = tabs \/ SplitPane(opening.tab, opening.pane, None)
    BY <1>3 DEF FlatGate
  <2>2. opening.pane \in Remembered
    BY DEF Remembered
  <2> QED
    BY <2>1, <2>2 DEF TabsEffect
<1>4. ASSUME RestoreLayout PROVE TabsEffect
  BY <1>4 DEF RestoreLayout, TabsEffect
<1>5. ASSUME ListTabs \/ OpenRow \/ OpenDone \/ FlatSplit PROVE TabsEffect
  BY <1>5 DEF ListTabs, OpenRow, OpenDone, FlatSplit, TabsEffect
<1> QED
  BY <1>1, <1>2, <1>3, <1>4, <1>5 DEF Opening

\* Every step.
LEMMA StepEffect ==
  ASSUME Inv, [Next]_vars
  PROVE  TabsEffect
<1>1. UNCHANGED vars => TabsEffect
  BY DEF vars, TabsEffect
<1> QED
  BY <1>1, UserEffect, HandlerEffect DEF Next

\* Tabs stay well formed, and one that is being arranged stays a terminal.
LEMMA TabsStep ==
  ASSUME Inv, TabsEffect
  PROVE  /\ Good(tabs')
         /\ \A i \in 1..Len(tabs') :
              \/ tabs'[i].id # opening.tab
              \/ \E j \in 1..Len(tabs) : tabs'[i].id = tabs[j].id /\ tabs'[i].kind = tabs[j].kind
         /\ OpenIds \subseteq OpenIds' \/ \E t \in OpenIds : CloseTab(t)
<1> DEFINE Kept == \A i \in 1..Len(tabs') :
              \/ tabs'[i].id # opening.tab
              \/ \E j \in 1..Len(tabs) : tabs'[i].id = tabs[j].id /\ tabs'[i].kind = tabs[j].kind
           Goal == Good(tabs') /\ Kept /\ (OpenIds \subseteq OpenIds' \/ \E t \in OpenIds : CloseTab(t))
<1> USE DEF Inv
<1>1. CASE tabs' = tabs
  BY <1>1 DEF OpenIds
<1>2. ASSUME NEW h \in Hosts, NEW kind \in Kinds, OpenSession(h, kind) PROVE Goal
  <2>1. /\ Good(tabs') /\ Len(tabs') = Len(tabs) + 1
        /\ \A i \in 1..Len(tabs) : tabs'[i] = tabs[i]
        /\ tabs'[Len(tabs) + 1].id = FreshTab /\ FreeTabs # {}
    BY <1>2, OpenSessionGood
  <2>2. Len(tabs) \in Nat /\ FreshTab # opening.tab
    BY <2>1, GoodLen, FreshIds
  <2> QED
    BY <2>1, <2>2 DEF OpenIds
<1>3. ASSUME NEW t \in OpenIds, CloseTab(t) PROVE Goal
  <2>1. tabs' = RemoveAt(tabs, IndexOf(t))
    BY <1>3 DEF CloseTab
  <2> QED
    BY <1>3, <2>1, CloseTabGood
<1>4. ASSUME NEW from \in 1..Len(tabs), NEW to \in 1..(Len(tabs) + 1), ReorderSessions(from, to) PROVE Goal
  BY <1>4, ReorderGood
<1>5. ASSUME NEW p \in 1..Len(tabs), Good(tabs'), Relaid(tabs, tabs', p) PROVE Goal
  BY <1>5, RelaidIds DEF Relaid
<1>6. ASSUME NEW t, NEW q, NEW h \in Hosts \cup {None}, SplitPane(t, q, h) PROVE Goal
  <2>1. /\ Good(tabs')
        /\ tabs' = tabs \/ \E p \in 1..Len(tabs) : Relaid(tabs, tabs', p)
    BY <1>6, SplitPaneGood DEF SplitAt
  <2> QED
    BY <1>1, <1>5, <2>1
<1>7. ASSUME NEW q, NEW t \in TabOf(q), CountLeaves(Tab(t).layout) > 1,
             tabs' = WithLayout(tabs, IndexOf(t), RemoveLeaf(Tab(t).layout, q))
      PROVE  Goal
  <2>1. Good(tabs') /\ \E p \in 1..Len(tabs) : Relaid(tabs, tabs', p)
    BY <1>7, ClosePaneGood
  <2> QED
    BY <1>5, <2>1
<1>8. ASSUME opening.pc = "layout", SetLayout(opening.tab, Restored(ThisRow, opening.known)) PROVE Goal
  <2>1. /\ opening.todo # <<>> /\ Restored(ThisRow, opening.known) # Dead
        /\ \A i \in 1..Len(tabs) : tabs[i].id = opening.tab => tabs[i].kind = "terminal"
    BY <1>8 DEF RowOK, TabOK, Arranging
  <2>2. ThisRow \in Rows /\ opening.known \in SUBSET Hosts
    BY <2>1, RowTypes DEF Handler
  <2>3. /\ Good(tabs')
        /\ tabs' = tabs \/ \E p \in 1..Len(tabs) : Relaid(tabs, tabs', p)
    BY <1>8, <2>1, <2>2, SetLayoutGood
  <2> QED
    BY <1>1, <1>5, <2>3
<1> QED
  BY <1>1, <1>2, <1>3, <1>4, <1>6, <1>7, <1>8 DEF TabsEffect

\* The view shows an open tab also after the step.
LEMMA MainStep ==
  ASSUME Inv, [Next]_vars
  PROVE  MainIsOpen'
<1> USE DEF Inv
<1> DEFINE Goal == main' \in {main, None} \cup OpenIds' \/ \E t \in OpenIds : CloseTab(t)
<1>1. ASSUME NEW t \in OpenIds, CloseTab(t) PROVE MainIsOpen'
  <2>1. tabs' = RemoveAt(tabs, IndexOf(t)) /\ main' = MainFallsBack(t, tabs')
    BY <1>1 DEF CloseTab
  <2>2. /\ \A u \in OpenIds : u # t => u \in OpenIds'
        /\ tabs' # <<>> => Last(tabs').id \in OpenIds'
    BY <2>1, CloseTabGood
  <2>3. main' = IF main # t THEN main ELSE IF tabs' = <<>> THEN None ELSE Last(tabs').id
    BY <2>1 DEF MainFallsBack
  <2> QED
    BY <2>2, <2>3 DEF MainIsOpen
<1>2. Goal => MainIsOpen'
  <2>1. OpenIds \subseteq OpenIds' \/ \E t \in OpenIds : CloseTab(t)
    BY StepEffect, TabsStep
  <2> QED
    BY <1>1, <2>1 DEF MainIsOpen
<1>3. ASSUME NEW h \in Hosts, NEW kind \in Kinds, OpenSession(h, kind) PROVE Goal
  <2>1. main' = tabs'[Len(tabs) + 1].id /\ Len(tabs') = Len(tabs) + 1
    BY <1>3, OpenSessionGood
  <2>2. Len(tabs) \in Nat
    BY GoodLen
  <2> QED
    BY <2>1, <2>2 DEF OpenIds
<1>4. ASSUME NEW h, TerminalsOf(h) # {}, main' = FirstTerminalOf(h), tabs' = tabs PROVE Goal
  BY <1>4, FirstTerminal DEF OpenIds
<1>5. ASSUME NEW delta \in {1, -1}, CycleTab(delta) PROVE Goal
  <2> DEFINE n == Len(tabs)
             c == IF main = None THEN 0 ELSE IndexOf(main)
  <2>1. n \in Nat /\ n > 0
    BY <1>5, GoodLen DEF CycleTab
  <2>2. c \in Int
    BY TabAt DEF MainIsOpen
  <2>3. ((c - 1 + delta + n) % n) + 1 \in 1..n
    BY <2>1, <2>2
  <2>4. main' = tabs[((c - 1 + delta + n) % n) + 1].id /\ tabs' = tabs
    BY <1>5 DEF CycleTab
  <2> HIDE DEF c
  <2> QED
    BY <2>3, <2>4 DEF OpenIds
<1>6. ASSUME NEW h \in Hosts, ShowExisting(h) \/ DeleteHost(h) PROVE Goal
  BY <1>4, <1>6 DEF ShowExisting, DeleteHost
<1>7. ASSUME NEW h \in Hosts, NEW op \in {"connect", "sftp"}, Open(h, op) PROVE Goal
  <2>1. (IF op = "sftp" THEN "sftp" ELSE "terminal") \in Kinds
    BY DEF Kinds
  <2> QED
    BY <1>3, <1>7, <2>1 DEF Open
<1>8. ASSUME NEW q, ClosePane(q) PROVE Goal
  BY <1>8 DEF ClosePane, CloseTab
<1>9. ASSUME NEW t \in OpenIds, Show(t) PROVE Goal
  BY <1>9 DEF Show, OpenIds
<1>10. ASSUME ActivitySelect \/ SaveCurrentLayout \/ DeleteWorkspace \/ OpenWorkspace PROVE Goal
  BY <1>10 DEF ActivitySelect, SaveCurrentLayout, DeleteWorkspace, OpenWorkspace
<1>11. ASSUME NEW q, NEW h, Split(q, h) PROVE Goal
  BY <1>11 DEF Split
<1>12. ASSUME NEW i, NEW j, Drop(i, j) PROVE Goal
  BY <1>12 DEF Drop
<1>13. ASSUME NEW ok \in BOOLEAN, GateReturns(ok) PROVE Goal
  <2>1. (IF click.op = "sftp" THEN "sftp" ELSE "terminal") \in Kinds
    BY DEF Kinds
  <2>2. CASE ok /\ click.op # "split"
    <3>1. OpenSession(click.host, IF click.op = "sftp" THEN "sftp" ELSE "terminal") /\ click.host \in Hosts
      BY <1>13, <2>2 DEF GateReturns, ClickOK
    <3> QED
      BY <1>3, <2>1, <3>1
  <2>3. CASE ~(ok /\ click.op # "split")
    BY <1>13, <2>3 DEF GateReturns
  <2> QED
    BY <2>2, <2>3
<1>14. ASSUME NEW ok \in BOOLEAN, RowGate(ok) PROVE Goal
  <2>1. ThisRow.host \in Hosts /\ ThisRow.kind \in Kinds
    BY <1>14, RowTypes DEF RowGate, RowOK
  <2> QED
    BY <1>3, <1>14, <2>1 DEF RowGate
<1>15. ASSUME NEW ok \in BOOLEAN, FlatGate(ok) PROVE Goal
  BY <1>15 DEF FlatGate
<1>16. ASSUME OpenRow PROVE Goal
  BY <1>4, <1>16 DEF OpenRow
<1>17. ASSUME ListTabs \/ OpenDone \/ RestoreLayout \/ FlatSplit PROVE Goal
  BY <1>17 DEF ListTabs, OpenDone, RestoreLayout, FlatSplit
<1>18. UNCHANGED vars => Goal
  BY DEF vars
<1>19. ASSUME NEW t \in OpenIds, CloseTab(t) PROVE Goal
  BY <1>19
<1> HIDE DEF Goal
<1>20. User => Goal
  BY <1>5, <1>6, <1>7, <1>8, <1>9, <1>10, <1>11, <1>12, <1>19 DEF User, UserAction
<1>21. Opening => Goal
  BY <1>14, <1>15, <1>16, <1>17 DEF Opening
<1> QED
  BY <1>2, <1>13, <1>18, <1>20, <1>21 DEF Next

-----------------------------------------------------------------------------
(* The other parts of the invariant                                        *)

\* A handler of the user's waits with what it was asked for.
LEMMA ClickStep ==
  ASSUME Inv, [Next]_vars
  PROVE  ClickOK'
<1> USE DEF Inv, ClickOK
<1>1. NoClick \in Clicked
  BY DEF NoClick, Clicked
<1>2. ASSUME click' \in {click, NoClick}, clicks' \in {clicks, clicks + 1} PROVE ClickOK'
  BY <1>1, <1>2
<1>3. ASSUME NEW h \in Hosts, NEW op \in {"connect", "sftp"}, Open(h, op), clicks' = clicks + 1
      PROVE  ClickOK'
  <2>1. CASE h \in VpnHosts
    <3>1. click' = [NoClick EXCEPT !.op = op, !.host = h]
      BY <1>3, <2>1 DEF Open
    <3>2. click' \in Clicked /\ click'.host = h
      BY <3>1 DEF NoClick, Clicked
    <3> QED
      BY <1>3, <3>2
  <2>2. CASE h \notin VpnHosts
    BY <1>2, <1>3, <2>2 DEF Open
  <2> QED
    BY <2>1, <2>2
<1>4. ASSUME NEW q \in PanesOpen, NEW h \in Hosts \cup {None}, Split(q, h), clicks' = clicks + 1
      PROVE  ClickOK'
  <2> DEFINE t == CHOOSE u \in TabOf(q) : TRUE
  <2>1. click' = click \/ click' = [op |-> "split", host |-> h, tab |-> t, pane |-> q]
    BY <1>4 DEF Split
  <2>2. t \in TabOf(q)
    BY <1>4 DEF Split, SplitOffered
  <2> HIDE DEF t
  <2>3. t \in TabIds /\ q \in PaneIds
    BY <2>2, PanePlace, TabAt, LayoutLeaves DEF Leaves
  <2>4. CASE click' = [op |-> "split", host |-> h, tab |-> t, pane |-> q]
    <3>1. click' \in Clicked /\ click'.op = "split"
      BY <2>3, <2>4 DEF Clicked
    <3> QED
      BY <1>4, <3>1
  <2> QED
    BY <1>2, <1>4, <2>1, <2>4
<1>5. ASSUME NEW ok \in BOOLEAN, GateReturns(ok), clicks' = clicks PROVE ClickOK'
  BY <1>2, <1>5 DEF GateReturns
<1>6. ASSUME Opening PROVE click' = click
  BY <1>6 DEF Opening, ListTabs, OpenRow, OpenDone, RestoreLayout, FlatSplit, RowGate, FlatGate
<1>7. ASSUME NEW h \in Hosts, ShowExisting(h) \/ DeleteHost(h) PROVE click' = click
  BY <1>7 DEF ShowExisting, DeleteHost
<1>8. ASSUME NEW q, ClosePane(q) PROVE click' = click
  BY <1>8 DEF ClosePane, CloseTab
<1>9. ASSUME NEW t \in OpenIds, CloseTab(t) \/ Show(t) PROVE click' = click
  BY <1>9 DEF CloseTab, Show
<1>10. ASSUME ActivitySelect \/ SaveCurrentLayout \/ DeleteWorkspace \/ OpenWorkspace PROVE click' = click
  BY <1>10 DEF ActivitySelect, SaveCurrentLayout, DeleteWorkspace, OpenWorkspace
<1>11. ASSUME NEW delta, CycleTab(delta) PROVE click' = click
  BY <1>11 DEF CycleTab
<1>12. ASSUME NEW i, NEW j, Drop(i, j) PROVE click' = click
  BY <1>12 DEF Drop
<1>13. User => ClickOK'
  <2> HIDE DEF ClickOK
  <2> QED
    BY <1>2, <1>3, <1>4, <1>7, <1>8, <1>9, <1>10, <1>11, <1>12 DEF User, UserAction
<1>14. UNCHANGED vars => ClickOK'
  BY DEF vars
<1> HIDE DEF ClickOK
<1> QED
  BY <1>2, <1>5, <1>6, <1>13, <1>14 DEF Next

\* handleSaveCurrentLayout writes rows of hosts that are there.
LEMMA SaveRows ==
  ASSUME Inv, SaveCurrentLayout
  PROVE  saved' \in Seq(Rows) /\ \A i \in 1..Len(saved') : saved'[i].host \in hosts
<1> USE DEF Inv
<1> DEFINE n == Max(Saveable)
           row(i) == IF tabs[i].kind = "sftp" THEN Row(tabs[i].host, "sftp", 1, None)
                     ELSE Row(tabs[i].host, "terminal", CountLeaves(tabs[i].layout),
                              SerializeLayout(tabs[i].layout))
<1>1. Len(tabs) \in Nat /\ \A i \in 1..Len(tabs) : RowGood(tabs[i])
  BY GoodLen
<1>2. n \in Saveable
  <2>1. Saveable \in SUBSET Nat /\ 0 \in Saveable /\ \A x \in Saveable : x <= Len(tabs)
    BY <1>1 DEF Saveable
  <2> QED
    BY <1>1, <2>1, MaxNat
<1>3. saved' = [i \in 1..n |-> row(i)]
  BY DEF SaveCurrentLayout
<1> HIDE DEF n
<1>4. n \in Nat /\ n <= Len(tabs) /\ \A i \in 1..n : tabs[i].host \in hosts
  BY <1>1, <1>2 DEF Saveable
<1>5. ASSUME NEW i \in 1..n PROVE row(i) \in Rows /\ row(i).host \in hosts
  <2>1. RowGood(tabs[i]) /\ tabs[i].host \in hosts
    BY <1>1, <1>4
  <2>2. tabs[i].host \in Hosts
    BY <2>1, GoodRow
  <2>3. CASE tabs[i].kind = "sftp"
    <3>1. row(i) = Row(tabs[i].host, "sftp", 1, None) /\ 1 \in 1..MAX_PANES
      BY <2>3, WorkspacesAssumption
    <3> QED
      BY <2>1, <2>2, <3>1 DEF Row, Rows, Kinds
  <2>4. CASE tabs[i].kind # "sftp"
    <3>1. tabs[i].layout \in AnyLayout
      BY <2>1, <2>4, GoodRow
    <3>2. PICK c \in 1..MAX_PANES : c = CountLeaves(tabs[i].layout) /\ SerializeLayout(tabs[i].layout) \in SavedLayouts(c)
      BY <3>1, LayoutLeaves
    <3>3. row(i) = Row(tabs[i].host, "terminal", c, SerializeLayout(tabs[i].layout))
      BY <2>4, <3>2
    <3> QED
      BY <2>1, <2>2, <3>2, <3>3 DEF Row, Rows, Kinds
  <2> QED
    BY <2>3, <2>4
<1> HIDE DEF row
<1>6. saved' \in [1..n -> Rows]
  BY <1>3, <1>5
<1>7. saved' \in Seq(Rows)
  BY <1>4, <1>6, SeqDef
<1>8. Len(saved') = n
  BY <1>4, <1>6, <1>7, LenProperties
<1> QED
  BY <1>3, <1>5, <1>7, <1>8

\* Deleting a host leaves the rows of the others.
LEMMA ThinnedRows ==
  ASSUME NEW s \in Seq(Rows), NEW keep \in SUBSET (1..Len(s)), NEW u \in Thinned(s, keep)
  PROVE  u \in Seq(Rows) /\ \A i \in 1..Len(u) : \E j \in keep : u[i] = s[j]
<1>1. PICK n \in 0..Len(s) : \E f \in [1..n -> keep] : u = [k \in 1..n |-> s[f[k]]]
  BY DEF Thinned
<1>2. PICK f \in [1..n -> keep] : u = [k \in 1..n |-> s[f[k]]]
  BY <1>1
<1>3. \A k \in 1..n : f[k] \in keep /\ s[f[k]] \in Rows
  BY <1>2, ElementOfSeq
<1>4. u \in [1..n -> Rows] /\ n \in Nat
  BY <1>2, <1>3, LenProperties
<1>5. u \in Seq(Rows) /\ Len(u) = n
  BY <1>4, SeqDef, LenProperties
<1> QED
  BY <1>2, <1>3, <1>5

\* What handleOpenWorkspace remembers on its way from row to row.
LEMMA HandlerForms ==
  ASSUME opening \in Handler
  PROVE  /\ NotOpening \in Handler
         /\ NextRow.pc = "tab" /\ NextRow.known = opening.known /\ NextRow.todo = Tail(opening.todo)
         /\ opening.todo # <<>> => NextRow \in Handler
         /\ \A pc : At(pc).pc = pc /\ At(pc).todo = opening.todo /\ At(pc).known = opening.known
                    /\ At(pc).tab = opening.tab /\ At(pc).left = opening.left
         /\ \A pc \in {"tab", "gate", "flat", "split"} : At(pc) \in Handler
         /\ \A t : /\ Arrange(t).tab = t /\ Arrange(t).todo = opening.todo
                   /\ Arrange(t).known = opening.known /\ Arrange(t).left = ThisRow.count - 1
                   /\ Arrange(t).pc = IF Restored(ThisRow, opening.known) # Dead THEN "layout" ELSE "flat"
         /\ opening.todo # <<>> => \A t \in TabIds : Arrange(t) \in Handler
<1>1. NotOpening \in Handler
  <2>1. <<>> \in Seq(Rows) /\ 0 \in 0..(MAX_PANES - 1)
    BY EmptySeq, WorkspacesAssumption
  <2> QED
    BY <2>1 DEF NotOpening, Handler
<1>2. NextRow.pc = "tab" /\ NextRow.known = opening.known /\ NextRow.todo = Tail(opening.todo)
  BY DEF NextRow, NotOpening
<1>3. opening.todo # <<>> => NextRow \in Handler
  <2>1. opening.todo # <<>> => Tail(opening.todo) \in Seq(Rows)
    BY RowTypes
  <2> QED
    BY <1>1, <2>1 DEF NextRow, NotOpening, Handler
<1>4. \A pc : At(pc).pc = pc /\ At(pc).todo = opening.todo /\ At(pc).known = opening.known
              /\ At(pc).tab = opening.tab /\ At(pc).left = opening.left
  BY DEF At, Handler
<1>5. \A pc \in {"tab", "gate", "flat", "split"} : At(pc) \in Handler
  BY DEF At, Handler
<1>6. \A t : /\ Arrange(t).tab = t /\ Arrange(t).todo = opening.todo
             /\ Arrange(t).known = opening.known /\ Arrange(t).left = ThisRow.count - 1
             /\ Arrange(t).pc = IF Restored(ThisRow, opening.known) # Dead THEN "layout" ELSE "flat"
  BY DEF Arrange, PanesLeft, Handler
<1>7. ASSUME opening.todo # <<>>, NEW t \in TabIds PROVE Arrange(t) \in Handler
  <2>1. ThisRow.count - 1 \in 0..(MAX_PANES - 1)
    BY <1>7, RowTypes, WorkspacesAssumption
  <2> QED
    BY <2>1 DEF Arrange, PanesLeft, Handler
<1> QED
  BY <1>1, <1>2, <1>3, <1>4, <1>5, <1>6, <1>7

\* Rows are rows of hosts that are there.
LEMMA SavedStep ==
  ASSUME Inv, [Next]_vars
  PROVE  SavedOK'
<1> USE DEF Inv, SavedOK
<1>1. ASSUME UNCHANGED <<saved, hosts>>, opening'.pc # "list" \/ opening' = opening PROVE SavedOK'
  BY <1>1
<1>2. ASSUME SaveCurrentLayout PROVE SavedOK'
  BY <1>2, SaveRows DEF SaveCurrentLayout
<1>3. ASSUME NEW h \in Hosts, DeleteHost(h) PROVE SavedOK'
  <2> DEFINE keep == {i \in 1..Len(saved) : saved[i].host # h}
  <2>1. saved' \in Thinned(saved, keep) /\ hosts' = hosts \ {h} /\ opening' = opening
    BY <1>3 DEF DeleteHost
  <2>2. saved' \in Seq(Rows) /\ \A i \in 1..Len(saved') : \E j \in keep : saved'[i] = saved[j]
    BY <2>1, ThinnedRows
  <2>3. \A i \in 1..Len(saved') : saved'[i].host \in hosts'
    BY <2>1, <2>2
  <2> QED
    BY <2>1, <2>2, <2>3
<1>4. ASSUME DeleteWorkspace PROVE SavedOK'
  <2>1. saved' = <<>> /\ <<>> \in Seq(Rows) /\ Len(saved') = 0
    BY <1>4, EmptySeq DEF DeleteWorkspace
  <2> QED
    BY <1>4, <2>1 DEF DeleteWorkspace
<1>5. ASSUME OpenWorkspace PROVE SavedOK'
  BY <1>5 DEF OpenWorkspace, NotOpening
<1>6. ASSUME NEW h \in Hosts, ShowExisting(h) PROVE SavedOK'
  BY <1>1, <1>6 DEF ShowExisting
<1>7. ASSUME NEW h \in Hosts, NEW op \in {"connect", "sftp"}, Open(h, op) PROVE SavedOK'
  BY <1>1, <1>7 DEF Open
<1>8. ASSUME NEW q, ClosePane(q) PROVE SavedOK'
  BY <1>1, <1>8 DEF ClosePane, CloseTab
<1>9. ASSUME NEW q, NEW h, Split(q, h) PROVE SavedOK'
  BY <1>1, <1>9 DEF Split
<1>10. ASSUME NEW t \in OpenIds, CloseTab(t) \/ Show(t) PROVE SavedOK'
  BY <1>1, <1>10 DEF CloseTab, Show
<1>11. ASSUME ActivitySelect \/ \E delta \in {1, -1} : CycleTab(delta) PROVE SavedOK'
  BY <1>1, <1>11 DEF ActivitySelect, CycleTab
<1>12. ASSUME NEW i, NEW j, Drop(i, j) PROVE SavedOK'
  BY <1>1, <1>12 DEF Drop
<1>13. ASSUME NEW ok \in BOOLEAN, GateReturns(ok) PROVE SavedOK'
  BY <1>1, <1>13 DEF GateReturns
<1>14. ASSUME ListTabs \/ OpenDone \/ FlatSplit \/ RestoreLayout PROVE SavedOK'
  <2>1. UNCHANGED <<saved, hosts>>
    BY <1>14 DEF ListTabs, OpenDone, FlatSplit, RestoreLayout
  <2>2. opening'.pc # "list"
    <3>1. ListTabs => opening'.pc = "tab"
      BY DEF ListTabs, At, Handler
    <3>2. OpenDone => opening'.pc = "idle"
      BY DEF OpenDone, NotOpening
    <3>3. FlatSplit => opening'.pc \in {"split", "tab"}
      BY HandlerForms DEF FlatSplit, At, Handler
    <3>4. RestoreLayout => opening'.pc = "tab"
      BY HandlerForms DEF RestoreLayout
    <3> QED
      BY <1>14, <3>1, <3>2, <3>3, <3>4
  <2> QED
    BY <1>1, <2>1, <2>2
<1>15. ASSUME NEW ok \in BOOLEAN, OpenRow \/ RowGate(ok) \/ FlatGate(ok) PROVE SavedOK'
  <2>1. UNCHANGED <<saved, hosts>>
    BY <1>15 DEF OpenRow, RowGate, FlatGate
  <2>2. opening'.pc # "list"
    <3>1. OpenRow => opening'.pc \in {"tab", "layout", "flat", "gate"}
      BY HandlerForms DEF OpenRow
    <3>2. RowGate(ok) => opening'.pc \in {"tab", "layout", "flat"}
      BY HandlerForms DEF RowGate
    <3>3. FlatGate(ok) => opening'.pc = "flat"
      BY DEF FlatGate, At, Handler
    <3> QED
      BY <1>15, <3>1, <3>2, <3>3
  <2> QED
    BY <1>1, <2>1, <2>2
<1>16. UNCHANGED vars => SavedOK'
  BY DEF vars
<1> HIDE DEF SavedOK
<1>17. User => SavedOK'
  BY <1>2, <1>3, <1>4, <1>5, <1>6, <1>7, <1>8, <1>9, <1>10, <1>11, <1>12 DEF User, UserAction
<1>18. Opening => SavedOK'
  BY <1>14, <1>15 DEF Opening
<1> QED
  BY <1>13, <1>16, <1>17, <1>18 DEF Next

\* handleOpenWorkspace keeps to its row and to the tab that it arranges.
LEMMA HandlerStep ==
  ASSUME Inv, [Next]_vars
  PROVE  opening' \in Handler /\ RowOK' /\ TabOK'
<1> USE DEF Inv
<1> DEFINE Goal == opening' \in Handler /\ RowOK' /\ TabOK'
<1>0. /\ Good(tabs')
      /\ \A i \in 1..Len(tabs') :
           \/ tabs'[i].id # opening.tab
           \/ \E j \in 1..Len(tabs) : tabs'[i].id = tabs[j].id /\ tabs'[i].kind = tabs[j].kind
  BY StepEffect, TabsStep
\* The tab stays a terminal while nothing is said about another one.
<1>1. ASSUME opening.pc \in Arranging, opening'.tab = opening.tab PROVE TabOK'
  BY <1>0, <1>1 DEF TabOK
<1>2. ASSUME opening'.pc \notin Arranging \cup {"gate"}, opening' \in Handler PROVE Goal
  BY <1>2 DEF RowOK, TabOK, Arranging
<1>3. ASSUME opening' = opening PROVE Goal
  <2>1. TabOK'
    BY <1>1, <1>3 DEF TabOK
  <2>2. RowOK' /\ opening' \in Handler
    BY <1>3 DEF RowOK, ThisRow
  <2> QED
    BY <2>1, <2>2
<1>4. ASSUME NEW t \in TabIds, opening.todo # <<>>, ThisRow.host \in opening.known,
             ThisRow.kind = "terminal", opening' = Arrange(t),
             \A i \in 1..Len(tabs') : tabs'[i].id = t => tabs'[i].kind = "terminal"
      PROVE  Goal
  <2>1. /\ opening' \in Handler /\ opening'.tab = t /\ opening'.todo = opening.todo
        /\ opening'.known = opening.known /\ opening'.pc \in {"layout", "flat"}
        /\ opening'.pc = "layout" => Restored(ThisRow, opening.known) # Dead
    BY <1>4, HandlerForms
  <2>2. ThisRow' = ThisRow
    BY <2>1 DEF ThisRow
  <2>3. RowOK'
    BY <1>4, <2>1, <2>2 DEF RowOK, Restored
  <2>4. TabOK'
    BY <1>4, <2>1 DEF TabOK
  <2> QED
    BY <2>1, <2>3, <2>4
<1>5. ASSUME OpenWorkspace PROVE Goal
  <2>1. opening' \in Handler /\ opening'.pc = "list"
    BY <1>5, HandlerForms DEF OpenWorkspace, NotOpening, Handler, SavedOK
  <2> QED
    BY <1>2, <2>1 DEF Arranging
<1>6. ASSUME ListTabs PROVE Goal
  <2>1. opening' \in Handler /\ opening'.pc = "tab"
    BY <1>6 DEF ListTabs, At, Handler, SavedOK
  <2> QED
    BY <1>2, <2>1 DEF Arranging
<1>7. ASSUME OpenDone PROVE Goal
  <2>1. opening' \in Handler /\ opening'.pc = "idle"
    BY <1>7, HandlerForms DEF OpenDone, NotOpening
  <2> QED
    BY <1>2, <2>1 DEF Arranging
<1>8. ASSUME opening' = NextRow, opening.todo # <<>> PROVE Goal
  <2>1. opening' \in Handler /\ opening'.pc = "tab"
    BY <1>8, HandlerForms
  <2> QED
    BY <1>2, <2>1 DEF Arranging
\* The first terminal tab of the row's host.
<1>9. ASSUME TerminalsOf(ThisRow.host) # {}, TabsEffect PROVE
             /\ FirstTerminalOf(ThisRow.host) \in TabIds
             /\ tabs' = tabs => \A i \in 1..Len(tabs') :
                  tabs'[i].id = FirstTerminalOf(ThisRow.host) => tabs'[i].kind = "terminal"
  BY <1>9, FirstTerminal, TabAt
<1>10. ASSUME OpenRow PROVE Goal
  <2>1. opening.todo # <<>> /\ tabs' = tabs
    BY <1>10 DEF OpenRow
  <2>2. CASE ThisRow.host \notin opening.known
    BY <1>8, <1>10, <2>1, <2>2 DEF OpenRow
  <2>3. CASE ThisRow.host \in opening.known /\ ThisRow.kind = "terminal" /\ TerminalsOf(ThisRow.host) # {}
    <3>1. opening' = Arrange(FirstTerminalOf(ThisRow.host))
      BY <1>10, <2>3 DEF OpenRow
    <3> QED
      BY <1>4, <1>9, <2>1, <2>3, <3>1, StepEffect
  <2>4. CASE ThisRow.host \in opening.known /\ ~(ThisRow.kind = "terminal" /\ TerminalsOf(ThisRow.host) # {})
    <3>1. opening' = At("gate")
      BY <1>10, <2>4 DEF OpenRow
    <3>2. /\ opening' \in Handler /\ opening'.pc = "gate" /\ opening'.todo = opening.todo
          /\ opening'.known = opening.known
      BY <3>1, HandlerForms
    <3>3. ThisRow' = ThisRow
      BY <3>2 DEF ThisRow
    <3> QED
      BY <2>1, <2>4, <3>2, <3>3 DEF RowOK, TabOK, Arranging
  <2> QED
    BY <2>2, <2>3, <2>4
<1>11. ASSUME NEW ok \in BOOLEAN, RowGate(ok) PROVE Goal
  <2>1. opening.todo # <<>> /\ ThisRow.host \in opening.known /\ ThisRow.host \in Hosts /\ ThisRow.kind \in Kinds
    BY <1>11, RowTypes DEF RowGate, RowOK
  <2> DEFINE h == ThisRow.host
             first == FirstTerminalOf(h)
  <2>2. CASE ok
    <3>1. /\ OpenSession(h, ThisRow.kind)
          /\ opening' = IF ThisRow.kind = "sftp" THEN NextRow
                        ELSE IF TerminalsOf(h) # {} THEN Arrange(first) ELSE Arrange(FreshTab)
      BY <1>11, <2>2 DEF RowGate
    <3>2. /\ Len(tabs') = Len(tabs) + 1 /\ Len(tabs) \in Nat
          /\ \A i \in 1..Len(tabs) : tabs'[i] = tabs[i]
          /\ tabs'[Len(tabs) + 1].id = FreshTab /\ tabs'[Len(tabs) + 1].kind = ThisRow.kind
          /\ FreshTab \in TabIds /\ FreshTab \notin OpenIds
          /\ \A i \in 1..Len(tabs) : tabs[i].id # FreshTab
      BY <2>1, <3>1, OpenSessionGood, FreshIds, GoodLen
    <3>3. CASE ThisRow.kind = "sftp"
      BY <1>8, <2>1, <3>1, <3>3
    <3>4. CASE ThisRow.kind = "terminal" /\ TerminalsOf(h) = {}
      <4>1. \A i \in 1..Len(tabs') : tabs'[i].id = FreshTab => tabs'[i].kind = "terminal"
        BY <3>2, <3>4
      <4> QED
        BY <1>4, <2>1, <3>1, <3>2, <3>4, <4>1
    <3>5. CASE ThisRow.kind = "terminal" /\ TerminalsOf(h) # {}
      <4>1. first \in OpenIds /\ first \in TabIds /\ Tab(first).kind = "terminal"
        BY <3>5, FirstTerminal
      <4>2. \A i \in 1..Len(tabs) : tabs[i].id = first => tabs[i].kind = "terminal"
        BY <4>1, TabAt
      <4> HIDE DEF first
      <4>3. \A i \in 1..Len(tabs') : tabs'[i].id = first => tabs'[i].kind = "terminal"
        BY <3>2, <4>1, <4>2
      <4> QED
        BY <1>4, <2>1, <3>1, <3>5, <4>1, <4>3
    <3> QED
      BY <2>1, <3>3, <3>4, <3>5 DEF Kinds
  <2>3. CASE ~ok
    <3>1. /\ tabs' = tabs
          /\ opening' = IF ThisRow.kind = "terminal" /\ TerminalsOf(h) # {} THEN Arrange(first) ELSE NextRow
      BY <1>11, <2>3 DEF RowGate
    <3>2. CASE ThisRow.kind = "terminal" /\ TerminalsOf(h) # {}
      BY <1>4, <1>9, <2>1, <3>1, <3>2, StepEffect
    <3>3. CASE ~(ThisRow.kind = "terminal" /\ TerminalsOf(h) # {})
      BY <1>8, <2>1, <3>1, <3>3
    <3> QED
      BY <3>2, <3>3
  <2> QED
    BY <2>2, <2>3
<1>12. ASSUME RestoreLayout PROVE Goal
  BY <1>8, <1>12 DEF RestoreLayout, RowOK, Arranging
<1>13. ASSUME FlatSplit PROVE Goal
  <2>1. opening.pc = "flat" /\ opening.todo # <<>>
    BY <1>13 DEF FlatSplit, RowOK, Arranging
  <2>2. CASE ~FlatGoesOn
    BY <1>8, <1>13, <2>1, <2>2 DEF FlatSplit
  <2>3. CASE FlatGoesOn
    <3> DEFINE first == CollectLeaves(Tab(opening.tab).layout)[1]
    <3>1. opening' = [At("split") EXCEPT !.pane = first.pane, !.host = first.host]
      BY <1>13, <2>3 DEF FlatSplit
    <3>2. opening.left > 0 /\ opening.tab \in OpenIds /\ Tab(opening.tab).kind = "terminal"
      BY <2>3 DEF FlatGoesOn, IsTerminal
    <3>3. first \in Leaves
      <4>1. Tab(opening.tab).layout \in AnyLayout
        BY <3>2, TabAt, GoodRow
      <4> QED
        BY <4>1, LayoutLeaves
    <3> HIDE DEF first
    <3>4. /\ opening' \in Handler /\ opening'.pc = "split" /\ opening'.todo = opening.todo
          /\ opening'.known = opening.known /\ opening'.tab = opening.tab /\ opening'.left = opening.left
      BY <3>1, <3>3 DEF At, Handler, Leaves
    <3>5. ThisRow' = ThisRow
      BY <3>4 DEF ThisRow
    <3>6. RowOK'
      BY <2>1, <3>2, <3>4, <3>5 DEF RowOK, Arranging
    <3> QED
      BY <1>1, <2>1, <3>4, <3>6 DEF Arranging
  <2> QED
    BY <2>2, <2>3
<1>14. ASSUME NEW ok \in BOOLEAN, FlatGate(ok) PROVE Goal
  <2>1. opening.pc = "split" /\ opening' = [At("flat") EXCEPT !.pane = None, !.host = None, !.left = opening.left - 1]
    BY <1>14 DEF FlatGate, OneLess
  <2>2. opening.left - 1 \in 0..(MAX_PANES - 1)
    BY <2>1, WorkspacesAssumption DEF RowOK, Handler
  <2>3. /\ opening' \in Handler /\ opening'.pc = "flat" /\ opening'.todo = opening.todo
        /\ opening'.known = opening.known /\ opening'.tab = opening.tab
    BY <2>1, <2>2 DEF At, Handler
  <2>4. ThisRow' = ThisRow
    BY <2>3 DEF ThisRow
  <2>5. RowOK'
    BY <2>1, <2>3, <2>4 DEF RowOK, Arranging
  <2> QED
    BY <1>1, <2>1, <2>3, <2>5 DEF Arranging
<1>15. ASSUME NEW h \in Hosts, NEW op \in {"connect", "sftp"}, ShowExisting(h) \/ DeleteHost(h) \/ Open(h, op)
       PROVE  opening' = opening
  BY <1>15 DEF ShowExisting, DeleteHost, Open
<1>16. ASSUME NEW q, NEW h, ClosePane(q) \/ Split(q, h) PROVE opening' = opening
  BY <1>16 DEF ClosePane, CloseTab, Split
<1>17. ASSUME NEW t \in OpenIds, CloseTab(t) \/ Show(t) PROVE opening' = opening
  BY <1>17 DEF CloseTab, Show
<1>18. ASSUME NEW delta, NEW i, NEW j, ActivitySelect \/ CycleTab(delta) \/ Drop(i, j) \/ SaveCurrentLayout \/ DeleteWorkspace
       PROVE  opening' = opening
  BY <1>18 DEF ActivitySelect, CycleTab, Drop, SaveCurrentLayout, DeleteWorkspace
<1>19. ASSUME NEW ok \in BOOLEAN, GateReturns(ok) PROVE opening' = opening
  BY <1>19 DEF GateReturns
<1>20. UNCHANGED vars => Goal
  BY <1>3 DEF vars
<1> HIDE DEF Goal
<1>21. User => Goal
  BY <1>3, <1>5, <1>15, <1>16, <1>17, <1>18 DEF User, UserAction
<1>22. Opening => Goal
  BY <1>6, <1>7, <1>10, <1>11, <1>12, <1>13, <1>14 DEF Opening
<1>23. Goal
  BY <1>3, <1>19, <1>20, <1>21, <1>22 DEF Next
<1> QED
  BY <1>23 DEF Goal

-----------------------------------------------------------------------------
(* The theorems                                                            *)

\* The inductive invariant holds in every reachable state.
LEMMA Invariant == Spec => []Inv
<1>1. Inv /\ [Next]_vars => Inv'
  <2> SUFFICES ASSUME Inv, [Next]_vars PROVE Inv'
    OBVIOUS
  <2>1. Good(tabs')
    BY StepEffect, TabsStep
  <2> QED
    BY <2>1, MainStep, ClickStep, SavedStep, HandlerStep DEF Inv
<1> QED
  BY InvInit, <1>1, PTL DEF Spec

\* The view shows no closed tab, no pane is in two places and no tab has more
\* panes than MAX_PANES, however clicks, gates and a workspace overlap.
THEOREM TabsStayWellFormed == Spec => []TabsWellFormed
<1>1. Inv => TabsWellFormed
  <2> SUFFICES ASSUME Inv PROVE TabsWellFormed
    OBVIOUS
  <2> USE DEF Inv
  <2>1. TypeOK
    <3>1. \A i \in 1..Len(tabs) : /\ tabs[i].kind \in Kinds /\ tabs[i].host \in Hosts
                                  /\ tabs[i].kind = "terminal" <=> tabs[i].layout # None
      BY GoodLen, GoodRow DEF RowGood
    <3>2. main \in TabIds \cup {None}
      BY TabAt DEF MainIsOpen
    <3>3. hosts \subseteq Hosts /\ click.op \in {"none", "connect", "sftp", "split"}
      BY DEF SavedOK, ClickOK, Clicked
    <3>4. /\ opening.pc \in {"idle", "list", "tab", "gate", "layout", "flat", "split"}
          /\ opening.left \in 0..(MAX_PANES - 1)
      BY DEF Handler
    <3> QED
      BY <3>1, <3>2, <3>3, <3>4 DEF TypeOK
  <2>2. AllDistinct
    <3>1. \A i \in Terminals : /\ i \in 1..Len(tabs) /\ tabs[i].layout \in AnyLayout
                               /\ Places(tabs[i]) = 1..CountLeaves(tabs[i].layout)
      BY GoodLen, GoodRow DEF Terminals
    <3>2. \A i \in Terminals : CountLeaves(tabs[i].layout) \in 1..MAX_PANES
      BY <3>1, LayoutLeaves
    <3>3. ASSUME NEW i \in Terminals, NEW j \in Terminals,
                 NEW k \in 1..CountLeaves(tabs[i].layout), NEW m \in 1..CountLeaves(tabs[j].layout),
                 PaneAt(i, k) = PaneAt(j, m)
          PROVE  i = j /\ k = m
      <4>1. PaneOf(tabs[i], k) = PaneOf(tabs[j], m) /\ k \in Places(tabs[i]) /\ m \in Places(tabs[j])
        BY <3>1, <3>3 DEF PaneAt, PaneOf
      <4>2. i = j
        BY <3>1, <4>1 DEF Good, PanesApart, Apart
      <4>3. OnceEach(tabs[i])
        BY <3>1 DEF Good, PanesApart
      <4> QED
        BY <4>1, <4>2, <4>3 DEF OnceEach
    <3>4. \A i, j \in 1..Len(tabs) : tabs[i].id = tabs[j].id => i = j
      BY DEF Good, IdsApart
    <3> QED
      BY <3>2, <3>3, <3>4 DEF AllDistinct
  <2> QED
    BY <2>1, <2>2 DEF TabsWellFormed
<1> QED
  BY <1>1, Invariant, PTL

\* reorderSessions puts a dropped tab before the one it was dropped on, or last,
\* and leaves the others in their order.
THEOREM DropsAreExact == Spec => DropExact
<1> DEFINE Exact == \A i \in 1..Len(tabs), j \in 1..(Len(tabs) + 1) : Drop(i, j) =>
              \E k \in 1..Len(tabs) :
                 /\ tabs'[k] = tabs[i] /\ RemoveAt(tabs', k) = RemoveAt(tabs, i)
                 /\ IF i = j THEN k = i
                    ELSE IF j > Len(tabs) THEN k = Len(tabs)
                    ELSE k < Len(tabs) /\ tabs'[k + 1] = tabs[j]
<1>1. Inv => Exact
  <2> SUFFICES ASSUME Inv, NEW i \in 1..Len(tabs), NEW j \in 1..(Len(tabs) + 1), Drop(i, j)
               PROVE  \E k \in 1..Len(tabs) : DroppedRight(i, j, k)
    BY DEF DroppedRight
  <2>1. ReorderSessions(i, j) /\ Good(tabs)
    BY DEF Drop, Inv
  <2> QED
    BY <2>1, ReorderGood
<1>2. Inv => [Exact]_vars
  BY <1>1
<1> QED
  BY <1>2, Invariant, PTL DEF DropExact

\* A tab of a sequence of tabs, by its identifier.
IndexIn(ts, t) == CHOOSE i \in 1..Len(ts) : ts[i].id = t
LEMMA TabIn ==
  ASSUME NEW ts, Good(ts), NEW i \in 1..Len(ts)
  PROVE  IndexIn(ts, ts[i].id) = i
BY DEF IndexIn, Good, IdsApart

\* What may become of the leaves of a tab in one step.
LeavesEdited(before, after) ==
    \/ after = before
    \/ \E k \in 1..Len(before) : after = RemoveAt(before, k)
    \/ \E k \in 1..Len(before) :
         /\ RemoveAt(after, k + 1) = before
         /\ clicks' = clicks => before[k].pane \in Remembered

\* splitPane and closePane change one leaf of one tab: a new pane is right after
\* the one that was to be split, a closed one takes no other along.
THEOREM PaneEditsAreLocal == Spec => PaneEditsLocal
<1> DEFINE Local == \A t \in OpenIds :
              (IsTerminal(t) /\ t \in OpenIds' /\ opening.pc # "layout") =>
              LeavesEdited(CollectLeaves(Tab(t).layout), CollectLeaves(Tab(t)'.layout))
<1>1. Inv /\ Next => Local
  <2> SUFFICES ASSUME Inv, Next, NEW t \in OpenIds, IsTerminal(t), t \in OpenIds', opening.pc # "layout"
               PROVE  LeavesEdited(CollectLeaves(Tab(t).layout), CollectLeaves(Tab(t)'.layout))
    OBVIOUS
  <2> USE DEF Inv
  <2> DEFINE Goal == LeavesEdited(CollectLeaves(Tab(t).layout), CollectLeaves(Tab(t)'.layout))
  <2>1. TabsEffect /\ Good(tabs')
    BY StepEffect, TabsStep
  <2>2. ASSUME NEW i \in 1..Len(tabs'), tabs'[i].id = t PROVE Tab(t)' = tabs'[i]
    <3>1. IndexIn(tabs', t) = i
      BY <2>1, <2>2, TabIn
    <3> QED
      BY <3>1 DEF Tab, IndexOf, IndexIn
  <2>3. PICK i \in 1..Len(tabs') : tabs'[i].id = t
    BY DEF OpenIds
  <2>4. ASSUME NEW j \in 1..Len(tabs), tabs'[i] = tabs[j] PROVE Goal
    <3>1. tabs[j] = Tab(t)
      BY <2>3, <2>4, TabAt
    <3> QED
      BY <2>2, <2>3, <2>4, <3>1 DEF LeavesEdited
  <2>5. ASSUME tabs' = tabs PROVE Goal
    BY <2>3, <2>4, <2>5
  <2>6. ASSUME NEW h \in Hosts, NEW kind \in Kinds, OpenSession(h, kind) PROVE Goal
    <3>1. /\ Len(tabs') = Len(tabs) + 1 /\ Len(tabs) \in Nat
          /\ \A m \in 1..Len(tabs) : tabs'[m] = tabs[m]
          /\ tabs'[Len(tabs) + 1].id = FreshTab /\ FreshTab \notin OpenIds
      BY <2>6, OpenSessionGood, GoodLen, FreshIds
    <3>2. i \in 1..Len(tabs)
      BY <2>3, <3>1
    <3> QED
      BY <2>4, <3>1, <3>2
  <2>7. ASSUME NEW u \in OpenIds, CloseTab(u) PROVE Goal
    <3>1. tabs' = RemoveAt(tabs, IndexOf(u))
      BY <2>7 DEF CloseTab
    <3>2. \E j \in 1..Len(tabs) : tabs'[i] = tabs[j]
      BY <3>1, CloseTabGood
    <3> QED
      BY <2>4, <3>2
  <2>8. ASSUME NEW from \in 1..Len(tabs), NEW to \in 1..(Len(tabs) + 1), ReorderSessions(from, to) PROVE Goal
    <3>1. \E j \in 1..Len(tabs) : tabs'[i] = tabs[j]
      BY <2>8, ReorderGood
    <3> QED
      BY <2>4, <3>1
  \* The tab whose layout changes, or another one.
  <2>9. ASSUME NEW p \in 1..Len(tabs), Relaid(tabs, tabs', p),
               LeavesEdited(CollectLeaves(tabs[p].layout), CollectLeaves(tabs'[p].layout))
        PROVE  Goal
    <3>1. CASE i = p
      <4>1. tabs[p].id = t
        BY <2>3, <2>9, <3>1 DEF Relaid
      <4>2. Tab(t) = tabs[p] /\ Tab(t)' = tabs'[p]
        BY <2>2, <2>3, <3>1, <4>1, TabAt
      <4> QED
        BY <2>9, <4>2
    <3>2. CASE i # p
      BY <2>4, <2>9, <3>2 DEF Relaid
    <3> QED
      BY <3>1, <3>2
  <2>10. ASSUME NEW u, NEW q, NEW h \in Hosts \cup {None}, SplitPane(u, q, h),
                clicks' = clicks => q \in Remembered
         PROVE  Goal
    <3>1. ASSUME NEW p \in 1..Len(tabs), NEW k \in Nat, NEW e \in Leaves, SplitAt(p, k, q, e) PROVE Goal
      <4> DEFINE before == CollectLeaves(tabs[p].layout)
                 after == CollectLeaves(tabs'[p].layout)
      <4>1. /\ Relaid(tabs, tabs', p) /\ tabs[p].kind = "terminal"
            /\ k \in 1..CountLeaves(tabs[p].layout) /\ before[k].pane = q
            /\ after = InsertAt(before, k + 1, e)
        BY <3>1 DEF SplitAt, Relaid
      <4>2. before \in Seq(Leaves) /\ Len(before) = CountLeaves(tabs[p].layout) /\ Len(before) \in Nat
        BY <4>1, GoodLen, GoodRow, LayoutLeaves
      <4> HIDE DEF before, after
      <4>3. k \in 1..Len(before) /\ k + 1 \in 1..(Len(before) + 1)
        BY <4>1, <4>2
      <4>4. RemoveAt(after, k + 1) = before
        BY <4>1, <4>2, <4>3, RemoveInserted
      <4>5. LeavesEdited(before, after)
        BY <2>10, <4>1, <4>3, <4>4 DEF LeavesEdited
      <4> QED
        BY <2>9, <4>1, <4>5 DEF before, after
    <3> QED
      BY <2>5, <2>10, <3>1, SplitPaneGood
  <2>11. ASSUME NEW q, NEW u \in TabOf(q), CountLeaves(Tab(u).layout) > 1,
                tabs' = WithLayout(tabs, IndexOf(u), RemoveLeaf(Tab(u).layout, q))
         PROVE  Goal
    <3>1. PICK p \in 1..Len(tabs), k \in 1..CountLeaves(Tab(u).layout) :
            /\ Relaid(tabs, tabs', p) /\ tabs[p] = Tab(u)
            /\ CollectLeaves(tabs'[p].layout) = RemoveAt(CollectLeaves(tabs[p].layout), k)
      BY <2>11, ClosePaneGood
    <3>2. k \in 1..Len(CollectLeaves(tabs[p].layout))
      BY <3>1 DEF CountLeaves
    <3>3. LeavesEdited(CollectLeaves(tabs[p].layout), CollectLeaves(tabs'[p].layout))
      BY <3>1, <3>2 DEF LeavesEdited
    <3> QED
      BY <2>9, <3>1, <3>3
  <2> HIDE DEF Goal
  <2>12. Goal
    BY <2>1, <2>5, <2>6, <2>7, <2>8, <2>10, <2>11 DEF TabsEffect
  <2> QED
    BY <2>12 DEF Goal
<1>2. Inv /\ [Next]_vars => [Local]_vars
  BY <1>1
<1> QED
  BY <1>2, Invariant, PTL DEF Spec, PaneEditsLocal, LeavesEdited

-----------------------------------------------------------------------------
(* A workspace comes back as it was saved                                  *)

\* What ReopensWhatWasSaved says of one row, with the hosts spelled out.
Wanted(r, known) ==
    IF r.layout = None \/ KeptPlaces(r.layout, known) = {} THEN {[k \in 1..r.count |-> r.host]}
    ELSE Thinned(SavedHosts(r.layout), KeptPlaces(r.layout, known))
BackAs(tab, r, known) ==
    /\ tab.host = r.host /\ tab.kind = r.kind
    /\ r.kind = "terminal" => LeafHosts(tab.layout) \in Wanted(r, known)

\* The rows that are behind handleOpenWorkspace, and those still to come.
Done(g, o) == Len(g.rows) - Len(o.todo)
ToCome(g, o) ==
    /\ Len(o.todo) <= Len(g.rows)
    /\ \A k \in 1..Len(o.todo) : o.todo[k] = g.rows[Done(g, o) + k]

\* The tab of the row at hand.
Arranged(tab, r, o) ==
    /\ tab.id = o.tab /\ tab.host = r.host /\ tab.kind = "terminal"
    /\ o.pc \in {"flat", "split"} =>
         /\ Restored(r, o.known) = Dead
         /\ LeafHosts(tab.layout) = [k \in 1..(r.count - o.left) |-> r.host]
    /\ o.pc = "split" => o.pane = CollectLeaves(tab.layout)[1].pane

\* There is a tab for every row that is behind, and one for the row at hand.
BackSoFar(ts, g, o) == \A i \in 1..Done(g, o) : BackAs(ts[i], g.rows[i], g.hosts)
AtHand(ts, g, o) ==
    IF o.pc \in Arranging
    THEN Len(ts) = Done(g, o) + 1 /\ Arranged(ts[Done(g, o) + 1], Head(o.todo), o)
    ELSE Len(ts) = Done(g, o)
Plan(g, o) ==
    /\ g.rows \in Seq(Rows) /\ g.hosts \in SUBSET Hosts
    /\ \A i \in 1..Len(g.rows) : g.rows[i].host \in g.hosts
    /\ o.pc # "list" /\ ToCome(g, o)
    /\ IF o.pc = "idle" THEN o.todo = <<>> ELSE o.known = g.hosts
GoalOK ==
    goal # None =>
        /\ Plan(goal, opening)
        /\ Unambiguous(goal.rows) => BackSoFar(tabs, goal, opening) /\ AtHand(tabs, goal, opening)

\* The row at hand, and going on to the next one.
LEMMA RowAtHand ==
  ASSUME NEW g, NEW o \in Handler, Plan(g, o), o.todo # <<>>
  PROVE  /\ Done(g, o) \in Nat /\ Done(g, o) + 1 \in 1..Len(g.rows)
         /\ Head(o.todo) = g.rows[Done(g, o) + 1] /\ Head(o.todo) \in Rows
         /\ \A u : u.todo = Tail(o.todo) => Done(g, u) = Done(g, o) + 1 /\ ToCome(g, u)
<1> DEFINE d == Done(g, o)
           n == Len(o.todo)
           all == Len(g.rows)
<1>1. o.todo \in Seq(Rows) /\ g.rows \in Seq(Rows)
  BY DEF Handler, Plan
<1>2. n \in Nat /\ n > 0 /\ all \in Nat /\ n <= all
  BY <1>1, EmptySeq, LenProperties DEF Plan, ToCome
<1>3. d = all - n
  BY DEF Done
<1>4. \A k \in 1..n : o.todo[k] = g.rows[d + k]
  BY DEF Plan, ToCome
<1>5. Head(o.todo) = o.todo[1] /\ Head(o.todo) \in Rows
  BY <1>1, HeadTailProperties
<1>6. /\ Len(Tail(o.todo)) = n - 1
      /\ \A k \in 1..(n - 1) : Tail(o.todo)[k] = o.todo[k + 1]
  BY <1>1, HeadTailProperties
<1>7. \A u : u.todo = Tail(o.todo) => Done(g, u) = all - Len(Tail(o.todo))
  BY DEF Done
<1>8. \A u : (/\ Len(u.todo) <= all
              /\ \A k \in 1..Len(u.todo) : u.todo[k] = g.rows[Done(g, u) + k]) => ToCome(g, u)
  BY DEF ToCome
<1> HIDE DEF d, n, all
<1>9. d \in Nat /\ d + 1 \in 1..all
  BY <1>2, <1>3
<1>10. Head(o.todo) = g.rows[d + 1]
  BY <1>2, <1>4, <1>5
<1>11. ASSUME NEW u, u.todo = Tail(o.todo) PROVE Done(g, u) = d + 1 /\ ToCome(g, u)
  <2>1. Len(u.todo) = n - 1 /\ Done(g, u) = all - (n - 1)
    BY <1>6, <1>7, <1>11
  <2>2. Done(g, u) = d + 1 /\ n - 1 <= all
    BY <1>2, <1>3, <2>1
  <2>3. ASSUME NEW k \in 1..(n - 1) PROVE u.todo[k] = g.rows[Done(g, u) + k]
    <3>1. k + 1 \in 1..n /\ Done(g, u) + k = d + (k + 1)
      BY <1>2, <1>9, <2>2
    <3>2. u.todo[k] = o.todo[k + 1] /\ o.todo[k + 1] = g.rows[d + (k + 1)]
      BY <1>4, <1>6, <1>11, <3>1
    <3> QED
      BY <3>1, <3>2
  <2> QED
    BY <1>8, <2>1, <2>2, <2>3
<1> QED
  BY <1>5, <1>9, <1>10, <1>11 DEF d, all

\* A layout of which nothing is left comes back as so many panes of the host.
LEMMA NothingLeft ==
  ASSUME NEW r \in Rows, NEW known \in SUBSET Hosts, Restored(r, known) = Dead
  PROVE  Wanted(r, known) = {[k \in 1..r.count |-> r.host]}
<1>1. CASE r.layout = None
  BY <1>1 DEF Wanted
<1>2. CASE r.layout # None
  <2>1. PICK c \in 1..MAX_PANES : r.layout \in SavedLayouts(c)
    BY <1>2 DEF Rows
  <2>2. DeserializeLayout(r.layout, known) = Dead
    BY <1>2 DEF Restored
  <2>3. KeptPlaces(r.layout, known) = {}
    BY <2>1, <2>2, PaneTreeLaws DEF RestoreLaw
  <2> QED
    BY <1>2, <2>3 DEF Wanted
<1> QED
  BY <1>1, <1>2

\* No tab is open yet for the row at hand.
LEMMA NoTerminalYet ==
  ASSUME Inv, GoalOK, goal # None, Unambiguous(goal.rows),
         opening.pc \in {"tab", "gate"}, opening.todo # <<>>, ThisRow.kind = "terminal"
  PROVE  TerminalsOf(ThisRow.host) = {}
<1> SUFFICES ASSUME NEW i \in TerminalsOf(ThisRow.host) PROVE FALSE
  OBVIOUS
<1> DEFINE d == Done(goal, opening)
<1>1. Plan(goal, opening) /\ BackSoFar(tabs, goal, opening) /\ Len(tabs) = d
  BY DEF GoalOK, AtHand, Arranging
<1>2. d \in Nat /\ d + 1 \in 1..Len(goal.rows) /\ ThisRow = goal.rows[d + 1]
  BY <1>1, RowAtHand DEF Inv, ThisRow
<1>3. i \in 1..d /\ tabs[i].kind = "terminal" /\ tabs[i].host = ThisRow.host
  BY <1>1 DEF TerminalsOf
<1>4. goal.rows[i].host = ThisRow.host /\ goal.rows[i].kind = "terminal"
  BY <1>1, <1>3 DEF BackSoFar, BackAs
<1>5. i \in 1..Len(goal.rows)
  BY <1>1, <1>2, <1>3 DEF Plan
<1>6. i = d + 1
  BY <1>2, <1>4, <1>5 DEF Unambiguous
<1> QED
  BY <1>2, <1>3, <1>6

\* Going on to the next row with a tab that came back.
LEMMA RowComesBack ==
  ASSUME Inv, GoalOK, goal # None, goal' = goal, opening.todo # <<>>, opening' = NextRow,
         opening.pc # "idle",
         Unambiguous(goal.rows) =>
            /\ Len(tabs') = Done(goal, opening) + 1
            /\ \A i \in 1..Done(goal, opening) : tabs'[i] = tabs[i]
            /\ BackAs(tabs'[Done(goal, opening) + 1], ThisRow, goal.hosts)
  PROVE  GoalOK'
<1> DEFINE d == Done(goal, opening)
<1>1. Plan(goal, opening) /\ opening \in Handler
  BY DEF GoalOK, Inv
<1>2. opening'.pc = "tab" /\ opening'.known = opening.known /\ opening'.todo = Tail(opening.todo)
  BY <1>1, HandlerForms
<1>3. /\ d \in Nat /\ d + 1 \in 1..Len(goal.rows) /\ ThisRow = goal.rows[d + 1]
      /\ Done(goal, opening') = d + 1 /\ ToCome(goal, opening')
  BY <1>1, <1>2, RowAtHand DEF ThisRow
<1>4. Plan(goal, opening')
  BY <1>1, <1>2, <1>3 DEF Plan
<1>5. ASSUME Unambiguous(goal.rows)
      PROVE  BackSoFar(tabs', goal, opening') /\ AtHand(tabs', goal, opening')
  <2>1. AtHand(tabs', goal, opening')
    BY <1>2, <1>3, <1>5 DEF AtHand, Arranging
  <2>2. \A i \in 1..d : BackAs(tabs'[i], goal.rows[i], goal.hosts)
    BY <1>5 DEF GoalOK, BackSoFar
  <2>3. \A i \in 1..(d + 1) : BackAs(tabs'[i], goal.rows[i], goal.hosts)
    BY <1>3, <1>5, <2>2
  <2> QED
    BY <1>3, <2>1, <2>3 DEF BackSoFar
<1> QED
  BY <1>4, <1>5 DEF GoalOK

\* Going on with the same row, or coming to the end of the list.
LEMMA SameRow ==
  ASSUME Inv, GoalOK, goal # None, goal' = goal, opening'.todo = opening.todo,
         IF opening'.pc = "idle" THEN opening.todo = <<>>
                                 ELSE opening.pc # "idle" /\ opening'.known = opening.known,
         opening'.pc # "list",
         Unambiguous(goal.rows) =>
            /\ \A i \in 1..Done(goal, opening) : tabs'[i] = tabs[i]
            /\ AtHand(tabs', goal, opening')
  PROVE  GoalOK'
<1>1. Plan(goal, opening)
  BY DEF GoalOK
<1>2. Done(goal, opening') = Done(goal, opening) /\ (ToCome(goal, opening) => ToCome(goal, opening'))
  BY DEF Done, ToCome
<1>3. Plan(goal, opening')
  BY <1>1, <1>2 DEF Plan
<1>4. Unambiguous(goal.rows) => BackSoFar(tabs', goal, opening')
  BY <1>2 DEF GoalOK, BackSoFar
<1> QED
  BY <1>3, <1>4 DEF GoalOK

\* The rows are read while nothing is open.
LEMMA ListBack ==
  ASSUME Inv, ListTabs
  PROVE  GoalOK'
<1> SUFFICES ASSUME goal' # None PROVE GoalOK'
  BY DEF GoalOK
<1> DEFINE g == [rows |-> saved, hosts |-> opening.known]
<1>1. goal' = g /\ tabs' = tabs /\ tabs = <<>> /\ opening.pc = "list"
  BY DEF ListTabs
<1>2. opening'.pc = "tab" /\ opening'.todo = saved /\ opening'.known = opening.known
  BY DEF ListTabs, At, Inv, Handler
<1>3. saved \in Seq(Rows) /\ Len(saved) \in Nat /\ opening.known \in SUBSET Hosts
  BY LenProperties DEF Inv, SavedOK, Handler
<1>4. Done(g, opening') = 0 /\ ToCome(g, opening')
  <2>1. Done(g, opening') = Len(saved) - Len(saved)
    BY <1>2 DEF Done
  <2>2. Done(g, opening') = 0
    BY <1>3, <2>1
  <2>3. \A k \in 1..Len(saved) : saved[k] = g.rows[0 + k]
    BY <1>3
  <2> QED
    BY <1>2, <1>3, <2>2, <2>3 DEF ToCome
<1>5. \A i \in 1..Len(saved) : saved[i].host \in opening.known
  BY <1>1 DEF Inv, SavedOK
<1>6. Plan(g, opening')
  BY <1>2, <1>3, <1>4, <1>5 DEF Plan
<1>7. Len(tabs') = 0
  BY <1>1
<1>8. BackSoFar(tabs', g, opening') /\ AtHand(tabs', g, opening')
  BY <1>2, <1>4, <1>7 DEF BackSoFar, AtHand, Arranging
<1> HIDE DEF g
<1> QED
  BY <1>1, <1>6, <1>8 DEF GoalOK

\* The row at hand while its tab is not there, and while it is being arranged.
LEMMA Behind ==
  ASSUME Inv, GoalOK, goal # None, opening.todo # <<>>, opening.pc # "idle"
  PROVE  /\ Done(goal, opening) \in Nat /\ ThisRow = goal.rows[Done(goal, opening) + 1]
         /\ ThisRow \in Rows /\ ThisRow.host \in goal.hosts
         /\ opening.known = goal.hosts /\ goal.hosts \in SUBSET Hosts
         /\ Unambiguous(goal.rows) =>
              IF opening.pc \in Arranging
              THEN /\ Len(tabs) = Done(goal, opening) + 1
                   /\ Arranged(tabs[Done(goal, opening) + 1], ThisRow, opening)
              ELSE Len(tabs) = Done(goal, opening)
<1> DEFINE d == Done(goal, opening)
<1>1. Plan(goal, opening) /\ opening \in Handler
  BY DEF GoalOK, Inv
<1>2. d \in Nat /\ d + 1 \in 1..Len(goal.rows) /\ ThisRow = goal.rows[d + 1] /\ ThisRow \in Rows
  BY <1>1, RowAtHand DEF ThisRow
<1>3. ThisRow.host \in goal.hosts /\ opening.known = goal.hosts /\ goal.hosts \in SUBSET Hosts
  BY <1>1, <1>2 DEF Plan
<1>4. Unambiguous(goal.rows) => AtHand(tabs, goal, opening)
  BY DEF GoalOK
<1> QED
  BY <1>2, <1>3, <1>4 DEF AtHand, ThisRow

\* The tab at hand is not there yet.
LEMMA OpenRowBack ==
  ASSUME Inv, GoalOK, goal # None, OpenRow
  PROVE  GoalOK'
<1>1. opening.pc = "tab" /\ opening.todo # <<>> /\ goal' = goal /\ tabs' = tabs /\ opening \in Handler
  BY DEF OpenRow, Inv
<1>2. /\ ThisRow.host \in opening.known
      /\ Unambiguous(goal.rows) => Len(tabs) = Done(goal, opening)
  BY <1>1, Behind DEF Arranging
<1>3. CASE Unambiguous(goal.rows)
  <2>1. ~(ThisRow.kind = "terminal" /\ TerminalsOf(ThisRow.host) # {})
    BY <1>1, <1>3, NoTerminalYet
  <2>2. opening' = At("gate")
    BY <1>2, <2>1 DEF OpenRow
  <2>3. opening'.pc = "gate" /\ opening'.todo = opening.todo /\ opening'.known = opening.known
    BY <1>1, <2>2, HandlerForms
  <2>4. Done(goal, opening') = Done(goal, opening)
    BY <2>3 DEF Done
  <2>5. AtHand(tabs', goal, opening')
    BY <1>1, <1>2, <1>3, <2>3, <2>4 DEF AtHand, Arranging
  <2> QED
    BY <1>1, <2>3, <2>5, SameRow
<1>4. CASE ~Unambiguous(goal.rows)
  <2>1. opening' = At("gate") \/ \E t : opening' = Arrange(t)
    BY <1>2 DEF OpenRow
  <2>2. /\ opening'.todo = opening.todo /\ opening'.known = opening.known
        /\ opening'.pc \in {"gate", "layout", "flat"}
    BY <1>1, <2>1, HandlerForms
  <2> QED
    BY <1>1, <1>4, <2>2, SameRow
<1> QED
  BY <1>3, <1>4

\* Its gate lets it be opened.
LEMMA RowGateBack ==
  ASSUME Inv, GoalOK, goal # None, RowGate(TRUE)
  PROVE  GoalOK'
<1> DEFINE d == Done(goal, opening)
           r == ThisRow
<1>1. opening.pc = "gate" /\ opening.todo # <<>> /\ goal' = goal /\ opening \in Handler /\ Good(tabs)
  BY DEF RowGate, Inv, RowOK
<1>2. /\ d \in Nat /\ r \in Rows /\ opening.known = goal.hosts
      /\ Unambiguous(goal.rows) => Len(tabs) = d
  BY <1>1, Behind DEF Arranging
<1>3. /\ OpenSession(r.host, r.kind) /\ r.host \in Hosts /\ r.kind \in Kinds /\ r.count \in 1..MAX_PANES
      /\ opening' = IF r.kind = "sftp" THEN NextRow
                    ELSE IF TerminalsOf(r.host) # {} THEN Arrange(FirstTerminalOf(r.host))
                    ELSE Arrange(FreshTab)
  BY <1>1, RowTypes DEF RowGate
<1>4. /\ Len(tabs') = Len(tabs) + 1
      /\ \A i \in 1..Len(tabs) : tabs'[i] = tabs[i]
      /\ tabs'[Len(tabs) + 1].id = FreshTab /\ tabs'[Len(tabs) + 1].kind = r.kind
      /\ tabs'[Len(tabs) + 1].host = r.host
      /\ r.kind = "terminal" => LeafHosts(tabs'[Len(tabs) + 1].layout) = [k \in 1..1 |-> r.host]
  BY <1>1, <1>3, OpenSessionGood
<1>5. CASE r.kind = "sftp"
  <2>1. Unambiguous(goal.rows) => BackAs(tabs'[d + 1], r, goal.hosts)
    BY <1>2, <1>4, <1>5 DEF BackAs
  <2>2. Unambiguous(goal.rows) => Len(tabs') = d + 1 /\ \A i \in 1..d : tabs'[i] = tabs[i]
    BY <1>2, <1>4
  <2> QED
    BY <1>1, <1>3, <1>5, <2>1, <2>2, RowComesBack
<1>6. CASE r.kind = "terminal" /\ Unambiguous(goal.rows)
  <2>1. TerminalsOf(r.host) = {}
    BY <1>1, <1>6, NoTerminalYet
  <2>2. opening' = Arrange(FreshTab)
    BY <1>3, <1>6, <2>1
  <2>3. /\ opening'.tab = FreshTab /\ opening'.todo = opening.todo /\ opening'.known = opening.known
        /\ opening'.left = r.count - 1
        /\ opening'.pc = IF Restored(r, opening.known) # Dead THEN "layout" ELSE "flat"
    BY <1>1, <2>2, HandlerForms
  <2>4. Done(goal, opening') = d /\ Head(opening'.todo) = r
    BY <2>3 DEF Done, ThisRow
  <2>5. r.count - opening'.left = 1
    BY <1>3, <2>3
  <2>6. Arranged(tabs'[d + 1], r, opening')
    BY <1>2, <1>4, <1>6, <2>3, <2>5 DEF Arranged
  <2>7. AtHand(tabs', goal, opening')
    BY <1>2, <1>4, <1>6, <2>3, <2>4, <2>6 DEF AtHand, Arranging
  <2> QED
    BY <1>1, <1>2, <1>4, <1>6, <2>3, <2>7, SameRow
<1>7. CASE r.kind = "terminal" /\ ~Unambiguous(goal.rows)
  <2>1. \E t : opening' = Arrange(t)
    BY <1>3, <1>7
  <2>2. /\ opening'.todo = opening.todo /\ opening'.known = opening.known
        /\ opening'.pc \in {"layout", "flat"}
    BY <1>1, <2>1, HandlerForms
  <2> QED
    BY <1>1, <1>7, <2>2, SameRow
<1> QED
  BY <1>3, <1>5, <1>6, <1>7 DEF Kinds

\* Its layout is restored.
LEMMA RestoreBack ==
  ASSUME Inv, GoalOK, goal # None, RestoreLayout
  PROVE  GoalOK'
<1> DEFINE d == Done(goal, opening)
           r == ThisRow
<1>1. /\ opening.pc = "layout" /\ opening.todo # <<>> /\ goal' = goal /\ opening \in Handler
      /\ Good(tabs) /\ opening' = NextRow /\ Restored(r, opening.known) # Dead
      /\ SetLayout(opening.tab, Restored(r, opening.known))
      /\ \A i \in 1..Len(tabs) : tabs[i].id = opening.tab => tabs[i].kind = "terminal"
  BY DEF RestoreLayout, Inv, RowOK, TabOK, Arranging
<1>2. /\ d \in Nat /\ r \in Rows /\ opening.known = goal.hosts /\ goal.hosts \in SUBSET Hosts
      /\ Unambiguous(goal.rows) => Len(tabs) = d + 1 /\ Arranged(tabs[d + 1], r, opening)
  BY <1>1, Behind DEF Arranging
<1>3. ASSUME Unambiguous(goal.rows)
      PROVE  /\ Len(tabs') = d + 1 /\ \A i \in 1..d : tabs'[i] = tabs[i]
             /\ BackAs(tabs'[d + 1], r, goal.hosts)
  <2>1. Len(tabs) = d + 1 /\ d + 1 \in 1..Len(tabs) /\ tabs[d + 1].id = opening.tab /\ tabs[d + 1].host = r.host
    BY <1>2, <1>3 DEF Arranged
  <2>2. opening.tab \in OpenIds
    BY <2>1 DEF OpenIds
  <2>3. PICK p \in 1..Len(tabs) :
           /\ Relaid(tabs, tabs', p) /\ tabs[p].id = opening.tab /\ r.layout # None
           /\ KeptPlaces(r.layout, opening.known) # {}
           /\ LeafHosts(tabs'[p].layout) \in Thinned(SavedHosts(r.layout), KeptPlaces(r.layout, opening.known))
    BY <1>1, <1>2, <2>2, SetLayoutGood
  <2>4. p = d + 1
    BY <1>1, <2>1, <2>3 DEF Good, IdsApart
  <2>5. Wanted(r, goal.hosts) = Thinned(SavedHosts(r.layout), KeptPlaces(r.layout, goal.hosts))
    BY <1>2, <2>3 DEF Wanted
  <2>6. r.kind = "terminal"
    BY <1>1 DEF Inv, RowOK, Arranging
  <2>7. BackAs(tabs'[d + 1], r, goal.hosts)
    BY <1>2, <2>1, <2>3, <2>4, <2>5, <2>6 DEF BackAs, Relaid
  <2> QED
    BY <1>2, <2>1, <2>3, <2>4, <2>7 DEF Relaid
<1> QED
  BY <1>1, <1>3, RowComesBack

\* Panes of one host, and one more beside one of them.
AllOf(l, h, c) == LeafHosts(l) = [i \in 1..c |-> h]
LEMMA OneMore ==
  ASSUME NEW l \in AnyLayout, NEW n \in AnyLayout, NEW h, NEW e \in Leaves, e.host = h,
         NEW k \in 1..CountLeaves(l), NEW c \in Nat, AllOf(l, h, c),
         CollectLeaves(n) = InsertAt(CollectLeaves(l), k + 1, e)
  PROVE  AllOf(n, h, c + 1)
<1> DEFINE s == CollectLeaves(l)
           t == CollectLeaves(n)
           j == k + 1
<1>1. s \in Seq(Leaves) /\ CountLeaves(l) = Len(s) /\ Len(s) \in Nat /\ CountLeaves(n) = Len(t)
  BY LayoutLeaves, LenProperties
<1>2. /\ LeafHosts(l) = [i \in 1..Len(s) |-> s[i].host] /\ LeafHosts(n) = [i \in 1..Len(t) |-> t[i].host]
      /\ LeafHosts(l) = [i \in 1..c |-> h]
  BY <1>1 DEF LeafHosts, AllOf
<1>3. k \in 1..Len(s) /\ t = InsertAt(s, j, e) /\ j = k + 1
  BY <1>1
<1> HIDE DEF s, t, j
<1>4. 1..Len(s) = 1..c
  BY <1>2
<1>5. Len(s) = c
  BY <1>1, <1>4
<1>6. \A i \in 1..Len(s) : s[i].host = h
  BY <1>2, <1>5
<1>7. j \in 1..(Len(s) + 1)
  BY <1>1, <1>3
<1>8. Inserted(s, j, e, t)
  BY <1>1, <1>3, <1>7, InsertAtProps
<1>9. Len(t) = c + 1 /\ \A i \in 1..(c + 1) : t[i].host = h
  <2>1. \A i \in 1..(c + 1) :
          \/ i \in 1..(j - 1) /\ i \in 1..Len(s)
          \/ i = j
          \/ i \in (j + 1)..(Len(s) + 1) /\ i - 1 \in 1..Len(s)
    BY <1>1, <1>5, <1>7
  <2>2. /\ Len(t) = Len(s) + 1 /\ t[j] = e
        /\ \A i \in 1..(j - 1) : t[i] = s[i]
        /\ \A i \in (j + 1)..(Len(s) + 1) : t[i] = s[i - 1]
    BY <1>8 DEF Inserted
  <2> QED
    BY <1>5, <1>6, <2>1, <2>2
<1> QED
  BY <1>2, <1>9 DEF AllOf

\* There is no saved layout: the panes are split off one by one.
LEMMA FlatSplitBack ==
  ASSUME Inv, GoalOK, goal # None, FlatSplit
  PROVE  GoalOK'
<1> DEFINE d == Done(goal, opening)
           r == ThisRow
<1>1. /\ opening.pc = "flat" /\ opening.todo # <<>> /\ goal' = goal /\ tabs' = tabs
      /\ opening \in Handler /\ Good(tabs) /\ r.kind = "terminal"
  BY DEF FlatSplit, Inv, RowOK, Arranging
<1>2. /\ d \in Nat /\ r \in Rows /\ opening.known = goal.hosts /\ goal.hosts \in SUBSET Hosts
      /\ Unambiguous(goal.rows) => Len(tabs) = d + 1 /\ Arranged(tabs[d + 1], r, opening)
  BY <1>1, Behind DEF Arranging
<1>3. ASSUME Unambiguous(goal.rows)
      PROVE  /\ IsTerminal(opening.tab) /\ Tab(opening.tab) = tabs[d + 1]
             /\ tabs[d + 1].host = r.host /\ tabs[d + 1].kind = "terminal"
             /\ Restored(r, opening.known) = Dead
             /\ LeafHosts(tabs[d + 1].layout) = [k \in 1..(r.count - opening.left) |-> r.host]
  <2>1. /\ d + 1 \in 1..Len(tabs) /\ tabs[d + 1].id = opening.tab /\ tabs[d + 1].kind = "terminal"
        /\ tabs[d + 1].host = r.host /\ Restored(r, opening.known) = Dead
        /\ LeafHosts(tabs[d + 1].layout) = [k \in 1..(r.count - opening.left) |-> r.host]
    BY <1>1, <1>2, <1>3 DEF Arranged
  <2>2. opening.tab \in OpenIds /\ Tab(opening.tab) = tabs[d + 1]
    BY <1>1, <2>1, TabsAreOpen
  <2> QED
    BY <2>1, <2>2 DEF IsTerminal
<1>4. CASE FlatGoesOn
  <2> DEFINE first == CollectLeaves(Tab(opening.tab).layout)[1]
  <2>1. opening' = [At("split") EXCEPT !.pane = first.pane, !.host = first.host]
    BY <1>4 DEF FlatSplit
  <2> HIDE DEF first
  <2>2. /\ opening'.pc = "split" /\ opening'.todo = opening.todo /\ opening'.known = opening.known
        /\ opening'.tab = opening.tab /\ opening'.left = opening.left /\ opening'.pane = first.pane
    BY <1>1, <2>1 DEF At, Handler
  <2>3. Done(goal, opening') = d /\ Head(opening'.todo) = r
    BY <2>2 DEF Done, ThisRow
  <2>4. ASSUME Unambiguous(goal.rows) PROVE AtHand(tabs', goal, opening')
    <3>1. tabs[d + 1].id = opening.tab
      BY <1>2, <2>4 DEF Arranged
    <3>2. Arranged(tabs[d + 1], r, opening')
      BY <1>3, <2>2, <2>4, <3>1 DEF Arranged, first
    <3> QED
      BY <1>1, <1>2, <2>2, <2>3, <2>4, <3>2 DEF AtHand, Arranging
  <2> QED
    BY <1>1, <2>2, <2>4, SameRow
<1>5. CASE ~FlatGoesOn
  <2>1. opening' = NextRow
    BY <1>5 DEF FlatSplit
  <2>2. ASSUME Unambiguous(goal.rows)
        PROVE  Len(tabs') = d + 1 /\ BackAs(tabs'[d + 1], r, goal.hosts)
    <3>1. opening.left = 0
      BY <1>1, <1>3, <1>5, <2>2 DEF FlatGoesOn, Handler
    <3>2. r.count - opening.left = r.count
      BY <1>2, <3>1 DEF Rows
    <3>3. Wanted(r, goal.hosts) = {[k \in 1..r.count |-> r.host]}
      BY <1>2, <1>3, <2>2, NothingLeft
    <3> QED
      BY <1>1, <1>2, <1>3, <2>2, <3>2, <3>3 DEF BackAs
  <2> QED
    BY <1>1, <2>1, <2>2, RowComesBack
<1> QED
  BY <1>4, <1>5

\* One more pane of the row's host.
LEMMA FlatGateBack ==
  ASSUME Inv, GoalOK, goal # None, FlatGate(TRUE)
  PROVE  GoalOK'
<1> DEFINE d == Done(goal, opening)
           r == ThisRow
           l == tabs[d + 1].layout
           c == r.count - opening.left
<1>1. /\ opening.pc = "split" /\ opening.todo # <<>> /\ goal' = goal /\ opening.left > 0
      /\ opening \in Handler /\ Good(tabs) /\ SplitPane(opening.tab, opening.pane, None)
      /\ opening' = [At("flat") EXCEPT !.pane = None, !.host = None, !.left = opening.left - 1]
  BY DEF FlatGate, Inv, RowOK, Arranging, OneLess
<1>2. /\ d \in Nat /\ r \in Rows
      /\ Unambiguous(goal.rows) => Len(tabs) = d + 1 /\ Arranged(tabs[d + 1], r, opening)
  BY <1>1, Behind DEF Arranging
<1>3. /\ opening'.pc = "flat" /\ opening'.todo = opening.todo /\ opening'.known = opening.known
      /\ opening'.tab = opening.tab /\ opening'.left = opening.left - 1
  BY <1>1 DEF At, Handler
<1>4. Done(goal, opening') = d /\ Head(opening'.todo) = r
  BY <1>3 DEF Done, ThisRow
<1>5. /\ r.count \in 1..MAX_PANES /\ opening.left \in Nat /\ MAX_PANES \in Nat
      /\ r.count - (opening.left - 1) = c + 1 /\ c < MAX_PANES
  BY <1>1, <1>2, WorkspacesAssumption DEF Rows, Handler
<1>6. ASSUME Unambiguous(goal.rows)
      PROVE  AtHand(tabs', goal, opening') /\ \A i \in 1..d : tabs'[i] = tabs[i]
  <2>1. /\ Len(tabs) = d + 1 /\ d + 1 \in 1..Len(tabs)
        /\ tabs[d + 1].id = opening.tab /\ tabs[d + 1].kind = "terminal" /\ tabs[d + 1].host = r.host
        /\ Restored(r, opening.known) = Dead
        /\ LeafHosts(l) = [k \in 1..c |-> r.host]
        /\ opening.pane = CollectLeaves(l)[1].pane
    BY <1>1, <1>2, <1>6 DEF Arranged
  <2>2. opening.tab \in OpenIds /\ Tab(opening.tab) = tabs[d + 1]
    BY <1>1, <2>1, TabsAreOpen
  <2>3. l \in AnyLayout
    <3>1. RowGood(tabs[d + 1])
      BY <1>1, <2>1, GoodLen
    <3> QED
      BY <2>1, <3>1, GoodRow
  <2>4. CountLeaves(l) \in 1..MAX_PANES
    BY <2>3, LayoutLeaves
  <2>5. CountLeaves(l) = c /\ c \in Nat /\ 1 \in 1..CountLeaves(l)
    <3>1. DOMAIN LeafHosts(l) = 1..CountLeaves(l)
      BY DEF LeafHosts
    <3>2. 1..CountLeaves(l) = 1..c /\ c \in Int
      BY <1>5, <2>1, <3>1
    <3> HIDE DEF l, c
    <3> QED
      BY <1>5, <2>4, <3>2
  <2>6. opening.tab \in TabOf(opening.pane)
    BY <2>1, <2>2, <2>5 DEF TabOf, IsTerminal, PanesIn
  <2>7. HasRoom(Tab(opening.tab).layout)
    BY <1>5, <2>2, <2>5 DEF HasRoom
  <2>8. PICK p \in 1..Len(tabs), k \in Nat, e \in Leaves :
          /\ SplitAt(p, k, opening.pane, e) /\ tabs[p].id = opening.tab
          /\ e.host = CollectLeaves(tabs[p].layout)[k].host
    BY <1>1, <2>6, <2>7, SplitPaneGood
  <2>9. p = d + 1
    BY <1>1, <2>1, <2>8 DEF Good, IdsApart
  <2>10. /\ Relaid(tabs, tabs', d + 1) /\ k \in 1..CountLeaves(l)
         /\ CollectLeaves(tabs'[d + 1].layout) = InsertAt(CollectLeaves(l), k + 1, e)
         /\ CollectLeaves(l)[k].pane = CollectLeaves(l)[1].pane
         /\ e.host = CollectLeaves(l)[k].host
    BY <2>1, <2>8, <2>9 DEF SplitAt
  <2>11. CollectLeaves(l)[k].host = r.host
    <3>1. LeafHosts(l)[k] = CollectLeaves(l)[k].host
      BY <2>10 DEF LeafHosts
    <3>2. LeafHosts(l)[k] = r.host
      BY <2>1, <2>5, <2>10
    <3> QED
      BY <3>1, <3>2
  <2>12. tabs'[d + 1].layout \in AnyLayout
    <3>1. Good(tabs')
      BY <1>1, SplitPaneGood
    <3>2. RowGood(tabs'[d + 1]) /\ tabs'[d + 1].kind = "terminal"
      BY <2>1, <2>10, <3>1, GoodLen DEF Relaid
    <3> QED
      BY <3>2, GoodRow
  <2>13. LeafHosts(tabs'[d + 1].layout) = [i \in 1..(c + 1) |-> r.host]
    <3> DEFINE n == tabs'[d + 1].layout
    <3>1. AllOf(l, r.host, c)
      BY <2>1 DEF AllOf
    <3>2. /\ l \in AnyLayout /\ n \in AnyLayout /\ e.host = r.host /\ k \in 1..CountLeaves(l)
          /\ c \in Nat /\ CollectLeaves(n) = InsertAt(CollectLeaves(l), k + 1, e)
      BY <2>3, <2>5, <2>10, <2>11, <2>12
    <3> HIDE DEF l, c, n
    <3>3. AllOf(n, r.host, c + 1)
      BY <3>1, <3>2, OneMore
    <3> QED
      BY <3>3 DEF AllOf, n
  <2>14. Arranged(tabs'[d + 1], r, opening')
    BY <1>3, <1>5, <2>1, <2>10, <2>13 DEF Arranged, Relaid
  <2>15. Len(tabs') = d + 1 /\ \A i \in 1..d : tabs'[i] = tabs[i]
    BY <1>2, <2>1, <2>10 DEF Relaid
  <2> QED
    BY <1>3, <1>4, <2>14, <2>15 DEF AtHand, Arranging
<1> QED
  BY <1>1, <1>3, <1>6, SameRow

\* Nobody else touches the tabs without giving the goal up.
LEMMA GoalStep ==
  ASSUME Inv, GoalOK, [Next]_vars
  PROVE  GoalOK'
<1>1. ASSUME goal' = None PROVE GoalOK'
  BY <1>1 DEF GoalOK
<1>2. ASSUME UNCHANGED <<goal, tabs, opening>> PROVE GoalOK'
  BY <1>2 DEF GoalOK
<1>3. ASSUME UserAction PROVE goal' = None \/ UNCHANGED <<goal, tabs, opening>>
  <2>1. ASSUME NEW h, NEW op, ShowExisting(h) \/ DeleteHost(h) \/ Open(h, op) PROVE goal' = None
    BY <2>1 DEF ShowExisting, DeleteHost, Open, Clicks
  <2>2. ASSUME NEW q, NEW h, ClosePane(q) \/ Split(q, h) PROVE goal' = None
    BY <2>2 DEF ClosePane, CloseTab, Split, Clicks
  <2>3. ASSUME NEW t, CloseTab(t) PROVE goal' = None
    BY <2>3 DEF CloseTab
  <2>4. ASSUME NEW t, NEW delta, Show(t) \/ ActivitySelect \/ CycleTab(delta)
        PROVE  UNCHANGED <<goal, tabs, opening>>
    BY <2>4 DEF Show, ActivitySelect, CycleTab
  <2>5. ASSUME NEW i, NEW j, Drop(i, j) \/ SaveCurrentLayout \/ DeleteWorkspace \/ OpenWorkspace
        PROVE  goal' = None
    BY <2>5 DEF Drop, SaveCurrentLayout, DeleteWorkspace, OpenWorkspace, Clicks
  <2> QED
    BY <1>3, <2>1, <2>2, <2>3, <2>4, <2>5 DEF UserAction
<1>4. ASSUME Opening PROVE GoalOK'
  <2>1. ASSUME ListTabs PROVE GoalOK'
    BY <2>1, ListBack
  <2>2. CASE goal = None
    <3>1. ~ListTabs => goal' = None
      BY <1>4, <2>2 DEF Opening, OpenRow, OpenDone, RestoreLayout, FlatSplit, RowGate, FlatGate
    <3> QED
      BY <1>1, <2>1, <3>1
  <2>3. ASSUME OpenDone, goal # None PROVE GoalOK'
    <3>1. /\ opening.pc = "tab" /\ opening.todo = <<>> /\ opening'.pc = "idle" /\ opening'.todo = <<>>
          /\ goal' = goal /\ tabs' = tabs
      BY <2>3 DEF OpenDone, NotOpening
    <3>2. Done(goal, opening') = Done(goal, opening)
      BY <3>1 DEF Done
    <3>3. Unambiguous(goal.rows) => AtHand(tabs', goal, opening')
      BY <2>3, <3>1, <3>2 DEF GoalOK, AtHand, Arranging
    <3> QED
      BY <2>3, <3>1, <3>3, SameRow
  <2>4. ASSUME NEW ok \in BOOLEAN, ~ok, RowGate(ok) \/ FlatGate(ok) PROVE goal' = None
    BY <2>4 DEF RowGate, FlatGate
  <2>5. ASSUME NEW ok \in BOOLEAN, RowGate(ok) \/ FlatGate(ok), goal # None PROVE GoalOK'
    BY <1>1, <2>4, <2>5, RowGateBack, FlatGateBack
  <2> QED
    BY <1>4, <2>1, <2>2, <2>3, <2>5, OpenRowBack, RestoreBack, FlatSplitBack DEF Opening
<1>5. ASSUME NEW ok \in BOOLEAN, GateReturns(ok) PROVE goal' = None
  BY <1>5 DEF GateReturns
<1>6. UNCHANGED vars => UNCHANGED <<goal, tabs, opening>>
  BY DEF vars
<1> QED
  BY <1>1, <1>2, <1>3, <1>4, <1>5, <1>6 DEF Next, User

\* A workspace that is opened with nothing open and nobody interfering brings
\* back its tabs and their panes in their order, less the hosts that are gone.
THEOREM WorkspaceComesBack == Spec => []ReopensWhatWasSaved
<1>1. Init => GoalOK
  BY DEF Init, GoalOK
<1>2. Inv /\ GoalOK /\ [Next]_vars => GoalOK'
  BY GoalStep
<1>3. GoalOK => ReopensWhatWasSaved
  <2> SUFFICES ASSUME GoalOK, goal # None, opening.pc = "idle", Unambiguous(goal.rows)
               PROVE  /\ Len(tabs) = Len(goal.rows)
                      /\ \A i \in 1..Len(tabs) : ComesBackAs(tabs[i], goal.rows[i])
    BY DEF ReopensWhatWasSaved
  <2>1. /\ opening.todo = <<>> /\ goal.rows \in Seq(Rows)
        /\ BackSoFar(tabs, goal, opening) /\ AtHand(tabs, goal, opening)
    BY DEF GoalOK, Plan
  <2>2. Done(goal, opening) = Len(goal.rows)
    BY <2>1, LenProperties DEF Done
  <2>3. Len(tabs) = Len(goal.rows)
    BY <2>1, <2>2 DEF AtHand, Arranging
  <2>4. \A tab, r : BackAs(tab, r, goal.hosts) => ComesBackAs(tab, r)
    BY DEF BackAs, ComesBackAs, Wanted, PanesWanted
  <2> QED
    BY <2>1, <2>2, <2>3, <2>4 DEF BackSoFar
<1> QED
  BY <1>1, <1>2, <1>3, Invariant, PTL DEF Spec
=============================================================================
