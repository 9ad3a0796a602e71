-------------------------- MODULE DescriptorProofs --------------------------
(***************************************************************************)
(* The probe's two descriptor walks, on every descriptor, not only those   *)
(* TLC grows in ProtoInputs.  Both walk forward, one record per step, up   *)
(* to a place where they end; their definitions recurse to the right, so   *)
(* the argument is an induction from the right end (FromTheEnd), and both  *)
(* are cases of one walk (WalkExists, WalkChained).                        *)
(***************************************************************************)
EXTENDS ProtoProofs, WellFoundedInduction

LessThan == {pair \in Nat \X Nat : pair[1] < pair[2]}

LEMMA HasSmallest ==
  ASSUME NEW S \in SUBSET Nat, S # {}
  PROVE  \E m \in S : \A k \in S : m <= k
<1>1. IsWellFoundedOn(LessThan, Nat)
  BY NatLessThanWellFounded, Zenon DEF OpToRel, LessThan
<1>2. PICK m \in S : \A k \in S : ~(<<k, m>> \in LessThan)
  BY <1>1, WFMin, Zenon
<1>3. ASSUME NEW k \in S PROVE m <= k
  <2>1. k \in Nat /\ m \in Nat /\ ~(<<k, m>> \in LessThan)
    BY <1>2
  <2>2. ~(k < m)
    BY <2>1 DEF LessThan
  <2> QED
    BY <2>1, <2>2
<1> QED
  BY <1>3

\* What holds of a place whenever it holds of the places after it, holds of all.
LEMMA FromTheEnd ==
  ASSUME NEW N \in Nat, NEW S,
         \A i \in 1..N : (\A j \in (i + 1)..N : j \in S) => i \in S
  PROVE  \A i \in 1..N : i \in S
<1> DEFINE Missing == {n \in 0..N : n < N /\ N - n \notin S}
<1>1. CASE Missing # {}
  <2>0. Missing \in SUBSET Nat
    OBVIOUS
  <2>1. PICK n \in Missing : \A k \in Missing : n <= k
    <3> HIDE DEF Missing
    <3> QED
      BY <1>1, <2>0, HasSmallest
  <2>2. n \in 0..N /\ n < N /\ N - n \notin S
    BY <2>1
  <2>3. ASSUME NEW j \in (N - n + 1)..N PROVE j \in S
    <3>1. N - j \in 0..N /\ N - j < N /\ N - j < n /\ N - (N - j) = j
      BY <2>2
    <3>2. N - j \notin Missing
      <4> HIDE DEF Missing
      <4>1. n \in Int /\ N - j \in Int
        BY <2>2
      <4> QED
        BY <2>1, <3>1, <4>1
    <3> QED
      BY <3>1, <3>2
  <2> QED
    BY <2>2, <2>3
<1>2. CASE Missing = {}
  <2> TAKE i \in 1..N
  <2>1. N - i \in 0..N /\ N - i < N /\ N - (N - i) = i
    OBVIOUS
  <2> QED
    BY <1>2, <2>1
<1> QED
  BY <1>1, <1>2

----------------------------------------------------------------------------
(* A walk over the places 1..N: it ends at the places in stop, elsewhere   *)
(* puts out out[i] and goes on at nxt[i].                                  *)

WalkStep(stop, nxt, out, f, i) ==
  IF i \in stop THEN <<>> ELSE <<out[i]>> \o f[nxt[i]]

IsWalk(N, stop, nxt, out, f) ==
  f = [i \in 1..N |-> WalkStep(stop, nxt, out, f, i)]

Forward(N, stop, nxt, out, X) ==
  \A i \in 1..N : i \notin stop => nxt[i] \in (i + 1)..N /\ out[i] \in X

\* A walk that only goes forward is well defined.
LEMMA WalkExists ==
  ASSUME NEW N \in Nat \ {0}, NEW stop, NEW nxt, NEW out, NEW X,
         Forward(N, stop, nxt, out, X)
  PROVE  \E f : IsWalk(N, stop, nxt, out, f)
<1> USE DEF Forward, IsWalk
<1> DEFINE Upto(f, m) == f = [i \in m..N |-> WalkStep(stop, nxt, out, f, i)]
           S == {m \in 1..N : \E f : Upto(f, m)}
<1>1. ASSUME NEW m \in 1..N, \A j \in (m + 1)..N : j \in S
      PROVE  m \in S
  <2>1. PICK g : \A i \in (m + 1)..N : g[i] = WalkStep(stop, nxt, out, g, i)
    <3>1. CASE m = N
      BY <3>1
    <3>2. CASE m # N
      <4>1. m + 1 \in S
        BY <1>1, <3>2
      <4>2. PICK g : Upto(g, m + 1)
        BY <4>1
      <4>3. \A i \in (m + 1)..N : g[i] = WalkStep(stop, nxt, out, g, i)
        BY <4>2
      <4> QED
        BY <4>3
    <3> QED
      BY <3>1, <3>2
  <2> DEFINE f == [i \in m..N |-> WalkStep(stop, nxt, out, g, i)]
  <2>2. ASSUME NEW i \in m..N
        PROVE  WalkStep(stop, nxt, out, g, i) = WalkStep(stop, nxt, out, f, i)
    <3>1. CASE i \in stop
      BY <3>1 DEF WalkStep
    <3>2. CASE i \notin stop
      <4>1. nxt[i] \in (m + 1)..N /\ nxt[i] \in m..N
        BY <3>2
      <4>2. f[nxt[i]] = g[nxt[i]]
        BY <2>1, <4>1
      <4> QED
        BY <3>2, <4>2 DEF WalkStep
    <3> QED
      BY <3>1, <3>2
  <2>3. Upto(f, m)
    <3> HIDE DEF WalkStep
    <3>1. f = [i \in m..N |-> WalkStep(stop, nxt, out, f, i)]
      BY <2>2
    <3> QED
      BY <3>1
  <2> QED
    BY <2>3
<1>2. \A m \in 1..N : m \in S
  <2> HIDE DEF S
  <2> QED
    BY <1>1, FromTheEnd
<1> QED
  <2>1. 1 \in S
    BY <1>2
  <2> QED
    BY <2>1

LEMMA FrontPut ==
  ASSUME NEW X, NEW a \in X, NEW t \in Seq(X)
  PROVE  /\ <<a>> \o t \in Seq(X)
         /\ Len(t) \in Nat /\ Len(<<a>> \o t) = Len(t) + 1
         /\ <<a>> \o t # <<>> /\ (<<a>> \o t)[1] = a
         /\ \A k \in 1..Len(t) : (<<a>> \o t)[k + 1] = t[k]
<1> PICK n \in Nat : n = Len(t)
  BY LenProperties
<1>0. <<a>> \in Seq(X) /\ Len(<<a>>) = 1 /\ <<a>>[1] = a
  OBVIOUS
<1>1. /\ <<a>> \o t \in Seq(X) /\ Len(<<a>> \o t) = 1 + n
      /\ \A i \in 1..(1 + n) :
           (<<a>> \o t)[i] = IF i <= 1 THEN <<a>>[i] ELSE t[i - 1]
  BY <1>0, ConcatProperties
<1>2. (<<a>> \o t)[1] = a
  BY <1>0, <1>1
<1>3. \A k \in 1..n : (<<a>> \o t)[k + 1] = t[k]
  <2> TAKE k \in 1..n
  <2>1. k + 1 \in 1..(1 + n) /\ ~(k + 1 <= 1) /\ (k + 1) - 1 = k
    OBVIOUS
  <2> QED
    BY <1>1, <2>1
<1>4. <<a>> \o t # <<>>
  BY <1>1, EmptySeq
<1> QED
  BY <1>1, <1>2, <1>3, <1>4

\* The k-th record of s is put out at a place from which the walk goes on to the
\* place of the next record, or, after the last record, ends.
LinkedAt(N, stop, nxt, out, s, k) ==
  \E p \in (1..N) \ stop :
    /\ s[k] = out[p]
    /\ IF k = Len(s) THEN nxt[p] \in stop
       ELSE nxt[p] \notin stop /\ s[k + 1] = out[nxt[p]]

LEMMA LinkedInFront ==
  ASSUME NEW N \in Nat, NEW stop, NEW nxt, NEW out, NEW X,
         NEW i \in 1..N, i \notin stop, out[i] \in X, NEW t \in Seq(X),
         t = <<>> <=> nxt[i] \in stop,
         t # <<>> => t[1] = out[nxt[i]],
         \A k \in 1..Len(t) : LinkedAt(N, stop, nxt, out, t, k)
  PROVE  \A k \in 1..Len(<<out[i]>> \o t) :
           LinkedAt(N, stop, nxt, out, <<out[i]>> \o t, k)
<1>1. PICK n \in Nat : n = Len(t)
  BY LenProperties
<1>2. PICK s : s = <<out[i]>> \o t
  OBVIOUS
<1>3. /\ Len(s) = n + 1 /\ s[1] = out[i]
      /\ \A k \in 1..n : s[k + 1] = t[k]
  BY <1>1, <1>2, FrontPut
<1> SUFFICES ASSUME NEW k \in 1..(n + 1)
             PROVE  LinkedAt(N, stop, nxt, out, s, k)
  BY <1>2, <1>3
<1>4. CASE k = 1
  <2>1. CASE t = <<>>
    <3>1. n = 0
      BY <1>1, <2>1, EmptySeq
    <3> QED
      BY <1>3, <1>4, <2>1, <3>1 DEF LinkedAt
  <2>2. CASE t # <<>>
    <3>1. n # 0
      BY <1>1, <2>2, EmptySeq
    <3>2. 1 \in 1..n /\ k # n + 1
      BY <1>4, <3>1
    <3>3. s[k + 1] = t[1]
      BY <1>3, <1>4, <3>2
    <3> QED
      BY <1>3, <1>4, <2>2, <3>2, <3>3 DEF LinkedAt
  <2> QED
    BY <2>1, <2>2
<1>5. CASE k # 1
  <2>1. PICK j \in 1..n : k = j + 1
    <3>1. k - 1 \in 1..n /\ k = (k - 1) + 1
      BY <1>5
    <3> QED
      BY <3>1
  <2>2. PICK p \in (1..N) \ stop :
          /\ t[j] = out[p]
          /\ IF j = n THEN nxt[p] \in stop
             ELSE nxt[p] \notin stop /\ t[j + 1] = out[nxt[p]]
    BY <1>1 DEF LinkedAt
  <2>3. s[k] = t[j]
    BY <1>3, <2>1
  <2>4. CASE j = n
    BY <1>3, <2>1, <2>2, <2>3, <2>4 DEF LinkedAt
  <2>5. CASE j # n
    <3>1. j + 1 \in 1..n /\ k # n + 1
      BY <2>1, <2>5
    <3>2. s[k + 1] = t[j + 1]
      BY <1>3, <2>1, <3>1
    <3> QED
      BY <1>3, <2>2, <2>3, <2>5, <3>1, <3>2 DEF LinkedAt
  <2> QED
    BY <2>4, <2>5
<1> QED
  BY <1>4, <1>5

\* What a walk yields from any place: it is empty just where the walk ends, its
\* first record is that of the place, and each one is linked to the next.
Chained(N, stop, nxt, out, X, s, i) ==
  /\ s \in Seq(X)
  /\ s = <<>> <=> i \in stop
  /\ s # <<>> => s[1] = out[i]
  /\ \A k \in 1..Len(s) : LinkedAt(N, stop, nxt, out, s, k)

LEMMA WalkChained ==
  ASSUME NEW N \in Nat \ {0}, NEW stop, NEW nxt, NEW out, NEW X, NEW f,
         IsWalk(N, stop, nxt, out, f), Forward(N, stop, nxt, out, X)
  PROVE  \A i \in 1..N : Chained(N, stop, nxt, out, X, f[i], i)
<1> USE DEF Forward, IsWalk, Chained
<1> DEFINE Good(i) ==
             /\ f[i] \in Seq(X)
             /\ f[i] = <<>> <=> i \in stop
             /\ f[i] # <<>> => f[i][1] = out[i]
             /\ \A k \in 1..Len(f[i]) : LinkedAt(N, stop, nxt, out, f[i], k)
           S == {i \in 1..N : Good(i)}
<1>1. ASSUME NEW i \in 1..N, \A j \in (i + 1)..N : j \in S
      PROVE  Good(i)
  <2>1. f[i] = WalkStep(stop, nxt, out, f, i)
    OBVIOUS
  <2>2. CASE i \in stop
    <3>1. f[i] = <<>>
      BY <2>1, <2>2 DEF WalkStep
    <3> QED
      BY <2>2, <3>1
  <2>3. CASE i \notin stop
    <3>1. PICK t : t = f[nxt[i]]
      OBVIOUS
    <3>2. nxt[i] \in (i + 1)..N
      BY <2>3
    <3>3. nxt[i] \in S
      BY <1>1, <3>2
    <3>4. /\ t \in Seq(X)
          /\ t = <<>> <=> nxt[i] \in stop
          /\ t # <<>> => t[1] = out[nxt[i]]
          /\ \A k \in 1..Len(t) : LinkedAt(N, stop, nxt, out, t, k)
      BY <3>1, <3>3
    <3>5. f[i] = <<out[i]>> \o t /\ out[i] \in X
      BY <2>1, <2>3, <3>1 DEF WalkStep
    <3>6. f[i] \in Seq(X) /\ f[i] # <<>> /\ f[i][1] = out[i]
      <4>1. /\ <<out[i]>> \o t \in Seq(X) /\ <<out[i]>> \o t # <<>>
            /\ (<<out[i]>> \o t)[1] = out[i]
        BY <3>4, <3>5, FrontPut
      <4> QED
        BY <3>5, <4>1
    <3>7. \A k \in 1..Len(f[i]) : LinkedAt(N, stop, nxt, out, f[i], k)
      <4>1. \A k \in 1..Len(<<out[i]>> \o t) :
              LinkedAt(N, stop, nxt, out, <<out[i]>> \o t, k)
        BY <2>3, <3>4, <3>5, LinkedInFront
      <4> QED
        BY <3>5, <4>1
    <3> QED
      BY <2>3, <3>6, <3>7
  <2> QED
    BY <2>2, <2>3
<1>2. \A i \in 1..N : i \in S
  <2>1. \A i \in 1..N : (\A j \in (i + 1)..N : j \in S) => i \in S
    BY <1>1
  <2> HIDE DEF S
  <2> QED
    BY <2>1, FromTheEnd
<1> QED
  BY <1>2

----------------------------------------------------------------------------
(* decode_hid_descriptor                                                   *)

LEMMA DescriptorBytes ==
  TypeOK => \A d \in AsDescriptor : d \in Seq(Byte)
<1> SUFFICES ASSUME TypeOK, NEW n \in {0, 1, 9}
             PROVE  payload \o Zeros(n) \in Seq(Byte)
  BY DEF AsDescriptor
<1>1. Zeros(n) \in Seq(Byte)
  <2>1. Zeros(n) \in [1..n -> Byte]
    BY DEF Zeros, Byte
  <2> QED
    BY <2>1, SeqDef
<1> QED
  BY <1>1, ConcatProperties DEF TypeOK

LEMMA HidRecordsInside ==
  ASSUME NEW d \in Seq(Byte)
  PROVE  \A k \in DOMAIN HidRecords(d) :
           LET rs == HidRecords(d) IN
           /\ rs[k].at = IF k = 1 THEN 1 ELSE rs[k - 1].at + rs[k - 1].len
           /\ rs[k].at + rs[k].len - 1 <= Len(d)
           /\ HidPrinted(d, rs[k]) => rs[k].at + 8 <= Len(d)
<1>1. PICK n \in Nat : n = Len(d)
  BY LenProperties
<1>2. PICK N \in Nat \ {0} : N = n + 256
  BY <1>1
<1>3. PICK stop : stop = {i \in 1..N : HidEnds(d, i)}
  OBVIOUS
<1>4. PICK nxt : nxt = [i \in 1..N |-> i + d[i]]
  OBVIOUS
<1>5. PICK out : out = [i \in 1..N |-> [at |-> i, len |-> d[i]]]
  OBVIOUS
<1>6. ASSUME NEW i \in 1..N, i \notin stop
      PROVE  /\ d[i] \in Nat \ {0} /\ i + d[i] - 1 <= n
             /\ nxt[i] \in (i + 1)..N
             /\ nxt[i] = i + d[i]
             /\ out[i] = [at |-> i, len |-> d[i]]
             /\ out[i] \in [at : Nat, len : Nat]
  <2>1. i + 1 <= n /\ d[i] # 0 /\ ~(i + d[i] - 1 > n)
    BY <1>1, <1>3, <1>6 DEF HidEnds
  <2>2. d[i] \in Nat
    <3>1. i \in 1..Len(d)
      BY <1>1, <2>1
    <3>2. d[i] \in Byte
      BY <3>1, ElementOfSeq
    <3>3. Byte \subseteq Nat
      BY DEF Byte
    <3> QED
      BY <3>2, <3>3
  <2>3. nxt[i] = i + d[i] /\ out[i] = [at |-> i, len |-> d[i]]
    BY <1>4, <1>5
  <2>4. PICK b \in Nat : b = d[i]
    BY <2>2
  <2>5. b # 0 /\ i + b - 1 <= n /\ i + b \in (i + 1)..N
    BY <1>2, <2>1, <2>4
  <2> QED
    BY <2>3, <2>4, <2>5
<1>7. \A g : IsWalk(N, stop, nxt, out, g) <=>
         g = [i \in 1..(Len(d) + 256) |->
                IF HidEnds(d, i) THEN <<>>
                ELSE <<[at |-> i, len |-> d[i]]>> \o g[i + d[i]]]
  <2> SUFFICES ASSUME NEW g, NEW i \in 1..N
               PROVE  WalkStep(stop, nxt, out, g, i) =
                        IF HidEnds(d, i) THEN <<>>
                        ELSE <<[at |-> i, len |-> d[i]]>> \o g[i + d[i]]
    BY <1>1, <1>2 DEF IsWalk
  <2>1. CASE i \in stop
    BY <1>3, <2>1 DEF WalkStep
  <2>2. CASE i \notin stop
    BY <1>3, <1>4, <1>5, <2>2 DEF WalkStep
  <2> QED
    BY <2>1, <2>2
<1>8. PICK f : IsWalk(N, stop, nxt, out, f) /\ HidRecords(d) = f[1]
  <2> DEFINE from == CHOOSE g : g = [i \in 1..(Len(d) + 256) |->
                       IF HidEnds(d, i) THEN <<>>
                       ELSE <<[at |-> i, len |-> d[i]]>> \o g[i + d[i]]]
  <2>1. HidRecords(d) = from[1]
    BY DEF HidRecords
  <2>2. \E g : g = [i \in 1..(Len(d) + 256) |->
                IF HidEnds(d, i) THEN <<>>
                ELSE <<[at |-> i, len |-> d[i]]>> \o g[i + d[i]]]
    <3>1. \E g : IsWalk(N, stop, nxt, out, g)
      <4>1. Forward(N, stop, nxt, out, [at : Nat, len : Nat])
        BY <1>6 DEF Forward
      <4> QED
        BY <4>1, WalkExists
    <3> QED
      BY <1>7, <3>1, Zenon
  <2>3. from = [i \in 1..(Len(d) + 256) |->
                IF HidEnds(d, i) THEN <<>>
                ELSE <<[at |-> i, len |-> d[i]]>> \o from[i + d[i]]]
    BY <2>2, Zenon
  <2>4. IsWalk(N, stop, nxt, out, from)
    BY <1>7, <2>3, Zenon
  <2> HIDE DEF from
  <2> QED
    BY <2>1, <2>4
<1>9. Chained(N, stop, nxt, out, [at : Nat, len : Nat], f[1], 1)
  <2>1. Forward(N, stop, nxt, out, [at : Nat, len : Nat])
    BY <1>6 DEF Forward
  <2>2. 1 \in 1..N
    OBVIOUS
  <2> QED
    BY <1>8, <2>1, <2>2, WalkChained
<1>10. PICK rs : rs = HidRecords(d)
  OBVIOUS
<1>11. PICK m \in Nat : m = Len(rs) /\ DOMAIN rs = 1..m
  BY <1>8, <1>9, <1>10, LenProperties DEF Chained
<1>12. ASSUME NEW k \in 1..m
      PROVE  \E p \in (1..N) \ stop :
               /\ rs[k] = out[p]
               /\ IF k = m THEN nxt[p] \in stop
                  ELSE nxt[p] \notin stop /\ rs[k + 1] = out[nxt[p]]
  BY <1>8, <1>9, <1>10, <1>11 DEF Chained, LinkedAt
<1>13. ASSUME NEW p \in (1..N) \ stop
      PROVE  /\ out[p].at = p /\ out[p].len = d[p]
             /\ d[p] \in Nat /\ p + d[p] - 1 <= n
             /\ nxt[p] \in 1..N /\ nxt[p] = p + d[p]
  <2>1. /\ d[p] \in Nat /\ p + d[p] - 1 <= n
        /\ nxt[p] \in (p + 1)..N /\ nxt[p] = p + d[p]
        /\ out[p] = [at |-> p, len |-> d[p]]
    BY <1>6
  <2>2. nxt[p] \in 1..N
    BY <2>1
  <2> QED
    BY <2>1, <2>2
<1> SUFFICES ASSUME NEW k \in 1..m
             PROVE  /\ rs[k].at = IF k = 1 THEN 1 ELSE rs[k - 1].at + rs[k - 1].len
                    /\ rs[k].at + rs[k].len - 1 <= n
                    /\ HidPrinted(d, rs[k]) => rs[k].at + 8 <= n
  BY <1>1, <1>10, <1>11
<1>14. PICK p \in (1..N) \ stop : rs[k] = out[p]
  BY <1>12
<1>15. rs[k].at = p /\ rs[k].len = d[p] /\ d[p] \in Nat /\ p + d[p] - 1 <= n
  BY <1>13, <1>14
<1>16. rs[k].at = IF k = 1 THEN 1 ELSE rs[k - 1].at + rs[k - 1].len
  <2>1. CASE k = 1
    <3>1. rs # <<>>
      BY <1>11
    <3>2. rs[k] = out[1] /\ out[1].at = 1
      BY <1>5, <1>8, <1>9, <1>10, <2>1, <3>1 DEF Chained
    <3> QED
      BY <2>1, <3>2
  <2>2. CASE k # 1
    <3>1. k - 1 \in 1..m /\ k - 1 # m /\ (k - 1) + 1 = k
      BY <2>2
    <3>2. PICK q \in (1..N) \ stop :
            rs[k - 1] = out[q] /\ nxt[q] \notin stop /\ rs[k] = out[nxt[q]]
      BY <1>12, <3>1
    <3>3. nxt[q] \in (1..N) \ stop /\ nxt[q] = q + d[q]
          /\ rs[k - 1].at = q /\ rs[k - 1].len = d[q]
      BY <1>13, <3>2
    <3>4. rs[k].at = nxt[q]
      BY <1>13, <3>2, <3>3
    <3> QED
      BY <2>2, <3>3, <3>4
  <2> QED
    BY <2>1, <2>2
<1>17. HidPrinted(d, rs[k]) => rs[k].at + 8 <= n
  BY <1>15 DEF HidPrinted, HID_MIN_LEN
<1> QED
  BY <1>15, <1>16, <1>17

\* probe.rs:202, for every descriptor the device may supply: the HID records
\* walked follow one another and lie inside it, and one whose fields are read
\* has all nine bytes there.
THEOREM HidWalkInRange == Spec => []HidInRange
<1>1. TypeOK => HidInRange
  BY DescriptorBytes, HidRecordsInside DEF HidInRange
<1> QED
  BY <1>1, InputsTyped, PTL

----------------------------------------------------------------------------
(* decode_report_descriptor                                                *)

LEMMA ReportItemsPieces ==
  ASSUME NEW d \in Seq(Byte)
  PROVE  LET items == ReportItems(d) IN
         /\ d # <<>> => /\ items # <<>> /\ items[1].first = 1
                        /\ items[Len(items)].last = Len(d)
         /\ \A k \in DOMAIN items :
              /\ items[k].first <= items[k].last
              /\ k > 1 => items[k].first = items[k - 1].last + 1
<1>1. PICK n \in Nat : n = Len(d)
  BY LenProperties
<1>2. PICK N \in Nat \ {0} : N = n + 5
  BY <1>1
<1>3. PICK stop : stop = {i \in 1..N : i > n}
  OBVIOUS
<1>4. PICK nxt : nxt = [i \in 1..N |-> i + 1 + ItemSize(d[i])]
  OBVIOUS
<1>5. PICK out : out = [i \in 1..N |-> [first |-> i, last |-> ItemEnd(d, i)]]
  OBVIOUS
<1>6. ASSUME NEW i \in (1..N) \ stop
      PROVE  /\ i \in 1..n
             /\ nxt[i] \in (i + 1)..N
             /\ out[i].first = i
             /\ out[i].last \in i..n
             /\ nxt[i] \in stop => out[i].last = n
             /\ nxt[i] \notin stop => nxt[i] = out[i].last + 1
             /\ out[i] \in [first : Nat, last : Nat]
  <2>1. i \in 1..n
    BY <1>1, <1>3
  <2>2. PICK size \in 0..4 : size = ItemSize(d[i])
    <3>1. d[i] \in Byte
      BY <1>1, <2>1, ElementOfSeq
    <3>2. d[i] \in Nat
      <4>1. Byte \subseteq Nat
        BY DEF Byte
      <4> QED
        BY <3>1, <4>1
    <3> QED
      BY <3>2 DEF ItemSize
  <2>3. nxt[i] = i + 1 + size
    BY <1>4, <2>2
  <2>4. nxt[i] \in (i + 1)..N
    BY <1>2, <2>1, <2>3
  <2>5. out[i] = [first |-> i, last |-> IF i + size > n THEN n ELSE i + size]
    BY <1>1, <1>5, <2>2 DEF ItemEnd
  <2>6. nxt[i] \in stop <=> i + 1 + size > n
    BY <1>3, <2>3, <2>4
  <2> QED
    BY <2>1, <2>3, <2>4, <2>5, <2>6
<1>7. \A g : IsWalk(N, stop, nxt, out, g) <=>
         g = [i \in 1..(Len(d) + 5) |->
                IF i > Len(d) THEN <<>>
                ELSE <<[first |-> i, last |-> ItemEnd(d, i)]>>
                        \o g[i + 1 + ItemSize(d[i])]]
  <2> SUFFICES ASSUME NEW g, NEW i \in 1..N
               PROVE  WalkStep(stop, nxt, out, g, i) =
                        IF i > n THEN <<>>
                        ELSE <<[first |-> i, last |-> ItemEnd(d, i)]>>
                                \o g[i + 1 + ItemSize(d[i])]
    BY <1>1, <1>2 DEF IsWalk
  <2>1. CASE i \in stop
    BY <1>3, <2>1 DEF WalkStep
  <2>2. CASE i \notin stop
    BY <1>3, <1>4, <1>5, <2>2 DEF WalkStep
  <2> QED
    BY <2>1, <2>2
<1>8. Forward(N, stop, nxt, out, [first : Nat, last : Nat])
  BY <1>6 DEF Forward
<1>9. PICK f : IsWalk(N, stop, nxt, out, f) /\ ReportItems(d) = f[1]
  <2> DEFINE from == CHOOSE g : g = [i \in 1..(Len(d) + 5) |->
                       IF i > Len(d) THEN <<>>
                       ELSE <<[first |-> i, last |-> ItemEnd(d, i)]>>
                               \o g[i + 1 + ItemSize(d[i])]]
  <2>1. ReportItems(d) = from[1]
    BY DEF ReportItems
  <2>2. \E g : g = [i \in 1..(Len(d) + 5) |->
                IF i > Len(d) THEN <<>>
                ELSE <<[first |-> i, last |-> ItemEnd(d, i)]>>
                        \o g[i + 1 + ItemSize(d[i])]]
    <3>1. \E g : IsWalk(N, stop, nxt, out, g)
      BY <1>8, WalkExists
    <3> QED
      BY <1>7, <3>1, Zenon
  <2>3. from = [i \in 1..(Len(d) + 5) |->
                IF i > Len(d) THEN <<>>
                ELSE <<[first |-> i, last |-> ItemEnd(d, i)]>>
                        \o from[i + 1 + ItemSize(d[i])]]
    BY <2>2, Zenon
  <2>4. IsWalk(N, stop, nxt, out, from)
    BY <1>7, <2>3, Zenon
  <2> HIDE DEF from
  <2> QED
    BY <2>1, <2>4
<1>10. Chained(N, stop, nxt, out, [first : Nat, last : Nat], f[1], 1)
  <2>1. 1 \in 1..N
    OBVIOUS
  <2> QED
    BY <1>8, <1>9, <2>1, WalkChained
<1>11. PICK items : items = ReportItems(d)
  OBVIOUS
<1>12. PICK m \in Nat : m = Len(items) /\ DOMAIN items = 1..m
  BY <1>9, <1>10, <1>11, LenProperties DEF Chained
<1>13. ASSUME NEW k \in 1..m
       PROVE  \E p \in (1..N) \ stop :
                /\ items[k] = out[p]
                /\ IF k = m THEN nxt[p] \in stop
                   ELSE nxt[p] \notin stop /\ items[k + 1] = out[nxt[p]]
  <2>1. k \in 1..Len(f[1])
    BY <1>9, <1>11, <1>12
  <2>2. LinkedAt(N, stop, nxt, out, items, k)
    BY <1>9, <1>10, <1>11, <2>1 DEF Chained
  <2> QED
    BY <1>12, <2>2 DEF LinkedAt
<1>14. ASSUME d # <<>>
       PROVE  items # <<>> /\ items[1].first = 1 /\ items[m].last = n
  <2>1. n # 0
    BY <1>1, <1>14, EmptySeq
  <2>2. 1 \in (1..N) \ stop
    BY <1>3, <2>1
  <2>3. items # <<>> /\ items[1] = out[1]
    BY <1>9, <1>10, <1>11, <2>2 DEF Chained
  <2>4. m # 0
    BY <1>9, <1>10, <1>11, <1>12, <2>3, EmptySeq DEF Chained
  <2>5. m \in 1..m
    BY <2>4
  <2>6. PICK p \in (1..N) \ stop : items[m] = out[p] /\ nxt[p] \in stop
    BY <1>13, <2>5
  <2> QED
    BY <1>6, <2>2, <2>3, <2>6
<1>15. ASSUME NEW k \in 1..m
       PROVE  /\ items[k].first <= items[k].last
              /\ k > 1 => items[k].first = items[k - 1].last + 1
  <2>1. PICK p \in (1..N) \ stop : items[k] = out[p]
    BY <1>13
  <2>2. items[k].first <= items[k].last
    BY <1>6, <2>1
  <2>3. ASSUME k > 1 PROVE items[k].first = items[k - 1].last + 1
    <3>1. k - 1 \in 1..m /\ k - 1 # m /\ (k - 1) + 1 = k
      BY <2>3
    <3>2. PICK q \in (1..N) \ stop :
            /\ items[k - 1] = out[q]
            /\ nxt[q] \notin stop
            /\ items[k] = out[nxt[q]]
      BY <1>13, <3>1
    <3>3. nxt[q] \in (q + 1)..N /\ nxt[q] = out[q].last + 1
      BY <1>6, <3>2
    <3>4. nxt[q] \in (1..N) \ stop
      BY <3>2, <3>3
    <3>5. items[k].first = nxt[q]
      BY <1>6, <3>2, <3>4
    <3> QED
      BY <3>2, <3>3, <3>5
  <2> QED
    BY <2>2, <2>3
<1> QED
  BY <1>1, <1>11, <1>12, <1>14, <1>15

\* probe.rs:228, for every report descriptor: its items are the descriptor cut
\* in pieces, none empty, none past the end, no byte left out or read twice.
THEOREM ReportCutInPieces == Spec => []ReportInPieces
<1>1. TypeOK => ReportInPieces
  BY DescriptorBytes, ReportItemsPieces DEF ReportInPieces
<1> QED
  BY <1>1, InputsTyped, PTL
=============================================================================
