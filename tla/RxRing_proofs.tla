---------------------------- MODULE RxRing_proofs ----------------------------
(***************************************************************************)
(* Proofs about RxRing for every number of rings, every ring size and      *)
(* every burst length: the types, InOrderOnce, NoneLeftBehind, and that    *)
(* the rings implement the queues of ByteFifo.                             *)
(*                                                                         *)
(* The heart of the argument is Content: the unread part of a ring, seen   *)
(* through its two indices, is the run of accepted bytes that have not     *)
(* been freed, and lwrb_write only appends to it.  It is stated by cases   *)
(* on the order of the indices, as the code computes it, so that it stays  *)
(* within linear arithmetic.                                               *)
(***************************************************************************)
EXTENDS RxRing, TLAPS, SequenceTheorems

(* The ring (size, w, rd, b) holds the bytes freed + 1 .. total. *)
Content(size, w0, rd, b, total, freed) ==
    /\ total = freed + GetFull(size, w0, rd)
    /\ \A i \in 0 .. size - 1 :
         /\ w0 > rd /\ rd <= i /\ i < w0 => b[i] = freed + 1 + i - rd
         /\ w0 < rd /\ rd <= i => b[i] = freed + 1 + i - rd
         /\ w0 < rd /\ i < w0 => b[i] = freed + 1 + i + size - rd

(* lwrb_write appends the accepted part of the burst to the content, keeps *)
(* its index in range, and never shortens the block being parsed.          *)
LEMMA WriteAppends ==
    ASSUME NEW size \in Nat \ {0}, NEW w0 \in 0 .. size - 1,
           NEW r0 \in 0 .. size, NEW b \in [0 .. size - 1 -> Nat],
           NEW total \in Nat, NEW freed \in Nat, NEW n \in Nat,
           NEW data, data = [i \in 1 .. n |-> total + i],
           Content(size, w0, Wrap(size, r0), b, total, freed)
    PROVE  LET m  == Accepted(size, w0, r0, n)
               w1 == WriteIndex(size, w0, r0, n)
               b1 == WriteSlots(size, w0, r0, b, data)
           IN  /\ m \in Nat
               /\ w1 \in 0 .. size - 1
               /\ b1 \in [0 .. size - 1 -> Nat]
               /\ Content(size, w1, Wrap(size, r0), b1, total + m, freed)
               /\ r0 < size => LinearReadLength(size, w1, r0)
                                 >= LinearReadLength(size, w0, r0)
<1> DEFINE rd    == Wrap(size, r0)
           m     == Accepted(size, w0, r0, n)
           first == Lesser(size - w0, m)
           w1    == WriteIndex(size, w0, r0, n)
           b1    == WriteSlots(size, w0, r0, b, data)
<1>1. rd \in 0 .. size - 1
  BY DEF Wrap
<1>2. GetFree(size, w0, r0) = size - 1 - GetFull(size, w0, rd)
  BY DEF GetFree, GetFull, Wrap
<1>3. GetFull(size, w0, rd) \in 0 .. size - 1
  BY SMTT(30), <1>1 DEF GetFull
<1>4. m \in Nat /\ m <= n /\ m <= size - 1 - GetFull(size, w0, rd)
  BY <1>2, <1>3 DEF Accepted, Lesser
<1>5. first \in Nat /\ first <= m /\ first <= size - w0
      /\ (first = m \/ first = size - w0)
  BY <1>4 DEF Lesser
<1>6. w1 = IF m > first THEN m - first
           ELSE IF w0 + first >= size THEN 0 ELSE w0 + first
  <2>1. m > first => m - first < size
    BY <1>3, <1>4, <1>5
  <2> QED BY <2>1, <1>4, <1>5 DEF WriteIndex
<1>8. Len(data) = n
  OBVIOUS
<1>9. b1 = [i \in 0 .. size - 1 |->
             IF w0 <= i /\ i < w0 + first THEN data[i - w0 + 1]
             ELSE IF i < m - first THEN data[first + i + 1]
             ELSE b[i]]
  BY <1>8 DEF WriteSlots
<1>10. ASSUME NEW i \in 0 .. size - 1
       PROVE  b1[i] = IF w0 <= i /\ i < w0 + first THEN total + (i - w0 + 1)
                      ELSE IF i < m - first THEN total + (first + i + 1)
                      ELSE b[i]
  <2> HIDE DEF rd, m, first, w1, b1
  <2>1. CASE w0 <= i /\ i < w0 + first
    <3>1. i - w0 + 1 \in 1 .. n
      BY <2>1, <1>4, <1>5
    <3> QED BY <3>1, <2>1, <1>9
  <2>2. CASE ~(w0 <= i /\ i < w0 + first) /\ i < m - first
    <3>1. first + i + 1 \in 1 .. n
      BY <2>2, <1>4, <1>5
    <3> QED BY <3>1, <2>2, <1>9
  <2> QED BY <2>1, <2>2, <1>9
<1>0. rd = Wrap(size, r0)
  OBVIOUS
<1> HIDE DEF rd, m, first, w1, b1
<1>7. w1 \in 0 .. size - 1
  BY <1>1, <1>3, <1>4, <1>5, <1>6
<1>11. b1 \in [0 .. size - 1 -> Nat]
  BY <1>4, <1>5, <1>9, <1>10
<1>15. total = freed + GetFull(size, w0, rd)
  BY <1>0 DEF Content
<1>12. total + m = freed + GetFull(size, w1, rd)
  <2>1. GetFull(size, w1, rd) = GetFull(size, w0, rd) + m
    BY <1>1, <1>3, <1>4, <1>5, <1>6, <1>7 DEF GetFull
  <2> QED BY <2>1, <1>15, <1>3, <1>4
<1>13. ASSUME NEW i \in 0 .. size - 1
       PROVE  /\ w1 > rd /\ rd <= i /\ i < w1 => b1[i] = freed + 1 + i - rd
              /\ w1 < rd /\ rd <= i => b1[i] = freed + 1 + i - rd
              /\ w1 < rd /\ i < w1 => b1[i] = freed + 1 + i + size - rd
  <2>0. /\ w0 > rd /\ rd <= i /\ i < w0 => b[i] = freed + 1 + i - rd
        /\ w0 < rd /\ rd <= i => b[i] = freed + 1 + i - rd
        /\ w0 < rd /\ i < w0 => b[i] = freed + 1 + i + size - rd
    BY <1>0 DEF Content
  <2>9. total = freed + (IF w0 = rd THEN 0 ELSE IF w0 > rd THEN w0 - rd
                         ELSE size - (rd - w0))
    BY <1>15, <1>1 DEF GetFull
  <2>10. m <= size - 1 - (total - freed)
    BY <1>4, <1>15, <1>3
  <2>11. b[i] \in Nat
    OBVIOUS
  <2>1. CASE w0 <= i /\ i < w0 + first
    <3>1. b1[i] = total + (i - w0 + 1)
      BY <2>1, <1>10
    <3>2. CASE w0 >= rd
      <4>1. total = freed + w0 - rd
        BY <3>2, <2>9, <1>1
      <4> QED BY <4>1, <3>1, <3>2, <2>1, <2>10, <1>1, <1>4, <1>5, <1>6, <1>7
    <3>3. CASE w0 < rd
      <4>1. total = freed + size - rd + w0
        BY <3>3, <2>9, <1>1
      <4> QED BY <4>1, <3>1, <3>3, <2>1, <2>10, <1>1, <1>4, <1>5, <1>6, <1>7
    <3> QED BY <3>2, <3>3, <1>1
  <2>2. CASE ~(w0 <= i /\ i < w0 + first) /\ i < m - first
    <3>1. b1[i] = total + (first + i + 1)
      BY <2>2, <1>10
    <3> QED BY SMTT(30), <3>1, <2>2, <2>9, <2>10, <1>1, <1>4, <1>5, <1>6, <1>7
  <2>3. CASE ~(w0 <= i /\ i < w0 + first) /\ ~(i < m - first)
    <3>1. b1[i] = b[i]
      BY <2>3, <1>10
    <3> QED BY <3>1, <2>3, <2>0, <2>9, <2>10, <1>1, <1>4, <1>5, <1>6, <1>7
  <2> QED BY <2>1, <2>2, <2>3
<1>14. ASSUME r0 < size
       PROVE  LinearReadLength(size, w1, r0) >= LinearReadLength(size, w0, r0)
  <2>1. rd = r0
    BY <1>14, <1>0 DEF Wrap
  <2>2. m <= size - 1 - (IF w0 = r0 THEN 0 ELSE IF w0 > r0 THEN w0 - r0
                         ELSE size - (r0 - w0))
    BY <2>1, <1>4 DEF GetFull
  <2> QED BY <2>1, <2>2, <1>1, <1>4, <1>5, <1>6, <1>7 DEF LinearReadLength
<1> QED BY <1>4, <1>7, <1>11, <1>12, <1>13, <1>14 DEF Content, m, w1, b1, rd

(* lwrb_skip frees exactly the block it is given. *)
LEMMA SkipFrees ==
    ASSUME NEW size \in Nat \ {0}, NEW w0 \in 0 .. size - 1,
           NEW r0 \in 0 .. size - 1, NEW b \in [0 .. size - 1 -> Nat],
           NEW total \in Nat, NEW freed \in Nat, NEW n \in Nat,
           n <= LinearReadLength(size, w0, r0),
           Content(size, w0, Wrap(size, r0), b, total, freed)
    PROVE  LET r1 == SkipTo(size, w0, r0, n)
           IN  /\ r1 = r0 + n
               /\ r1 \in 0 .. size
               /\ Wrap(size, r1) \in 0 .. size - 1
               /\ Content(size, w0, Wrap(size, r1), b, total, freed + n)
<1>1. n <= GetFull(size, w0, r0) /\ r0 + n <= size
  BY DEF LinearReadLength, GetFull
<1>2. SkipTo(size, w0, r0, n) = r0 + n
  BY <1>1 DEF SkipTo, Lesser, GetFull
<1>3. Wrap(size, r0) = r0
  BY DEF Wrap
<1>4. Wrap(size, r0 + n) \in 0 .. size - 1
  BY <1>1 DEF Wrap
<1>5. Content(size, w0, Wrap(size, r0 + n), b, total, freed + n)
  <2>1. CASE r0 + n = size
    <3>1. Wrap(size, r0 + n) = 0
      BY <2>1 DEF Wrap
    <3>2. total = freed + GetFull(size, w0, r0)
      BY <1>3 DEF Content
    <3>3. total = freed + n + GetFull(size, w0, 0)
      BY <3>2, <2>1, <1>1 DEF GetFull, LinearReadLength
    <3>4. ASSUME NEW i \in 0 .. size - 1, 0 < w0, i < w0
          PROVE  b[i] = freed + n + 1 + i
      <4>1. w0 < r0
        BY <2>1 DEF LinearReadLength
      <4>2. b[i] = freed + 1 + i + size - r0
        BY <4>1, <3>4, <1>3 DEF Content
      <4> QED BY <4>2, <2>1
    <3> QED BY <3>1, <3>3, <3>4 DEF Content
  <2>2. CASE r0 + n # size
    <3>1. Wrap(size, r0 + n) = r0 + n
      BY <2>2, <1>1 DEF Wrap
    <3>2. total = freed + GetFull(size, w0, r0)
      BY <1>3 DEF Content
    <3>3. total = freed + n + GetFull(size, w0, r0 + n)
      BY <3>2, <2>2, <1>1 DEF GetFull, LinearReadLength
    <3>4. ASSUME NEW i \in 0 .. size - 1
          PROVE  /\ w0 > r0 + n /\ r0 + n <= i /\ i < w0 =>
                        b[i] = freed + n + 1 + i - (r0 + n)
                 /\ w0 < r0 + n /\ r0 + n <= i =>
                        b[i] = freed + n + 1 + i - (r0 + n)
                 /\ w0 < r0 + n /\ i < w0 =>
                        b[i] = freed + n + 1 + i + size - (r0 + n)
      BY <2>2, <1>1, <1>3 DEF Content, LinearReadLength
    <3> QED BY <3>1, <3>3, <3>4 DEF Content
  <2> QED BY <2>1, <2>2
<1> QED BY <1>1, <1>2, <1>4, <1>5
-----------------------------------------------------------------------------
(* The inductive invariant.  Freed(k) counts the bytes of ring k that      *)
(* lwrb_skip has released: all the parsed ones but those of the block in   *)
(* hand.                                                                   *)
Freed(k) == Len(delivered[k]) - (IF k = cur THEN pos ELSE 0)

RingInv(k) ==
    /\ Freed(k) \in Nat
    /\ Content(Size, w[k], Wrap(Size, r[k]), slots[k], accepted[k], Freed(k))
    /\ r[k] = Size => pc = "wrap" /\ k = cur

BlockInv ==
    /\ pc \in {"process", "skip"} =>
          len <= LinearReadLength(Size, w[cur], r[cur])
    /\ pc = "process" => pos < len
    /\ pc = "skip" => pos = len
    /\ pc \in {"take", "len", "wrap"} => pos = 0

(* With no notification pending, the rings already visited are empty. *)
DrainInv ==
    ~notified =>
        \A k \in Rings : pc = "take" \/ k < cur => w[k] = r[k]

IInv == /\ TypeOK
        /\ InOrderOnce
        /\ BlockInv
        /\ DrainInv
        /\ \A k \in Rings : RingInv(k)

LEMMA InitIInv == Init => IInv
<1> SUFFICES ASSUME Init PROVE IInv
  OBVIOUS
<1> USE NRingsAssumption, SizeAssumption
<1>1. 0 \in 0 .. Size - 1 /\ 1 \in Rings
  BY DEF Rings
<1>2. TypeOK
  <2>1. delivered \in [Rings -> Seq(Nat)]
    <3>1. <<>> \in Seq(Nat)
      OBVIOUS
    <3> QED BY <3>1, Zenon DEF Init
  <2>2. slots \in [Rings -> [0 .. Size - 1 -> Nat]]
    BY DEF Init
  <2>3. /\ w \in [Rings -> 0 .. Size - 1] /\ r \in [Rings -> 0 .. Size]
        /\ accepted \in [Rings -> Nat]
    BY <1>1 DEF Init
  <2> QED BY <1>1, <2>1, <2>2, <2>3 DEF Init, TypeOK
<1>3. InOrderOnce /\ BlockInv /\ DrainInv
  BY <1>1 DEF Init, InOrderOnce, BlockInv, DrainInv
<1>4. ASSUME NEW k \in Rings PROVE RingInv(k)
  <2>1. Freed(k) = 0
    BY DEF Init, Freed
  <2>2. Wrap(Size, r[k]) = 0 /\ w[k] = 0 /\ accepted[k] = 0
    BY DEF Init, Wrap
  <2> QED BY <2>1, <2>2 DEF Init, RingInv, Content, GetFull
<1> QED BY <1>2, <1>3, <1>4 DEF IInv

LEMMA FillerStep ==
    ASSUME IInv, NEW k \in Rings, NEW n \in 0 .. MaxBurst, RxRingFiller(k, n)
    PROVE  IInv'
<1> USE NRingsAssumption, SizeAssumption, MaxBurstAssumption
<1>1. /\ w[k] \in 0 .. Size - 1 /\ r[k] \in 0 .. Size
      /\ slots[k] \in [0 .. Size - 1 -> Nat]
      /\ accepted[k] \in Nat /\ Freed(k) \in Nat
      /\ Content(Size, w[k], Wrap(Size, r[k]), slots[k], accepted[k], Freed(k))
  BY DEF IInv, TypeOK, RingInv
<1> DEFINE m  == Accepted(Size, w[k], r[k], n)
           w1 == WriteIndex(Size, w[k], r[k], n)
           b1 == WriteSlots(Size, w[k], r[k], slots[k], Burst(k, n))
<1>2. /\ m \in Nat
      /\ w1 \in 0 .. Size - 1
      /\ b1 \in [0 .. Size - 1 -> Nat]
      /\ Content(Size, w1, Wrap(Size, r[k]), b1, accepted[k] + m, Freed(k))
      /\ r[k] < Size => LinearReadLength(Size, w1, r[k])
                          >= LinearReadLength(Size, w[k], r[k])
  <2>1. n \in Nat /\ Size \in Nat \ {0}
    OBVIOUS
  <2>2. Burst(k, n) = [i \in 1 .. n |-> accepted[k] + i]
    BY DEF Burst
  <2> HIDE DEF m, w1, b1
  <2> QED BY <2>1, <2>2, <1>1, WriteAppends DEF m, w1, b1
<1>3. /\ slots' = [slots EXCEPT ![k] = b1]
      /\ w' = [w EXCEPT ![k] = w1]
      /\ accepted' = [accepted EXCEPT ![k] = accepted[k] + m]
      /\ notified' = TRUE
      /\ r' = r /\ delivered' = delivered /\ pc' = pc /\ cur' = cur
      /\ len' = len /\ pos' = pos
  BY DEF RxRingFiller, taskVars
<1> HIDE DEF m, w1, b1
<1>4. TypeOK'
  <2>1. slots' \in [Rings -> [0 .. Size - 1 -> Nat]]
    BY <1>2, <1>3 DEF IInv, TypeOK
  <2>2. w' \in [Rings -> 0 .. Size - 1]
    BY <1>2, <1>3 DEF IInv, TypeOK
  <2>3. accepted' \in [Rings -> Nat]
    <3>1. accepted \in [Rings -> Nat]
      BY DEF IInv, TypeOK
    <3>2. accepted[k] + m \in Nat
      BY <1>1, <1>2
    <3> QED BY <3>1, <3>2, <1>3
  <2> QED BY <2>1, <2>2, <2>3, <1>3 DEF IInv, TypeOK
<1>5. InOrderOnce' /\ DrainInv'
  BY <1>3 DEF IInv, InOrderOnce, DrainInv
<1>6. BlockInv'
  <2>1. CASE cur = k
    <3>1. pc \in {"process", "skip"} => r[k] < Size
      BY <1>1, <2>1 DEF IInv, RingInv
    <3>2. w'[cur] = w1
      BY <1>3, <2>1 DEF IInv, TypeOK
    <3>3. pc \in {"process", "skip"} =>
            LinearReadLength(Size, w1, r[k]) >= LinearReadLength(Size, w[k], r[k])
      BY <3>1, <1>2
    <3>4. /\ LinearReadLength(Size, w1, r[k]) \in Int
          /\ LinearReadLength(Size, w[k], r[k]) \in Int
          /\ len \in Int
      <4>1. len \in 0 .. Size
        BY DEF IInv, TypeOK
      <4> QED BY <4>1, <1>1, <1>2 DEF LinearReadLength
    <3> QED BY <3>2, <3>3, <3>4, <2>1, <1>3 DEF IInv, BlockInv
  <2>2. CASE cur # k
    <3>1. w'[cur] = w[cur]
      BY <1>3, <2>2 DEF IInv, TypeOK
    <3> QED BY <3>1, <1>3 DEF IInv, BlockInv
  <2> QED BY <2>1, <2>2
<1>7. ASSUME NEW j \in Rings PROVE RingInv(j)'
  <2>1. Freed(j)' = Freed(j)
    BY <1>3 DEF Freed
  <2>2. CASE j = k
    <3>1. w'[j] = w1 /\ slots'[j] = b1 /\ accepted'[j] = accepted[k] + m
      BY <1>3, <2>2 DEF IInv, TypeOK
    <3> QED BY <3>1, <2>1, <2>2, <1>2, <1>3 DEF IInv, RingInv
  <2>3. CASE j # k
    <3>1. w'[j] = w[j] /\ slots'[j] = slots[j] /\ accepted'[j] = accepted[j]
      BY <1>3, <2>3 DEF IInv, TypeOK
    <3> QED BY <3>1, <2>1, <1>3 DEF IInv, RingInv
  <2> QED BY <2>2, <2>3
<1> QED BY <1>4, <1>5, <1>6, <1>7 DEF IInv

LEMMA NotifyTakeStep == IInv /\ NotifyTake => IInv'
<1> SUFFICES ASSUME IInv, NotifyTake PROVE IInv'
  OBVIOUS
<1>1. /\ slots' = slots /\ w' = w /\ r' = r /\ accepted' = accepted
      /\ delivered' = delivered /\ len' = len /\ pos' = pos
      /\ pc = "take" /\ pc' = "len" /\ notified' = FALSE /\ cur' = 1
  BY DEF NotifyTake, ringVars
<1>2. 1 \in Rings /\ \A k \in Rings : k >= 1
  BY NRingsAssumption DEF Rings
<1>3. pos = 0
  BY <1>1 DEF IInv, BlockInv
<1>4. TypeOK' /\ InOrderOnce' /\ BlockInv'
  BY <1>1, <1>2, <1>3 DEF IInv, TypeOK, InOrderOnce, BlockInv
<1>5. DrainInv'
  BY <1>1, <1>2 DEF DrainInv, Rings
<1>6. ASSUME NEW k \in Rings PROVE RingInv(k)'
  <2>1. Freed(k)' = Freed(k)
    BY <1>1, <1>3 DEF Freed
  <2> QED BY <2>1, <1>1 DEF IInv, RingInv
<1> QED BY <1>4, <1>5, <1>6 DEF IInv

LEMMA LinearBlockStep == IInv /\ LinearBlock => IInv'
<1> SUFFICES ASSUME IInv, LinearBlock PROVE IInv'
  OBVIOUS
<1> USE NRingsAssumption, SizeAssumption
<1> DEFINE l == LinearReadLength(Size, w[cur], r[cur])
<1>1. /\ slots' = slots /\ w' = w /\ r' = r /\ accepted' = accepted
      /\ delivered' = delivered /\ notified' = notified
      /\ pc = "len" /\ pos' = 0 /\ len' = l
      /\ \/ l > 0 /\ pc' = "process" /\ cur' = cur
         \/ ~(l > 0) /\ cur < NRings /\ pc' = "len" /\ cur' = cur + 1
         \/ ~(l > 0) /\ ~(cur < NRings) /\ pc' = "take" /\ cur' = cur
  BY DEF LinearBlock, ringVars
<1>2. cur \in Rings /\ w[cur] \in 0 .. Size - 1 /\ r[cur] \in 0 .. Size
      /\ r[cur] # Size /\ pos = 0
  BY <1>1 DEF IInv, TypeOK, RingInv, BlockInv
<1>3. l \in 0 .. Size /\ (l = 0 <=> w[cur] = r[cur])
  BY <1>2 DEF LinearReadLength
<1> HIDE DEF l
<1>4. cur' \in Rings
  BY <1>1, <1>2 DEF Rings
<1>5. TypeOK'
  <2>1. len' \in 0 .. Size /\ pos' \in 0 .. Size
    BY <1>1, <1>3
  <2> QED BY <2>1, <1>1, <1>4 DEF IInv, TypeOK
<1>6. InOrderOnce'
  BY <1>1 DEF IInv, InOrderOnce
<1>7. BlockInv'
  <2>1. CASE l > 0
    BY <2>1, <1>1, <1>3 DEF BlockInv, l
  <2>2. CASE ~(l > 0)
    BY <2>2, <1>1 DEF BlockInv
  <2> QED BY <2>1, <2>2
<1>8. DrainInv'
  <2> SUFFICES ASSUME ~notified, NEW k \in Rings, pc' = "take" \/ k < cur'
               PROVE  w[k] = r[k]
    BY <1>1 DEF DrainInv
  <2>1. k < cur => w[k] = r[k]
    BY <1>1 DEF IInv, DrainInv
  <2>2. CASE l > 0
    BY <2>1, <2>2, <1>1
  <2>3. CASE ~(l > 0)
    <3>1. w[cur] = r[cur]
      BY <2>3, <1>3
    <3>2. k <= cur
      BY <2>3, <1>1, <1>2 DEF Rings
    <3> QED BY <3>1, <3>2, <2>1, <1>2 DEF Rings
  <2> QED BY <2>2, <2>3
<1>9. ASSUME NEW k \in Rings PROVE RingInv(k)'
  <2>1. Freed(k)' = Freed(k)
    BY <1>1, <1>2 DEF Freed
  <2>2. r[k] # Size
    BY <1>1 DEF IInv, RingInv
  <2> QED BY <2>1, <2>2, <1>1 DEF IInv, RingInv
<1> QED BY <1>5, <1>6, <1>7, <1>8, <1>9 DEF IInv

LEMMA ProcessByteStep == IInv /\ ProcessByte => IInv'
<1> SUFFICES ASSUME IInv, ProcessByte PROVE IInv'
  OBVIOUS
<1> USE NRingsAssumption, SizeAssumption
<1> DEFINE byte == slots[cur][r[cur] + pos]
<1>1. /\ slots' = slots /\ w' = w /\ r' = r /\ accepted' = accepted
      /\ notified' = notified /\ cur' = cur /\ len' = len
      /\ pc = "process" /\ pos' = pos + 1
      /\ delivered' = [delivered EXCEPT ![cur] = Append(@, byte)]
      /\ \/ pos + 1 = len /\ pc' = "skip"
         \/ pos + 1 # len /\ pc' = "process"
  BY DEF ProcessByte, ringVars
<1>2. /\ cur \in Rings
      /\ w[cur] \in 0 .. Size - 1 /\ r[cur] \in 0 .. Size - 1
      /\ slots[cur] \in [0 .. Size - 1 -> Nat]
      /\ accepted[cur] \in Nat /\ delivered[cur] \in Seq(Nat)
      /\ len \in 0 .. Size /\ pos \in 0 .. Size
      /\ pos < len /\ len <= LinearReadLength(Size, w[cur], r[cur])
  BY <1>1 DEF IInv, TypeOK, RingInv, BlockInv
<1>3. /\ Freed(cur) = Len(delivered[cur]) - pos
      /\ Content(Size, w[cur], r[cur], slots[cur], accepted[cur], Freed(cur))
      /\ Freed(cur) \in Nat
  BY <1>2 DEF IInv, RingInv, Freed, Wrap
<1>4. Len(delivered[cur]) \in Nat
  BY <1>2
<1>5. r[cur] + pos \in 0 .. Size - 1
  BY <1>2 DEF LinearReadLength
<1>6. byte = Len(delivered[cur]) + 1
  <2>1. byte = Freed(cur) + 1 + (r[cur] + pos) - r[cur]
    <3>0. PICK j \in 0 .. Size - 1 : j = r[cur] + pos
      BY <1>5
    <3>9. byte = slots[cur][j]
      BY <3>0
    <3>1. CASE w[cur] > r[cur]
      <4>1. r[cur] <= j /\ j < w[cur]
        BY <3>1, <3>0, <1>2 DEF LinearReadLength
      <4> QED BY <3>1, <3>9, <3>0, <4>1, <1>3 DEF Content
    <3>2. CASE w[cur] < r[cur]
      <4>1. r[cur] <= j
        BY <3>0, <1>2
      <4> QED BY <3>2, <3>9, <3>0, <4>1, <1>3 DEF Content
    <3> QED BY <3>1, <3>2, <1>2 DEF LinearReadLength
  <2> HIDE DEF byte
  <2> QED BY <2>1, <1>2, <1>3, <1>4
<1>7. byte \in Nat
  <2> HIDE DEF byte
  <2> QED BY <1>4, <1>6
<1> HIDE DEF byte
<1>8. /\ delivered'[cur] = Append(delivered[cur], byte)
      /\ delivered'[cur] \in Seq(Nat)
      /\ Len(delivered'[cur]) = Len(delivered[cur]) + 1
      /\ \A k \in Rings : k # cur => delivered'[k] = delivered[k]
  BY <1>1, <1>2, <1>7 DEF IInv, TypeOK
<1>9. TypeOK'
  <2>1. delivered' \in [Rings -> Seq(Nat)]
    BY <1>1, <1>8 DEF IInv, TypeOK
  <2>2. pos' \in 0 .. Size
    BY <1>1, <1>2
  <2> QED BY <2>1, <2>2, <1>1 DEF IInv, TypeOK
<1>10. InOrderOnce'
  <2> SUFFICES ASSUME NEW k \in Rings, NEW i \in 1 .. Len(delivered'[k])
               PROVE  delivered'[k][i] = i
    BY DEF InOrderOnce
  <2>1. CASE k = cur
    <3>1. CASE i = Len(delivered[cur]) + 1
      BY <3>1, <2>1, <1>2, <1>6, <1>7, <1>8
    <3>2. CASE i # Len(delivered[cur]) + 1
      <4>1. i \in 1 .. Len(delivered[cur])
        BY <3>2, <2>1, <1>4, <1>8
      <4>2. delivered[cur][i] = i
        BY <4>1, <1>2 DEF IInv, InOrderOnce
      <4> QED BY <4>1, <4>2, <2>1, <1>2, <1>7, <1>8
    <3> QED BY <3>1, <3>2
  <2>2. CASE k # cur
    BY <2>2, <1>8 DEF IInv, InOrderOnce
  <2> QED BY <2>1, <2>2
<1>11. BlockInv'
  BY <1>1, <1>2 DEF BlockInv
<1>12. DrainInv'
  BY <1>1 DEF IInv, DrainInv
<1>13. ASSUME NEW k \in Rings PROVE RingInv(k)'
  <2>1. Freed(k)' = Freed(k)
    <3>1. CASE k = cur
      BY <3>1, <1>1, <1>2, <1>4, <1>8 DEF Freed
    <3>2. CASE k # cur
      BY <3>2, <1>1, <1>8 DEF Freed
    <3> QED BY <3>1, <3>2
  <2>2. r[k] # Size
    BY <1>1 DEF IInv, RingInv
  <2> QED BY <2>1, <2>2, <1>1 DEF IInv, RingInv
<1> QED BY <1>9, <1>10, <1>11, <1>12, <1>13 DEF IInv

LEMMA SkipAddStep == IInv /\ SkipAdd => IInv'
<1> SUFFICES ASSUME IInv, SkipAdd PROVE IInv'
  OBVIOUS
<1> USE NRingsAssumption, SizeAssumption
<1> DEFINE r1 == SkipTo(Size, w[cur], r[cur], len)
<1>1. /\ slots' = slots /\ w' = w /\ accepted' = accepted
      /\ delivered' = delivered /\ notified' = notified
      /\ cur' = cur /\ len' = len
      /\ pc = "skip" /\ pc' = "wrap" /\ pos' = 0
      /\ r' = [r EXCEPT ![cur] = r1]
  BY DEF SkipAdd
<1>2. /\ cur \in Rings
      /\ w[cur] \in 0 .. Size - 1 /\ r[cur] \in 0 .. Size - 1
      /\ slots[cur] \in [0 .. Size - 1 -> Nat]
      /\ accepted[cur] \in Nat /\ Freed(cur) \in Nat
      /\ len \in Nat /\ pos = len
      /\ len <= LinearReadLength(Size, w[cur], r[cur])
      /\ Content(Size, w[cur], Wrap(Size, r[cur]), slots[cur],
                 accepted[cur], Freed(cur))
  BY <1>1 DEF IInv, TypeOK, RingInv, BlockInv
<1> HIDE DEF r1
<1>3. /\ r1 \in 0 .. Size
      /\ Content(Size, w[cur], Wrap(Size, r1), slots[cur],
                 accepted[cur], Freed(cur) + len)
  BY <1>2, SkipFrees DEF r1
<1>4. TypeOK'
  <2>1. r' \in [Rings -> 0 .. Size]
    BY <1>1, <1>3 DEF IInv, TypeOK
  <2> QED BY <2>1, <1>1 DEF IInv, TypeOK
<1>5. InOrderOnce' /\ BlockInv'
  BY <1>1 DEF IInv, InOrderOnce, BlockInv
<1>6. DrainInv'
  <2> SUFFICES ASSUME ~notified, NEW k \in Rings, k < cur
               PROVE  w[k] = r'[k]
    BY <1>1 DEF DrainInv
  <2>1. k # cur
    BY DEF Rings
  <2> QED BY <2>1, <1>1, <1>2 DEF IInv, TypeOK, DrainInv
<1>7. ASSUME NEW k \in Rings PROVE RingInv(k)'
  <2>1. CASE k = cur
    <3>1. Freed(k)' = Freed(cur) + len
      <4>1. Len(delivered[cur]) \in Nat
        BY <1>2 DEF IInv, TypeOK
      <4> QED BY <4>1, <2>1, <1>1, <1>2 DEF Freed
    <3>2. r'[k] = r1
      BY <2>1, <1>1, <1>2 DEF IInv, TypeOK
    <3> QED BY <3>1, <3>2, <2>1, <1>1, <1>2, <1>3 DEF RingInv
  <2>2. CASE k # cur
    <3>1. Freed(k)' = Freed(k) /\ r'[k] = r[k]
      BY <2>2, <1>1 DEF Freed, IInv, TypeOK
    <3>2. r[k] # Size
      BY <1>1 DEF IInv, RingInv
    <3> QED BY <3>1, <3>2, <1>1 DEF IInv, RingInv
  <2> QED BY <2>1, <2>2
<1> QED BY <1>4, <1>5, <1>6, <1>7 DEF IInv

LEMMA SkipWrapStep == IInv /\ SkipWrap => IInv'
<1> SUFFICES ASSUME IInv, SkipWrap PROVE IInv'
  OBVIOUS
<1> USE NRingsAssumption, SizeAssumption
<1>1. /\ slots' = slots /\ w' = w /\ accepted' = accepted
      /\ delivered' = delivered /\ notified' = notified
      /\ cur' = cur /\ len' = len /\ pos' = pos
      /\ pc = "wrap" /\ pc' = "len"
      /\ r' = [r EXCEPT ![cur] = Wrap(Size, r[cur])]
  BY DEF SkipWrap
<1>2. cur \in Rings /\ r[cur] \in 0 .. Size /\ pos = 0
  BY <1>1 DEF IInv, TypeOK, BlockInv
<1>3. /\ Wrap(Size, r[cur]) \in 0 .. Size - 1
      /\ Wrap(Size, Wrap(Size, r[cur])) = Wrap(Size, r[cur])
  BY <1>2 DEF Wrap
<1>4. TypeOK'
  <2>1. r' \in [Rings -> 0 .. Size]
    BY <1>1, <1>3 DEF IInv, TypeOK
  <2> QED BY <2>1, <1>1 DEF IInv, TypeOK
<1>5. InOrderOnce' /\ BlockInv'
  BY <1>1, <1>2 DEF IInv, InOrderOnce, BlockInv
<1>6. DrainInv'
  <2> SUFFICES ASSUME ~notified, NEW k \in Rings, k < cur
               PROVE  w[k] = r'[k]
    BY <1>1 DEF DrainInv
  <2>1. k # cur
    BY DEF Rings
  <2> QED BY <2>1, <1>1, <1>2 DEF IInv, TypeOK, DrainInv
<1>7. ASSUME NEW k \in Rings PROVE RingInv(k)'
  <2>1. Freed(k)' = Freed(k)
    BY <1>1 DEF Freed
  <2>2. CASE k = cur
    <3>1. r'[k] = Wrap(Size, r[k]) /\ r'[k] # Size
      BY <2>2, <1>1, <1>3 DEF IInv, TypeOK
    <3> QED BY <3>1, <2>1, <2>2, <1>1, <1>3 DEF IInv, RingInv
  <2>3. CASE k # cur
    <3>1. r'[k] = r[k] /\ r[k] # Size
      BY <2>3, <1>1 DEF IInv, TypeOK, RingInv
    <3> QED BY <3>1, <2>1, <1>1 DEF IInv, RingInv
  <2> QED BY <2>2, <2>3
<1> QED BY <1>4, <1>5, <1>6, <1>7 DEF IInv

LEMMA NextIInv == IInv /\ [Next]_vars => IInv'
<1> SUFFICES ASSUME IInv, [Next]_vars PROVE IInv'
  OBVIOUS
<1>1. CASE Task
  BY <1>1, NotifyTakeStep, LinearBlockStep, ProcessByteStep, SkipAddStep,
     SkipWrapStep DEF Task
<1>2. CASE Interrupt
  BY <1>2, FillerStep DEF Interrupt
<1>3. CASE UNCHANGED vars
  BY <1>3 DEF vars, ringVars, taskVars, IInv, TypeOK, InOrderOnce, BlockInv,
              DrainInv, RingInv, Freed
<1> QED BY <1>1, <1>2, <1>3 DEF Next

(* IInv holds in every reachable state. *)
THEOREM Invariance == Spec => []IInv
BY InitIInv, NextIInv, PTL DEF Spec

(* The types: in particular both indices stay inside the ring between two  *)
(* calls and r never passes the size inside lwrb_skip.                     *)
THEOREM TypeCorrect == Spec => []TypeOK
<1>1. IInv => TypeOK
  BY DEF IInv
<1> QED BY <1>1, Invariance, PTL

(* What RxRingProcess is given is the accepted byte stream, in order and   *)
(* without repetition, for every interleaving of the receive interrupts    *)
(* with the in-place parsing and with lwrb_skip.                           *)
THEOREM StreamCorrect == Spec => []InOrderOnce
<1>1. IInv => InOrderOnce
  BY DEF IInv
<1> QED BY <1>1, Invariance, PTL

(* When the task sleeps with no notification, nothing is left unparsed.    *)
THEOREM WakeUpCorrect == Spec => []NoneLeftBehind
<1>1. IInv => NoneLeftBehind
  <2> SUFFICES ASSUME IInv, pc = "take", ~notified, NEW k \in Rings
               PROVE  Len(delivered[k]) = accepted[k]
    BY DEF NoneLeftBehind
  <2>1. w[k] = r[k] /\ pos = 0 /\ r[k] # Size /\ r[k] \in 0 .. Size
    BY DEF IInv, DrainInv, BlockInv, RingInv, TypeOK
  <2>2. Wrap(Size, r[k]) = r[k] /\ GetFull(Size, w[k], r[k]) = 0
    BY <2>1, SizeAssumption DEF Wrap, GetFull
  <2>3. delivered[k] \in Seq(Nat) /\ accepted[k] \in Nat
    BY DEF IInv, TypeOK
  <2>4. Len(delivered[k]) \in Nat
    BY <2>3
  <2>5. Freed(k) = Len(delivered[k])
    BY <2>1, <2>4 DEF Freed
  <2> QED BY <2>2, <2>3, <2>4, <2>5 DEF IInv, RingInv, Content
<1> QED BY <1>1, Invariance, PTL

-----------------------------------------------------------------------------
(* Refinement: read through its indices, a ring is the run of the accepted *)
(* bytes that are not freed, and what was taken from it the run before it. *)
Run(first, n) == [i \in 1 .. n |-> first + i]

LEMMA RunFacts ==
    ASSUME NEW f \in Nat, NEW n \in Nat
    PROVE  Run(f, n) \in Seq(Nat) /\ Len(Run(f, n)) = n /\ (n = 0 => Run(f, n) = <<>>)
BY DEF Run

LEMMA RunAppend ==
    ASSUME NEW f \in Nat, NEW n \in Nat, NEW m \in Nat
    PROVE  Run(f, n) \o Run(f + n, m) = Run(f, n + m)
<1> DEFINE s == Run(f, n) \o Run(f + n, m)
<1>1. s \in Seq(Nat) /\ Len(s) = n + m
  BY RunFacts, f + n \in Nat
<1>2. \A i \in 1 .. n + m : s[i] = f + i
  BY RunFacts DEF Run
<1>3. Run(f, n + m) \in Seq(Nat) /\ Len(Run(f, n + m)) = n + m /\ n + m \in Nat
  BY RunFacts
<1>4. \A i \in 1 .. n + m : Run(f, n + m)[i] = f + i
  BY DEF Run
<1> HIDE DEF s
<1> QED BY <1>1, <1>2, <1>3, <1>4, SeqEqual DEF s

LEMMA RunParts ==
    ASSUME NEW f \in Nat, NEW n \in Nat, NEW m \in 0 .. n
    PROVE  /\ SubSeq(Run(f, n), 1, m) = Run(f, m)
           /\ SubSeq(Run(f, n), m + 1, n) = Run(f + m, n - m)
<1>1. SubSeq(Run(f, n), 1, m) = Run(f, m)
  BY RunFacts DEF Run
<1>2. SubSeq(Run(f, n), m + 1, n) = Run(f + m, n - m)
  BY RunFacts DEF Run
<1> QED BY <1>1, <1>2

Waiting(k) == accepted[k] - Freed(k)

Mapped ==
    /\ \A k \in Rings : /\ Freed(k) \in Nat /\ accepted[k] \in Nat /\ Waiting(k) \in Nat
                        /\ Queued(k) = Run(Freed(k), Waiting(k))
                        /\ Taken(k) = Run(0, Freed(k))

LEMMA ModFacts ==
    ASSUME NEW i \in Nat, i < 2 * Size
    PROVE  i % Size = IF i < Size THEN i ELSE i - Size
<1>1. Size \in Nat \ {0}
  BY SizeAssumption
<1>2. CASE i < Size
  BY <1>1, <1>2
<1>3. CASE i >= Size
  <2>1. i - Size \in 0 .. Size - 1 /\ i = (i - Size) + 1 * Size
    BY <1>1, <1>3
  <2> QED BY <1>1, <2>1, <1>3
<1> QED BY <1>1, <1>2, <1>3

LEMMA InvMapped == IInv => Mapped
<1> SUFFICES ASSUME IInv, NEW k \in Rings
             PROVE  /\ Freed(k) \in Nat /\ accepted[k] \in Nat /\ Waiting(k) \in Nat
                    /\ Queued(k) = Run(Freed(k), Waiting(k))
                    /\ Taken(k) = Run(0, Freed(k))
  BY DEF Mapped
<1> DEFINE start == Wrap(Size, r[k])
           full == GetFull(Size, w[k], start)
           b == slots[k]
<1>1. /\ w[k] \in 0 .. Size - 1 /\ r[k] \in 0 .. Size /\ Size \in Nat \ {0}
      /\ accepted[k] \in Nat /\ Freed(k) \in Nat /\ delivered[k] \in Seq(Nat)
      /\ Content(Size, w[k], start, b, accepted[k], Freed(k))
  BY SizeAssumption DEF IInv, TypeOK, RingInv
<1>2. start \in 0 .. Size - 1
  BY <1>1 DEF Wrap
<1>3. Queued(k) = [i \in 1 .. full |-> b[(start + i - 1) % Size]]
  BY DEF Queued
<1> HIDE DEF start, b
<1>4. full \in 0 .. Size - 1 /\ full = Waiting(k)
  BY <1>1, <1>2 DEF GetFull, Waiting, Content
<1>5. ASSUME NEW i \in 1 .. full PROVE b[(start + i - 1) % Size] = Freed(k) + i
  <2> DEFINE j == start + i - 1
  <2>1. j \in Nat /\ j < 2 * Size
    BY <1>1, <1>2, <1>4
  <2>2. j % Size = IF j < Size THEN j ELSE j - Size
    BY <2>1, ModFacts
  <2>3. CASE w[k] > start
    <3>1. full = w[k] - start
      BY <1>1, <1>2, <2>3 DEF GetFull
    <3>2. j \in 0 .. Size - 1 /\ start <= j /\ j < w[k]
      BY <1>1, <1>2, <3>1
    <3>3. b[j] = Freed(k) + 1 + j - start
      BY <1>1, <2>3, <3>2 DEF Content
    <3> QED BY <1>1, <1>2, <2>2, <3>2, <3>3
  <2>4. CASE w[k] < start
    <3>1. full = Size - (start - w[k])
      BY <1>1, <1>2, <2>4 DEF GetFull
    <3>2. CASE j < Size
      <4>1. j \in 0 .. Size - 1 /\ start <= j
        BY <1>1, <1>2, <3>2
      <4>2. b[j] = Freed(k) + 1 + j - start
        BY <1>1, <2>4, <4>1 DEF Content
      <4> QED BY <1>1, <1>2, <2>2, <3>2, <4>2
    <3>3. CASE ~(j < Size)
      <4>1. j - Size \in 0 .. Size - 1 /\ j - Size < w[k]
        BY <1>1, <1>2, <3>1, <3>3
      <4>2. b[j - Size] = Freed(k) + 1 + (j - Size) + Size - start
        BY <1>1, <2>4, <4>1 DEF Content
      <4> QED BY <1>1, <1>2, <2>2, <3>3, <4>2
    <3> QED BY <3>2, <3>3
  <2>5. CASE w[k] = start
    BY <1>4, <2>5 DEF GetFull
  <2> QED BY <1>1, <1>2, <2>3, <2>4, <2>5
<1>6. Queued(k) = Run(Freed(k), Waiting(k))
  <2> HIDE DEF full
  <2> QED BY <1>3, <1>4, <1>5 DEF Run
<1>7. Taken(k) = Run(0, Freed(k))
  <2>1. Taken(k) = SubSeq(delivered[k], 1, Freed(k)) /\ Freed(k) <= Len(delivered[k])
    <3>1. pos \in Nat /\ Len(delivered[k]) \in Nat
      BY <1>1 DEF IInv, TypeOK
    <3>2. Freed(k) = Len(delivered[k]) - Parsing(k) /\ Parsing(k) \in Nat
      BY <3>1 DEF Freed, Parsing
    <3>3. Taken(k) = SubSeq(delivered[k], 1, Freed(k))
      BY <3>2 DEF Taken
    <3> QED BY <1>1, <3>1, <3>2, <3>3
  <2>2. \A i \in 1 .. Freed(k) : delivered[k][i] = 0 + i
    BY <1>1, <2>1 DEF IInv, InOrderOnce
  <2>3. \A i \in 1 .. Freed(k) : delivered[k][i] \in Nat
    BY <1>1, <2>2
  <2>4. /\ SubSeq(delivered[k], 1, Freed(k)) \in Seq(Nat)
        /\ Len(SubSeq(delivered[k], 1, Freed(k))) = Freed(k)
        /\ \A i \in 1 .. Freed(k) : SubSeq(delivered[k], 1, Freed(k))[i] = 0 + i
    BY <1>1, <2>1, <2>2
  <2>5. /\ Run(0, Freed(k)) \in Seq(Nat) /\ Len(Run(0, Freed(k))) = Freed(k)
        /\ \A i \in 1 .. Freed(k) : Run(0, Freed(k))[i] = 0 + i
    BY <1>1, RunFacts DEF Run
  <2> QED BY <2>1, <2>4, <2>5, SeqEqual
<1> QED BY <1>1, <1>4, <1>6, <1>7

(* The queues of ByteFifo, as the rings hold them.                         *)
Queues == [k \in Rings |-> Queued(k)]
Takens == [k \in Rings |-> Taken(k)]

LEMMA InitRefines == Init /\ Mapped => Fifo!Init
<1> SUFFICES ASSUME Init, Mapped PROVE Fifo!Init
  OBVIOUS
<1>1. ASSUME NEW k \in Rings PROVE Queued(k) = <<>> /\ Taken(k) = <<>>
  <2>1. Freed(k) = 0 /\ Waiting(k) = 0
    BY DEF Init, Freed, Waiting
  <2> QED BY <2>1, RunFacts DEF Mapped
<1> QED BY <1>1 DEF Fifo!Init, Fifo!Rings, Rings

(* A step that frees no byte and accepts none does not show.               *)
LEMMA StutterRefines ==
    ASSUME Mapped, Mapped', accepted' = accepted, \A k \in Rings : Freed(k)' = Freed(k)
    PROVE  UNCHANGED <<Queues, Takens>>
<1>1. ASSUME NEW k \in Rings PROVE Queued(k)' = Queued(k) /\ Taken(k)' = Taken(k)
  <2>1. Waiting(k)' = Waiting(k)
    BY DEF Waiting
  <2> QED BY <2>1 DEF Mapped
<1> QED BY <1>1 DEF Queues, Takens

(* An interrupt puts the bytes that fit, and those only.                   *)
LEMMA FillerRefines ==
    ASSUME IInv, Mapped, Mapped', NEW k \in Rings, NEW n \in 0 .. MaxBurst, RxRingFiller(k, n)
    PROVE  UNCHANGED <<Queues, Takens>> \/ (n \in 1 .. MaxBurst /\ Fifo!Put(k, n))
<1> DEFINE m == Accepted(Size, w[k], r[k], n)
<1>1. /\ accepted' = [accepted EXCEPT ![k] = accepted[k] + m]
      /\ \A j \in Rings : Freed(j)' = Freed(j)
  BY DEF RxRingFiller, taskVars, Freed
<1>2. /\ w[k] \in 0 .. Size - 1 /\ r[k] \in 0 .. Size /\ Size \in Nat \ {0} /\ n \in Nat
      /\ accepted \in [Rings -> Nat] /\ Freed(k) \in Nat /\ Waiting(k) \in Nat
      /\ Content(Size, w[k], Wrap(Size, r[k]), slots[k], accepted[k], Freed(k))
  BY SizeAssumption, MaxBurstAssumption DEF IInv, TypeOK, RingInv, Mapped
<1>3. m \in Nat /\ m = IF n <= Size - 1 - Waiting(k) THEN n ELSE Size - 1 - Waiting(k)
  <2>1. Waiting(k) = GetFull(Size, w[k], Wrap(Size, r[k]))
    BY <1>2 DEF Waiting, Content, GetFull, Wrap
  <2>2. GetFree(Size, w[k], r[k]) = Size - 1 - Waiting(k) /\ Waiting(k) <= Size - 1
    BY <1>2, <2>1 DEF GetFree, GetFull, Wrap
  <2> QED BY <1>2, <2>2 DEF Accepted, Lesser
<1> HIDE DEF m
<1>4. ASSUME NEW j \in Rings PROVE Taken(j)' = Taken(j)
  BY <1>1 DEF Mapped
<1>5. ASSUME NEW j \in Rings, j # k PROVE Queued(j)' = Queued(j)
  <2>1. Waiting(j)' = Waiting(j)
    BY <1>1, <1>2, <1>5 DEF Waiting
  <2> QED BY <1>1, <2>1 DEF Mapped
<1>6. Queued(k)' = Queued(k) \o Run(accepted[k], m)
  <2>1. Waiting(k)' = Waiting(k) + m /\ Freed(k) + Waiting(k) = accepted[k]
    BY <1>1, <1>2, <1>3 DEF Waiting
  <2>2. Queued(k)' = Run(Freed(k), Waiting(k) + m) /\ Queued(k) = Run(Freed(k), Waiting(k))
    BY <1>1, <2>1 DEF Mapped
  <2>3. Run(Freed(k), Waiting(k)) \o Run(Freed(k) + Waiting(k), m)
           = Run(Freed(k), Waiting(k) + m)
    BY <1>2, <1>3, RunAppend
  <2> QED BY <2>1, <2>2, <2>3
<1>7. CASE n = 0
  <2>1. m = 0
    BY <1>2, <1>3, <1>7 DEF Accepted, Lesser, m
  <2>2. accepted' = accepted
    BY <1>1, <1>2, <2>1
  <2> QED BY <1>1, <2>2, StutterRefines
<1>8. CASE n # 0
  <2>1. n \in 1 .. MaxBurst
    BY <1>2, <1>8, MaxBurstAssumption
  <2>2. Len(Queued(k)) = Waiting(k) /\ Len(Taken(k)) = Freed(k)
    BY <1>2, RunFacts, 0 \in Nat DEF Mapped
  <2>3. Len(Queues[k]) = Waiting(k) /\ Len(Takens[k]) + Len(Queues[k]) = accepted[k]
    BY <1>2, <2>2 DEF Queues, Takens, Waiting
  <2>4. Queues' = [Queues EXCEPT ![k] = @ \o Run(accepted[k], m)]
    BY <1>5, <1>6 DEF Queues
  <2>5. Takens' = Takens
    BY <1>4 DEF Takens
  <2>6. Fifo!Put(k, n)
    BY <1>3, <2>3, <2>4, <2>5 DEF Fifo!Put, Fifo!Count, Queues, Takens, Run
  <2> QED BY <2>1, <2>6
<1> QED BY <1>7, <1>8

(* The first half of lwrb_skip takes the block.                            *)
LEMMA SkipAddRefines ==
    ASSUME IInv, Mapped, Mapped', SkipAdd
    PROVE  /\ len \in 1 .. Len(Queued(cur)) \/ UNCHANGED <<Queues, Takens>>
           /\ Fifo!Take(cur, len)
<1>1. /\ cur \in Rings /\ cur' = cur /\ accepted' = accepted /\ delivered' = delivered
      /\ pos = len /\ pos' = 0 /\ len \in Nat /\ delivered[cur] \in Seq(Nat)
      /\ w[cur] \in 0 .. Size - 1 /\ r[cur] \in 0 .. Size - 1 /\ Size \in Nat \ {0}
      /\ len <= LinearReadLength(Size, w[cur], r[cur])
      /\ Content(Size, w[cur], Wrap(Size, r[cur]), slots[cur], accepted[cur], Freed(cur))
  BY SizeAssumption DEF SkipAdd, IInv, TypeOK, BlockInv, RingInv
<1>2. /\ Freed(cur) \in Nat /\ Waiting(cur) \in Nat /\ accepted[cur] \in Nat
      /\ Queued(cur) = Run(Freed(cur), Waiting(cur)) /\ Taken(cur) = Run(0, Freed(cur))
      /\ Queued(cur)' = Run(Freed(cur)', Waiting(cur)') /\ Taken(cur)' = Run(0, Freed(cur)')
  BY <1>1 DEF Mapped
<1>3. Freed(cur)' = Freed(cur) + len /\ Waiting(cur)' = Waiting(cur) - len
  BY <1>1, <1>2 DEF Freed, Waiting
<1>4. len \in 0 .. Waiting(cur)
  <2>1. Waiting(cur) = GetFull(Size, w[cur], r[cur])
    BY <1>1, <1>2 DEF Waiting, Content, Wrap, GetFull
  <2> QED BY <1>1, <2>1 DEF GetFull, LinearReadLength
<1>5. Len(Queued(cur)) = Waiting(cur)
  BY <1>2, RunFacts
<1>6. ASSUME NEW j \in Rings, j # cur PROVE Queued(j)' = Queued(j) /\ Taken(j)' = Taken(j)
  <2>1. Freed(j)' = Freed(j) /\ Waiting(j)' = Waiting(j)
    BY <1>1, <1>6 DEF Freed, Waiting
  <2> QED BY <2>1 DEF Mapped
<1>7. Queued(cur)' = SubSeq(Queued(cur), len + 1, Len(Queued(cur)))
  BY <1>2, <1>3, <1>4, <1>5, RunParts
<1>8. Taken(cur)' = Taken(cur) \o SubSeq(Queued(cur), 1, len)
  <2>1. SubSeq(Queued(cur), 1, len) = Run(Freed(cur), len)
    BY <1>2, <1>4, RunParts
  <2>2. Run(0, Freed(cur)) \o Run(0 + Freed(cur), len) = Run(0, Freed(cur) + len)
    BY <1>1, <1>2, RunAppend, 0 \in Nat
  <2>3. 0 + Freed(cur) = Freed(cur)
    BY <1>2
  <2>4. Taken(cur)' = Run(0, Freed(cur) + len)
    BY <1>2, <1>3
  <2> QED BY <1>2, <2>1, <2>2, <2>3, <2>4
<1>9. Fifo!Take(cur, len)
  <2>1. Queues' = [Queues EXCEPT ![cur] = SubSeq(@, len + 1, Len(@))]
    BY <1>1, <1>6, <1>7 DEF Queues
  <2>2. Takens' = [Takens EXCEPT ![cur] = @ \o SubSeq(Queues[cur], 1, len)]
    BY <1>1, <1>6, <1>8 DEF Queues, Takens
  <2> QED BY <2>1, <2>2 DEF Fifo!Take, Queues, Takens
<1>10. CASE len = 0
  <2>1. \A k \in Rings : Freed(k)' = Freed(k)
    BY <1>1, <1>2, <1>10 DEF Freed
  <2> QED BY <1>1, <1>9, <2>1, StutterRefines
<1> QED BY <1>1, <1>4, <1>5, <1>9, <1>10

(* Every step of the rings is a step of the queues, or changes neither.    *)
LEMMA NextRefines ==
    ASSUME IInv, Mapped, Mapped', [Next]_vars
    PROVE  Fifo!Next \/ UNCHANGED <<Queues, Takens>>
<1>1. CASE NotifyTake \/ LinearBlock \/ ProcessByte \/ SkipWrap \/ UNCHANGED vars
  <2>1. accepted' = accepted
    BY <1>1 DEF NotifyTake, LinearBlock, ProcessByte, SkipWrap, vars, ringVars
  <2>2. ASSUME NEW k \in Rings PROVE Freed(k)' = Freed(k)
    <3>1. /\ delivered[k] \in Seq(Nat) /\ Len(delivered[k]) \in Nat /\ pos \in Nat
          /\ delivered \in [Rings -> Seq(Nat)]
      BY DEF IInv, TypeOK
    <3>2. CASE NotifyTake \/ LinearBlock \/ SkipWrap \/ UNCHANGED vars
      BY <3>1, <3>2 DEF NotifyTake, LinearBlock, SkipWrap, vars, ringVars, taskVars, IInv,
                        BlockInv, Freed
    <3>3. CASE ProcessByte
      <4>1. delivered'[k] = IF k = cur THEN Append(delivered[k], slots[cur][r[cur] + pos])
                            ELSE delivered[k]
        BY <3>1, <3>3 DEF ProcessByte
      <4>2. Len(delivered'[k]) = Len(delivered[k]) + IF k = cur THEN 1 ELSE 0
        BY <3>1, <4>1
      <4> QED BY <3>1, <3>3, <4>2 DEF ProcessByte, Freed
    <3> QED BY <1>1, <3>2, <3>3
  <2> QED BY <2>1, <2>2, StutterRefines
<1>2. CASE SkipAdd
  <2>1. cur \in Rings /\ Fifo!Take(cur, len)
    BY <1>2, SkipAddRefines DEF IInv, TypeOK
  <2>2. CASE len \in 1 .. Len(Queued(cur))
    BY <2>1, <2>2 DEF Fifo!Next, Fifo!Rings, Rings
  <2> QED BY <1>2, <2>2, SkipAddRefines
<1>3. CASE Interrupt
  <2>1. PICK k \in Rings, n \in 0 .. MaxBurst : RxRingFiller(k, n)
    BY <1>3 DEF Interrupt
  <2>2. UNCHANGED <<Queues, Takens>> \/ (n \in 1 .. MaxBurst /\ Fifo!Put(k, n))
    BY <2>1, FillerRefines
  <2>3. CASE n \in 1 .. MaxBurst /\ Fifo!Put(k, n)
    BY <2>3 DEF Fifo!Next, Fifo!Rings, Rings
  <2> QED BY <2>2, <2>3
<1> QED BY <1>1, <1>2, <1>3 DEF Next, Task

(* The rings and the task that drains them implement the queues of         *)
(* ByteFifo, for any ring size: an accepted burst joins the end of a queue *)
(* with room for Size - 1 bytes, and lwrb_skip takes parsed blocks from    *)
(* its front (lwrb_write, RxRingProcess_buffer, lwrb_skip).                *)
THEOREM RingsAreQueues == Spec => Refinement
<1>1. IInv => Mapped
  BY InvMapped
<1>2. Init /\ Mapped => Fifo!Init
  BY InitRefines
<1>3. IInv /\ Mapped /\ Mapped' /\ [Next]_vars
         => [Fifo!Next]_<<[k \in Rings |-> Queued(k)], [k \in Rings |-> Taken(k)]>>
  BY NextRefines DEF Queues, Takens
<1> QED BY <1>1, <1>2, <1>3, Invariance, PTL DEF Spec, Refinement, Fifo!Spec
=============================================================================
