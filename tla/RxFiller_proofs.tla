--------------------------- MODULE RxFiller_proofs ---------------------------
(***************************************************************************)
(* The hand-over from the UARTs' interrupts to their rings, for any number *)
(* of UARTs sharing old_pos, every length of the buffer and every sequence *)
(* of bytes, timeouts and line errors: AlignedBurstExact and               *)
(* InsideHasCause.                                                         *)
(*                                                                         *)
(* Within an aligned burst old_pos is where the burst's last callback left *)
(* it: at a boundary up to the half of the buffer, at the half from there  *)
(* on.  What was handed over is all but the bytes since then, and these    *)
(* are the last ones in the buffer.  Another UART's interrupt leaves this  *)
(* so, or ends the burst's being aligned.                                  *)
(***************************************************************************)
EXTENDS RxFiller, TLAPS, SequenceTheorems

\* q is the bytes s + 1, ..., s + n.
Run(q, s, n) == q \in Seq(Nat) /\ Len(q) = n /\ \A i \in 1 .. n : q[i] = s + i

LEMMA RunAppend ==
    ASSUME NEW s \in Nat, NEW m \in Nat, NEW n \in Nat, NEW p, NEW q,
           Run(p, s, m), Run(q, s + m, n)
    PROVE  Run(p \o q, s, m + n)
<1>1. p \in Seq(Nat) /\ q \in Seq(Nat) /\ Len(p) = m /\ Len(q) = n
  BY DEF Run
<1>2. p \o q \in Seq(Nat) /\ Len(p \o q) = m + n
  BY <1>1, ConcatProperties
<1>3. ASSUME NEW i \in 1 .. m + n PROVE (p \o q)[i] = s + i
  <2>1. (p \o q)[i] = IF i <= m THEN p[i] ELSE q[i - m]
    BY <1>1, ConcatProperties
  <2>2. CASE i <= m
    BY <2>1, <2>2 DEF Run
  <2>3. CASE ~(i <= m)
    <3>1. i - m \in 1 .. n
      BY <2>3
    <3>2. \A j \in 1 .. n : q[j] = s + m + j
      BY DEF Run
    <3>3. q[i - m] = s + m + (i - m)
      BY <3>1, <3>2
    <3>4. (p \o q)[i] = q[i - m]
      BY <2>1, <2>3
    <3> QED BY <3>3, <3>4
  <2> QED BY <2>2, <2>3
<1> QED BY <1>2, <1>3 DEF Run

LEMMA RunEmpty == ASSUME NEW s \in Nat PROVE Run(<<>>, s, 0)
BY DEF Run

LEMMA RunIsExact ==
    ASSUME NEW q, NEW s \in Nat, NEW n \in Nat, Run(q, s, n)
    PROVE  q = [i \in 1 .. Len(q) |-> s + i]
BY DEF Run

\* What is new, as long as old_pos has not been passed by, follows what was
\* handed over.
LEMMA NewDataRun ==
    ASSUME NEW buf \in [0 .. Length - 1 -> Nat], NEW p \in 0 .. Length,
           NEW s \in Nat, NEW done \in Nat, oldPos \in 0 .. Length,
           oldPos \in Boundary \/ oldPos <= p,
           \A i \in 0 .. Length - 1 :
              (IF oldPos <= p THEN oldPos ELSE 0) <= i /\ i < p
                => buf[i] = s + done + 1 + i - (IF oldPos <= p THEN oldPos ELSE 0)
    PROVE  Run(NewData(buf, p), s + done, p - (IF oldPos <= p THEN oldPos ELSE 0))
<1>1. CASE oldPos <= p
  <2>1. NewData(buf, p) = [i \in 1 .. p - oldPos |-> buf[oldPos + i - 1]]
    BY <1>1 DEF NewData, Block
  <2>2. \A i \in 1 .. p - oldPos :
           oldPos + i - 1 \in 0 .. Length - 1 /\ buf[oldPos + i - 1] = s + done + i
    BY <1>1, LengthAssumption
  <2>3. p - oldPos \in Nat
    BY <1>1
  <2>4. NewData(buf, p) = [i \in 1 .. p - oldPos |-> s + done + i]
    BY <2>1, <2>2
  <2>5. Run([i \in 1 .. p - oldPos |-> s + done + i], s + done, p - oldPos)
    BY <2>3 DEF Run
  <2> QED BY <1>1, <2>4, <2>5
<1>2. CASE oldPos > p
  <2>1. oldPos = Length
    BY <1>2 DEF Boundary
  <2>2. Block(buf, oldPos, Length) = <<>>
    BY <2>1, LengthAssumption DEF Block
  <2>3. Block(buf, 0, p) = [i \in 1 .. p |-> buf[i - 1]]
    BY DEF Block
  <2>4. \A i \in 1 .. p : i - 1 \in 0 .. Length - 1 /\ buf[i - 1] = s + done + i
    BY <1>2, LengthAssumption
  <2>5. Run(Block(buf, 0, p), s + done, p)
    BY <2>3, <2>4 DEF Run
  <2>6. NewData(buf, p) = <<>> \o Block(buf, 0, p)
    BY <1>2, <2>2 DEF NewData
  <2>7. <<>> \o Block(buf, 0, p) = Block(buf, 0, p)
    BY <2>5, ConcatEmptySeq DEF Run
  <2> QED BY <1>2, <2>5, <2>6, <2>7
<1> QED BY <1>1, <1>2

LEMMA HalfInside == HalfPos \in 1 .. Length - 1
BY LengthAssumption DEF HalfPos

\* One byte more, or a whole buffer of them.
LEMMA ModStep ==
    ASSUME NEW k \in Nat
    PROVE  /\ k % Length \in 0 .. Length - 1
           /\ (k % Length) + 1 < Length => (k + 1) % Length = (k % Length) + 1
           /\ (k % Length) + 1 = Length => (k + 1) % Length = 0
           /\ 0 % Length = 0
BY LengthAssumption

-----------------------------------------------------------------------------
\* Bytes of the buffer that were not handed over.
Kept(n) == IF n < HalfPos THEN n ELSE n - HalfPos

\* Where old_pos stands during a burst.
Placed(n) == IF n < HalfPos THEN oldPos \in Boundary ELSE oldPos = HalfPos

\* The last bytes received are those of the buffer.
Filled(u) == \A i \in 0 .. count[u] - 1 : buffer[u][i] = received[u] - count[u] + 1 + i

During(u) ==
    ended[u] = "no" =>
        /\ BurstLength(u) \in Nat /\ BurstLength(u) % Length = count[u]
        /\ Kept(count[u]) <= BurstLength(u)
        /\ aligned[u] => /\ Placed(count[u])
                         /\ Run(out[u], start[u], BurstLength(u) - Kept(count[u]))

After(u) ==
    ended[u] # "no" =>
        /\ count[u] = 0
        /\ BurstLength(u) \in Nat
        /\ aligned[u] => \E n \in Nat : Run(out[u], start[u], n)
        /\ ended[u] = "timeout" /\ aligned[u] => Run(out[u], start[u], BurstLength(u))

IInv ==
    /\ TypeOK
    /\ \A u \in Uarts : Filled(u) /\ During(u) /\ After(u)
    /\ oldPos \in Boundary \cup {HalfPos}
    /\ InsideHasCause

LEMMA InitHolds == Init => IInv
<1> SUFFICES ASSUME Init PROVE IInv
  OBVIOUS
<1>1. TypeOK
  BY LengthAssumption DEF Init, TypeOK
<1>2. ASSUME NEW u \in Uarts PROVE Filled(u) /\ During(u) /\ After(u)
  BY RunEmpty DEF Init, Filled, During, After, BurstLength, Boundary
<1>3. oldPos \in Boundary
  BY DEF Init, Boundary
<1> QED BY <1>1, <1>2, <1>3 DEF IInv, InsideHasCause

\* An interrupt of u as the burst of another UART v sees it.
Apart(v) ==
    /\ buffer'[v] = buffer[v] /\ count'[v] = count[v] /\ received'[v] = received[v]
    /\ start'[v] = start[v] /\ ended'[v] = ended[v] /\ out'[v] = out[v]
    /\ aligned'[v] => aligned[v] /\ (ended[v] = "no" => SamePosition(oldPos, oldPos'))

LEMMA OtherKept ==
    ASSUME NEW v \in Uarts, Filled(v), During(v), After(v), Apart(v)
    PROVE  Filled(v)' /\ During(v)' /\ After(v)'
<1>1. Filled(v)'
  BY DEF Filled, Apart
<1>2. During(v)'
  <2> SUFFICES ASSUME ended[v] = "no" PROVE During(v)'
    BY DEF During, Apart
  <2>1. BurstLength(v)' = BurstLength(v) /\ Kept(count[v])' = Kept(count[v])
    BY DEF BurstLength, Kept, Apart, HalfPos
  <2>2. Placed(count[v]) /\ SamePosition(oldPos, oldPos') => Placed(count[v])'
    BY HalfInside DEF Placed, SamePosition, Boundary, Apart, HalfPos
  <2> QED BY <2>1, <2>2 DEF During, Apart
<1>3. After(v)'
  BY DEF After, Apart, BurstLength
<1> QED BY <1>1, <1>2, <1>3

\* As long as old_pos stays where it is, another UART remains a cause of it.
LEMMA OtherCause ==
    ASSUME NEW v \in Uarts, Apart(v), LeavesInside(v)
    PROVE  LeavesInside(v)'
BY DEF Apart, LeavesInside, BurstLength, HalfPos

LEMMA AlignedAfterType == \A u \in Uarts : AlignedAfter(u) \in [Uarts -> BOOLEAN]
BY Zenon DEF AlignedAfter

-----------------------------------------------------------------------------
LEMMA ByteKeeps ==
    ASSUME IInv, NEW u \in Uarts, RxByte(u)
    PROVE  IInv'
<1> DEFINE first == ended[u] # "no"
           n     == count[u] + 1
           buf   == [buffer[u] EXCEPT ![n - 1] = received[u] + 1]
           sent  == IF first THEN <<>> ELSE out[u]
           s     == IF first THEN received[u] ELSE start[u]
           done  == received[u] - s - Kept(count[u])
           base  == IF oldPos <= n THEN oldPos ELSE 0
<1>1. /\ oldPos \in 0 .. Length /\ count[u] \in 0 .. Length - 1
      /\ received[u] \in Nat /\ start[u] \in Nat /\ HalfPos \in 1 .. Length - 1
      /\ n \in 1 .. Length /\ Length \in Nat
      /\ buffer[u] \in [0 .. Length - 1 -> Nat]
  BY HalfInside, LengthAssumption DEF IInv, TypeOK
<1>2. /\ received' = [received EXCEPT ![u] = @ + 1]
      /\ buffer' = [buffer EXCEPT ![u] = buf]
      /\ count' = [count EXCEPT ![u] = Restarted(n)]
      /\ ended' = [ended EXCEPT ![u] = "no"]
      /\ start' = [start EXCEPT ![u] = s]
      /\ aligned' = [AlignedAfter(u) EXCEPT ![u] = IF first THEN oldPos \in Boundary ELSE @]
      /\ IF n \in {HalfPos, Length}
         THEN out' = [out EXCEPT ![u] = sent \o NewData(buf, n)] /\ oldPos' = n
         ELSE out' = [out EXCEPT ![u] = sent] /\ oldPos' = oldPos
  BY DEF RxByte
<1>3. /\ received'[u] = received[u] + 1 /\ buffer'[u] = buf /\ start'[u] = s
      /\ count'[u] = Restarted(n) /\ ended'[u] = "no"
      /\ aligned'[u] = IF first THEN oldPos \in Boundary ELSE aligned[u]
      /\ out'[u] = IF n \in {HalfPos, Length} THEN sent \o NewData(buf, n) ELSE sent
  BY <1>2 DEF IInv, TypeOK, AlignedAfter
<1>4. buf \in [0 .. Length - 1 -> Nat] /\ n - 1 = count[u]
  BY <1>1
<1>5. \A i \in 0 .. n - 1 : buf[i] = received[u] - n + 2 + i
  <2>1. \A i \in 0 .. count[u] - 1 : buf[i] = received[u] - count[u] + 1 + i
    <3>1. \A i \in 0 .. count[u] - 1 : buffer[u][i] = received[u] - count[u] + 1 + i
      BY DEF IInv, Filled
    <3>2. \A i \in 0 .. count[u] - 1 : buf[i] = buffer[u][i]
      BY <1>1
    <3> HIDE DEF buf
    <3> QED BY <3>1, <3>2
  <2>2. buf[count[u]] = received[u] + 1
    BY <1>1, <1>4
  <2>3. \A i \in 0 .. n - 1 : i \in 0 .. count[u] - 1 \/ i = count[u]
    BY <1>1
  <2>4. received[u] - count[u] + 1 = received[u] - n + 2
    BY <1>1
  <2>5. received[u] + 1 = received[u] - n + 2 + count[u]
    BY <1>1
  <2> HIDE DEF buf, n
  <2> QED BY <2>1, <2>2, <2>3, <2>4, <2>5
<1>6. Filled(u)'
  <2>1. Restarted(n) = n \/ Restarted(n) = 0
    BY DEF Restarted
  <2> QED BY <1>1, <1>3, <1>5, <2>1 DEF Filled
\* What held of the burst before this byte.
<1>7. /\ s \in Nat /\ received[u] - s \in Nat /\ (received[u] - s) % Length = count[u]
      /\ Kept(count[u]) <= received[u] - s
      /\ aligned'[u] => Placed(count[u]) /\ Run(sent, s, done)
  <2>1. CASE first
    <3>1. count[u] = 0 /\ received[u] - s = 0
      BY <1>1, <2>1 DEF IInv, After
    <3>2. Kept(0) = 0 /\ (Placed(0) <=> oldPos \in Boundary)
      BY <1>1 DEF Kept, Placed
    <3>3. done = 0
      BY <3>1, <3>2
    <3>4. Run(sent, s, 0)
      BY <1>1, <2>1, RunEmpty
    <3>5. s \in Nat /\ 0 % Length = 0
      BY <1>1, <2>1, ModStep
    <3>6. aligned'[u] => oldPos \in Boundary
      BY <1>3, <2>1
    <3> HIDE DEF s, sent, done
    <3> QED BY <3>1, <3>2, <3>3, <3>4, <3>5, <3>6
  <2>2. CASE ~first
    BY <1>1, <1>3, <2>2 DEF IInv, During, BurstLength
  <2> QED BY <2>1, <2>2
<1>8. BurstLength(u)' = received[u] - s + 1
  <2>1. BurstLength(u)' = received'[u] - start'[u]
    BY DEF BurstLength
  <2> HIDE DEF s
  <2> QED BY <1>1, <1>3, <1>7, <2>1
<1>9. BurstLength(u)' % Length = Restarted(n)
  <2> DEFINE k == received[u] - s
  <2>1. k \in Nat /\ k % Length = count[u]
    BY <1>7
  <2> HIDE DEF k
  <2>2. (k + 1) % Length = Restarted(n)
    <3>1. /\ count[u] + 1 < Length => (k + 1) % Length = count[u] + 1
          /\ count[u] + 1 = Length => (k + 1) % Length = 0
      BY <2>1, ModStep
    <3>2. count[u] + 1 < Length \/ count[u] + 1 = Length
      BY <1>1
    <3> QED BY <1>1, <3>1, <3>2 DEF Restarted
  <2> QED BY <1>8, <2>2 DEF k
<1>10. n \notin {HalfPos, Length} =>
          /\ Restarted(n) = n
          /\ Kept(n) = Kept(count[u]) + 1
          /\ Placed(count[u]) => Placed(n)
  BY <1>1 DEF Restarted, Kept, Placed
<1>11. n \in {HalfPos, Length} =>
          /\ Kept(Restarted(n)) = 0
          /\ IF Restarted(n) < HalfPos THEN n \in Boundary ELSE n = HalfPos
          /\ Placed(count[u]) => /\ oldPos \in Boundary \/ oldPos <= n
                                 /\ n - base = Kept(count[u]) + 1
  BY <1>1 DEF Restarted, Kept, Placed, Boundary
<1>12. n \in {HalfPos, Length} /\ aligned'[u] => Run(sent \o NewData(buf, n), s, received[u] - s + 1)
  <2> SUFFICES ASSUME n \in {HalfPos, Length}, aligned'[u]
               PROVE  Run(sent \o NewData(buf, n), s, received[u] - s + 1)
    OBVIOUS
  <2>1. Placed(count[u]) /\ Run(sent, s, done) /\ done \in Nat
    <3>1. Kept(count[u]) \in Nat
      BY <1>1 DEF Kept
    <3> QED BY <1>1, <1>7, <3>1
  <2>2. n - base = Kept(count[u]) + 1 /\ (oldPos \in Boundary \/ oldPos <= n)
    BY <1>11, <2>1
  <2>3. \A i \in 0 .. Length - 1 : base <= i /\ i < n => buf[i] = s + done + 1 + i - base
    <3>1. base \in 0 .. Length /\ Kept(count[u]) \in Nat
      BY <1>1 DEF Kept
    <3>2. s + done + 1 - base = received[u] - n + 2
      <4>1. n \in Nat /\ received[u] \in Nat /\ s \in Nat
        BY <1>1, <1>7
      <4> HIDE DEF n, s, base
      <4> QED BY <2>2, <3>1, <4>1
    <3>3. \A i \in 0 .. n - 1 : buf[i] = s + done + 1 - base + i
      BY <1>5, <3>2
    <3>4. n \in Nat /\ s \in Nat
      BY <1>1, <1>7
    <3> HIDE DEF n, s, base, done, buf
    <3> QED BY <2>1, <3>1, <3>3, <3>4
  <2>4. Run(NewData(buf, n), s + done, n - base)
    <3>1. n \in 0 .. Length
      BY <1>1
    <3>2. /\ oldPos \in Boundary \/ oldPos <= n
          /\ s \in Nat /\ done \in Nat /\ oldPos \in 0 .. Length
      BY <1>1, <1>7, <2>1, <2>2
    <3> HIDE DEF n, done, s, buf
    <3> QED BY <1>4, <2>3, <3>1, <3>2, NewDataRun
  <2>5. n - base \in Nat /\ done + (n - base) = received[u] - s + 1
    <3>1. Kept(count[u]) \in Nat
      BY <1>1 DEF Kept
    <3>2. n - base = Kept(count[u]) + 1
      BY <2>2
    <3>3. s \in Nat /\ received[u] \in Nat
      BY <1>1, <1>7
    <3> DEFINE b == n - base
    <3> HIDE DEF n, base, s, b
    <3> QED BY <3>1, <3>2, <3>3 DEF b
  <2> QED BY <1>7, <2>1, <2>4, <2>5, RunAppend
<1>13. During(u)'
  <2>1. BurstLength(u)' \in Nat
    BY <1>7, <1>8
  <2>2. CASE n \in {HalfPos, Length}
    <3>1. oldPos' = n /\ out'[u] = sent \o NewData(buf, n)
      BY <1>2, <1>3, <2>2
    <3>2. Kept(count[u])' = 0 /\ Placed(count[u])'
      BY <1>3, <1>11, <2>2, <3>1 DEF Kept, Placed, Boundary, HalfPos
    <3>3. aligned'[u] => Run(out'[u], start'[u], BurstLength(u)')
      BY <1>3, <1>8, <1>12, <2>2, <3>1
    <3> QED BY <1>3, <1>9, <2>1, <3>2, <3>3 DEF During
  <2>3. CASE n \notin {HalfPos, Length}
    <3>1. oldPos' = oldPos /\ out'[u] = sent /\ count'[u] = n
      BY <1>2, <1>3, <1>10, <2>3
    <3>2. /\ Kept(count[u])' = Kept(count[u]) + 1
          /\ Placed(count[u]) => Placed(count[u])'
      BY <1>10, <2>3, <3>1 DEF Kept, Placed, Boundary, HalfPos
    <3>3. Kept(count[u]) \in Nat
      BY <1>1 DEF Kept
    <3>4. BurstLength(u)' - Kept(count[u])' = done
      BY <1>1, <1>7, <1>8, <3>2, <3>3
    <3> QED BY <1>1, <1>3, <1>7, <1>8, <1>9, <2>1, <3>1, <3>2, <3>3, <3>4 DEF During
  <2> QED BY <2>2, <2>3
<1>14. After(u)'
  BY <1>3 DEF After
<1>15. TypeOK'
  <2>1. oldPos' \in 0 .. Length /\ Restarted(n) \in 0 .. Length - 1
    <3>1. oldPos' = n \/ oldPos' = oldPos
      BY <1>2
    <3>2. Restarted(n) \in 0 .. Length - 1
      BY <1>1 DEF Restarted
    <3>3. n \in 0 .. Length
      BY <1>1
    <3> HIDE DEF n
    <3> QED BY <1>1, <3>1, <3>2, <3>3
  <2>2. out'[u] \in Seq(Nat)
    <3>1. sent \in Seq(Nat)
      BY DEF IInv, TypeOK
    <3>2. NewData(buf, n) \in Seq(Nat)
      <4>1. \A f, t \in 0 .. Length : Block(buf, f, t) \in Seq(Nat)
        BY <1>1, <1>4 DEF Block
      <4>2. n \in 0 .. Length /\ 0 \in 0 .. Length /\ Length \in 0 .. Length
        BY <1>1
      <4>3. /\ Block(buf, oldPos, n) \in Seq(Nat)
            /\ Block(buf, oldPos, Length) \in Seq(Nat) /\ Block(buf, 0, n) \in Seq(Nat)
        BY <1>1, <4>1, <4>2
      <4>4. Block(buf, oldPos, Length) \o Block(buf, 0, n) \in Seq(Nat)
        BY <4>3, ConcatProperties
      <4> QED BY <4>3, <4>4 DEF NewData
    <3> QED BY <1>3, <3>1, <3>2, ConcatProperties
  <2>3. \E q : out' = [out EXCEPT ![u] = q]
    BY <1>2
  <2>4. out' \in [Uarts -> Seq(Nat)]
    BY <2>2, <2>3 DEF IInv, TypeOK
  <2>5. aligned' \in [Uarts -> BOOLEAN]
    <3>1. \E b \in BOOLEAN : aligned' = [AlignedAfter(u) EXCEPT ![u] = b]
      <4>1. CASE first
        <5>1. (oldPos \in Boundary) \in BOOLEAN
          OBVIOUS
        <5>2. aligned' = [AlignedAfter(u) EXCEPT ![u] = oldPos \in Boundary]
          BY <1>2, <4>1
        <5> QED BY <5>1, <5>2, Zenon
      <4>2. CASE ~first
        <5>1. AlignedAfter(u)[u] \in BOOLEAN
          BY AlignedAfterType
        <5> QED BY <1>2, <4>2, <5>1
      <4> QED BY <4>1, <4>2
    <3> QED BY <3>1, AlignedAfterType
  <2>6. received' \in [Uarts -> Nat] /\ start' \in [Uarts -> Nat]
    BY <1>1, <1>2, <1>7 DEF IInv, TypeOK
  <2>7. /\ buffer' \in [Uarts -> [0 .. Length - 1 -> Nat]]
        /\ count' \in [Uarts -> 0 .. Length - 1]
        /\ ended' \in [Uarts -> {"no", "timeout", "error"}]
    BY <1>2, <1>4, <2>1 DEF IInv, TypeOK
  <2> QED BY <2>1, <2>4, <2>5, <2>6, <2>7 DEF TypeOK
<1>16. ASSUME NEW v \in Uarts, v # u PROVE Apart(v)
  BY <1>2, <1>16 DEF IInv, TypeOK, Apart, AlignedAfter
<1>17. ASSUME NEW v \in Uarts PROVE Filled(v)' /\ During(v)' /\ After(v)'
  BY <1>6, <1>13, <1>14, <1>16, OtherKept DEF IInv
<1>18. oldPos' \in Boundary' \cup {HalfPos'}
  BY <1>2 DEF IInv, Boundary, HalfPos
<1>19. InsideHasCause'
  <2> SUFFICES ASSUME oldPos' \notin Boundary PROVE \E v \in Uarts : LeavesInside(v)'
    BY DEF InsideHasCause, Boundary
  <2>1. CASE n \in {HalfPos, Length}
    <3>1. n = HalfPos
      BY <1>2, <2>1 DEF Boundary
    <3>2. Restarted(n) = HalfPos
      BY <1>1, <3>1 DEF Restarted
    <3> HIDE DEF n
    <3> QED BY <1>1, <1>3, <1>9, <3>2 DEF LeavesInside, HalfPos
  <2>2. CASE n \notin {HalfPos, Length}
    <3>1. oldPos' = oldPos
      BY <1>2, <2>2
    <3>2. PICK v \in Uarts : LeavesInside(v)
      BY <3>1 DEF IInv, InsideHasCause
    <3>3. CASE v # u
      BY <1>16, <3>2, <3>3, OtherCause
    <3>4. CASE v = u /\ first
      BY <1>3, <3>1, <3>4 DEF LeavesInside
    <3>5. CASE v = u /\ ~first
      <4>1. BurstLength(u) % Length = count[u] /\ ended[u] # "timeout"
        BY <3>5 DEF IInv, During
      <4>2. count[u] >= HalfPos \/ ~aligned[u]
        BY <3>2, <3>5, <4>1 DEF LeavesInside
      <4>3. Restarted(n) = n
        BY <2>2 DEF Restarted
      <4>4. count[u] >= HalfPos => BurstLength(u)' % Length >= HalfPos
        BY <1>1, <1>9, <4>3
      <4>5. ~aligned[u] => ~aligned'[u]
        BY <1>3, <3>5
      <4> QED BY <1>3, <4>2, <4>4, <4>5 DEF LeavesInside, HalfPos
    <3> QED BY <3>3, <3>4, <3>5
  <2> QED BY <2>1, <2>2
<1> QED BY <1>15, <1>17, <1>18, <1>19 DEF IInv

LEMMA TimeoutKeeps ==
    ASSUME IInv, NEW u \in Uarts, RxTimeout(u)
    PROVE  IInv'
<1> DEFINE c    == count[u]
           s    == start[u]
           done == received[u] - s - Kept(c)
           base == IF oldPos <= c THEN oldPos ELSE 0
<1>1. /\ oldPos \in 0 .. Length /\ c \in 0 .. Length - 1 /\ s \in Nat /\ received[u] \in Nat
      /\ HalfPos \in 1 .. Length - 1 /\ Length \in Nat /\ Kept(c) \in Nat
      /\ buffer[u] \in [0 .. Length - 1 -> Nat]
  BY HalfInside, LengthAssumption DEF IInv, TypeOK, Kept
<1>2. /\ count'[u] = 0 /\ ended'[u] = "timeout"
      /\ UNCHANGED <<buffer, received, start>>
      /\ aligned' = AlignedAfter(u) /\ aligned'[u] = aligned[u]
      /\ count' = [count EXCEPT ![u] = 0] /\ ended' = [ended EXCEPT ![u] = "timeout"]
      /\ IF c # oldPos
         THEN out' = [out EXCEPT ![u] = @ \o NewData(buffer[u], c)] /\ oldPos' = 0
         ELSE out' = out /\ oldPos' = oldPos
  BY DEF RxTimeout, IInv, TypeOK, AlignedAfter
\* What held of the burst until now.
<1>3. /\ BurstLength(u) \in Nat /\ BurstLength(u) % Length = c /\ Kept(c) <= BurstLength(u)
      /\ BurstLength(u) = received[u] - s
      /\ aligned[u] => Placed(c) /\ Run(out[u], s, done)
  BY DEF IInv, During, BurstLength, RxTimeout
<1>4. \A i \in 0 .. c - 1 : buffer[u][i] = received[u] - c + 1 + i
  BY DEF IInv, Filled
<1>5. Placed(c) => /\ oldPos \in Boundary \/ oldPos <= c
                   /\ c - base = Kept(c)
                   /\ c = oldPos => Kept(c) = 0 /\ (c \in Boundary \/ c = HalfPos)
  BY <1>1 DEF Placed, Kept, Boundary
<1>6. TypeOK
  BY DEF IInv
<1>7. /\ count' \in [Uarts -> 0 .. Length - 1]
      /\ ended' \in [Uarts -> {"no", "timeout", "error"}]
      /\ buffer' \in [Uarts -> [0 .. Length - 1 -> Nat]]
      /\ received' \in [Uarts -> Nat] /\ start' \in [Uarts -> Nat]
      /\ aligned' \in [Uarts -> BOOLEAN]
  <2>1. aligned' \in [Uarts -> BOOLEAN]
    BY <1>2, AlignedAfterType, Zenon
  <2> QED BY <1>1, <1>2, <1>6, <2>1 DEF TypeOK
<1>8. CASE c # oldPos
  <2>1. aligned[u] => Run(out[u] \o NewData(buffer[u], c), s, BurstLength(u))
    <3> SUFFICES ASSUME aligned[u] PROVE Run(out[u] \o NewData(buffer[u], c), s, BurstLength(u))
      OBVIOUS
    <3>1. /\ oldPos \in Boundary \/ oldPos <= c
          /\ c - base = Kept(c) /\ Run(out[u], s, done)
      BY <1>3, <1>5
    <3>2. c \in Nat /\ c \in 0 .. Length /\ base \in 0 .. Length
      BY <1>1
    <3>3. done \in Nat
      BY <1>1, <1>3
    <3>4. \A i \in 0 .. Length - 1 :
             base <= i /\ i < c => buffer[u][i] = s + done + 1 + i - base
      <4>1. s + done + 1 - base = received[u] - c + 1
        <5>1. /\ c \in Nat /\ s \in Nat /\ base \in Nat /\ received[u] \in Nat /\ Kept(c) \in Nat
              /\ c - base = Kept(c)
          BY <1>1, <3>1, <3>2
        <5> DEFINE k == Kept(c)
        <5> HIDE DEF c, s, base, k
        <5>2. s + (received[u] - s - k) + 1 - base = received[u] - c + 1
          BY <5>1 DEF k
        <5> QED BY <5>2 DEF k
      <4>2. /\ c \in Nat /\ s \in Nat /\ base \in Nat /\ done \in Nat /\ Length \in Nat
        BY <1>1, <3>2, <3>3
      <4> HIDE DEF c, s, base, done
      <4>3. \A i \in 0 .. c - 1 : buffer[u][i] = s + done + 1 - base + i
        BY <1>4, <4>1
      <4> QED BY <4>2, <4>3
    <3>5. Run(NewData(buffer[u], c), s + done, c - base)
      <4> HIDE DEF c, s, done
      <4> QED BY <1>1, <3>1, <3>2, <3>3, <3>4, NewDataRun
    <3>6. c - base \in Nat /\ done + (c - base) = BurstLength(u)
      <4> HIDE DEF c, s, base
      <4> QED BY <1>1, <1>3, <3>1
    <3> QED BY <1>1, <3>1, <3>3, <3>5, <3>6, RunAppend
  <2>2. out'[u] = out[u] \o NewData(buffer[u], c) /\ oldPos' = 0
    BY <1>2, <1>8 DEF IInv, TypeOK
  <2>3. After(u)'
    BY <1>2, <1>3, <2>1, <2>2 DEF After, BurstLength, Boundary
  <2>4. out' \in [Uarts -> Seq(Nat)]
    <3>1. NewData(buffer[u], c) \in Seq(Nat)
      <4>1. \A f, t \in 0 .. Length : Block(buffer[u], f, t) \in Seq(Nat)
        BY <1>1 DEF Block
      <4>2. c \in 0 .. Length /\ 0 \in 0 .. Length /\ Length \in 0 .. Length
        BY <1>1
      <4>3. /\ Block(buffer[u], oldPos, c) \in Seq(Nat)
            /\ Block(buffer[u], oldPos, Length) \in Seq(Nat) /\ Block(buffer[u], 0, c) \in Seq(Nat)
        BY <1>1, <4>1, <4>2
      <4>4. Block(buffer[u], oldPos, Length) \o Block(buffer[u], 0, c) \in Seq(Nat)
        BY <4>3, ConcatProperties
      <4> QED BY <4>3, <4>4 DEF NewData
    <3>2. out[u] \in Seq(Nat)
      BY DEF IInv, TypeOK
    <3>3. out[u] \o NewData(buffer[u], c) \in Seq(Nat)
      BY <3>1, <3>2, ConcatProperties
    <3>4. out' = [out EXCEPT ![u] = out[u] \o NewData(buffer[u], c)]
      BY <1>2, <1>8
    <3> QED BY <3>3, <3>4 DEF IInv, TypeOK
  <2>5. TypeOK'
    BY <1>7, <2>2, <2>4, LengthAssumption DEF TypeOK
  <2>6. Filled(u)' /\ During(u)'
    BY <1>2 DEF Filled, During
  <2>7. ASSUME NEW v \in Uarts, v # u PROVE Apart(v)
    BY <1>2, <1>6, <1>8, <2>7 DEF TypeOK, Apart, AlignedAfter
  <2>8. oldPos' \in Boundary
    BY <2>2 DEF Boundary
  <2>9. ASSUME NEW v \in Uarts PROVE Filled(v)' /\ During(v)' /\ After(v)'
    BY <2>3, <2>6, <2>7, OtherKept DEF IInv
  <2> QED BY <2>5, <2>8, <2>9 DEF IInv, InsideHasCause, Boundary
<1>9. CASE c = oldPos
  <2>1. aligned[u] => Run(out[u], s, BurstLength(u))
    BY <1>1, <1>3, <1>5, <1>9
  <2>2. out' = out /\ oldPos' = oldPos
    BY <1>2, <1>9
  <2>3. After(u)'
    BY <1>2, <1>3, <2>1, <2>2 DEF After, BurstLength, Boundary, HalfPos
  <2>4. TypeOK'
    BY <1>7, <1>6, <2>2 DEF TypeOK
  <2>5. Filled(u)' /\ During(u)'
    BY <1>2 DEF Filled, During
  <2>6. ASSUME NEW v \in Uarts, v # u PROVE Apart(v)
    BY <1>2, <1>6, <1>9, <2>6 DEF TypeOK, Apart, AlignedAfter
  <2>7. ASSUME NEW v \in Uarts PROVE Filled(v)' /\ During(v)' /\ After(v)'
    BY <2>3, <2>5, <2>6, OtherKept DEF IInv
  <2>8. oldPos' \in Boundary' \cup {HalfPos'}
    BY <2>2 DEF IInv, Boundary, HalfPos
  \* old_pos is inside: then the burst ended on the half transfer.
  <2>9. InsideHasCause'
    <3> SUFFICES ASSUME oldPos' \notin Boundary PROVE LeavesInside(u)'
      BY DEF InsideHasCause, Boundary
    <3>1. c = HalfPos
      BY <1>9, <2>2 DEF IInv
    <3>2. BurstLength(u)' = BurstLength(u)
      BY <1>2 DEF BurstLength
    <3> QED BY <1>2, <1>3, <3>1, <3>2 DEF LeavesInside, HalfPos
  <2> QED BY <2>4, <2>7, <2>8, <2>9 DEF IInv
<1> QED BY <1>8, <1>9

LEMMA ErrorKeeps ==
    ASSUME IInv, NEW u \in Uarts, RxError(u)
    PROVE  IInv'
<1>1. /\ count'[u] = 0 /\ ended'[u] = "error"
      /\ count' = [count EXCEPT ![u] = 0] /\ ended' = [ended EXCEPT ![u] = "error"]
      /\ UNCHANGED <<oldPos, buffer, received, start, aligned, out>>
  BY DEF RxError, IInv, TypeOK
<1>2. count[u] \in Nat /\ Kept(count[u]) \in Nat
  BY HalfInside DEF IInv, TypeOK, Kept
<1>3. /\ BurstLength(u) \in Nat /\ Kept(count[u]) <= BurstLength(u)
      /\ aligned[u] => Run(out[u], start[u], BurstLength(u) - Kept(count[u]))
  BY DEF IInv, During, RxError
<1>4. After(u)'
  <2>1. BurstLength(u) - Kept(count[u]) \in Nat
    BY <1>2, <1>3
  <2> QED BY <1>1, <1>3, <2>1 DEF After, BurstLength
<1>5. TypeOK'
  BY <1>1, LengthAssumption DEF IInv, TypeOK
<1>6. Filled(u)' /\ During(u)'
  BY <1>1 DEF Filled, During
<1>7. ASSUME NEW v \in Uarts, v # u PROVE Apart(v)
  BY <1>1, <1>7 DEF IInv, TypeOK, Apart, SamePosition
<1>8. ASSUME NEW v \in Uarts PROVE Filled(v)' /\ During(v)' /\ After(v)'
  BY <1>4, <1>6, <1>7, OtherKept DEF IInv
<1>9. InsideHasCause'
  <2> SUFFICES ASSUME oldPos \notin Boundary PROVE \E v \in Uarts : LeavesInside(v)'
    BY <1>1 DEF InsideHasCause, Boundary
  <2>1. PICK v \in Uarts : LeavesInside(v)
    BY DEF IInv, InsideHasCause
  <2>2. CASE v # u
    BY <1>7, <2>1, <2>2, OtherCause
  <2>3. CASE v = u
    BY <1>1, <2>1, <2>3 DEF LeavesInside, BurstLength, HalfPos, RxError
  <2> QED BY <2>2, <2>3
<1> QED BY <1>1, <1>5, <1>8, <1>9 DEF IInv, Boundary, HalfPos

LEMMA NextKeeps == ASSUME IInv, [Next]_vars PROVE IInv'
<1>1. CASE Next
  <2> SUFFICES ASSUME NEW u \in Uarts, RxByte(u) \/ RxTimeout(u) \/ RxError(u)
               PROVE  IInv'
    BY <1>1 DEF Next
  <2> QED BY ByteKeeps, TimeoutKeeps, ErrorKeeps
<1>2. CASE UNCHANGED vars
  BY <1>2 DEF vars, IInv, TypeOK, Filled, During, After, BurstLength, Placed, Kept, Boundary,
     HalfPos, InsideHasCause, LeavesInside
<1> QED BY <1>1, <1>2

LEMMA SpecInvariant == Spec => []IInv
<1>1. Init => IInv
  BY InitHolds
<1>2. IInv /\ [Next]_vars => IInv'
  BY NextKeeps
<1> QED BY <1>1, <1>2, PTL DEF Spec
-----------------------------------------------------------------------------
\* The type invariant, for any number of UARTs (what dataSendToRxRingFiller
\* writes to a ring are bytes of the receive buffer, and old_pos stays in it).
THEOREM TypeCorrect == Spec => []TypeOK
<1>1. IInv => TypeOK
  BY DEF IInv
<1> QED BY <1>1, SpecInvariant, PTL

\* Whatever the length of the buffer, the number of UARTs, and however many
\* bytes, timeouts and line errors: a burst that finds old_pos at a boundary of
\* the buffer, and under which no other UART moves it, is handed over byte for
\* byte (dataSendToRxRingFiller and its static old_pos).
THEOREM AlignedExact == Spec => []AlignedBurstExact
<1>1. ASSUME IInv PROVE AlignedBurstExact
  <2> SUFFICES ASSUME NEW u \in Uarts, aligned[u] PROVE Exact(u)
    BY DEF AlignedBurstExact
  <2>1. start[u] \in Nat /\ ended[u] \in {"no", "timeout", "error"} /\ count[u] \in Nat
    BY <1>1 DEF IInv, TypeOK
  <2>2. \E n \in Nat : Run(out[u], start[u], n)
    <3>1. CASE ended[u] = "no"
      <4>1. Kept(count[u]) \in Nat
        BY <2>1, HalfInside DEF Kept
      <4>2. BurstLength(u) - Kept(count[u]) \in Nat
        BY <1>1, <3>1, <4>1 DEF IInv, During
      <4> QED BY <1>1, <3>1, <4>2 DEF IInv, During
    <3>2. CASE ended[u] # "no"
      BY <1>1, <3>2 DEF IInv, After
    <3> QED BY <3>1, <3>2
  <2>3. out[u] = [i \in 1 .. Len(out[u]) |-> start[u] + i]
    BY <2>1, <2>2, RunIsExact
  <2>4. ended[u] = "timeout" => Len(out[u]) = BurstLength(u)
    BY <1>1 DEF IInv, After, Run, BurstLength, BurstLength
  <2> QED BY <2>3, <2>4 DEF Exact
<1> QED BY <1>1, SpecInvariant, PTL

\* old_pos is inside the buffer only while a UART that can have left it there
\* has not received a burst that put it back: after a misalignment of whatever
\* origin, two UARTs' included, the next timeouts restore it (the reset of
\* old_pos in the receive timeout's callback).
THEOREM InsideCaused == Spec => []InsideHasCause
<1>1. IInv => InsideHasCause
  BY DEF IInv
<1> QED BY <1>1, SpecInvariant, PTL
=============================================================================
