------------------------------- MODULE RxRing -------------------------------
(***************************************************************************)
(* The receive rings between the UART interrupts and the task that parses  *)
(* what the modems say (src/Core/Src/RxRingProcess.c over lwrb.c).         *)
(*                                                                         *)
(* RxRingFiller runs in an interrupt, so a whole burst is written between  *)
(* two steps of the task.  Start_RxRingProcessTask waits for a             *)
(* notification and then drains every ring in turn: it takes the length of *)
(* the linear block, parses the block in place, byte by byte, while the    *)
(* interrupt may be writing, and only then frees the block with lwrb_skip, *)
(* whose two assignments to r are two steps here.                          *)
(*                                                                         *)
(* A byte is named by its number among the bytes the ring accepted; the    *)
(* bytes lwrb_write has no room for are dropped, as RxRingFiller ignores   *)
(* its result.                                                             *)
(***************************************************************************)
EXTENDS LwRb

CONSTANTS NRings,    \* rings drained by the task, in this order
          Size,      \* bytes of a ring's buffer (lwrb_init)
          MaxBurst,  \* longest block an interrupt hands over
          MaxBytes   \* bound: bytes accepted by one ring

ASSUME NRingsAssumption == NRings \in Nat \ {0}
ASSUME SizeAssumption == Size \in Nat \ {0}
ASSUME MaxBurstAssumption == MaxBurst \in Nat
ASSUME MaxBytesAssumption == MaxBytes \in Nat

Rings == 1 .. NRings

VARIABLES slots,     \* ring |-> its buffer
          w, r,      \* ring |-> lwrb_t.w, lwrb_t.r
          accepted,  \* ring |-> number of bytes written so far
          delivered, \* ring |-> bytes handed to RxRingProcess so far
          notified,  \* the task's notification value is not 0
          pc,        \* where the task is
          cur,       \* the ring it drains
          len,       \* its local len
          pos        \* bytes of the block already parsed

ringVars == <<slots, w, r, accepted>>
taskVars == <<delivered, pc, cur, len, pos>>
vars == <<ringVars, taskVars, notified>>

Init ==
    /\ slots = [k \in Rings |-> [i \in 0 .. Size - 1 |-> 0]]
    /\ w = [k \in Rings |-> 0]
    /\ r = [k \in Rings |-> 0]
    /\ accepted = [k \in Rings |-> 0]
    /\ delivered = [k \in Rings |-> <<>>]
    /\ notified = FALSE
    /\ pc = "take"
    /\ cur = 1
    /\ len = 0
    /\ pos = 0

(* The next n bytes on the wire. *)
Burst(k, n) == [i \in 1 .. n |-> accepted[k] + i]

(* Mutant of RxRingFiller: only the first ring's bytes wake the task. *)
RxRingFillerSilent(k, n) ==
    /\ accepted[k] + n <= MaxBytes
    /\ slots' = [slots EXCEPT ![k] =
                    WriteSlots(Size, w[k], r[k], slots[k], Burst(k, n))]
    /\ w' = [w EXCEPT ![k] = WriteIndex(Size, w[k], r[k], n)]
    /\ accepted' = [accepted EXCEPT ![k] =
                    accepted[k] + Accepted(Size, w[k], r[k], n)]
    /\ notified' = (notified \/ k = 1)
    /\ UNCHANGED <<r, taskVars>>

(* An interrupt hands a block of n bytes to RxRingFiller. *)
RxRingFiller(k, n) ==
    /\ accepted[k] + n <= MaxBytes
    /\ slots' = [slots EXCEPT ![k] =
                    WriteSlots(Size, w[k], r[k], slots[k], Burst(k, n))]
    /\ w' = [w EXCEPT ![k] = WriteIndex(Size, w[k], r[k], n)]
    /\ accepted' = [accepted EXCEPT ![k] =
                    accepted[k] + Accepted(Size, w[k], r[k], n)]
    /\ notified' = TRUE
    /\ UNCHANGED <<r, taskVars>>

(* ulTaskNotifyTake(pdTRUE, ...) returns a value above 0 and clears it.    *)
(* Its time-out returns 0 and the loop goes round: no state changes.       *)
NotifyTake ==
    /\ pc = "take"
    /\ notified
    /\ notified' = FALSE
    /\ pc' = "len"
    /\ cur' = 1
    /\ UNCHANGED <<ringVars, delivered, len, pos>>

(* The length of the linear block; 0 ends the loop over this ring. *)
LinearBlock ==
    /\ pc = "len"
    /\ len' = LinearReadLength(Size, w[cur], r[cur])
    /\ pos' = 0
    /\ IF len' > 0 THEN pc' = "process" /\ cur' = cur
       ELSE IF cur < NRings THEN pc' = "len" /\ cur' = cur + 1
       ELSE pc' = "take" /\ cur' = cur
    /\ UNCHANGED <<ringVars, delivered, notified>>

(* RxRingProcess reads the next byte of the block. *)
ProcessByte ==
    /\ pc = "process"
    /\ delivered' = [delivered EXCEPT ![cur] =
                        Append(@, slots[cur][r[cur] + pos])]
    /\ pos' = pos + 1
    /\ pc' = IF pos + 1 = len THEN "skip" ELSE "process"
    /\ UNCHANGED <<ringVars, notified, cur, len>>

(* lwrb_skip, first assignment: r may now equal Size. *)
SkipAdd ==
    /\ pc = "skip"
    /\ r' = [r EXCEPT ![cur] = SkipTo(Size, w[cur], r[cur], len)]
    /\ pos' = 0
    /\ pc' = "wrap"
    /\ UNCHANGED <<slots, w, accepted, delivered, notified, cur, len>>

(* Mutant of SkipWrap: the loop over the ring is left after one block. *)
SkipWrapOnce ==
    /\ pc = "wrap"
    /\ r' = [r EXCEPT ![cur] = Wrap(Size, r[cur])]
    /\ IF cur < NRings THEN pc' = "len" /\ cur' = cur + 1
       ELSE pc' = "take" /\ cur' = cur
    /\ UNCHANGED <<slots, w, accepted, delivered, notified, len, pos>>

(* lwrb_skip, end-of-buffer check; the do-while goes round. *)
SkipWrap ==
    /\ pc = "wrap"
    /\ r' = [r EXCEPT ![cur] = Wrap(Size, r[cur])]
    /\ pc' = "len"
    /\ UNCHANGED <<slots, w, accepted, delivered, notified, cur, len, pos>>

Task == NotifyTake \/ LinearBlock \/ ProcessByte \/ SkipAdd \/ SkipWrap
Interrupt == \E k \in Rings, n \in 0 .. MaxBurst : RxRingFiller(k, n)

Next == Task \/ Interrupt

Spec == Init /\ [][Next]_vars

(* The task has a high priority and is never left ready for ever; nothing  *)
(* obliges a byte to arrive.                                               *)
FairSpec == Spec /\ WF_vars(Task)
-----------------------------------------------------------------------------
TypeOK ==
    /\ slots \in [Rings -> [0 .. Size - 1 -> Nat]]
    /\ w \in [Rings -> 0 .. Size - 1]
    /\ r \in [Rings -> 0 .. Size]
    /\ accepted \in [Rings -> Nat]
    /\ delivered \in [Rings -> Seq(Nat)]
    /\ notified \in BOOLEAN
    /\ pc \in {"take", "len", "process", "skip", "wrap"}
    /\ cur \in Rings
    /\ len \in 0 .. Size
    /\ pos \in 0 .. Size

(* The parser sees the accepted bytes in order, each once: no interrupt    *)
(* overwrites a byte that is being parsed in place or has not been parsed, *)
(* and no block is parsed twice, even when a burst lands between the two   *)
(* halves of lwrb_skip (RxRingFiller against RxRingProcess_buffer).        *)
InOrderOnce ==
    \A k \in Rings : \A i \in 1 .. Len(delivered[k]) : delivered[k][i] = i

(* No byte is lost by the wake-up protocol: whenever the task waits with   *)
(* no notification pending, every accepted byte of every ring is parsed.   *)
NoneLeftBehind ==
    pc = "take" /\ ~notified =>
        \A k \in Rings : Len(delivered[k]) = accepted[k]

(* Every byte a ring accepts is eventually parsed (the notification given  *)
(* by RxRingFiller is enough to drain all the rings).                      *)
EveryByteParsed ==
    \A k \in Rings : \A i \in 1 .. MaxBytes :
        accepted[k] >= i ~> Len(delivered[k]) >= i
-----------------------------------------------------------------------------
(* What a ring promises: a bounded FIFO queue.  The blocks parsed but not  *)
(* yet skipped are still in the queue.                                     *)
Parsing(k) == IF k = cur THEN pos ELSE 0

Queued(k) == LET start == Wrap(Size, r[k])
             IN  [i \in 1 .. GetFull(Size, w[k], start) |->
                     slots[k][(start + i - 1) % Size]]

Taken(k) == SubSeq(delivered[k], 1, Len(delivered[k]) - Parsing(k))

Fifo == INSTANCE ByteFifo WITH
            Capacity <- Size - 1,
            queue <- [k \in Rings |-> Queued(k)],
            taken <- [k \in Rings |-> Taken(k)]

(* The rings and their task implement the queues of module ByteFifo.       *)
Refinement == Fifo!Spec
=============================================================================
