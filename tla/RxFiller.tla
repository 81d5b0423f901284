------------------------------ MODULE RxFiller ------------------------------
(***************************************************************************)
(* From the UART receive interrupts to the ring:                           *)
(* dataSendToRxRingFiller (src/Core/Src/RxRingProcess.c) and its callers   *)
(* in src/Core/Src/stm32h7xx_it.c.                                         *)
(*                                                                         *)
(* Each UART fills a linear buffer of Length bytes.  The half-transfer,    *)
(* full-transfer and receive-timeout (RTO) callbacks hand the new part of  *)
(* the buffer to the ring; what is new is computed from a static variable  *)
(* old_pos, which all the UARTs share.  All the interrupts have the same   *)
(* priority, so each action is one whole interrupt.  After a full buffer,  *)
(* a timeout or a line error, reception restarts at the buffer's start.    *)
(*                                                                         *)
(* A burst is what a UART receives between two restarts caused by a        *)
(* timeout or an error.  A byte is named by its number in the UART's       *)
(* stream; 0 is what the buffer holds at reset.                            *)
(***************************************************************************)
EXTENDS Integers, Sequences

CONSTANTS Uarts,       \* the UARTs that use dataSendToRxRingFiller
          Length,      \* bytes of a receive buffer
          LineErrors,  \* whether overrun errors happen
          MaxBytes     \* bound: bytes received by one UART

ASSUME LengthAssumption == Length \in Nat /\ Length >= 2
ASSUME LineErrorsAssumption == LineErrors \in BOOLEAN
ASSUME MaxBytesAssumption == MaxBytes \in Nat

VARIABLES oldPos,    \* the static old_pos
          buffer,    \* UART |-> its receive buffer
          count,     \* UART |-> bytes in it since reception (re)started
          received,  \* UART |-> bytes received so far
          start,     \* UART |-> bytes received before the current burst
          ended,     \* UART |-> how the current burst ended: "no" if it has not
          aligned,   \* UART |-> old_pos stood at a buffer boundary at its start
                     \* and no other UART's interrupt has moved it since
          out        \* UART |-> bytes of the burst written to the ring

vars == <<oldPos, buffer, count, received, start, ended, aligned, out>>

(* The position dataSendToRxRingFiller computes for a half transfer.  The  *)
(* HAL calls back when the bytes left are RxXferSize / 2.                  *)
HalfPos == Length - Length \div 2

Boundary == {0, Length}

(* The two ends of the buffer are one position: what is new is computed    *)
(* alike from both.                                                        *)
SamePosition(p, q) == p = q \/ {p, q} \subseteq Boundary

(* The UARTs whose burst is still aligned after an interrupt of u, which   *)
(* may have moved old_pos away under the burst of another one.             *)
AlignedAfter(u) ==
    [v \in Uarts |->
        /\ aligned[v]
        /\ v # u /\ ended[v] = "no" => SamePosition(oldPos, oldPos')]

(* The callback of a full buffer restarts reception at its start. *)
Restarted(n) == IF n = Length THEN 0 ELSE n

Init ==
    /\ oldPos = 0
    /\ buffer = [u \in Uarts |-> [i \in 0 .. Length - 1 |-> 0]]
    /\ count = [u \in Uarts |-> 0]
    /\ received = [u \in Uarts |-> 0]
    /\ start = [u \in Uarts |-> 0]
    /\ ended = [u \in Uarts |-> "timeout"]
    /\ aligned = [u \in Uarts |-> TRUE]
    /\ out = [u \in Uarts |-> <<>>]

(* The bytes buf[from], ..., buf[to - 1]. *)
Block(buf, from, to) == [i \in 1 .. to - from |-> buf[from + i - 1]]

(* Mutant of NewData: the part after the wrap is forgotten. *)
NewDataNoWrap(buf, p) ==
    IF p >= oldPos THEN Block(buf, oldPos, p) ELSE Block(buf, oldPos, Length)

(* What dataSendToRxRingFiller writes to the ring, buf being filled up to  *)
(* p: the bytes between old_pos and p, going round the end of the buffer   *)
(* when p is below old_pos.                                                *)
NewData(buf, p) ==
    IF p >= oldPos THEN Block(buf, oldPos, p)
    ELSE Block(buf, oldPos, Length) \o Block(buf, 0, p)

(* A byte arrives; the interrupt stores it and runs the half-transfer or   *)
(* full-transfer callback when its position calls for it.                  *)
RxByte(u) ==
    LET first == ended[u] # "no"
        n     == count[u] + 1
        buf   == [buffer[u] EXCEPT ![n - 1] = received[u] + 1]
        sent  == IF first THEN <<>> ELSE out[u]
    IN  /\ received[u] < MaxBytes
        /\ received' = [received EXCEPT ![u] = @ + 1]
        /\ buffer' = [buffer EXCEPT ![u] = buf]
        /\ count' = [count EXCEPT ![u] = Restarted(n)]
        /\ ended' = [ended EXCEPT ![u] = "no"]
        /\ start' = [start EXCEPT ![u] = IF first THEN received[u] ELSE @]
        /\ IF n \in {HalfPos, Length}
           THEN /\ out' = [out EXCEPT ![u] = sent \o NewData(buf, n)]
                /\ oldPos' = n
           ELSE /\ out' = [out EXCEPT ![u] = sent]
                /\ UNCHANGED oldPos
        /\ aligned' = [AlignedAfter(u) EXCEPT ![u] =
                            IF first THEN oldPos \in Boundary ELSE @]

(* Mutant of RxTimeout: old_pos keeps the position of the burst's end. *)
RxTimeoutNoReset(u) ==
    /\ ended[u] = "no"
    /\ out' = [out EXCEPT ![u] = @ \o NewData(buffer[u], count[u])]
    /\ oldPos' = count[u]
    /\ count' = [count EXCEPT ![u] = 0]
    /\ ended' = [ended EXCEPT ![u] = "timeout"]
    /\ aligned' = AlignedAfter(u)
    /\ UNCHANGED <<buffer, received, start>>

(* The line has been idle for the receiver timeout: the rest of the burst  *)
(* is handed over, and old_pos is reset only when there was some.          *)
RxTimeout(u) ==
    /\ ended[u] = "no"
    /\ IF count[u] # oldPos
       THEN /\ out' = [out EXCEPT ![u] = @ \o NewData(buffer[u], count[u])]
            /\ oldPos' = 0
       ELSE UNCHANGED <<out, oldPos>>
    /\ count' = [count EXCEPT ![u] = 0]
    /\ ended' = [ended EXCEPT ![u] = "timeout"]
    /\ aligned' = AlignedAfter(u)
    /\ UNCHANGED <<buffer, received, start>>

(* An overrun, alone or together with the timeout: the error code is not   *)
(* exactly HAL_UART_ERROR_RTO, so the interrupt only restarts reception    *)
(* and the bytes since the last callback are lost.                         *)
RxError(u) ==
    /\ LineErrors
    /\ ended[u] = "no"
    /\ count' = [count EXCEPT ![u] = 0]
    /\ ended' = [ended EXCEPT ![u] = "error"]
    /\ UNCHANGED <<oldPos, buffer, received, start, aligned, out>>

Next == \E u \in Uarts : RxByte(u) \/ RxTimeout(u) \/ RxError(u)

Spec == Init /\ [][Next]_vars
-----------------------------------------------------------------------------
TypeOK ==
    /\ oldPos \in 0 .. Length
    /\ buffer \in [Uarts -> [0 .. Length - 1 -> Nat]]
    /\ count \in [Uarts -> 0 .. Length - 1]
    /\ received \in [Uarts -> Nat]
    /\ start \in [Uarts -> Nat]
    /\ ended \in [Uarts -> {"no", "timeout", "error"}]
    /\ aligned \in [Uarts -> BOOLEAN]
    /\ out \in [Uarts -> Seq(Nat)]

BurstLength(u) == received[u] - start[u]

(* What has been written to the ring is the start of the burst, and all of *)
(* it once the burst has timed out: nothing stale, repeated or missing.    *)
Exact(u) ==
    /\ out[u] = [i \in 1 .. Len(out[u]) |-> start[u] + i]
    /\ ended[u] = "timeout" => Len(out[u]) = BurstLength(u)

(* A burst of any length that finds old_pos at a buffer boundary, and      *)
(* during which no interrupt of another UART moves old_pos, goes to the    *)
(* ring exactly: whatever happened before, line errors and bursts that     *)
(* were mixed up included, and whatever else the other UARTs receive       *)
(* meanwhile (dataSendToRxRingFiller, linear and overflow modes).          *)
AlignedBurstExact == \A u \in Uarts : aligned[u] => Exact(u)

(* What can have left old_pos inside the buffer: a burst that ended on the *)
(* byte of a half transfer (the timeout then sees no new byte and skips    *)
(* the reset); a burst under way, or one cut off by a line error, that has *)
(* passed the half transfer or was itself not aligned.                     *)
LeavesInside(u) ==
    LET n == BurstLength(u) % Length
    IN  IF ended[u] = "timeout" THEN n = HalfPos
        ELSE n >= HalfPos \/ ~aligned[u]

(* old_pos is inside the buffer only while some UART is the cause.  So     *)
(* once every UART's last burst has ended in a timeout, none of them on a  *)
(* half transfer, old_pos is at a boundary again and the next burst is     *)
(* aligned, however the UARTs mixed their positions up before.             *)
InsideHasCause == oldPos \in Boundary \/ \E u \in Uarts : LeavesInside(u)

(* Every burst goes to the ring exactly, in the absence of line errors.    *)
EveryBurstExact == \A u \in Uarts : Exact(u)
=============================================================================
