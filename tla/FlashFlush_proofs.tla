-------------------------- MODULE FlashFlush_proofs --------------------------
(***************************************************************************)
(* Proofs about FlashFlush for any number of blocks, any delays and any    *)
(* number of changes, refusals and reboots.                                *)
(***************************************************************************)
EXTENDS FlashFlush, TLAPS

USE ItemsAssumption, DelayAssumption, BoundAssumption

LEMMA ItemsAreNumbers == Items \subseteq Nat /\ 1 \in Items
BY DEF Items

(* The flags and counters at power-up. *)
LEMMA InitialTypes ==
    /\ InitialCounter \in [Items -> 0 .. CounterMod - 1]
    /\ \A raised \in SUBSET BootItems :
            BootFlags(raised) \in [Items -> {0, 1}]
BY DEF InitialCounter, BootFlags

(* The marks of races are Booleans. *)
LEMMA RacedType ==
    ASSUME raced \in [Items -> BOOLEAN], NEW i \in Items, NEW b \in BOOLEAN
    PROVE  /\ [raced EXCEPT ![i] = raced[i] \/ b] \in [Items -> BOOLEAN]
           /\ [raced EXCEPT ![i] = b] \in [Items -> BOOLEAN]
BY Zenon

(* One block after another stays within the blocks. *)
LEMMA NextBlockType ==
    ASSUME TypeOK, NextBlock
    PROVE  item' \in Items /\ pc' \in {"check", "general"}
BY DEF NextBlock, TypeOK, Items

(* The types are preserved. *)
LEMMA SetterType ==
    ASSUME TypeOK, NEW i \in Items, Setter(i)
    PROVE  TypeOK'
<1>1. CASE Change(i)
  <2>1. raced' \in [Items -> BOOLEAN]
    BY <1>1, RacedType DEF Change, TypeOK
  <2> QED BY <1>1, <2>1 DEF Change, TypeOK, taskVars
<1>2. CASE RaiseFlag(i)
  <2>1. raced' \in [Items -> BOOLEAN]
    BY <1>2, RacedType, Zenon DEF RaiseFlag, TypeOK, IntoDecrement
  <2> QED BY <1>2, <2>1 DEF RaiseFlag, TypeOK, taskVars, boundVars
<1>3. CASE SetCounter(i)
  <2>1. raced' \in [Items -> BOOLEAN]
    BY <1>3, RacedType, Zenon DEF SetCounter, TypeOK, IntoDecrement
  <2> QED BY <1>3, <2>1 DEF SetCounter, TypeOK, taskVars, boundVars
<1> QED BY <1>1, <1>2, <1>3 DEF Setter

LEMMA LoraTaskType ==
    ASSUME TypeOK, LoraTask
    PROVE  TypeOK'
<1> USE DEF TypeOK, boundVars, setterVars
<1>1. CASE Wake
  <2>1. held' \in [Items -> 0 .. MaxHeld]
    BY <1>1 DEF Wake
  <2> QED BY <2>1, <1>1, ItemsAreNumbers DEF Wake, NextGeneral
<1>2. CASE Check
  BY <1>2, NextBlockType DEF Check
<1>3. CASE LoadCounter
  <2>1. raced' \in [Items -> BOOLEAN]
    BY <1>3, RacedType, Zenon DEF LoadCounter, Halfway
  <2> QED BY <1>3, <2>1 DEF LoadCounter
<1>4. CASE StoreCounter
  <2>1. raced' \in [Items -> BOOLEAN]
    BY <1>4, RacedType, Zenon DEF StoreCounter, Halfway
  <2> QED BY <1>4, <2>1 DEF StoreCounter, Decremented
<1>5. CASE TestCounter
  BY <1>5, NextBlockType DEF TestCounter
<1>6. CASE ClearFlag
  BY <1>6 DEF ClearFlag
<1>7. CASE Save
  BY <1>7, NextBlockType DEF Save
<1>8. CASE Refused
  BY <1>8, NextBlockType DEF Refused
<1>9. CASE GeneralDue
  BY <1>9 DEF GeneralDue
<1>10. CASE GeneralSave
  BY <1>10 DEF GeneralSave
<1>11. CASE GeneralRefused
  BY <1>11 DEF GeneralRefused
<1> QED
  BY <1>1, <1>2, <1>3, <1>4, <1>5, <1>6, <1>7, <1>8, <1>9, <1>10, <1>11
  DEF LoraTask

LEMMA RebootType ==
    ASSUME TypeOK, Reboot
    PROVE  TypeOK'
<1> USE DEF TypeOK, boundVars, setterVars, taskVars
<1>1. CASE RebootFlags
  BY <1>1 DEF RebootFlags
<1>2. CASE RebootCounters
  BY <1>2 DEF RebootCounters
<1>3. CASE Reset
  <2>1. ram' \in [Items -> Nat] /\ saved' \in [Items -> Nat]
    BY <1>3 DEF Reset
  <2>2. flag' \in [Items -> {0, 1}] /\ held' \in [Items -> 0 .. MaxHeld]
    BY <1>3, InitialTypes DEF Reset
  <2>7. raced' \in [Items -> BOOLEAN]
    BY <1>3, Zenon DEF Reset
  <2>3. counter' \in [Items -> 0 .. CounterMod - 1]
    BY <1>3, InitialTypes DEF Reset
  <2>4. setter' \in [Items ->
            {"idle", "flag", "counter", "lastFlag", "lastCounter"}]
    BY <1>3 DEF Reset
  <2>5. /\ general' \in 0 .. CounterMod - 1
        /\ tmp' \in 0 .. CounterMod - 1 /\ item' \in Items
    BY <1>3, ItemsAreNumbers DEF Reset
  <2>6. /\ pc' = "sleep" /\ sem' = "free" /\ reboot' = "no"
        /\ lapsed' = FALSE /\ sets' \in Nat /\ refusals' \in Nat /\ reboots' \in Nat
    BY <1>3 DEF Reset
  <2> QED BY <2>1, <2>2, <2>3, <2>4, <2>5, <2>6, <2>7
<1> QED BY <1>1, <1>2, <1>3 DEF Reboot

(* Every variable keeps its type. *)
THEOREM TypeCorrect == Spec => []TypeOK
<1>1. Init => TypeOK
  <2> SUFFICES ASSUME Init PROVE TypeOK
    OBVIOUS
  <2>1. ram \in [Items -> Nat] /\ saved \in [Items -> Nat]
    BY DEF Init
  <2>2. flag \in [Items -> {0, 1}] /\ held \in [Items -> 0 .. MaxHeld]
    BY InitialTypes DEF Init
  <2>7. raced \in [Items -> BOOLEAN]
    BY Zenon DEF Init
  <2>3. counter \in [Items -> 0 .. CounterMod - 1]
    BY InitialTypes DEF Init
  <2>4. setter \in [Items ->
            {"idle", "flag", "counter", "lastFlag", "lastCounter"}]
    BY DEF Init
  <2>5. /\ general \in 0 .. CounterMod - 1
        /\ tmp \in 0 .. CounterMod - 1 /\ item \in Items
    BY ItemsAreNumbers DEF Init
  <2>6. /\ pc = "sleep" /\ sem = "free" /\ reboot = "no"
        /\ lapsed = FALSE /\ sets \in Nat /\ refusals \in Nat /\ reboots \in Nat
    BY DEF Init
  <2> QED BY <2>1, <2>2, <2>3, <2>4, <2>5, <2>6, <2>7 DEF TypeOK
<1>2. TypeOK /\ [Next]_vars => TypeOK'
  <2> SUFFICES ASSUME TypeOK, [Next]_vars PROVE TypeOK'
    OBVIOUS
  <2>1. CASE LoraTask
    BY <2>1, LoraTaskType
  <2>2. CASE \E i \in Items : Setter(i)
    BY <2>2, SetterType
  <2>3. CASE OtherTake
    BY <2>3 DEF OtherTake, TypeOK, taskVars, boundVars, setterVars
  <2>4. CASE OtherGive
    BY <2>4 DEF OtherGive, TypeOK, taskVars, boundVars, setterVars
  <2>5. CASE Reboot
    BY <2>5, RebootType
  <2>6. CASE UNCHANGED vars
    BY <2>6 DEF vars, TypeOK, taskVars, boundVars, setterVars
  <2> QED BY <2>1, <2>2, <2>3, <2>4, <2>5, <2>6 DEF Next
<1> QED BY <1>1, <1>2, PTL DEF Spec
-----------------------------------------------------------------------------
(* NoLostRequest is inductive as it stands. *)
LEMMA LoraTaskKeepsRequests ==
    ASSUME TypeOK, NoLostRequest, LoraTask
    PROVE  NoLostRequest'
<1> USE DEF TypeOK, NoLostRequest, setterVars
<1>1. CASE Wake
  BY <1>1 DEF Wake
<1>2. CASE Check
  BY <1>2 DEF Check, NextBlock
<1>3. CASE LoadCounter
  BY <1>3 DEF LoadCounter
<1>4. CASE StoreCounter
  BY <1>4 DEF StoreCounter
<1>5. CASE TestCounter
  BY <1>5 DEF TestCounter, NextBlock
<1>6. CASE ClearFlag
  BY <1>6 DEF ClearFlag
<1>7. CASE Save
  BY <1>7 DEF Save
<1>8. CASE Refused
  BY <1>8 DEF Refused
<1>9. CASE GeneralDue
  BY <1>9 DEF GeneralDue
<1>10. CASE GeneralSave
  BY <1>10 DEF GeneralSave
<1>11. CASE GeneralRefused
  BY <1>11 DEF GeneralRefused
<1> QED
  BY <1>1, <1>2, <1>3, <1>4, <1>5, <1>6, <1>7, <1>8, <1>9, <1>10, <1>11
  DEF LoraTask

LEMMA OthersKeepRequests ==
    ASSUME TypeOK, NoLostRequest,
           \/ \E i \in Items : Setter(i)
           \/ OtherTake \/ OtherGive \/ Reboot
    PROVE  NoLostRequest'
<1> USE DEF TypeOK, NoLostRequest, setterVars, taskVars
<1>1. ASSUME NEW i \in Items, Change(i) PROVE NoLostRequest'
  BY <1>1 DEF Change
<1>2. ASSUME NEW i \in Items, RaiseFlag(i) PROVE NoLostRequest'
  BY <1>2 DEF RaiseFlag
<1>3. ASSUME NEW i \in Items, SetCounter(i) PROVE NoLostRequest'
  BY <1>3 DEF SetCounter
<1>4. CASE OtherTake
  BY <1>4 DEF OtherTake
<1>5. CASE OtherGive
  BY <1>5 DEF OtherGive
<1>6. CASE Reboot
  BY <1>6 DEF Reboot, RebootFlags, RebootCounters, Reset
<1> QED BY <1>1, <1>2, <1>3, <1>4, <1>5, <1>6 DEF Setter

(* A changed block whose flag is down is about to be written or about to   *)
(* be flagged: the LoRa task never forgets a block, whatever the setters   *)
(* do between its steps, tasks of its own priority included.               *)
THEOREM RequestsKept == Spec => []NoLostRequest
<1>1. Init => NoLostRequest
  BY DEF Init, NoLostRequest
<1>2. TypeOK /\ NoLostRequest /\ [Next]_vars => NoLostRequest'
  <2> SUFFICES ASSUME TypeOK, NoLostRequest, [Next]_vars PROVE NoLostRequest'
    OBVIOUS
  <2>1. CASE UNCHANGED vars
    BY <2>1 DEF vars, NoLostRequest, taskVars, setterVars
  <2> QED BY <2>1, LoraTaskKeepsRequests, OthersKeepRequests DEF Next
<1> QED BY <1>1, <1>2, TypeCorrect, PTL DEF Spec
-----------------------------------------------------------------------------
(* As long as no save of the general registers was refused and no reboot   *)
(* requested, their counter is at most Period, and it is not left there    *)
(* when the pass ends.                                                     *)
LapseInv ==
    ~lapsed => /\ general <= Period
               /\ general = Period => pc \notin {"sleep", "generalTake"}

LEMMA LoraTaskKeepsLapseInv ==
    ASSUME TypeOK, LapseInv, LoraTask
    PROVE  LapseInv'
<1> USE DEF TypeOK, LapseInv
<1>1. CASE Wake
  BY <1>1 DEF Wake, NextGeneral
<1>2. CASE Check \/ TestCounter \/ Save \/ Refused
  BY <1>2 DEF Check, TestCounter, Save, Refused, NextBlock
<1>3. CASE LoadCounter \/ StoreCounter \/ ClearFlag
  BY <1>3 DEF LoadCounter, StoreCounter, ClearFlag
<1>4. CASE GeneralDue
  BY <1>4 DEF GeneralDue
<1>5. CASE GeneralSave
  BY <1>5 DEF GeneralSave
<1>6. CASE GeneralRefused
  BY <1>6 DEF GeneralRefused
<1> QED BY <1>1, <1>2, <1>3, <1>4, <1>5, <1>6 DEF LoraTask

(* The general registers stop being saved only after a refused semaphore   *)
(* or a reboot request: no interleaving of the passes with the setters     *)
(* takes their counter past the value tested for equality.                 *)
THEOREM LapseCorrect == Spec => []LapseOnlyAfterRefusal
<1>1. Init => LapseInv
  BY DEF Init, LapseInv
<1>2. TypeOK /\ LapseInv /\ [Next]_vars => LapseInv'
  <2> SUFFICES ASSUME TypeOK, LapseInv, [Next]_vars PROVE LapseInv'
    OBVIOUS
  <2>1. CASE \E i \in Items : Setter(i)
    BY <2>1 DEF Setter, Change, RaiseFlag, SetCounter, LapseInv, taskVars
  <2>2. CASE OtherTake \/ OtherGive
    BY <2>2 DEF OtherTake, OtherGive, LapseInv, taskVars
  <2>3. CASE Reboot
    BY <2>3 DEF Reboot, RebootFlags, RebootCounters, Reset, LapseInv, taskVars
  <2>4. CASE UNCHANGED vars
    BY <2>4 DEF vars, LapseInv, taskVars
  <2> QED BY <2>1, <2>2, <2>3, <2>4, LoraTaskKeepsLapseInv DEF Next
<1>3. TypeOK /\ LapseInv => LapseOnlyAfterRefusal
  BY DEF TypeOK, LapseInv, LapseOnlyAfterRefusal
<1> QED BY <1>1, <1>2, <1>3, TypeCorrect, PTL DEF Spec
-----------------------------------------------------------------------------
(* No setter of block i is at work, and its last one met no decrement. *)
Clean(i) == setter[i] = "idle" /\ ~raced[i]

(* What keeps a pending save a few passes away, for one block: a counter   *)
(* set before its flag waits for the flag, and a raised flag has a counter *)
(* of at least 1, but for the block the LoRa task has just decremented.    *)
PendingBlock(i) ==
    /\ setter[i] = "lastFlag" /\ ~raced[i] => Soon(counter[i])
    /\ flag[i] = 1 /\ Clean(i) /\ ~(i = item /\ pc \in {"test", "clear"})
           => Soon(counter[i])

PendingInv ==
    reboot = "no" =>
        /\ \A i \in Items : PendingBlock(i)
        /\ pc \in {"load", "store", "test", "clear"} => flag[item] = 1
        /\ pc = "store" /\ Clean(item) => tmp = counter[item]
        /\ pc = "test" /\ Clean(item) => counter[item] = 0 \/ Soon(counter[item])

(* What a setter asks for is soon; so is one pass; a decrement brings the  *)
(* counter to 0 or leaves it soon.                                         *)
LEMMA SoonFacts ==
    /\ \A d \in SetDelays : Soon(d)
    /\ Soon(1)
    /\ \A n : Soon(n) => n \in Nat /\ n > 0 /\ (n - 1 = 0 \/ Soon(n - 1))
<1>1. Delays \subseteq Nat \ {0} /\ SetDelays \subseteq Delays
      /\ InitDelay \in Delays
  BY DEF Delays
<1> QED BY <1>1 DEF Soon

(* What the next block is about to be asked: nothing yet. *)
LEMMA NextBlockPlace ==
    ASSUME NextBlock
    PROVE  pc' \in {"check", "general"}
BY DEF NextBlock

LEMMA LoraTaskKeepsPending ==
    ASSUME TypeOK, PendingInv, LoraTask
    PROVE  PendingInv'
<1> USE DEF TypeOK, PendingInv, PendingBlock, Clean, setterVars, boundVars
<1> SUFFICES ASSUME reboot = "no", reboot' = "no" PROVE PendingInv'
  BY DEF LoraTask, Wake, Check, LoadCounter, StoreCounter, TestCounter,
         ClearFlag, Save, Refused, GeneralDue, GeneralSave, GeneralRefused
<1>1. CASE Wake
  BY <1>1 DEF Wake
<1>2. CASE Check
  BY <1>2, NextBlockPlace DEF Check
<1>3. CASE LoadCounter
  <2>1. /\ pc = "load" /\ pc' = "store" /\ tmp' = counter[item]
        /\ UNCHANGED <<flag, counter, setter, item>>
        /\ \A i \in Items : raced[i] => raced'[i]
    BY <1>3 DEF LoadCounter
  <2> QED BY <2>1
<1>4. CASE StoreCounter
  <2>1. /\ pc = "store" /\ pc' = "test" /\ item \in Items
        /\ UNCHANGED <<flag, setter, item>>
        /\ counter' = [counter EXCEPT ![item] = Decremented(tmp)]
        /\ \A i \in Items : raced[i] => raced'[i]
        /\ Halfway(item) => raced'[item]
    BY <1>4 DEF StoreCounter
  <2>2. ASSUME NEW i \in Items, i # item PROVE PendingBlock(i)'
    BY <2>1, <2>2
  <2>3. setter[item] = "lastFlag" => raced'[item]
    BY <2>1 DEF Halfway
  <2>4. Clean(item)' => counter'[item] = 0 \/ Soon(counter'[item])
    <3> SUFFICES ASSUME Clean(item)' PROVE counter'[item] = 0 \/ Soon(counter'[item])
      OBVIOUS
    <3>1. Clean(item)
      BY <2>1
    <3>2. flag[item] = 1 /\ tmp = counter[item] /\ Soon(counter[item])
      BY <2>1, <3>1
    <3> QED BY <2>1, <3>2, SoonFacts DEF Decremented
  <2> QED BY <2>1, <2>2, <2>3, <2>4
<1>5. CASE TestCounter
  BY <1>5, NextBlockPlace DEF TestCounter
<1>6. CASE ClearFlag
  BY <1>6 DEF ClearFlag
<1>7. CASE Save
  BY <1>7, NextBlockPlace DEF Save
<1>8. CASE Refused
  <2>1. /\ pc' \in {"check", "general"} /\ pc = "take"
        /\ UNCHANGED <<setter, raced>>
        /\ counter' = [counter EXCEPT ![item] = 1]
        /\ flag' = [flag EXCEPT ![item] = 1]
    BY <1>8, NextBlockPlace DEF Refused
  <2>2. ASSUME NEW i \in Items, i = item PROVE PendingBlock(i)'
    BY <2>1, <2>2, SoonFacts
  <2>3. ASSUME NEW i \in Items, i # item PROVE PendingBlock(i)'
    BY <2>1, <2>3
  <2> QED BY <2>1, <2>2, <2>3
<1>9. CASE GeneralDue
  BY <1>9 DEF GeneralDue
<1>10. CASE GeneralSave
  BY <1>10 DEF GeneralSave
<1>11. CASE GeneralRefused
  BY <1>11 DEF GeneralRefused
<1> QED
  BY <1>1, <1>2, <1>3, <1>4, <1>5, <1>6, <1>7, <1>8, <1>9, <1>10, <1>11
  DEF LoraTask

LEMMA SetterKeepsPending ==
    ASSUME TypeOK, PendingInv, NEW i \in Items, Setter(i)
    PROVE  PendingInv'
<1> USE DEF TypeOK, PendingInv, PendingBlock, Clean, taskVars
<1>1. CASE Change(i)
  BY <1>1 DEF Change
<1>2. CASE RaiseFlag(i)
  <2>1. /\ UNCHANGED <<counter, pc, item, tmp, reboot>>
        /\ flag' = [flag EXCEPT ![i] = 1]
        /\ \A j \in Items : j # i => setter'[j] = setter[j] /\ raced'[j] = raced[j]
        /\ \/ setter[i] = "flag" /\ setter'[i] = "lastCounter"
           \/ setter[i] = "lastFlag" /\ setter'[i] = "idle"
        /\ raced[i] \/ IntoDecrement(i) => raced'[i]
    BY <1>2 DEF RaiseFlag
  <2> QED BY <2>1 DEF IntoDecrement
<1>3. CASE SetCounter(i)
  <2>1. /\ UNCHANGED <<flag, pc, item, tmp, reboot>>
        /\ \A j \in Items : j # i => /\ setter'[j] = setter[j] /\ raced'[j] = raced[j]
                                    /\ counter'[j] = counter[j]
        /\ counter'[i] \in SetDelays
        /\ raced[i] \/ IntoDecrement(i) => raced'[i]
    BY <1>3 DEF SetCounter
  <2>2. Soon(counter'[i])
    BY <2>1, SoonFacts
  <2> QED BY <2>1, <2>2 DEF IntoDecrement
<1> QED BY <1>1, <1>2, <1>3 DEF Setter

(* A block boot asks to save has a counter to wait for. *)
LEMMA InitialSoon ==
    \A raised \in SUBSET BootItems : \A i \in Items :
        BootFlags(raised)[i] = 1 => Soon(InitialCounter[i])
<1>1. Soon(InitDelay)
  BY DEF Soon, Delays
<1>2. ASSUME NEW raised \in SUBSET BootItems, NEW i \in Items,
             BootFlags(raised)[i] = 1
      PROVE  Soon(InitialCounter[i])
  <2>1. i \in raised
    BY <1>2 DEF BootFlags
  <2>2. i \notin ZeroItems
    BY <2>1
  <2>3. InitialCounter[i] = InitDelay
    BY <2>2 DEF InitialCounter
  <2> QED BY <1>1, <2>3
<1> QED BY <1>2

LEMMA OthersKeepPending ==
    ASSUME TypeOK, PendingInv, OtherTake \/ OtherGive \/ Reboot
    PROVE  PendingInv'
<1> USE DEF TypeOK, PendingInv, PendingBlock, Clean, taskVars, setterVars
<1>1. CASE OtherTake
  BY <1>1 DEF OtherTake
<1>2. CASE OtherGive
  BY <1>2 DEF OtherGive
<1>3. CASE RebootFlags
  BY <1>3 DEF RebootFlags
<1>4. CASE RebootCounters
  BY <1>4 DEF RebootCounters
<1>5. CASE Reset
  BY <1>5, ItemsAreNumbers, InitialSoon DEF Reset
<1> QED BY <1>1, <1>2, <1>3, <1>4, <1>5 DEF Reboot

(* Whatever the setters, the refusals and the reboots, tasks of the LoRa   *)
(* task's own priority and setters held up for any time included: a        *)
(* pending save is never more than a set delay away, unless a decrement    *)
(* met the last setter of that block between its two assignments.          *)
THEOREM PendingCorrect == Spec => []PendingSoon
<1>1. Init => PendingInv
  BY ItemsAreNumbers, InitialSoon DEF Init, PendingInv, PendingBlock, Clean
<1>2. TypeOK /\ PendingInv /\ [Next]_vars => PendingInv'
  <2> SUFFICES ASSUME TypeOK, PendingInv, [Next]_vars PROVE PendingInv'
    OBVIOUS
  <2>1. CASE UNCHANGED vars
    BY <2>1 DEF vars, taskVars, setterVars, PendingInv, PendingBlock, Clean
  <2> QED BY <2>1, LoraTaskKeepsPending, SetterKeepsPending,
             OthersKeepPending DEF Next
<1>3. TypeOK /\ PendingInv => PendingSoon
  BY DEF TypeOK, PendingInv, PendingBlock, Clean, PendingSoon
<1> QED BY <1>1, <1>2, <1>3, TypeCorrect, PTL DEF Spec
=============================================================================
