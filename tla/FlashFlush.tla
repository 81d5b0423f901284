----------------------------- MODULE FlashFlush -----------------------------
(***************************************************************************)
(* Deferred saving of the configuration blocks: the last part of the loop  *)
(* of StartLoraTask (src/Core/Src/RAK_Lora.c), the setters all over the    *)
(* firmware that raise a block's flag and set its wait counter, and        *)
(* reboot_device_func (src/Core/Src/main.c).                               *)
(*                                                                         *)
(* The LoRa task has priority osPriorityHigh.  The setters, the reboot and *)
(* the other users of the flash semaphore run in tasks of lower priority,  *)
(* so they run only while the LoRa task sleeps or waits for the semaphore; *)
(* they can be preempted between any two of their assignments.  PeerItems  *)
(* are the blocks that a task of the same priority sets too (the receive   *)
(* task sets General): those setters interleave with the LoRa task's own   *)
(* steps.                                                                  *)
(*                                                                         *)
(* A block's contents are abstracted to a version number.                  *)
(***************************************************************************)
EXTENDS Integers

CONSTANTS NItems,       \* blocks with a flag and a wait counter
          PeerItems,    \* those also set by a task of the same priority
          RebootItems,  \* those reboot_device_func saves
          BootItems,    \* those boot may ask to save: General
          ZeroItems,    \* those whose counter starts at 0: Frequent
          SetDelays,    \* loops the setters ask to wait: 5, or 2
          InitDelay,    \* the other counters' initial value: 10
          Period,       \* loops between saves of the general registers: 60
          RetryMark,    \* what a refused save sets that counter to: 299
          CounterMod,   \* values of an unsigned int
          MaxHeld,      \* scheduling bound: passes of the LoRa task between
                        \* two assignments of one setter
          MaxSets,      \* bound: changes of the blocks
          MaxRefusals,  \* bound: semaphore time-outs
          MaxReboots    \* bound: software reboots

ASSUME ItemsAssumption ==
    NItems \in Nat \ {0} /\ PeerItems \subseteq 1 .. NItems
    /\ RebootItems \subseteq 1 .. NItems
    /\ BootItems \subseteq 1 .. NItems /\ BootItems \cap ZeroItems = {}
ASSUME DelayAssumption ==
    /\ CounterMod \in Nat \ {0}
    /\ SetDelays \subseteq 1 .. CounterMod - 1
    /\ InitDelay \in 1 .. CounterMod - 1
    /\ Period \in Nat \ {0} /\ RetryMark \in Nat
    /\ Period < RetryMark /\ RetryMark < CounterMod
ASSUME BoundAssumption ==
    /\ MaxHeld \in Nat /\ MaxSets \in Nat
    /\ MaxRefusals \in Nat /\ MaxReboots \in Nat

Items == 1 .. NItems

VARIABLES ram,      \* block |-> its version in memory
          saved,    \* block |-> its version in flash
          flag,     \* block |-> flag_flashUpdateEPROM_...
          counter,  \* block |-> flag_flashUpdateEPROM_..._WaitCounter
          general,  \* flag_flashUpdateEPROM_PCBPLC_GENERAL_REG_WaitCounter
          setter,   \* block |-> where a setter of it is
          held,     \* block |-> passes made since that setter began
          raced,    \* block |-> a decrement of its counter met its last
                    \* setter between that one's two assignments
          pc, item, \* the LoRa task: its place and the block it looks at
          tmp,      \* the counter it is decrementing
          sem,      \* sendExternalFlashSemaphore: its holder
          reboot,   \* where reboot_device_func is
          sets, refusals, reboots,  \* counts, for the bounds
          lapsed    \* a save of the general registers was refused, or
                    \* a reboot requested

taskVars == <<pc, item, tmp>>
boundVars == <<sets, refusals, reboots>>
setterVars == <<setter, held, raced>>
vars == <<ram, saved, flag, counter, general, setterVars, taskVars, sem,
          reboot, boundVars, lapsed>>

(* At power-up and after a reset the flags are down and the counters have  *)
(* their initial values; then boot may raise the flag of General.          *)
InitialCounter == [i \in Items |-> IF i \in ZeroItems THEN 0 ELSE InitDelay]

BootFlags(raised) == [i \in Items |-> IF i \in raised THEN 1 ELSE 0]

Init ==
    /\ ram = [i \in Items |-> 0]
    /\ saved = [i \in Items |-> 0]
    /\ \E raised \in SUBSET BootItems : flag = BootFlags(raised)
    /\ counter = InitialCounter
    /\ general = 0
    /\ setter = [i \in Items |-> "idle"]
    /\ held = [i \in Items |-> 0]
    /\ raced = [i \in Items |-> FALSE]
    /\ pc = "sleep" /\ item = 1 /\ tmp = 0
    /\ sem = "free"
    /\ reboot = "no"
    /\ sets = 0 /\ refusals = 0 /\ reboots = 0 /\ lapsed = FALSE

(* The LoRa task sleeps or waits for the semaphore. *)
Blocked ==
    \/ pc = "sleep"
    \/ pc \in {"take", "generalTake"} /\ sem # "free"
-----------------------------------------------------------------------------
(* A setter changes the block, then raises its flag and sets its counter,  *)
(* in an order that depends on the setter.                                 *)
MayRun(i) == Blocked \/ i \in PeerItems

(* A setter of block i is between its two assignments. *)
Halfway(i) == setter[i] \in {"lastFlag", "lastCounter"}

(* An assignment of a setter falls into the decrement of its counter. *)
IntoDecrement(i) == pc = "store" /\ item = i

Change(i) ==
    /\ MayRun(i) /\ setter[i] = "idle" /\ sets < MaxSets
    /\ sets' = sets + 1
    /\ ram' = [ram EXCEPT ![i] = @ + 1]
    /\ \E s \in {"flag", "counter"} : setter' = [setter EXCEPT ![i] = s]
    /\ held' = [held EXCEPT ![i] = 0]
    /\ raced' = [raced EXCEPT ![i] = FALSE]
    /\ UNCHANGED <<saved, flag, counter, general, taskVars, sem, reboot,
                   refusals, reboots, lapsed>>

RaiseFlag(i) ==
    /\ MayRun(i) /\ setter[i] \in {"flag", "lastFlag"}
    /\ flag' = [flag EXCEPT ![i] = 1]
    /\ setter' = [setter EXCEPT ![i] =
                    IF @ = "flag" THEN "lastCounter" ELSE "idle"]
    /\ raced' = [raced EXCEPT ![i] = @ \/ IntoDecrement(i)]
    /\ UNCHANGED <<ram, saved, counter, general, held, taskVars, sem, reboot,
                   boundVars, lapsed>>

SetCounter(i) ==
    /\ MayRun(i) /\ setter[i] \in {"counter", "lastCounter"}
    /\ \E d \in SetDelays : counter' = [counter EXCEPT ![i] = d]
    /\ setter' = [setter EXCEPT ![i] =
                    IF @ = "counter" THEN "lastFlag" ELSE "idle"]
    /\ raced' = [raced EXCEPT ![i] = @ \/ IntoDecrement(i)]
    /\ UNCHANGED <<ram, saved, flag, general, held, taskVars, sem, reboot,
                   boundVars, lapsed>>

Setter(i) == Change(i) \/ RaiseFlag(i) \/ SetCounter(i)

(* Another user of the flash. *)
OtherTake ==
    /\ Blocked /\ sem = "free"
    /\ sem' = "other"
    /\ UNCHANGED <<ram, saved, flag, counter, general, setterVars, taskVars,
                   reboot, boundVars, lapsed>>

OtherGive ==
    /\ Blocked /\ sem = "other"
    /\ sem' = "free"
    /\ UNCHANGED <<ram, saved, flag, counter, general, setterVars, taskVars,
                   reboot, boundVars, lapsed>>
-----------------------------------------------------------------------------
(* Mutant of NextGeneral: the passes are not counted. *)
NextGeneralStuck == general

(* The general registers' counter is incremented on every pass. *)
NextGeneral == IF general + 1 = CounterMod THEN 0 ELSE general + 1

(* One pass of the LoRa task's loop, a second after the last one. *)
Wake ==
    /\ pc = "sleep"
    /\ \A i \in Items : setter[i] = "idle" \/ held[i] < MaxHeld
    /\ held' = [i \in Items |-> IF setter[i] = "idle" THEN 0 ELSE held[i] + 1]
    /\ general' = NextGeneral
    /\ pc' = "check" /\ item' = 1
    /\ UNCHANGED <<ram, saved, flag, counter, setter, raced, tmp, sem,
                   reboot, boundVars, lapsed>>

(* On to the next block, or to the general registers after the last. *)
NextBlock ==
    IF item < NItems THEN pc' = "check" /\ item' = item + 1
    ELSE pc' = "general" /\ item' = item

(* Mutant of Check: the last block is left out. *)
CheckAllButLast ==
    /\ pc = "check"
    /\ IF flag[item] = 1 /\ item < NItems THEN pc' = "load" /\ item' = item
       ELSE NextBlock
    /\ UNCHANGED <<ram, saved, flag, counter, general, setterVars, tmp, sem,
                   reboot, boundVars, lapsed>>

Check ==
    /\ pc = "check"
    /\ IF flag[item] = 1 THEN pc' = "load" /\ item' = item ELSE NextBlock
    /\ UNCHANGED <<ram, saved, flag, counter, general, setterVars, tmp, sem,
                   reboot, boundVars, lapsed>>

(* The decrement reads the counter, then writes it. *)
LoadCounter ==
    /\ pc = "load"
    /\ tmp' = counter[item]
    /\ raced' = [raced EXCEPT ![item] = @ \/ Halfway(item)]
    /\ pc' = "store"
    /\ UNCHANGED <<ram, saved, flag, counter, general, setter, held, item,
                   sem, reboot, boundVars, lapsed>>

(* Mutant of Decremented: the counter is taken for a signed one. *)
DecrementedSigned(n) == n - 1

(* An unsigned counter goes round below 0. *)
Decremented(n) == IF n = 0 THEN CounterMod - 1 ELSE n - 1

StoreCounter ==
    /\ pc = "store"
    /\ counter' = [counter EXCEPT ![item] = Decremented(tmp)]
    /\ raced' = [raced EXCEPT ![item] = @ \/ Halfway(item)]
    /\ pc' = "test"
    /\ UNCHANGED <<ram, saved, flag, general, setter, held, item, tmp, sem,
                   reboot, boundVars, lapsed>>

TestCounter ==
    /\ pc = "test"
    /\ IF counter[item] = 0 THEN pc' = "clear" /\ item' = item ELSE NextBlock
    /\ UNCHANGED <<ram, saved, flag, counter, general, setterVars, tmp, sem,
                   reboot, boundVars, lapsed>>

ClearFlag ==
    /\ pc = "clear"
    /\ flag' = [flag EXCEPT ![item] = 0]
    /\ pc' = "take"
    /\ UNCHANGED <<ram, saved, counter, general, setterVars, item, tmp, sem,
                   reboot, boundVars, lapsed>>

(* The semaphore is obtained, the block written and the semaphore given.   *)
Save ==
    /\ pc = "take" /\ sem = "free"
    /\ saved' = [saved EXCEPT ![item] = ram[item]]
    /\ NextBlock
    /\ UNCHANGED <<ram, flag, counter, general, setterVars, tmp, sem, reboot,
                   boundVars, lapsed>>

(* Mutant of Refused: the request is dropped. *)
RefusedDrops ==
    /\ pc = "take" /\ sem # "free" /\ refusals < MaxRefusals
    /\ refusals' = refusals + 1
    /\ NextBlock
    /\ UNCHANGED <<ram, saved, flag, counter, general, setterVars, tmp, sem,
                   reboot, sets, reboots, lapsed>>

(* Mutant of Refused: the counter stays at 0. *)
RefusedKeepsCounter ==
    /\ pc = "take" /\ sem # "free" /\ refusals < MaxRefusals
    /\ refusals' = refusals + 1
    /\ flag' = [flag EXCEPT ![item] = 1]
    /\ NextBlock
    /\ UNCHANGED <<ram, saved, counter, general, setterVars, tmp, sem, reboot,
                   sets, reboots, lapsed>>

(* The semaphore is refused: ask again for the next pass. *)
Refused ==
    /\ pc = "take" /\ sem # "free" /\ refusals < MaxRefusals
    /\ refusals' = refusals + 1
    /\ flag' = [flag EXCEPT ![item] = 1]
    /\ counter' = [counter EXCEPT ![item] = 1]
    /\ NextBlock
    /\ UNCHANGED <<ram, saved, general, setterVars, tmp, sem, reboot, sets,
                   reboots, lapsed>>

(* Mutant of GeneralDue: the counter is not reset. *)
GeneralDueNoReset ==
    /\ pc = "general"
    /\ IF general = Period THEN pc' = "generalTake" ELSE pc' = "sleep"
    /\ UNCHANGED <<ram, saved, flag, counter, general, setterVars, item, tmp,
                   sem, reboot, boundVars, lapsed>>

(* The general registers are saved every Period passes. *)
GeneralDue ==
    /\ pc = "general"
    /\ IF general = Period THEN general' = 0 /\ pc' = "generalTake"
       ELSE general' = general /\ pc' = "sleep"
    /\ UNCHANGED <<ram, saved, flag, counter, setterVars, item, tmp, sem,
                   reboot, boundVars, lapsed>>

GeneralSave ==
    /\ pc = "generalTake" /\ sem = "free"
    /\ pc' = "sleep"
    /\ UNCHANGED <<ram, saved, flag, counter, general, setterVars, item, tmp,
                   sem, reboot, boundVars, lapsed>>

GeneralRefused ==
    /\ pc = "generalTake" /\ sem # "free" /\ refusals < MaxRefusals
    /\ refusals' = refusals + 1
    /\ general' = RetryMark
    /\ lapsed' = TRUE
    /\ pc' = "sleep"
    /\ UNCHANGED <<ram, saved, flag, counter, setterVars, item, tmp, sem,
                   reboot, sets, reboots>>

LoraTask == Wake \/ Check \/ LoadCounter \/ StoreCounter \/ TestCounter
            \/ ClearFlag \/ Save \/ Refused
            \/ GeneralDue \/ GeneralSave \/ GeneralRefused
-----------------------------------------------------------------------------
(* reboot_device_func: all the flags, then all the counters, then a delay  *)
(* during which the LoRa task may or may not complete a pass.              *)
RebootFlags ==
    /\ Blocked /\ reboot = "no" /\ reboots < MaxReboots
    /\ reboots' = reboots + 1
    /\ flag' = [i \in Items |-> IF i \in RebootItems THEN 1 ELSE flag[i]]
    /\ reboot' = "flags"
    /\ UNCHANGED <<ram, saved, counter, general, setterVars, taskVars, sem,
                   sets, refusals, lapsed>>

RebootCounters ==
    /\ Blocked /\ reboot = "flags"
    /\ counter' = [i \in Items |-> IF i \in RebootItems THEN 1 ELSE counter[i]]
    /\ general' = RetryMark
    /\ lapsed' = TRUE
    /\ reboot' = "delay"
    /\ UNCHANGED <<ram, saved, flag, setterVars, taskVars, sem, boundVars>>

(* HAL_NVIC_SystemReset: the memory is reloaded from the flash. *)
Reset ==
    /\ Blocked /\ reboot = "delay"
    /\ ram' = saved
    /\ \E raised \in SUBSET BootItems : flag' = BootFlags(raised)
    /\ counter' = InitialCounter
    /\ general' = 0
    /\ setter' = [i \in Items |-> "idle"]
    /\ held' = [i \in Items |-> 0]
    /\ raced' = [i \in Items |-> FALSE]
    /\ pc' = "sleep" /\ item' = 1 /\ tmp' = 0
    /\ sem' = "free" /\ reboot' = "no" /\ lapsed' = FALSE
    /\ UNCHANGED <<saved, boundVars>>

Reboot == RebootFlags \/ RebootCounters \/ Reset

Next == LoraTask \/ (\E i \in Items : Setter(i)) \/ OtherTake \/ OtherGive
        \/ Reboot

Spec == Init /\ [][Next]_vars

(* The LoRa task runs when it is ready, a setter finishes what it started  *)
(* and the other users give the semaphore back.                            *)
FairSpec ==
    /\ Spec
    /\ WF_vars(LoraTask)
    /\ WF_vars(OtherGive)
    /\ \A i \in Items : WF_vars(RaiseFlag(i) \/ SetCounter(i))
-----------------------------------------------------------------------------
TypeOK ==
    /\ ram \in [Items -> Nat] /\ saved \in [Items -> Nat]
    /\ flag \in [Items -> {0, 1}]
    /\ counter \in [Items -> 0 .. CounterMod - 1]
    /\ general \in 0 .. CounterMod - 1
    /\ setter \in [Items ->
            {"idle", "flag", "counter", "lastFlag", "lastCounter"}]
    /\ held \in [Items -> 0 .. MaxHeld] /\ raced \in [Items -> BOOLEAN]
    /\ pc \in {"sleep", "check", "load", "store", "test", "clear", "take",
               "general", "generalTake"}
    /\ item \in Items /\ tmp \in 0 .. CounterMod - 1
    /\ sem \in {"free", "other"}
    /\ reboot \in {"no", "flags", "delay"}
    /\ sets \in Nat /\ refusals \in Nat /\ reboots \in Nat /\ lapsed \in BOOLEAN

(* A changed block is never forgotten: as long as flash does not hold its  *)
(* last version, its flag is up, or its setter has still to raise it, or   *)
(* the LoRa task has just lowered it and is about to write the block       *)
(* (setters against the lowering of the flag before the write, and against *)
(* the wait for the semaphore).                                            *)
NoLostRequest ==
    \A i \in Items :
        saved[i] # ram[i] =>
            \/ flag[i] = 1
            \/ setter[i] \in {"flag", "counter", "lastFlag"}
            \/ pc = "take" /\ item = i

Delays == SetDelays \cup {InitDelay}

Soon(n) == \E d \in Delays : n \in 1 .. d

(* A pending save is a few passes away, whatever was refused, saved or set *)
(* before.  The counter is unsigned and decremented before it is tested:   *)
(* found at 0 it would put the save off for its whole range.  That happens *)
(* only when a decrement meets the block's last setter between its two     *)
(* assignments (the receive task, whose priority is the LoRa task's, or a  *)
(* setter held up for as many passes as it asks for), and only until the   *)
(* block is set again.                                                     *)
PendingSoon ==
    pc = "sleep" =>
        \A i \in Items :
            flag[i] = 1 /\ setter[i] = "idle" /\ reboot = "no"
                => Soon(counter[i]) \/ raced[i]

(* The general registers stop being saved (their counter gets past the     *)
(* value that is tested for equality) only after a refused semaphore or a  *)
(* reboot request.                                                         *)
LapseOnlyAfterRefusal == general > Period => lapsed

(* A changed block is eventually written, unless a reboot comes first; a   *)
(* counter that went round below 0 comes down again, in its own time.      *)
EventuallySaved ==
    \A i \in Items : \A v \in 1 .. MaxSets :
        ram[i] >= v ~> saved[i] >= v \/ reboot # "no"

(* The general registers are saved over and over, short of a lapse.        *)
GeneralSavedAgain == []<>(pc = "generalTake" \/ lapsed)
=============================================================================
