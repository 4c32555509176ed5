--------------------------- MODULE InstretCounter ---------------------------
(***************************************************************************)
(* The retired-instruction counter that core 1 keeps and core 0 shows on   *)
(* the status panel: the cycle CSR (mini-rv32ima.h), the cycles made up    *)
(* for a sleeping guest (start_vm), and vm_get_instret, which reads both   *)
(* from the other core.                                                    *)
(*                                                                         *)
(* Each counter is two words of Base values.  A store or a load of one     *)
(* word is one step; the compiler may store either half of the cycle CSR   *)
(* first, the volatile idle counter is stored low half first.              *)
(***************************************************************************)
EXTENDS Integers

CONSTANTS
  Base,       \* values of a word, 2^32
  Batch,      \* instrs_per_flip: instructions of a step, cycles of a sleep
  MaxCycles   \* bound on what the counters reach; Base^2 is out of reach

ASSUME CounterAssumption ==
  /\ Base \in Nat \ {0, 1}
  /\ Batch \in 1..(Base - 1)
  /\ MaxCycles \in 1..(Base * Base - 1)

Word == 0..(Base - 1)
Half == {"lo", "hi"}
Val(p) == p["hi"] * Base + p["lo"]
Zero == [h \in Half |-> 0]

VARIABLES
  \* shared by the cores
  cycle,   \* core.cyclel, core.cycleh
  idle,    \* vm_idle_lo, vm_idle_hi
  \* core 1
  at,      \* where core 1 is
  goal,    \* what cycle becomes when the halves in left are stored
  left,
  \* core 0
  reader,  \* a read64_torn_safe
  \* the card
  snap,    \* the cycle CSR in SNAP, and ran and lost at that moment
  \* history
  total,   \* the 64-bit values that cycle and idle stand for
  next,    \* what total.cycle becomes with the last half stored
  ran,     \* instructions the guest has executed
  lost,    \* those of steps that returned before counting
  revived, \* the machine has been switched off and on
  forgotten \* what the idle counter held then

history == <<total, next, ran, lost, revived, forgotten>>
vars == <<cycle, idle, at, goal, left, reader, snap, history>>

NoRead == [at |-> "rest", of |-> "cycle", h |-> 0, l |-> 0,
           from |-> 0, to |-> 0, midway |-> FALSE]

Init ==
  /\ cycle = Zero /\ idle = Zero
  /\ at = "ready"
  /\ goal = Zero /\ left = {}
  /\ reader = NoRead
  /\ snap = [cycle |-> Zero, ran |-> 0, lost |-> 0]
  /\ total = [cycle |-> 0, idle |-> 0] /\ next = 0
  /\ ran = 0 /\ lost = 0 /\ revived = FALSE /\ forgotten = 0

(* n more on two words: the carry is told from a low word that shrank.     *)
(* (LateCarry, NoRetry and ForgetIdle are plausible slips.)                *)
LateCarry(p, n) ==
  LET low == (p["lo"] + n) % Base
  IN [lo |-> low, hi |-> IF low = 0 THEN p["hi"] + 1 ELSE p["hi"]]

Plus(p, n) ==
  LET low == (p["lo"] + n) % Base
  IN [lo |-> low, hi |-> IF p["lo"] > low THEN p["hi"] + 1 ELSE p["hi"]]

(* cycle is about to become p, which stands for n.                         *)
StoreSoon(p, n) ==
  /\ goal' = p
  /\ left' = {"lo"} \cup {h \in {"hi"} : p[h] # cycle[h]}
  /\ next' = n

-----------------------------------------------------------------------------
(* Core 1.                                                                 *)

(* A step that runs to its end, or to a trap: n instructions.              *)
Retire(n) ==
  /\ at = "ready"
  /\ total.cycle + n <= MaxCycles
  /\ StoreSoon(Plus(cycle, n), total.cycle + n)
  /\ at' = "retire"
  /\ ran' = ran + n
  /\ UNCHANGED <<cycle, idle, reader, snap, total, lost, revived, forgotten>>

(* A step that finds the hart asleep (n = 0) or puts it to sleep: it       *)
(* returns before the cycle CSR is stored, and start_vm adds a batch.      *)
Sleep(n) ==
  /\ at = "ready"
  /\ total.cycle + Batch <= MaxCycles /\ ran + n <= MaxCycles
  /\ StoreSoon(Plus(cycle, Batch), total.cycle + Batch)
  /\ at' = "sleep"
  /\ ran' = ran + n
  /\ lost' = lost + n
  /\ UNCHANGED <<cycle, idle, reader, snap, total, revived, forgotten>>

(* A syscon store ends the step the same way; the guest is started anew    *)
(* over the same counters.                                                 *)
Syscon(n) ==
  /\ at = "ready"
  /\ ran + n <= MaxCycles
  /\ ran' = ran + n
  /\ lost' = lost + n
  /\ UNCHANGED <<cycle, idle, at, goal, left, reader, snap, total, next, revived,
                 forgotten>>

StoreHalf(h) ==
  /\ h \in left
  /\ cycle' = [cycle EXCEPT ![h] = goal[h]]
  /\ left' = left \ {h}
  /\ IF left' # {} THEN UNCHANGED <<at, total>>
     ELSE /\ at' = IF at = "sleep" THEN "idle_lo" ELSE "ready"
          /\ total' = [total EXCEPT !.cycle = next]
  /\ UNCHANGED <<idle, goal, reader, snap, next, ran, lost, revived,
                 forgotten>>

ForgetIdle ==
  /\ at = "idle_lo"
  /\ at' = "ready"
  /\ UNCHANGED <<cycle, idle, goal, left, reader, snap, history>>

(* vm_idle_lo, then vm_idle_hi if the low word wrapped.                    *)
AddIdle ==
  /\ at = "idle_lo"
  /\ idle' = [idle EXCEPT !["lo"] = Plus(idle, Batch)["lo"]]
  /\ IF Plus(idle, Batch)["hi"] # idle["hi"]
     THEN at' = "idle_hi" /\ UNCHANGED total
     ELSE at' = "ready" /\ total' = [total EXCEPT !.idle = @ + Batch]
  /\ UNCHANGED <<cycle, goal, left, reader, snap, next, ran, lost, revived,
                 forgotten>>

CarryIdle ==
  /\ at = "idle_hi"
  /\ idle' = [idle EXCEPT !["hi"] = @ + 1]
  /\ at' = "ready"
  /\ total' = [total EXCEPT !.idle = @ + Batch]
  /\ UNCHANGED <<cycle, goal, left, reader, snap, next, ran, lost, revived,
                 forgotten>>

(* The hart goes into the snapshot, the idle counter does not.             *)
Hibernate ==
  /\ at = "ready"
  /\ at' = "off"
  /\ snap' = [cycle |-> cycle, ran |-> ran, lost |-> lost]
  /\ UNCHANGED <<cycle, idle, goal, left, reader, history>>

PowerCycle ==
  /\ at = "off" /\ ~revived
  /\ cycle' = Zero /\ idle' = Zero
  /\ total' = [cycle |-> 0, idle |-> 0]
  /\ reader' = NoRead
  /\ revived' = TRUE
  /\ forgotten' = forgotten + total.idle
  /\ UNCHANGED <<at, goal, left, snap, next, ran, lost>>

Resume ==
  /\ at = "off"
  /\ at' = "resume"
  /\ StoreSoon(snap.cycle, Val(snap.cycle))
  /\ ran' = snap.ran /\ lost' = snap.lost
  /\ UNCHANGED <<cycle, idle, reader, snap, total, revived, forgotten>>

-----------------------------------------------------------------------------
(* Core 0: read64_torn_safe of the cycle CSR and of the idle counter in    *)
(* turn, as vm_get_instret calls it.                                       *)

Counter(of) == IF of = "cycle" THEN cycle ELSE idle

(* Between the two stores of a carry the words stand for no value.         *)
Midway(of) == Val(Counter(of)) # total[of]

ReadHigh ==
  /\ reader.at \in {"rest", "again"}
  /\ LET first == reader.at = "rest"
     IN reader' = [reader EXCEPT !.at = "low", !.h = Counter(reader.of)["hi"],
                     !.from = IF first THEN total[reader.of] ELSE @,
                     !.midway = (~first /\ @) \/ Midway(reader.of)]
  /\ UNCHANGED <<cycle, idle, at, goal, left, snap, history>>

ReadLow ==
  /\ reader.at = "low"
  /\ reader' = [reader EXCEPT !.at = "check", !.l = Counter(reader.of)["lo"],
                   !.midway = @ \/ Midway(reader.of)]
  /\ UNCHANGED <<cycle, idle, at, goal, left, snap, history>>

NoRetry ==
  /\ reader.at = "check"
  /\ reader' = [reader EXCEPT !.at = "got", !.to = total[reader.of],
                   !.midway = @ \/ Midway(reader.of)]
  /\ UNCHANGED <<cycle, idle, at, goal, left, snap, history>>

(* Another round if the high word moved.                                   *)
Recheck ==
  /\ reader.at = "check"
  /\ reader' = [reader EXCEPT
                   !.at = IF Counter(reader.of)["hi"] = reader.h THEN "got" ELSE "again",
                   !.to = total[reader.of],
                   !.midway = @ \/ Midway(reader.of)]
  /\ UNCHANGED <<cycle, idle, at, goal, left, snap, history>>

ReadOther ==
  /\ reader.at = "got"
  /\ reader' = [NoRead EXCEPT !.of = IF reader.of = "cycle" THEN "idle" ELSE "cycle"]
  /\ UNCHANGED <<cycle, idle, at, goal, left, snap, history>>

-----------------------------------------------------------------------------
Core1 ==
  \/ \E n \in 0..Batch : Retire(n) \/ Sleep(n) \/ (n > 0 /\ Syscon(n))
  \/ \E h \in Half : StoreHalf(h)
  \/ AddIdle \/ CarryIdle \/ Hibernate \/ Resume

Core0 == ReadHigh \/ ReadLow \/ Recheck \/ ReadOther

Next == Core1 \/ Core0 \/ PowerCycle

Spec == Init /\ [][Next]_vars

(* What vm_get_instret returns while core 1 is between two steps.          *)
Instret == IF Val(cycle) > Val(idle) THEN Val(cycle) - Val(idle) ELSE 0

-----------------------------------------------------------------------------
(* Every variable has its type; no counter leaves its two words.           *)
TypeOK ==
  /\ {cycle, idle, goal, snap.cycle} \subseteq [Half -> Word]
  /\ at \in {"ready", "retire", "sleep", "idle_lo", "idle_hi", "off", "resume"}
  /\ left \subseteq Half
  /\ reader.at \in {"rest", "low", "check", "again", "got"}
  /\ reader.of \in {"cycle", "idle"}
  /\ reader.h \in Word /\ reader.l \in Word
  /\ {next, total.cycle, total.idle} \subseteq 0..(Base * Base - 1)

(* Between two steps of core 1 the words of both counters are the 64-bit   *)
(* values they stand for: the carry tests of mini-rv32ima.h and start_vm   *)
(* miss no wrap and invent none.                                           *)
CarriesExact ==
  at \in {"ready", "off"} => Val(cycle) = total.cycle /\ Val(idle) = total.idle

(* A sample whose loads all fell outside the two stores of a carry is a    *)
(* value the counter had between its first and its last load: the second   *)
(* look at the high word catches a carry that happens between two loads.   *)
RetryCatchesCarry ==
  reader.at = "got" /\ ~reader.midway =>
    reader.h * Base + reader.l \in reader.from..reader.to

(* emulator.h:28 "Safe to call from the other core -- it retries around a  *)
(* torn 64-bit read".  It cannot tell a carry that is half stored: all     *)
(* three loads may fall between the two stores.                            *)
SampleIsRecent ==
  reader.at = "got" => reader.h * Base + reader.l \in reader.from..reader.to

(* Between two steps, what comes out is the instructions run, and no cycle *)
(* made up for sleeping since the machine was switched on: "Those have to  *)
(* come back out" (emulator.c:116).  The count may still be wrong both     *)
(* ways, so it is "Instructions actually retired" (emulator.c:123) within  *)
(* these limits only: a step that ends in WFI or in a syscon store returns *)
(* before its instructions are counted (lost), and the sleeps of a guest   *)
(* that hibernated count as instructions once it is resumed (forgotten).   *)
SleepComesOut ==
  at = "ready" => Instret \in (ran - lost)..(ran + forgotten)

=============================================================================
