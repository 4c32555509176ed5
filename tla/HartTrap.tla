------------------------------ MODULE HartTrap ------------------------------
(***************************************************************************)
(* The control of the emulated hart (MiniRV32IMAStep): the machine timer,  *)
(* sleeping in WFI, the timer interrupt, exceptions, MRET and the CSRs     *)
(* they go through, in batches between which alone time passes and an      *)
(* interrupt can be taken.                                                 *)
(*                                                                         *)
(* The guest's program is any: each instruction is a free choice.  What an *)
(* instruction computes is left out, but for where it goes next, the trap  *)
(* it raises and the trap state it writes.  A code address is a number, in *)
(* RAM below RamTop; 4 bytes are 1.                                        *)
(***************************************************************************)
EXTENDS Integers

CONSTANTS
  RamTop,    \* code addresses in RAM, 0..RamTop - 1; RamTop is outside
  Batch,     \* instrs_per_flip
  Base,      \* values of a timer word, 2^32
  MaxTime    \* bound on the timer

ASSUME HartAssumption ==
  /\ RamTop \in Nat \ {0}
  /\ Batch \in Nat \ {0}
  /\ Base \in Nat \ {0, 1}
  /\ MaxTime \in 1..(Base * Base - 1)

Pc == 0..RamTop
Machine == 3
User == 0
Word == 0..(Base - 1)
Val(t) == t.hi * Base + t.lo

VARIABLES
  at,          \* "off", "host" (between steps) or "batch"
  left,        \* instructions left in the batch
  pc, priv, wfi,           \* pc, extraflags
  mstatus,     \* MIE, MPIE and MPP
  mtie, mtip,  \* mie, mip
  mtvec, mepc,
  timer, timermatch,       \* low and high words
  \* history
  did,         \* what the last step did
  now,         \* the time the timer stands for
  ctx,         \* what the last trap interrupted, as long as it can return
  waited       \* instructions run since the interrupt was due

history == <<did, now, ctx, waited>>
vars == <<at, left, pc, priv, wfi, mstatus, mtie, mtip, mtvec, mepc,
          timer, timermatch, history>>

Context == [pc : Pc, priv : {User, Machine}, mie : BOOLEAN, live : BOOLEAN]
None == [pc |-> 0, priv |-> Machine, mie |-> FALSE, live |-> FALSE]

Init ==
  /\ at = "off" /\ left = 0
  /\ pc = 0 /\ priv = User /\ wfi = FALSE
  /\ mstatus = [mie |-> FALSE, mpie |-> FALSE, mpp |-> User]
  /\ mtie = FALSE /\ mtip = FALSE
  /\ mtvec = 0 /\ mepc = 0
  /\ timer = [lo |-> 0, hi |-> 0] /\ timermatch = [lo |-> 0, hi |-> 0]
  /\ did = "none" /\ now = 0 /\ ctx = None /\ waited = 0

(* The timer has passed a match that is set.                               *)
HighPast(t, m) == t.hi > m.hi
Past(t, m) == (t.hi > m.hi \/ (t.hi = m.hi /\ t.lo > m.lo)) /\ Val(m) # 0

(* (HighPast, NoCarry, LoseMpie and StaleDeliver are plausible slips.)     *)
(* elapsedUs more, the carry told from a low word that shrank.             *)
NoCarry(t, dt) == [t EXCEPT !.lo = (@ + dt) % Base]
Later(t, dt) ==
  LET low == (t.lo + dt) % Base
  IN [lo |-> low, hi |-> IF low < t.lo THEN (t.hi + 1) % Base ELSE t.hi]

(* mstatus on a trap and on MRET.                                          *)
LoseMpie == [mie |-> FALSE, mpie |-> mstatus.mpie, mpp |-> priv]
OnTrap == [mie |-> FALSE, mpie |-> mstatus.mie, mpp |-> priv]
OnMret == [mie |-> mstatus.mpie, mpie |-> TRUE, mpp |-> priv]

Due(t, m) == Past(t, m) /\ mtie /\ mstatus.mie

(* One instruction more has run; the interrupt is due or not.              *)
Count == waited' = IF Due(timer, timermatch) THEN waited + 1 ELSE 0

-----------------------------------------------------------------------------
(* A trap, interrupt or exception, ends the step at the handler.           *)
Trap(kind) ==
  /\ mepc' = pc
  /\ mstatus' = OnTrap
  /\ priv' = Machine
  /\ pc' = mtvec
  /\ at' = "host" /\ left' = 0
  /\ ctx' = [pc |-> pc, priv |-> priv, mie |-> mstatus.mie, live |-> TRUE]
  /\ did' = kind
  /\ waited' = 0

(* A cold boot: start_vm sets pc and the privilege, and nothing else.      *)
Boot ==
  /\ at = "off"
  /\ at' = "host"
  /\ pc' = 0 /\ priv' = Machine
  /\ did' = "boot" /\ ctx' = None
  /\ UNCHANGED <<left, wfi, mstatus, mtie, mtip, mtvec, mepc, timer, timermatch, now, waited>>

(* Whether the step takes the interrupt: the timer bit just worked out     *)
(* counts, not the one before it.                                          *)
StaleDeliver == mtip /\ mtie /\ mstatus.mie
Deliver == mtip' /\ mtie /\ mstatus.mie

(* The step begins: time passes, the timer bit is worked out anew, a hart  *)
(* that still sleeps runs nothing, and an interrupt is taken instead of    *)
(* the batch.                                                              *)
Step(dt) ==
  /\ at = "host" /\ now + dt <= MaxTime
  /\ timer' = Later(timer, dt) /\ now' = now + dt
  /\ mtip' = Past(timer', timermatch)
  /\ wfi' = (wfi /\ ~mtip')
  /\ UNCHANGED <<mtie, mtvec, timermatch>>
  /\ \/ ~wfi' /\ Deliver /\ Trap("interrupt")
     \/ /\ wfi' \/ ~Deliver
        /\ at' = IF wfi' THEN "host" ELSE "batch"
        /\ left' = IF wfi' THEN 0 ELSE Batch
        /\ did' = "start"
        /\ UNCHANGED <<pc, priv, mstatus, mepc, ctx, waited>>

(* An instruction that leads to p, and the end of the batch behind it.     *)
Goto(p) ==
  /\ at = "batch" /\ pc < RamTop
  /\ pc' = p
  /\ left' = left - 1
  /\ at' = IF left = 1 THEN "host" ELSE "batch"

Quiet == UNCHANGED <<wfi, mtip, timer, now>>

(* Loads, stores, arithmetic, branches, fences, other CSRs: the next       *)
(* instruction, or any.                                                    *)
Run(p) ==
  /\ Goto(p) /\ Count /\ Quiet
  /\ did' = "run"
  /\ UNCHANGED <<priv, mstatus, mtie, mtvec, mepc, timermatch, ctx>>

SetMstatus(m) ==
  /\ Goto(pc + 1) /\ Quiet
  /\ mstatus' = m
  /\ waited' = 0
  /\ did' = "csr" /\ ctx' = None
  /\ UNCHANGED <<priv, mtie, mtvec, mepc, timermatch>>

SetMie(b) ==
  /\ Goto(pc + 1) /\ Quiet
  /\ mtie' = b
  /\ waited' = 0
  /\ did' = "csr"
  /\ UNCHANGED <<priv, mstatus, mtvec, mepc, timermatch, ctx>>

SetMtvec(p) ==
  /\ Goto(pc + 1) /\ Count /\ Quiet
  /\ mtvec' = p
  /\ did' = "csr"
  /\ UNCHANGED <<priv, mstatus, mtie, mepc, timermatch, ctx>>

SetMepc(p) ==
  /\ Goto(pc + 1) /\ Count /\ Quiet
  /\ mepc' = p
  /\ did' = "csr" /\ ctx' = None
  /\ UNCHANGED <<priv, mstatus, mtie, mtvec, timermatch>>

(* The CLINT's mtimecmp, one word at a time; mip is not touched.           *)
SetMatch(half, v) ==
  /\ Goto(pc + 1) /\ Quiet
  /\ timermatch' = [timermatch EXCEPT ![half] = v]
  /\ Val(timermatch') < MaxTime
  /\ waited' = 0
  /\ did' = "match"
  /\ UNCHANGED <<priv, mstatus, mtie, mtvec, mepc, ctx>>

(* WFI turns interrupts on and leaves the step at once.                    *)
Wfi ==
  /\ at = "batch" /\ pc < RamTop
  /\ pc' = pc + 1
  /\ at' = "host" /\ left' = 0
  /\ wfi' = TRUE
  /\ mstatus' = [mstatus EXCEPT !.mie = TRUE]
  /\ did' = "wfi" /\ waited' = 0
  /\ UNCHANGED <<priv, mtie, mtip, mtvec, mepc, timer, timermatch, now, ctx>>

Mret ==
  /\ Goto(mepc) /\ Quiet
  /\ mstatus' = OnMret
  /\ priv' = mstatus.mpp
  /\ waited' = 0
  /\ did' = "mret" /\ ctx' = None
  /\ UNCHANGED <<mtie, mtvec, mepc, timermatch>>

(* ECALL, EBREAK, illegal instructions, access faults; and, at RamTop, the *)
(* fetch itself.                                                           *)
Exception ==
  /\ at = "batch"
  /\ Trap("exception")
  /\ UNCHANGED <<wfi, mtie, mtip, mtvec, timer, timermatch, now>>

(* A syscon store ends start_vm.                                           *)
Syscon ==
  /\ at = "batch" /\ pc < RamTop
  /\ pc' = pc + 1
  /\ at' = "off" /\ left' = 0
  /\ did' = "syscon" /\ waited' = 0
  /\ UNCHANGED <<priv, wfi, mstatus, mtie, mtip, mtvec, mepc, timer, timermatch, now, ctx>>

Instruction ==
  \/ \E p \in Pc : Run(p) \/ SetMepc(p)
  \/ \E p \in 0..(RamTop - 1) : SetMtvec(p)
  \/ \E a, b \in BOOLEAN, q \in {User, Machine} :
        SetMstatus([mie |-> a, mpie |-> b, mpp |-> q])
  \/ \E b \in BOOLEAN : SetMie(b)
  \/ \E h \in {"lo", "hi"}, v \in Word : SetMatch(h, v)
  \/ Wfi \/ Mret \/ Exception \/ Syscon

Next == Boot \/ Instruction \/ \E dt \in 0..(Base - 1) : Step(dt)

Spec == Init /\ [][Next]_vars

(* start_vm keeps calling the step function, and the clock runs (until the *)
(* bound; the last time is past every match).                              *)
FairSpec ==
  /\ Spec
  /\ WF_vars(\E dt \in 0..(Base - 1) : Step(dt))
  /\ WF_vars(\E dt \in 1..(Base - 1) : Step(dt))

-----------------------------------------------------------------------------
(* Every variable has its type.                                            *)
TypeOK ==
  /\ at \in {"off", "host", "batch"} /\ left \in 0..Batch
  /\ {pc, mepc} \subseteq Pc /\ mtvec \in 0..(RamTop - 1)
  /\ priv \in {User, Machine}
  /\ {wfi, mtie, mtip} \subseteq BOOLEAN
  /\ mstatus \in [mie : BOOLEAN, mpie : BOOLEAN, mpp : {User, Machine}]
  /\ {timer, timermatch} \subseteq [lo : Word, hi : Word]
  /\ now \in 0..MaxTime
  /\ ctx \in Context
  /\ waited \in Nat

(* The two words of the timer are the time that has passed.                *)
TimerExact == Val(timer) = now

(* An interrupt is taken only while the timer is past the match the guest  *)
(* has set by then: a handler that moves the match and returns within its  *)
(* batch is not interrupted again, though mip still has the old bit.       *)
NoStaleInterrupt == did = "interrupt" => Past(timer, timermatch)

(* An interrupt that is due waits for less than a batch of instructions.   *)
TakenWithinABatch == waited < Batch

(* MRET takes the hart back to where the last trap took it from: address,  *)
(* privilege and interrupt enable, if no CSR in between was written.       *)
ReturnIsExact ==
  [][did' = "mret" /\ ctx.live =>
       /\ pc' = ctx.pc /\ priv' = ctx.priv /\ mstatus'.mie = ctx.mie]_vars

(* With a match set, a sleeping hart wakes.                                *)
SleepEnds == wfi /\ Val(timermatch) # 0 ~> ~wfi

=============================================================================
