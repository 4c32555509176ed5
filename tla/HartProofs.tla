----------------------------- MODULE HartProofs -----------------------------
(***************************************************************************)
(* The hart: its timer and traps, for any word size, batch length, program *)
(* and pace of time.                                                       *)
(***************************************************************************)
EXTENDS HartTrap, TLAPS

-----------------------------------------------------------------------------
(* Two-word arithmetic.                                                    *)

LEMMA Steps ==
  ASSUME NEW a \in Nat, NEW b \in Nat, a > b, NEW n \in Nat
  PROVE  a * n >= b * n + n
<1>1. PICK d \in Nat : a = b + 1 + d
  <2>1. a - b - 1 \in Nat /\ a = b + 1 + (a - b - 1)
    OBVIOUS
  <2> QED BY <2>1
<1>2. a * n = b * n + n + d * n
  BY <1>1
<1>3. d * n \in Nat /\ b * n \in Nat
  OBVIOUS
<1> QED BY <1>2, <1>3

LEMMA ModWord ==
  ASSUME NEW x \in 0..(2 * Base - 1)
  PROVE  x % Base = IF x < Base THEN x ELSE x - Base
  BY HartAssumption, Z3

Pair == [lo : Word, hi : Word]

LEMMA ValNat ==
  ASSUME NEW t \in Pair
  PROVE  Val(t) \in Nat
<1>1. t.hi \in Nat /\ t.lo \in Nat /\ Base \in Nat
  BY HartAssumption DEF Pair, Word
<1>2. t.hi * Base \in Nat
  BY <1>1
<1> QED BY <1>1, <1>2 DEF Val

(* The order of the words, high one first, is that of the values.          *)
LEMMA PastIsLater ==
  ASSUME NEW t \in Pair, NEW m \in Pair
  PROVE  Past(t, m) <=> Val(t) > Val(m) /\ Val(m) # 0
<1>1. /\ t.hi \in Nat /\ t.lo \in Nat /\ m.hi \in Nat /\ m.lo \in Nat /\ Base \in Nat
      /\ t.lo < Base /\ m.lo < Base
  BY HartAssumption DEF Pair, Word
<1>2. t.hi * Base \in Nat /\ m.hi * Base \in Nat
  BY <1>1
<1>3. CASE t.hi > m.hi
  <2>1. t.hi * Base >= m.hi * Base + Base
    BY <1>1, <1>3, Steps
  <2> QED BY <1>1, <1>2, <1>3, <2>1 DEF Past, Val
<1>4. CASE t.hi < m.hi
  <2>1. m.hi * Base >= t.hi * Base + Base
    BY <1>1, <1>4, Steps
  <2> QED BY <1>1, <1>2, <1>4, <2>1 DEF Past, Val
<1>5. CASE t.hi = m.hi
  BY <1>1, <1>2, <1>5 DEF Past, Val
<1> QED BY <1>1, <1>3, <1>4, <1>5

(* The carry by hand adds exactly, as long as the sum fits two words.      *)
LEMMA LaterExact ==
  ASSUME NEW t \in Pair, NEW dt \in 0..(Base - 1), Val(t) + dt < Base * Base
  PROVE  Later(t, dt) \in Pair /\ Val(Later(t, dt)) = Val(t) + dt
<1>1. /\ t.hi \in Nat /\ t.lo \in Nat /\ Base \in Nat /\ dt \in Nat
      /\ t.lo < Base /\ t.hi < Base /\ dt < Base /\ t.hi * Base \in Nat /\ Base > 0
  BY HartAssumption DEF Pair, Word
<1> DEFINE low == (t.lo + dt) % Base
<1>2. low = IF t.lo + dt < Base THEN t.lo + dt ELSE t.lo + dt - Base
  <2>1. PICK x \in 0..(2 * Base - 1) : x = t.lo + dt
    BY <1>1
  <2>2. x % Base = IF x < Base THEN x ELSE x - Base
    BY ModWord
  <2>3. low = x % Base
    BY <2>1, Zenon
  <2> HIDE DEF low
  <2> QED BY <1>1, <2>1, <2>2, <2>3
<1>3. CASE t.lo + dt < Base
  <2>1. Later(t, dt) = [lo |-> t.lo + dt, hi |-> t.hi]
    BY <1>1, <1>2, <1>3 DEF Later
  <2> QED BY <1>1, <1>3, <2>1 DEF Pair, Word, Val
<1>4. CASE t.lo + dt >= Base
  <2>1. t.hi + 1 < Base
    <3> SUFFICES ASSUME t.hi + 1 >= Base PROVE FALSE
      BY <1>1
    <3>1. t.hi + 1 = Base
      BY <1>1
    <3>2. t.hi * Base + Base = Base * Base
      <4>1. (t.hi + 1) * Base = t.hi * Base + Base
        BY <1>1
      <4> QED BY <3>1, <4>1
    <3> QED BY <1>1, <1>4, <3>2 DEF Val
  <2>2. (t.hi + 1) % Base = t.hi + 1
    BY <1>1, <2>1, ModWord
  <2>3. Later(t, dt) = [lo |-> t.lo + dt - Base, hi |-> t.hi + 1]
    BY <1>1, <1>2, <1>4, <2>2 DEF Later
  <2>4. (t.hi + 1) * Base = t.hi * Base + Base
    BY <1>1
  <2>5. t.lo + dt - Base \in Word /\ t.hi + 1 \in Word
    BY <1>1, <1>4, <2>1 DEF Word
  <2>6. Later(t, dt) \in Pair
    BY <2>3, <2>5 DEF Pair
  <2> QED BY <1>1, <2>3, <2>4, <2>6 DEF Val
<1> QED BY <1>1, <1>3, <1>4

-----------------------------------------------------------------------------
(* The invariant.                                                          *)

(* Only a batch has instructions left, and no sleeping hart runs one.      *)
Batches ==
  /\ at = "batch" => left > 0 /\ ~wfi
  /\ at # "batch" => left = 0

(* The count runs while the interrupt is due on a hart that is awake, and  *)
(* then what has been waited and what is left make less than a batch: an   *)
(* interrupt that was due at the start of the batch would have been taken, *)
(* and whatever made it due since has used up an instruction.              *)
Waiting ==
  /\ waited > 0 => Due(timer, timermatch) /\ ~wfi
  /\ Due(timer, timermatch) => waited + left < Batch

(* Nobody has written over what the last trap saved.                       *)
Saved == ctx.live => mepc = ctx.pc /\ mstatus.mpp = ctx.priv /\ mstatus.mpie = ctx.mie

IInv == TypeOK /\ TimerExact /\ NoStaleInterrupt /\ Batches /\ Waiting /\ Saved

LEMMA InitIInv == Init => IInv
<1> SUFFICES ASSUME Init PROVE IInv
  OBVIOUS
<1> USE HartAssumption DEF Init
<1>1. TypeOK
  <2>1. 0 \in Pc /\ 0 \in 0..(RamTop - 1) /\ 0 \in Word /\ 0 \in 0..Batch /\ 0 \in 0..MaxTime
    BY DEF Pc, Word
  <2>2. ctx \in Context
    BY <2>1 DEF Context, None, Machine, User
  <2>3. {timer, timermatch} \subseteq [lo : Word, hi : Word]
    BY <2>1
  <2>4. mstatus \in [mie : BOOLEAN, mpie : BOOLEAN, mpp : {User, Machine}]
    OBVIOUS
  <2> QED BY <2>1, <2>2, <2>3, <2>4 DEF TypeOK
<1>2. TimerExact /\ NoStaleInterrupt /\ Batches /\ Saved
  BY DEF TimerExact, NoStaleInterrupt, Batches, Saved, Val, None
<1>3. Waiting
  BY DEF Waiting, Due
<1> QED BY <1>1, <1>2, <1>3 DEF IInv

(* Time only brings the timer closer to its match, or further past it.     *)
LEMMA TimePasses ==
  ASSUME IInv, NEW dt \in 0..(Base - 1), now + dt <= MaxTime, timer' = Later(timer, dt)
  PROVE  /\ timer' \in Pair
         /\ Val(timer') = now + dt
         /\ Past(timer, timermatch) => Past(timer', timermatch)
<1>1. timer \in Pair /\ timermatch \in Pair /\ now \in Nat /\ Val(timer) = now
  BY DEF IInv, TypeOK, TimerExact, Pair
<1>2. Val(timer) + dt < Base * Base
  <2>1. Base * Base \in Nat /\ MaxTime < Base * Base /\ MaxTime \in Nat
    BY HartAssumption
  <2> QED BY <1>1, <2>1
<1>3. Later(timer, dt) \in Pair /\ Val(Later(timer, dt)) = Val(timer) + dt
  BY <1>1, <1>2, LaterExact
<1>4. Val(timermatch) \in Nat
  BY <1>1, ValNat
<1>5. Past(timer, timermatch) <=> Val(timer) > Val(timermatch) /\ Val(timermatch) # 0
  BY <1>1, PastIsLater
<1>6. Past(Later(timer, dt), timermatch)
        <=> Val(Later(timer, dt)) > Val(timermatch) /\ Val(timermatch) # 0
  BY <1>1, <1>3, PastIsLater
<1> QED BY <1>1, <1>3, <1>4, <1>5, <1>6

(* A trap.                                                                 *)
LEMMA TrapKeeps ==
  ASSUME IInv, NEW kind, Trap(kind), at = "host" \/ at = "batch",
         wfi' \in BOOLEAN, mtip' \in BOOLEAN, mtie' = mtie, mtvec' = mtvec,
         timermatch' = timermatch, timer' \in Pair, now' \in 0..MaxTime,
         Val(timer') = now',
         kind = "interrupt" => Past(timer', timermatch)
  PROVE  IInv'
<1> USE DEF IInv
<1>1. TypeOK'
  BY HartAssumption DEF TypeOK, Trap, OnTrap, Context, Pc, Machine, User, Pair
<1>2. TimerExact'
  BY DEF TimerExact
<1>3. NoStaleInterrupt'
  BY DEF NoStaleInterrupt, Trap
<1>4. Batches' /\ Waiting'
  BY HartAssumption DEF Batches, Waiting, Trap
<1>5. Saved'
  BY DEF Saved, Trap, OnTrap
<1> QED BY <1>1, <1>2, <1>3, <1>4, <1>5

LEMMA StepKeeps ==
  ASSUME IInv, NEW dt \in 0..(Base - 1), Step(dt)
  PROVE  IInv'
<1>1. /\ timer' \in Pair /\ Val(timer') = now + dt
      /\ Past(timer, timermatch) => Past(timer', timermatch)
  BY TimePasses DEF Step
<1>2. now' \in 0..MaxTime /\ now' = now + dt
  BY HartAssumption DEF Step, IInv, TypeOK
<1>3. mtip' = Past(timer', timermatch) /\ mtip' \in BOOLEAN /\ wfi' \in BOOLEAN
  BY DEF Step, Past
<1>4. CASE ~wfi' /\ Deliver /\ Trap("interrupt")
  <2>1. Past(timer', timermatch)
    BY <1>3, <1>4 DEF Deliver
  <2>2. /\ at = "host" /\ mtie' = mtie /\ mtvec' = mtvec /\ timermatch' = timermatch
        /\ Val(timer') = now'
    BY <1>1, <1>2 DEF Step
  <2> QED BY <1>1, <1>2, <1>3, <1>4, <2>1, <2>2, TrapKeeps
<1>5. CASE ~(~wfi' /\ Deliver /\ Trap("interrupt"))
  <2>1. /\ wfi' \/ ~Deliver
        /\ at' = IF wfi' THEN "host" ELSE "batch"
        /\ left' = IF wfi' THEN 0 ELSE Batch
        /\ did' = "start"
        /\ UNCHANGED <<pc, priv, mstatus, mepc, ctx, waited, mtie, mtvec, timermatch>>
        /\ wfi' => wfi
    BY <1>5 DEF Step
  <2> USE DEF IInv
  <2>2. TypeOK'
    BY HartAssumption, <1>1, <1>2, <1>3, <2>1 DEF TypeOK, Pair
  <2>3. TimerExact' /\ NoStaleInterrupt' /\ Saved'
    BY <1>1, <1>2, <2>1 DEF TimerExact, NoStaleInterrupt, Saved
  <2>4. Batches'
    BY HartAssumption, <1>3, <2>1 DEF Batches
  <2>5. waited = 0
    <3>1. CASE wfi'
      BY <3>1, <2>1 DEF Waiting, TypeOK
    <3>2. CASE ~Deliver
      <4>1. ~Due(timer, timermatch)
        BY <1>1, <1>3, <3>2 DEF Due, Deliver
      <4> QED BY <4>1 DEF Waiting, TypeOK
    <3> QED BY <2>1, <3>1, <3>2
  <2>6. Waiting'
    <3>1. CASE wfi'
      BY HartAssumption, <2>1, <2>5, <3>1 DEF Waiting
    <3>2. CASE ~wfi'
      <4>1. ~Due(timer', timermatch')
        BY <1>3, <2>1, <3>2 DEF Due, Deliver
      <4> QED BY <2>1, <2>5, <4>1 DEF Waiting, Due
    <3> QED BY <3>1, <3>2
  <2> QED BY <2>2, <2>3, <2>4, <2>6
<1> QED BY <1>4, <1>5

(* An instruction that is not a trap: it uses one of the batch.            *)
LEMMA GotoFacts ==
  ASSUME IInv, NEW p \in Pc, Goto(p)
  PROVE  /\ at = "batch" /\ left \in 1..Batch /\ ~wfi /\ pc + 1 \in Pc
         /\ pc' \in Pc /\ left' = left - 1 /\ left' \in 0..Batch
         /\ at' \in {"host", "batch"}
         /\ at' = "batch" => left' > 0
         /\ at' # "batch" => left' = 0
<1>1. left \in 1..Batch /\ ~wfi
  BY HartAssumption DEF IInv, TypeOK, Batches, Goto
<1> QED BY <1>1, HartAssumption DEF Goto, IInv, TypeOK, Pc

(* ... and changes neither the timer nor the sleep.  If it leaves alone    *)
(* what the interrupt depends on, it is counted; else the count starts     *)
(* anew, with fewer instructions left than the batch has.                  *)
LEMMA InstructionKeeps ==
  ASSUME IInv, NEW p \in Pc, Goto(p), Quiet,
         \/ Count /\ UNCHANGED <<timermatch, mtie>> /\ mstatus'.mie = mstatus.mie
         \/ waited' = 0,
         did' # "interrupt",
         priv' \in {User, Machine}, mtie' \in BOOLEAN, mtvec' \in 0..(RamTop - 1),
         mepc' \in Pc, timermatch' \in Pair, ctx' \in Context,
         mstatus' \in [mie : BOOLEAN, mpie : BOOLEAN, mpp : {User, Machine}],
         Saved'
  PROVE  IInv'
<1> USE DEF IInv
<1>1. /\ at = "batch" /\ left \in 1..Batch /\ ~wfi
      /\ pc' \in Pc /\ left' = left - 1 /\ left' \in 0..Batch
      /\ at' \in {"host", "batch"}
      /\ at' = "batch" => left' > 0
      /\ at' # "batch" => left' = 0
  <2> HIDE DEF IInv
  <2> QED BY GotoFacts
<1>2. wfi' = wfi /\ mtip' = mtip /\ timer' = timer /\ now' = now
  BY DEF Quiet
<1>3. waited' \in Nat
  BY DEF Count, TypeOK
<1>4. TypeOK'
  BY <1>1, <1>2, <1>3 DEF TypeOK, Pair
<1>5. TimerExact' /\ NoStaleInterrupt' /\ Batches'
  BY <1>1, <1>2 DEF TimerExact, NoStaleInterrupt, Batches
<1>6. Waiting'
  <2>1. CASE waited' = 0
    BY HartAssumption, <1>1, <2>1 DEF Waiting
  <2>2. CASE Count /\ UNCHANGED <<timermatch, mtie>> /\ mstatus'.mie = mstatus.mie
    <3>1. Due(timer, timermatch)' <=> Due(timer, timermatch)
      BY <1>2, <2>2 DEF Due
    <3>2. CASE Due(timer, timermatch)
      <4>1. waited' = waited + 1
        BY <2>2, <3>2 DEF Count
      <4> QED BY HartAssumption, <1>1, <1>2, <3>1, <3>2, <4>1 DEF Waiting, TypeOK
    <3>3. CASE ~Due(timer, timermatch)
      <4>1. waited' = 0
        BY <2>2, <3>3 DEF Count
      <4> QED BY <1>1, <3>1, <3>3, <4>1 DEF Waiting
    <3> QED BY <3>2, <3>3
  <2> QED BY <2>1, <2>2
<1> QED BY <1>4, <1>5, <1>6

LEMMA NextIInv == IInv /\ [Next]_vars => IInv'
<1> SUFFICES ASSUME IInv, [Next]_vars PROVE IInv'
  OBVIOUS
<1>0. /\ timer \in Pair /\ timermatch \in Pair /\ now \in 0..MaxTime /\ Val(timer) = now
      /\ pc \in Pc /\ mepc \in Pc /\ mtvec \in 0..(RamTop - 1)
      /\ priv \in {User, Machine} /\ mtie \in BOOLEAN /\ mtip \in BOOLEAN /\ wfi \in BOOLEAN
      /\ ctx \in Context
      /\ mstatus \in [mie : BOOLEAN, mpie : BOOLEAN, mpp : {User, Machine}]
  BY DEF IInv, TypeOK, TimerExact, Pair
<1>01. None \in Context /\ ~None.live
  BY HartAssumption DEF None, Context, Pc, Machine, User
<1>1. CASE Boot
  <2> USE DEF Boot, IInv
  <2>1. TypeOK'
    BY <1>1, <1>0, <1>01, HartAssumption DEF TypeOK, Pc, Pair
  <2>2. TimerExact' /\ NoStaleInterrupt' /\ Batches' /\ Waiting' /\ Saved'
    BY <1>1, <1>01 DEF TimerExact, NoStaleInterrupt, Batches, Waiting, Saved, Due
  <2> QED BY <2>1, <2>2
<1>2. ASSUME NEW dt \in 0..(Base - 1), Step(dt) PROVE IInv'
  BY <1>2, StepKeeps
<1>3. ASSUME NEW p \in Pc, Run(p) PROVE IInv'
  <2>1. Saved'
    BY <1>3 DEF Run, IInv, Saved
  <2> QED BY <1>0, <1>3, <2>1, InstructionKeeps DEF Run
<1>4. ASSUME NEW p \in Pc, SetMepc(p) PROVE IInv'
  <2>1. Saved'
    BY <1>01, <1>4 DEF SetMepc, Saved
  <2>2. pc + 1 \in Pc
    BY <1>4, HartAssumption DEF SetMepc, Goto, IInv, TypeOK, Pc
  <2> QED BY <1>0, <1>01, <1>4, <2>1, <2>2, InstructionKeeps DEF SetMepc
<1>5. ASSUME NEW p \in 0..(RamTop - 1), SetMtvec(p) PROVE IInv'
  <2>1. Saved'
    BY <1>5 DEF SetMtvec, IInv, Saved
  <2>2. pc + 1 \in Pc
    BY <1>5, HartAssumption DEF SetMtvec, Goto, IInv, TypeOK, Pc
  <2> QED BY <1>0, <1>5, <2>1, <2>2, InstructionKeeps DEF SetMtvec
<1>6. ASSUME NEW a \in BOOLEAN, NEW b \in BOOLEAN, NEW q \in {User, Machine},
             SetMstatus([mie |-> a, mpie |-> b, mpp |-> q])
      PROVE IInv'
  <2>1. Saved'
    BY <1>01, <1>6 DEF SetMstatus, Saved
  <2>2. pc + 1 \in Pc
    BY <1>6, HartAssumption DEF SetMstatus, Goto, IInv, TypeOK, Pc
  <2> QED BY <1>0, <1>01, <1>6, <2>1, <2>2, InstructionKeeps DEF SetMstatus
<1>7. ASSUME NEW b \in BOOLEAN, SetMie(b) PROVE IInv'
  <2>1. Saved'
    BY <1>7 DEF SetMie, IInv, Saved
  <2>2. pc + 1 \in Pc
    BY <1>7, HartAssumption DEF SetMie, Goto, IInv, TypeOK, Pc
  <2> QED BY <1>0, <1>7, <2>1, <2>2, InstructionKeeps DEF SetMie
<1>8. ASSUME NEW h \in {"lo", "hi"}, NEW v \in Word, SetMatch(h, v) PROVE IInv'
  <2>1. Saved'
    BY <1>8 DEF SetMatch, IInv, Saved
  <2>2. pc + 1 \in Pc
    BY <1>8, HartAssumption DEF SetMatch, Goto, IInv, TypeOK, Pc
  <2>3. timermatch' \in Pair
    BY <1>0, <1>8 DEF SetMatch, Pair
  <2> QED BY <1>0, <1>8, <2>1, <2>2, <2>3, InstructionKeeps DEF SetMatch
<1>9. CASE Wfi
  <2> USE DEF Wfi, IInv
  <2>1. TypeOK'
    <3>1. pc' \in Pc /\ 0 \in 0..Batch
      BY <1>9, <1>0, HartAssumption DEF Pc
    <3>2. mstatus' \in [mie : BOOLEAN, mpie : BOOLEAN, mpp : {User, Machine}]
      BY <1>9, <1>0
    <3> QED BY <1>9, <1>0, <3>1, <3>2 DEF TypeOK, Pair
  <2>2. TimerExact' /\ NoStaleInterrupt' /\ Batches' /\ Saved'
    BY <1>9 DEF TimerExact, NoStaleInterrupt, Batches, Saved, TypeOK
  <2>3. Waiting'
    BY <1>9, HartAssumption DEF Waiting
  <2> QED BY <2>1, <2>2, <2>3
<1>10. CASE Mret
  <2>1. Saved'
    BY <1>01, <1>10 DEF Mret, Saved
  <2>2. /\ mstatus' \in [mie : BOOLEAN, mpie : BOOLEAN, mpp : {User, Machine}]
        /\ priv' \in {User, Machine}
    BY <1>0, <1>10 DEF Mret, OnMret
  <2> QED BY <1>0, <1>01, <1>10, <2>1, <2>2, InstructionKeeps DEF Mret
<1>11. CASE Exception
  BY <1>0, <1>11, TrapKeeps DEF Exception
<1>12. CASE Syscon
  <2> USE DEF Syscon, IInv
  <2>1. TypeOK'
    BY <1>12, <1>0, HartAssumption DEF TypeOK, Pc, Pair
  <2>2. TimerExact' /\ NoStaleInterrupt' /\ Batches' /\ Saved'
    BY <1>12 DEF TimerExact, NoStaleInterrupt, Batches, Saved
  <2>3. Waiting'
    BY <1>12, HartAssumption DEF Waiting
  <2> QED BY <2>1, <2>2, <2>3
<1>13. CASE UNCHANGED vars
  BY <1>13 DEF vars, history, IInv, TypeOK, TimerExact, NoStaleInterrupt, Batches,
     Waiting, Saved, Due
<1> QED
  BY <1>1, <1>2, <1>3, <1>4, <1>5, <1>6, <1>7, <1>8, <1>9, <1>10, <1>11, <1>12, <1>13
  DEF Next, Instruction

LEMMA Invariant == Spec => []IInv
  BY InitIInv, NextIInv, PTL DEF Spec

-----------------------------------------------------------------------------
(* Every variable keeps its type: pc stays in RAM or just behind it, the   *)
(* timer in its two words, a batch within its length.                      *)
THEOREM TypeCorrect == Spec => []TypeOK
<1>1. IInv => TypeOK
  BY DEF IInv
<1> QED BY Invariant, <1>1, PTL

(* The timer carried by hand between two words is the time that passed.    *)
THEOREM TimerCountsTime == Spec => []TimerExact
<1>1. IInv => TimerExact
  BY DEF IInv
<1> QED BY Invariant, <1>1, PTL

(* The step takes an interrupt on the timer bit it has just worked out,    *)
(* never on the one left in mip.                                           *)
THEOREM InterruptsAreFresh == Spec => []NoStaleInterrupt
<1>1. IInv => NoStaleInterrupt
  BY DEF IInv
<1> QED BY Invariant, <1>1, PTL

(* Although interrupts are looked at only between batches, one that is due *)
(* is taken before a whole batch of instructions has run.                  *)
THEOREM InterruptsAreTaken == Spec => []TakenWithinABatch
<1>1. IInv => TakenWithinABatch
  BY HartAssumption DEF IInv, TypeOK, Waiting, Batches, TakenWithinABatch
<1> QED BY Invariant, <1>1, PTL

(* Trap entry saves, and MRET restores, address, privilege and interrupt   *)
(* enable.                                                                 *)
THEOREM TrapsReturn == Spec => ReturnIsExact
<1> DEFINE Returned == did' = "mret" /\ ctx.live =>
             /\ pc' = ctx.pc /\ priv' = ctx.priv /\ mstatus'.mie = ctx.mie
<1>1. IInv /\ [Next]_vars => [Returned]_vars
  <2> SUFFICES ASSUME IInv, Next, did' = "mret", ctx.live
               PROVE  pc' = ctx.pc /\ priv' = ctx.priv /\ mstatus'.mie = ctx.mie
    OBVIOUS
  <2>1. Mret
    BY DEF Next, Instruction, Boot, Step, Trap, Run, SetMepc, SetMtvec, SetMstatus,
       SetMie, SetMatch, Wfi, Exception, Syscon
  <2> QED BY <2>1 DEF Mret, Goto, OnMret, IInv, Saved, TypeOK
<1> QED BY Invariant, <1>1, PTL DEF Spec, ReturnIsExact

=============================================================================
