---------------------------- MODULE InstretProofs ----------------------------
(***************************************************************************)
(* The two 64-bit counters and the sample across the cores, for any word   *)
(* size, batch length and bound.                                           *)
(***************************************************************************)
EXTENDS InstretCounter, TLAPS

-----------------------------------------------------------------------------
(* Two-word arithmetic.                                                    *)

Pair == [Half -> Word]

LEMMA ModWord ==
  ASSUME NEW x \in 0..(2 * Base - 1)
  PROVE  x % Base = IF x < Base THEN x ELSE x - Base
  BY CounterAssumption, Z3

LEMMA PairWords ==
  ASSUME NEW p \in Pair
  PROVE  /\ p["hi"] \in 0..(Base - 1) /\ p["lo"] \in 0..(Base - 1)
         /\ Val(p) = p["hi"] * Base + p["lo"]
         /\ p["hi"] * Base \in Nat /\ Val(p) \in Nat /\ Base \in Nat
<1>1. p["hi"] \in 0..(Base - 1) /\ p["lo"] \in 0..(Base - 1) /\ Base \in Nat
  BY CounterAssumption DEF Pair, Half, Word
<1>2. p["hi"] * Base \in Nat
  BY <1>1
<1> QED BY <1>1, <1>2 DEF Val

LEMMA Steps ==
  ASSUME NEW a \in Nat, NEW b \in Nat, a > b, NEW n \in Nat
  PROVE  a * n >= b * n + n
<1>1. PICK d \in Nat : a = b + 1 + d
  <2>1. a - b - 1 \in Nat /\ a = b + 1 + (a - b - 1)
    OBVIOUS
  <2> QED BY <2>1
<1>2. a * n = b * n + n + d * n
  BY <1>1
<1>3. d * n \in Nat /\ b * n \in Nat
  OBVIOUS
<1> QED BY <1>2, <1>3

(* The carry told from a low word that shrank is right for a batch.        *)
LEMMA PlusExact ==
  ASSUME NEW p \in Pair, NEW n \in 0..(Base - 1), Val(p) + n < Base * Base
  PROVE  /\ Plus(p, n) \in Pair
         /\ Val(Plus(p, n)) = Val(p) + n
         /\ \/ Plus(p, n)["hi"] = p["hi"] /\ Plus(p, n)["lo"] = p["lo"] + n
            \/ Plus(p, n)["hi"] = p["hi"] + 1 /\ Plus(p, n)["lo"] = p["lo"] + n - Base
<1>1. PICK hi \in 0..(Base - 1) : hi = p["hi"]
  BY PairWords
<1>2. PICK lo \in 0..(Base - 1) : lo = p["lo"]
  BY PairWords
<1>3. /\ Base \in Nat /\ Base > 0 /\ hi * Base \in Nat
      /\ Val(p) = hi * Base + lo
  BY <1>1, <1>2, PairWords, CounterAssumption
<1>4. PICK low : low = (lo + n) % Base
  OBVIOUS
<1>5. low = IF lo + n < Base THEN lo + n ELSE lo + n - Base
  <2>1. PICK x \in 0..(2 * Base - 1) : x = lo + n
    BY <1>3
  <2>2. low = x % Base
    BY <1>4, <2>1, Zenon
  <2>3. x % Base = IF x < Base THEN x ELSE x - Base
    BY ModWord
  <2> QED BY <1>3, <2>1, <2>2, <2>3
<1>6. Plus(p, n) = [lo |-> low, hi |-> IF lo > low THEN hi + 1 ELSE hi]
  BY <1>1, <1>2, <1>4, Zenon DEF Plus
<1>7. CASE lo + n < Base
  <2>1. Plus(p, n) = [lo |-> lo + n, hi |-> hi]
    BY <1>3, <1>5, <1>6, <1>7
  <2>2. Plus(p, n)["hi"] = hi /\ Plus(p, n)["lo"] = lo + n /\ lo + n \in 0..(Base - 1)
    BY <1>3, <1>7, <2>1
  <2>3. Plus(p, n) \in Pair
    BY <2>1, <2>2 DEF Pair, Half, Word
  <2>4. Val(Plus(p, n)) = hi * Base + (lo + n)
    BY <2>2 DEF Val
  <2> QED BY <1>1, <1>2, <1>3, <2>2, <2>3, <2>4
<1>8. CASE lo + n >= Base
  <2>1. hi + 1 < Base
    <3> SUFFICES ASSUME hi + 1 = Base PROVE FALSE
      BY <1>3
    <3>1. (hi + 1) * Base = hi * Base + Base
      BY <1>3
    <3> QED BY <1>3, <1>8, <3>1
  <2>2. Plus(p, n) = [lo |-> lo + n - Base, hi |-> hi + 1]
    BY <1>3, <1>5, <1>6, <1>8
  <2>3. /\ Plus(p, n)["hi"] = hi + 1 /\ Plus(p, n)["lo"] = lo + n - Base
        /\ lo + n - Base \in 0..(Base - 1) /\ hi + 1 \in 0..(Base - 1)
    BY <1>3, <1>8, <2>1, <2>2
  <2>4. Plus(p, n) \in Pair
    BY <2>2, <2>3 DEF Pair, Half, Word
  <2>5. Val(Plus(p, n)) = (hi + 1) * Base + (lo + n - Base)
    BY <2>3 DEF Val
  <2>6. (hi + 1) * Base = hi * Base + Base
    BY <1>3
  <2> QED BY <1>1, <1>2, <1>3, <2>3, <2>4, <2>5, <2>6
<1> QED BY <1>3, <1>7, <1>8

(* Counters that have grown no larger than MaxCycles fit two words.        *)
LEMMA Bounds ==
  /\ Batch \in Nat /\ Batch > 0 /\ Batch < Base /\ Base \in Nat
  /\ MaxCycles \in Nat /\ Base * Base \in Nat /\ MaxCycles < Base * Base
  BY CounterAssumption

-----------------------------------------------------------------------------
(* The invariant.                                                          *)

Types ==
  /\ cycle \in Pair /\ idle \in Pair /\ goal \in Pair
  /\ snap \in [cycle : Pair, ran : Nat, lost : Nat]
  /\ at \in {"ready", "retire", "sleep", "idle_lo", "idle_hi", "off", "resume"}
  /\ left \subseteq Half
  /\ total \in [cycle : Nat, idle : Nat]
  /\ next \in Nat /\ ran \in Nat /\ lost \in Nat /\ revived \in BOOLEAN
  /\ forgotten \in Nat /\ lost <= ran
  /\ reader \in [at : {"rest", "low", "check", "again", "got"}, of : {"cycle", "idle"},
                 h : Word, l : Word, from : Nat, to : Nat, midway : BOOLEAN]

Storing == at \in {"retire", "sleep", "resume"}

(* The cycle CSR: whole but for the halves still to be stored.             *)
CycleStored ==
  /\ Storing <=> left # {}
  /\ Storing => /\ Val(goal) = next
                /\ total.cycle <= next
                /\ \A h \in Half \ left : cycle[h] = goal[h]
  /\ ~Storing => Val(cycle) = total.cycle
  /\ total.cycle <= MaxCycles /\ next <= MaxCycles

(* The idle counter: whole but for a carry still to be stored.             *)
IdleStored ==
  /\ at # "idle_hi" => Val(idle) = total.idle
  /\ at = "idle_hi" => Val(idle) + Base = total.idle + Batch

(* What the cycle CSR is, or is about to be, and what the idle counter is  *)
(* still owed.                                                             *)
Counted == IF Storing THEN next ELSE IF at = "off" THEN Val(snap.cycle) ELSE total.cycle
Owed == IF at \in {"sleep", "idle_lo", "idle_hi"} THEN Batch ELSE 0

Account ==
  /\ total.idle + Owed <= Counted
  /\ Counted - total.idle - Owed = ran - lost + forgotten

(* What is resumed is what was running.                                    *)
Snapshot ==
  /\ Val(snap.cycle) <= MaxCycles
  /\ at = "off" => /\ total.cycle <= Val(snap.cycle)
                   /\ snap.ran = ran /\ snap.lost = lost

Inv1 == Types /\ CycleStored /\ IdleStored /\ Account /\ Snapshot

LEMMA InitInv1 == Init => Inv1
<1> SUFFICES ASSUME Init PROVE Inv1
  OBVIOUS
<1> USE DEF Init
<1>1. Zero \in Pair /\ Val(Zero) = 0 /\ 0 \in Word
  BY CounterAssumption DEF Zero, Pair, Half, Word, Val
<1>2. Types
  <2>1. 0 \in Nat /\ 0 <= 0
    OBVIOUS
  <2> QED BY <1>1, <2>1, Zenon DEF Types, NoRead
<1>3. CycleStored /\ IdleStored /\ Account /\ Snapshot
  BY <1>1, Bounds DEF CycleStored, IdleStored, Account, Snapshot, Storing, Counted, Owed
<1> QED BY <1>2, <1>3 DEF Inv1

(* Storing a new value of the cycle CSR: which halves, and what then.      *)
LEMMA StoreSoonFacts ==
  ASSUME Types, NEW p \in Pair, NEW n \in Nat, StoreSoon(p, n)
  PROVE  /\ goal' = p /\ next' = n /\ left' \subseteq Half /\ left' # {}
         /\ \A h \in Half \ left' : cycle[h] = goal'[h]
  BY DEF StoreSoon, Half

LEMMA StoreHalfKeeps ==
  ASSUME Inv1, NEW h \in Half, StoreHalf(h)
  PROVE  Inv1' /\ total'.cycle >= total.cycle /\ total'.idle = total.idle
<1> USE DEF Inv1
<1>1. /\ Storing /\ h \in left /\ left' = left \ {h}
      /\ cycle' = [cycle EXCEPT ![h] = goal[h]]
      /\ UNCHANGED <<idle, goal, reader, snap, next, ran, lost, revived,
                   forgotten>>
  BY DEF StoreHalf, CycleStored
<1>2. cycle' \in Pair /\ \A k \in Half \ left' : cycle'[k] = goal[k]
  <2>1. cycle \in Pair /\ goal \in Pair /\ left \subseteq Half
    BY DEF Types
  <2>2. cycle' \in Pair
    BY <1>1, <2>1 DEF Pair
  <2>3. ASSUME NEW k \in Half \ left' PROVE cycle'[k] = goal[k]
    BY <1>1, <2>1 DEF CycleStored, Pair
  <2> QED BY <2>2, <2>3
<1>3. CASE left' # {}
  <2>1. at' = at /\ total' = total
    BY <1>1, <1>3 DEF StoreHalf
  <2>2. Types'
    BY <1>1, <1>2, <2>1 DEF Types
  <2>3. CycleStored'
    BY <1>1, <1>2, <1>3, <2>1 DEF CycleStored, Storing, Types
  <2>4. IdleStored' /\ Account' /\ Snapshot'
    BY <1>1, <2>1 DEF IdleStored, Account, Snapshot, Counted, Owed, Storing, Types
  <2> QED BY <2>1, <2>2, <2>3, <2>4 DEF Types
<1>4. CASE left' = {}
  <2>1. /\ at' = IF at = "sleep" THEN "idle_lo" ELSE "ready"
        /\ total' = [total EXCEPT !.cycle = next]
    BY <1>1, <1>4 DEF StoreHalf
  <2>2. total'.cycle = next /\ total'.idle = total.idle /\ total' \in [cycle : Nat, idle : Nat]
    BY <2>1 DEF Types
  <2>3. Types'
    BY <1>1, <1>2, <2>1, <2>2 DEF Types
  <2>4. Val(cycle') = next
    <3>1. cycle'["hi"] = goal["hi"] /\ cycle'["lo"] = goal["lo"]
      BY <1>2, <1>4 DEF Half
    <3> QED BY <1>1, <3>1 DEF Val, CycleStored
  <2>5. ~Storing' /\ next <= MaxCycles /\ total.cycle <= next
    BY <1>1, <2>1 DEF Storing, CycleStored
  <2>6. CycleStored'
    BY <1>1, <1>4, <2>2, <2>4, <2>5 DEF CycleStored
  <2>7. IdleStored' /\ Snapshot'
    BY <1>1, <2>1, <2>2, <2>5 DEF IdleStored, Snapshot, Storing
  <2>8. Counted' = Counted /\ Owed' = Owed
    BY <1>1, <2>1, <2>2, <2>5 DEF Counted, Owed, Storing
  <2>9. Account'
    BY <1>1, <2>2, <2>8 DEF Account
  <2> QED BY <2>2, <2>3, <2>5, <2>6, <2>7, <2>9
<1> QED BY <1>3, <1>4

LEMMA RetireKeeps ==
  ASSUME Inv1, NEW n \in 0..Batch, Retire(n)
  PROVE  Inv1' /\ total' = total
<1> USE DEF Inv1
<1>1. /\ at = "ready" /\ at' = "retire" /\ total.cycle + n <= MaxCycles
      /\ ran' = ran + n
      /\ UNCHANGED <<cycle, idle, reader, snap, total, lost, revived,
                   forgotten>>
      /\ StoreSoon(Plus(cycle, n), total.cycle + n)
  BY DEF Retire
<1>2. Val(cycle) = total.cycle /\ total.cycle \in Nat /\ n \in Nat /\ cycle \in Pair
  BY <1>1, Bounds DEF CycleStored, Storing, Types
<1>3. Plus(cycle, n) \in Pair /\ Val(Plus(cycle, n)) = Val(cycle) + n
  <2>1. n \in 0..(Base - 1) /\ Val(cycle) + n < Base * Base
    BY <1>1, <1>2, Bounds
  <2> QED BY <1>2, <2>1, PlusExact
<1>4. /\ goal' = Plus(cycle, n) /\ next' = total.cycle + n
      /\ left' \subseteq Half /\ left' # {}
      /\ \A h \in Half \ left' : cycle[h] = goal'[h]
  BY <1>1, <1>2, <1>3, StoreSoonFacts
<1>5. Types'
  BY <1>1, <1>2, <1>3, <1>4 DEF Types
<1>6. CycleStored'
  BY <1>1, <1>2, <1>3, <1>4 DEF CycleStored, Storing
<1>7. IdleStored' /\ Snapshot'
  BY <1>1 DEF IdleStored, Snapshot
<1>8. Account'
  BY <1>1, <1>2, <1>4 DEF Account, Counted, Owed, Storing, Types
<1> QED BY <1>1, <1>5, <1>6, <1>7, <1>8

LEMMA SleepKeeps ==
  ASSUME Inv1, NEW n \in 0..Batch, Sleep(n)
  PROVE  Inv1' /\ total' = total
<1> USE DEF Inv1
<1>1. /\ at = "ready" /\ at' = "sleep" /\ total.cycle + Batch <= MaxCycles
      /\ ran' = ran + n /\ lost' = lost + n
      /\ UNCHANGED <<cycle, idle, reader, snap, total, revived,
                   forgotten>>
      /\ StoreSoon(Plus(cycle, Batch), total.cycle + Batch)
  BY DEF Sleep
<1>2. Val(cycle) = total.cycle /\ total.cycle \in Nat /\ n \in Nat /\ cycle \in Pair
  BY <1>1, Bounds DEF CycleStored, Storing, Types
<1>3. Plus(cycle, Batch) \in Pair /\ Val(Plus(cycle, Batch)) = Val(cycle) + Batch
  <2>1. Batch \in 0..(Base - 1) /\ Val(cycle) + Batch < Base * Base
    BY <1>1, <1>2, Bounds
  <2> QED BY <1>2, <2>1, PlusExact
<1>4. /\ goal' = Plus(cycle, Batch) /\ next' = total.cycle + Batch
      /\ left' \subseteq Half /\ left' # {}
      /\ \A h \in Half \ left' : cycle[h] = goal'[h]
  <2>1. total.cycle + Batch \in Nat
    BY <1>2, Bounds
  <2> QED BY <1>1, <1>2, <1>3, <2>1, StoreSoonFacts
<1>5. Types'
  BY <1>1, <1>2, <1>3, <1>4, Bounds DEF Types
<1>6. CycleStored'
  BY <1>1, <1>2, <1>3, <1>4, Bounds DEF CycleStored, Storing
<1>7. IdleStored' /\ Snapshot'
  BY <1>1 DEF IdleStored, Snapshot
<1>8. Account'
  BY <1>1, <1>2, <1>4, Bounds DEF Account, Counted, Owed, Storing, Types
<1> QED BY <1>1, <1>5, <1>6, <1>7, <1>8

LEMMA SysconKeeps ==
  ASSUME Inv1, NEW n \in 0..Batch, Syscon(n)
  PROVE  Inv1' /\ total' = total
<1> USE DEF Inv1
<1>1. /\ at = "ready" /\ ran' = ran + n /\ lost' = lost + n /\ n \in Nat
      /\ UNCHANGED <<cycle, idle, at, goal, left, reader, snap, total, next, revived,
                   forgotten>>
  BY Bounds DEF Syscon
<1>2. Types' /\ CycleStored' /\ IdleStored'
  BY <1>1 DEF Types, CycleStored, IdleStored, Storing
<1>3. Snapshot'
  BY <1>1 DEF Snapshot
<1>4. Account'
  BY <1>1 DEF Account, Counted, Owed, Storing, Types
<1> QED BY <1>1, <1>2, <1>3, <1>4

(* A batch more on the idle counter is never more than it can hold.        *)
LEMMA IdleRoom ==
  ASSUME Inv1, Owed = Batch
  PROVE  total.idle + Batch <= MaxCycles
<1>1. PICK c : c = Val(snap.cycle)
  OBVIOUS
<1>2. c \in Nat
  BY <1>1, PairWords DEF Inv1, Types
<1>3. Counted = IF Storing THEN next ELSE IF at = "off" THEN c ELSE total.cycle
  BY <1>1 DEF Counted
<1>4. Counted \in Nat /\ Counted <= MaxCycles
  BY <1>1, <1>2, <1>3 DEF Inv1, CycleStored, Snapshot, Types
<1>5. total.idle \in Nat /\ total.idle + Batch <= Counted
  BY DEF Inv1, Account, Types
<1> QED BY <1>4, <1>5, Bounds

LEMMA AddIdleKeeps ==
  ASSUME Inv1, AddIdle
  PROVE  Inv1' /\ total'.cycle = total.cycle /\ total'.idle >= total.idle
<1> USE DEF Inv1
<1>1. /\ at = "idle_lo"
      /\ idle' = [idle EXCEPT !["lo"] = Plus(idle, Batch)["lo"]]
      /\ UNCHANGED <<cycle, goal, left, reader, snap, next, ran, lost, revived,
                   forgotten>>
  BY DEF AddIdle
<1>2. /\ idle \in Pair /\ Val(idle) = total.idle /\ total.idle \in Nat
      /\ total.idle + Batch <= MaxCycles
  BY <1>1, IdleRoom DEF Types, IdleStored, Owed
<1>3. PICK q : q = Plus(idle, Batch)
  OBVIOUS
<1>4. /\ q \in Pair /\ Val(q) = Val(idle) + Batch
      /\ \/ q["hi"] = idle["hi"] /\ q["lo"] = idle["lo"] + Batch
         \/ q["hi"] = idle["hi"] + 1 /\ q["lo"] = idle["lo"] + Batch - Base
  <2>1. Batch \in 0..(Base - 1) /\ Val(idle) + Batch < Base * Base
    BY <1>2, Bounds
  <2> QED BY <1>2, <1>3, <2>1, PlusExact
<1>5. idle' \in Pair /\ idle'["hi"] = idle["hi"] /\ idle'["lo"] = q["lo"]
  <2>1. idle' = [idle EXCEPT !["lo"] = q["lo"]] /\ q["lo"] \in Word
    BY <1>1, <1>3, <1>4 DEF Pair, Half
  <2> QED BY <1>2, <2>1 DEF Pair, Half
<1>6. PICK hi \in 0..(Base - 1) : hi = idle["hi"]
  BY <1>2, PairWords
<1>7. PICK lo \in 0..(Base - 1) : lo = idle["lo"]
  BY <1>2, PairWords
<1>8. PICK big \in Nat : big = hi * Base
  BY Bounds
<1>9. Val(idle) = big + lo /\ Val(idle') = big + q["lo"]
  BY <1>5, <1>6, <1>7, <1>8 DEF Val
<1>10. ~Storing /\ at # "off"
  BY <1>1 DEF Storing
<1>11. CASE q["hi"] # idle["hi"]
  <2>1. at' = "idle_hi" /\ total' = total
    BY <1>1, <1>3, <1>11 DEF AddIdle
  <2>2. Val(idle') + Base = total'.idle + Batch
    <3>1. q["lo"] = lo + Batch - Base
      BY <1>4, <1>6, <1>7, <1>11
    <3>2. big + lo = total.idle
      BY <1>2, <1>9
    <3>3. big + q["lo"] + Base = total.idle + Batch
      BY <3>1, <3>2, Bounds
    <3> QED BY <1>9, <2>1, <3>3
  <2>3. Types' /\ CycleStored' /\ Snapshot'
    BY <1>1, <1>5, <1>10, <2>1 DEF Types, CycleStored, Snapshot, Storing
  <2>4. IdleStored' /\ Account'
    BY <1>1, <1>10, <2>1, <2>2 DEF IdleStored, Account, Counted, Owed, Storing
  <2> QED BY <1>2, <2>1, <2>3, <2>4
<1>12. CASE q["hi"] = idle["hi"]
  <2>1. at' = "ready" /\ total' = [total EXCEPT !.idle = @ + Batch]
    BY <1>1, <1>3, <1>12 DEF AddIdle
  <2>2. /\ total'.cycle = total.cycle /\ total'.idle = total.idle + Batch
        /\ total' \in [cycle : Nat, idle : Nat]
    BY <2>1, Bounds DEF Types
  <2>3. Val(idle') = total'.idle
    <3>1. q["lo"] = lo + Batch
      BY <1>4, <1>6, <1>7, <1>12
    <3>2. big + lo = total.idle
      BY <1>2, <1>9
    <3>3. big + q["lo"] = total.idle + Batch
      BY <3>1, <3>2, Bounds
    <3> QED BY <1>9, <2>2, <3>3
  <2>4. Types' /\ CycleStored' /\ Snapshot'
    BY <1>1, <1>5, <1>10, <2>1, <2>2 DEF Types, CycleStored, Snapshot, Storing
  <2>5. IdleStored'
    BY <2>1, <2>3 DEF IdleStored
  <2>6. Account'
    BY <1>1, <1>2, <1>10, <2>1, <2>2, Bounds DEF Account, Counted, Owed, Storing, Types
  <2> QED BY <1>2, <2>2, <2>4, <2>5, <2>6, Bounds
<1> QED BY <1>11, <1>12

LEMMA CarryIdleKeeps ==
  ASSUME Inv1, CarryIdle
  PROVE  Inv1' /\ total'.cycle = total.cycle /\ total'.idle >= total.idle
<1> USE DEF Inv1
<1>1. /\ at = "idle_hi" /\ at' = "ready"
      /\ idle' = [idle EXCEPT !["hi"] = @ + 1]
      /\ total' = [total EXCEPT !.idle = @ + Batch]
      /\ UNCHANGED <<cycle, goal, left, reader, snap, next, ran, lost, revived,
                   forgotten>>
  BY DEF CarryIdle
<1>2. /\ idle \in Pair /\ Val(idle) + Base = total.idle + Batch /\ total.idle \in Nat
      /\ total.idle + Batch <= MaxCycles
  BY <1>1, IdleRoom DEF Types, IdleStored, Owed
<1>3. PICK hi \in 0..(Base - 1) : hi = idle["hi"]
  BY <1>2, PairWords
<1>4. PICK lo \in 0..(Base - 1) : lo = idle["lo"]
  BY <1>2, PairWords
<1>5. /\ hi * Base \in Nat /\ Val(idle) = hi * Base + lo
      /\ (hi + 1) * Base = hi * Base + Base /\ (hi + 1) * Base + lo < Base * Base
  <2>1. hi * Base \in Nat /\ Val(idle) = hi * Base + lo
    BY <1>2, <1>3, <1>4, PairWords
  <2>2. (hi + 1) * Base = hi * Base + Base
    BY Bounds
  <2> QED BY <1>2, <2>1, <2>2, Bounds
<1>6. hi + 1 \in Word
  <2> SUFFICES ASSUME hi + 1 = Base PROVE FALSE
    BY Bounds DEF Word
  <2> QED BY <1>5, Bounds
<1>7. idle' \in Pair /\ idle'["hi"] = hi + 1 /\ idle'["lo"] = lo
  BY <1>1, <1>2, <1>3, <1>4, <1>6 DEF Pair, Half
<1>8. /\ total'.cycle = total.cycle /\ total'.idle = total.idle + Batch
      /\ total' \in [cycle : Nat, idle : Nat]
  BY <1>1, Bounds DEF Types
<1>9. Val(idle') = total'.idle
  BY <1>2, <1>5, <1>7, <1>8, Bounds DEF Val
<1>10. Types' /\ CycleStored' /\ Snapshot'
  BY <1>1, <1>7, <1>8 DEF Types, CycleStored, Snapshot, Storing
<1>11. IdleStored'
  BY <1>1, <1>9 DEF IdleStored
<1>12. Account'
  BY <1>1, <1>2, <1>8, Bounds DEF Account, Counted, Owed, Storing, Types
<1> QED BY <1>2, <1>8, <1>10, <1>11, <1>12, Bounds

LEMMA HibernateKeeps ==
  ASSUME Inv1, Hibernate
  PROVE  Inv1' /\ total' = total
<1> USE DEF Inv1
<1>1. /\ at = "ready" /\ at' = "off"
      /\ snap' = [cycle |-> cycle, ran |-> ran, lost |-> lost]
      /\ UNCHANGED <<cycle, idle, goal, left, reader, total, next, ran, lost, revived,
                   forgotten>>
  BY DEF Hibernate, history
<1>2. Val(cycle) = total.cycle /\ total.cycle \in Nat
  BY <1>1 DEF CycleStored, Storing, Types
<1>3. Types' /\ CycleStored' /\ IdleStored'
  BY <1>1 DEF Types, CycleStored, IdleStored, Storing
<1>4. Account' /\ Snapshot'
  BY <1>1, <1>2 DEF Account, Snapshot, CycleStored, Counted, Owed, Storing
<1> QED BY <1>1, <1>3, <1>4

LEMMA PowerCycleKeeps ==
  ASSUME Inv1, PowerCycle
  PROVE  Inv1' /\ reader' = NoRead
<1> USE DEF Inv1
<1>1. /\ at = "off" /\ cycle' = Zero /\ idle' = Zero
      /\ total' = [cycle |-> 0, idle |-> 0]
      /\ reader' = NoRead /\ revived' = TRUE /\ forgotten' = forgotten + total.idle
      /\ UNCHANGED <<at, goal, left, snap, next, ran, lost>>
  BY DEF PowerCycle
<1>2. Zero \in Pair /\ Val(Zero) = 0 /\ 0 \in Word
  BY CounterAssumption DEF Zero, Pair, Half, Word, Val
<1>3. Val(snap.cycle) \in Nat
  BY PairWords DEF Types
<1>4. Types' /\ CycleStored' /\ IdleStored'
  BY <1>1, <1>2, Bounds DEF Types, NoRead, CycleStored, IdleStored, Storing
<1>5. Account' /\ Snapshot'
  BY <1>1, <1>3 DEF Account, Snapshot, Counted, Owed, Storing, Types
<1> QED BY <1>1, <1>4, <1>5

LEMMA ResumeKeeps ==
  ASSUME Inv1, Resume
  PROVE  Inv1' /\ total' = total
<1> USE DEF Inv1
<1>1. /\ at = "off" /\ at' = "resume" /\ ran' = snap.ran /\ lost' = snap.lost
      /\ StoreSoon(snap.cycle, Val(snap.cycle))
      /\ UNCHANGED <<cycle, idle, reader, snap, total, revived,
                   forgotten>>
  BY DEF Resume
<1>2. snap.cycle \in Pair /\ Val(snap.cycle) \in Nat
  BY PairWords DEF Types
<1>3. /\ goal' = snap.cycle /\ next' = Val(snap.cycle)
      /\ left' \subseteq Half /\ left' # {}
      /\ \A h \in Half \ left' : cycle[h] = goal'[h]
  BY <1>1, <1>2, StoreSoonFacts
<1>4. Types'
  BY <1>1, <1>2, <1>3 DEF Types, Snapshot
<1>5. CycleStored' /\ IdleStored' /\ Snapshot'
  BY <1>1, <1>2, <1>3 DEF CycleStored, Storing, IdleStored, Snapshot
<1>6. Account'
  BY <1>1, <1>3 DEF Account, Counted, Owed, Storing, Snapshot
<1> QED BY <1>1, <1>4, <1>5, <1>6

(* Core 1 never takes a counter back.                                      *)
LEMMA Core1Keeps ==
  ASSUME Inv1, Core1
  PROVE  /\ Inv1' /\ reader' = reader
         /\ total'.cycle >= total.cycle /\ total'.idle >= total.idle
<1>1. total.cycle \in Nat /\ total.idle \in Nat
  BY DEF Inv1, Types
<1>2. reader' = reader
  BY DEF Core1, Retire, Sleep, Syscon, StoreHalf, AddIdle, CarryIdle, Hibernate, Resume
<1>3. CASE \E n \in 0..Batch : Retire(n) \/ Sleep(n) \/ (n > 0 /\ Syscon(n))
  BY <1>1, <1>2, <1>3, RetireKeeps, SleepKeeps, SysconKeeps
<1>4. CASE \E h \in Half : StoreHalf(h)
  BY <1>1, <1>2, <1>4, StoreHalfKeeps
<1>5. CASE AddIdle
  BY <1>1, <1>2, <1>5, AddIdleKeeps
<1>6. CASE CarryIdle
  BY <1>1, <1>2, <1>6, CarryIdleKeeps
<1>7. CASE Hibernate \/ Resume
  BY <1>1, <1>2, <1>7, HibernateKeeps, ResumeKeeps
<1> QED BY <1>3, <1>4, <1>5, <1>6, <1>7 DEF Core1

-----------------------------------------------------------------------------
(* The sample.                                                             *)

(* While no load fell between the stores of a carry: what the loads so far *)
(* say of the value the counter has had meanwhile.  After the load of the  *)
(* low word, that value had some high word k; the second look at the high  *)
(* word shows that k was the first one, too.                               *)
Sampled ==
  /\ reader.at # "rest" => reader.from <= total[reader.of]
  /\ reader.at = "low" /\ ~reader.midway => reader.h * Base <= total[reader.of]
  /\ reader.at = "check" /\ ~reader.midway =>
       \E k \in Nat : /\ reader.h <= k
                      /\ reader.from <= k * Base + reader.l
                      /\ k * Base + reader.l <= total[reader.of]
  /\ RetryCatchesCarry

IInv == Inv1 /\ Sampled

LEMMA InitIInv == Init => IInv
<1> SUFFICES ASSUME Init PROVE IInv
  OBVIOUS
<1>1. Sampled
  BY DEF Init, NoRead, Sampled, RetryCatchesCarry
<1> QED BY <1>1, InitInv1 DEF IInv

(* A value of which the high word is not below h, and one where it is h.   *)
LEMMA HighWords ==
  ASSUME NEW h \in Nat, NEW k \in Nat, NEW l \in 0..(Base - 1)
  PROVE  /\ h * Base <= k * Base + l => h <= k
         /\ h <= k => h * Base <= k * Base
<1>1. PICK hb \in Nat : hb = h * Base
  BY Bounds
<1>2. PICK kb \in Nat : kb = k * Base
  BY Bounds
<1>3. h > k => hb >= kb + Base
  BY <1>1, <1>2, Steps, Bounds
<1>4. h <= k => hb <= kb
  <2>1. k > h => kb >= hb + Base
    BY <1>1, <1>2, Steps, Bounds
  <2> QED BY <1>1, <1>2, <2>1, Bounds
<1> QED BY <1>1, <1>2, <1>3, <1>4, Bounds

(* A counter that grows leaves what is known of it true.                   *)
LEMMA GrowthKeepsSample ==
  ASSUME Inv1, Sampled, total' \in [cycle : Nat, idle : Nat], reader' = reader,
         total'.cycle >= total.cycle, total'.idle >= total.idle
  PROVE  Sampled'
<1>1. PICK of \in {"cycle", "idle"} : of = reader.of
  BY DEF Inv1, Types
<1>2. PICK t \in Nat : t = total[of]
  BY DEF Inv1, Types
<1>3. PICK u \in Nat : u = total'[of]
  BY DEF Inv1, Types
<1>4. t <= u
  BY <1>1, <1>2, <1>3 DEF Inv1, Types
<1>5. reader.from \in Nat /\ reader.h \in Nat /\ reader.l \in Nat
  BY Bounds DEF Inv1, Types, Word
<1>6. reader.at # "rest" => reader.from <= u
  BY <1>1, <1>2, <1>4, <1>5 DEF Sampled
<1>7. reader.at = "low" /\ ~reader.midway => reader.h * Base <= u
  <2>1. PICK hb \in Nat : hb = reader.h * Base
    BY <1>5, Bounds
  <2> QED BY <1>1, <1>2, <1>4, <2>1 DEF Sampled
<1>8. ASSUME reader.at = "check", ~reader.midway
      PROVE  \E k \in Nat : /\ reader.h <= k
                            /\ reader.from <= k * Base + reader.l
                            /\ k * Base + reader.l <= u
  <2>1. PICK k \in Nat : /\ reader.h <= k
                         /\ reader.from <= k * Base + reader.l
                         /\ k * Base + reader.l <= t
    BY <1>1, <1>2, <1>8 DEF Sampled
  <2>2. PICK v \in Nat : v = k * Base + reader.l
    BY <1>5, Bounds
  <2>3. v <= u
    BY <1>4, <2>1, <2>2
  <2> QED BY <2>1, <2>2, <2>3
<1>9. RetryCatchesCarry'
  BY DEF Sampled, RetryCatchesCarry
<1>10. reader' = reader /\ total'[reader'.of] = u
  BY <1>1, <1>3
<1> QED BY <1>6, <1>7, <1>8, <1>9, <1>10 DEF Sampled

(* What a load finds when the words stand for the counter's value.         *)
LEMMA WholeCounter ==
  ASSUME Inv1
  PROVE  \E hi, lo \in 0..(Base - 1), t \in Nat :
           /\ hi = Counter(reader.of)["hi"] /\ lo = Counter(reader.of)["lo"]
           /\ t = total[reader.of]
           /\ ~Midway(reader.of) => t = hi * Base + lo
<1>1. Counter(reader.of) \in Pair
  BY DEF Inv1, Types, Counter
<1>2. PICK t \in Nat : t = total[reader.of]
  BY DEF Inv1, Types
<1> QED BY <1>1, <1>2, PairWords DEF Midway

LEMMA ReaderTypes ==
  ASSUME Inv1, Core0
  PROVE  Inv1' /\ total' = total /\ reader.of \in {"cycle", "idle"}
<1>1. /\ UNCHANGED <<cycle, idle, at, goal, left, snap, total, next, ran, lost, revived,
                   forgotten>>
      /\ reader.of \in {"cycle", "idle"}
  BY DEF Core0, ReadHigh, ReadLow, Recheck, ReadOther, history, Inv1, Types
<1>2. /\ CycleStored' /\ IdleStored' /\ Account' /\ Snapshot'
  BY <1>1 DEF Inv1, CycleStored, IdleStored, Account, Snapshot, Storing, Counted, Owed
<1>3. reader' \in [at : {"rest", "low", "check", "again", "got"}, of : {"cycle", "idle"},
                   h : Word, l : Word, from : Nat, to : Nat, midway : BOOLEAN]
  <2>1. PICK hi, lo \in 0..(Base - 1), t \in Nat :
           /\ hi = Counter(reader.of)["hi"] /\ lo = Counter(reader.of)["lo"]
           /\ t = total[reader.of]
    BY WholeCounter
  <2>2. Midway(reader.of) \in BOOLEAN
    BY DEF Midway
  <2>3. /\ reader \in [at : {"rest", "low", "check", "again", "got"}, of : {"cycle", "idle"},
                       h : Word, l : Word, from : Nat, to : Nat, midway : BOOLEAN]
        /\ 0 \in Word
    BY Bounds DEF Inv1, Types, Word
  <2>4. CASE ReadHigh
    BY <2>1, <2>2, <2>3, <2>4 DEF ReadHigh, Word
  <2>5. CASE ReadLow
    BY <2>1, <2>2, <2>3, <2>5 DEF ReadLow, Word
  <2>6. CASE Recheck
    BY <2>1, <2>2, <2>3, <2>6 DEF Recheck, Word
  <2>7. CASE ReadOther
    BY <2>3, <2>7 DEF ReadOther, NoRead
  <2> QED BY <2>4, <2>5, <2>6, <2>7 DEF Core0
<1>4. Types'
  BY <1>1, <1>3 DEF Inv1, Types
<1> QED BY <1>1, <1>2, <1>4 DEF Inv1

LEMMA ReadHighKeeps ==
  ASSUME Inv1, Sampled, ReadHigh
  PROVE  Sampled'
<1>1. PICK hi, lo \in 0..(Base - 1), t \in Nat :
         /\ hi = Counter(reader.of)["hi"] /\ lo = Counter(reader.of)["lo"]
         /\ t = total[reader.of]
         /\ ~Midway(reader.of) => t = hi * Base + lo
  BY WholeCounter
<1>2. /\ reader'.at = "low" /\ reader'.h = hi /\ reader'.of = reader.of
      /\ total' = total /\ reader.from \in Nat
      /\ reader'.from = IF reader.at = "rest" THEN t ELSE reader.from
      /\ ~reader'.midway => ~Midway(reader.of)
  BY <1>1 DEF ReadHigh, history, Inv1, Types, Midway
<1>3. reader'.from <= t
  BY <1>1, <1>2 DEF Sampled, ReadHigh
<1>4. ~reader'.midway => hi * Base <= t
  <2>1. PICK hb \in Nat : hb = hi * Base
    BY Bounds
  <2> QED BY <1>1, <1>2, <2>1
<1> QED BY <1>1, <1>2, <1>3, <1>4 DEF Sampled, RetryCatchesCarry

LEMMA ReadLowKeeps ==
  ASSUME Inv1, Sampled, ReadLow
  PROVE  Sampled'
<1>1. PICK hi, lo \in 0..(Base - 1), t \in Nat :
         /\ hi = Counter(reader.of)["hi"] /\ lo = Counter(reader.of)["lo"]
         /\ t = total[reader.of]
         /\ ~Midway(reader.of) => t = hi * Base + lo
  BY WholeCounter
<1>2. /\ reader.at = "low" /\ reader'.at = "check" /\ reader'.l = lo
      /\ reader'.h = reader.h /\ reader'.of = reader.of /\ reader'.from = reader.from
      /\ total' = total /\ reader.from \in Nat /\ reader.h \in Nat
  BY <1>1, Bounds DEF ReadLow, history, Inv1, Types, Word
<1>3. ~reader'.midway => ~reader.midway /\ ~Midway(reader.of)
  <2>1. PICK m \in BOOLEAN : m = Midway(reader.of)
    BY DEF Midway
  <2>2. reader'.midway = (reader.midway \/ m) /\ reader.midway \in BOOLEAN
    BY <2>1 DEF ReadLow, Inv1, Types
  <2> QED BY <2>1, <2>2
<1>4. reader.from <= t
  BY <1>1, <1>2 DEF Sampled
<1>5. ASSUME ~reader'.midway
      PROVE  \E k \in Nat : /\ reader.h <= k
                            /\ reader.from <= k * Base + lo
                            /\ k * Base + lo <= t
  <2>1. t = hi * Base + lo /\ reader.h * Base <= t
    BY <1>1, <1>2, <1>3, <1>5 DEF Sampled
  <2>2. reader.h * Base <= hi * Base + lo
    BY <2>1
  <2>3. reader.h <= hi
    BY <1>2, <2>2, HighWords
  <2>4. PICK v \in Nat : v = hi * Base + lo
    BY Bounds
  <2> QED BY <1>4, <2>1, <2>3, <2>4
<1> QED BY <1>1, <1>2, <1>4, <1>5 DEF Sampled, RetryCatchesCarry

LEMMA RecheckKeeps ==
  ASSUME Inv1, Sampled, Recheck
  PROVE  Sampled'
<1>1. PICK hi, lo \in 0..(Base - 1), t \in Nat :
         /\ hi = Counter(reader.of)["hi"] /\ lo = Counter(reader.of)["lo"]
         /\ t = total[reader.of]
         /\ ~Midway(reader.of) => t = hi * Base + lo
  BY WholeCounter
<1>2. /\ reader.at = "check" /\ reader'.at = (IF hi = reader.h THEN "got" ELSE "again")
      /\ reader'.l = reader.l /\ reader'.to = t
      /\ reader'.h = reader.h /\ reader'.of = reader.of /\ reader'.from = reader.from
      /\ total' = total /\ reader.from \in Nat /\ reader.h \in Nat
      /\ reader.l \in 0..(Base - 1)
  BY <1>1, Bounds DEF Recheck, history, Inv1, Types, Word
<1>3. ~reader'.midway => ~reader.midway /\ ~Midway(reader.of)
  <2>1. PICK m \in BOOLEAN : m = Midway(reader.of)
    BY DEF Midway
  <2>2. reader'.midway = (reader.midway \/ m) /\ reader.midway \in BOOLEAN
    BY <2>1 DEF Recheck, Inv1, Types
  <2> QED BY <2>1, <2>2
<1>4. reader.from <= t
  BY <1>1, <1>2 DEF Sampled
<1>5. ASSUME hi = reader.h, ~reader'.midway
      PROVE  hi * Base + reader.l \in reader.from..t
  <2>1. PICK k \in Nat : /\ hi <= k
                         /\ reader.from <= k * Base + reader.l
                         /\ k * Base + reader.l <= t
    BY <1>1, <1>2, <1>3, <1>5 DEF Sampled
  <2>2. t = hi * Base + lo
    BY <1>1, <1>2, <1>3, <1>5
  <2>3. PICK kb \in Nat : kb = k * Base
    BY Bounds
  <2>4. k * Base <= hi * Base + lo
    BY <1>2, <2>1, <2>2, <2>3
  <2>5. k <= hi
    BY <2>4, HighWords
  <2>6. k = hi
    BY <2>1, <2>5
  <2> QED BY <1>2, <2>1, <2>3, <2>6
<1>6. RetryCatchesCarry'
  BY <1>2, <1>5 DEF RetryCatchesCarry
<1> QED BY <1>1, <1>2, <1>4, <1>6 DEF Sampled

LEMMA NextIInv == IInv /\ [Next]_vars => IInv'
<1> SUFFICES ASSUME IInv, [Next]_vars PROVE IInv'
  OBVIOUS
<1>1. Inv1 /\ Sampled
  BY DEF IInv
<1>2. CASE Core1
  <2>1. /\ Inv1' /\ reader' = reader
        /\ total'.cycle >= total.cycle /\ total'.idle >= total.idle
    BY <1>1, <1>2, Core1Keeps
  <2>2. total' \in [cycle : Nat, idle : Nat]
    BY <2>1 DEF Inv1, Types
  <2> QED BY <1>1, <2>1, <2>2, GrowthKeepsSample DEF IInv
<1>3. CASE Core0
  <2>1. Inv1'
    BY <1>1, <1>3, ReaderTypes
  <2>2. CASE ReadHigh \/ ReadLow \/ Recheck
    BY <1>1, <2>1, <2>2, ReadHighKeeps, ReadLowKeeps, RecheckKeeps DEF IInv
  <2>3. CASE ReadOther
    <3>1. reader'.at = "rest"
      BY <2>3 DEF ReadOther, NoRead
    <3> QED BY <2>1, <3>1 DEF IInv, Sampled, RetryCatchesCarry
  <2> QED BY <1>3, <2>2, <2>3 DEF Core0
<1>4. CASE PowerCycle
  <2>1. Inv1' /\ reader' = NoRead
    BY <1>1, <1>4, PowerCycleKeeps
  <2> QED BY <2>1 DEF IInv, Sampled, RetryCatchesCarry, NoRead
<1>5. CASE UNCHANGED vars
  <2>1. Inv1'
    BY <1>1, <1>5 DEF vars, history, Inv1, Types, CycleStored, IdleStored, Account,
                      Snapshot, Storing, Counted, Owed
  <2>2. Sampled'
    BY <1>1, <1>5 DEF vars, history, Sampled, RetryCatchesCarry
  <2> QED BY <2>1, <2>2 DEF IInv
<1> QED BY <1>2, <1>3, <1>4, <1>5 DEF Next

LEMMA Invariant == Spec => []IInv
BY InitIInv, NextIInv, PTL DEF Spec

-----------------------------------------------------------------------------
(* Every variable has its type, and nothing leaves its two words: the bound *)
(* on the counters bounds the idle counter, too.                           *)
THEOREM TypeCorrect == Spec => []TypeOK
<1>1. IInv => TypeOK
  <2> SUFFICES ASSUME Types, Account, CycleStored, Snapshot PROVE TypeOK
    BY DEF IInv, Inv1
  <2>1. PICK c \in Nat : c = Val(snap.cycle)
    BY PairWords DEF Types
  <2>2. Counted = IF Storing THEN next ELSE IF at = "off" THEN c ELSE total.cycle
    BY <2>1 DEF Counted
  <2>3. Counted \in Nat /\ Counted <= MaxCycles
    BY <2>1, <2>2 DEF CycleStored, Snapshot, Types
  <2>4. total.idle <= MaxCycles
    BY <2>3, Bounds DEF Account, Owed, Types
  <2>5. {next, total.cycle, total.idle} \subseteq 0..(Base * Base - 1)
    BY <2>4, Bounds DEF CycleStored, Types
  <2> QED BY <2>5 DEF TypeOK, Types, Pair
<1> QED BY <1>1, Invariant, PTL

(* Between two steps the words are the 64-bit values: no wrap is missed or *)
(* invented by the carry of the cycle CSR or by the one of the idle        *)
(* counter.                                                                *)
THEOREM CarryIsExact == Spec => []CarriesExact
<1>1. IInv => CarriesExact
  BY DEF IInv, Inv1, CarriesExact, CycleStored, IdleStored, Storing
<1> QED BY <1>1, Invariant, PTL

(* read64_torn_safe: a sample of which no load fell between the two stores *)
(* of a carry is a value the counter had during the sample.                *)
THEOREM RetrySuffices == Spec => []RetryCatchesCarry
<1>1. IInv => RetryCatchesCarry
  BY DEF IInv, Sampled
<1> QED BY <1>1, Invariant, PTL

(* vm_get_instret takes every cycle made up for a sleep out again, but for *)
(* those a hibernation forgot, and misses no more than the steps that were *)
(* cut short, for every base and batch.                                    *)
THEOREM SleepIsNotRetired == Spec => []SleepComesOut
<1>1. IInv => SleepComesOut
  <2> SUFFICES ASSUME IInv, at = "ready"
               PROVE  Instret \in (ran - lost)..(ran + forgotten)
    BY DEF SleepComesOut
  <2>1. Val(cycle) = total.cycle /\ Val(idle) = total.idle
    BY DEF IInv, Inv1, CycleStored, IdleStored, Storing
  <2>2. /\ total.idle <= total.cycle
        /\ total.cycle - total.idle = ran - lost + forgotten
    BY DEF IInv, Inv1, Account, Counted, Owed, Storing, Types
  <2>3. /\ total.cycle \in Nat /\ total.idle \in Nat
        /\ ran \in Nat /\ lost \in Nat /\ lost <= ran /\ forgotten \in Nat
    BY DEF IInv, Inv1, Types
  <2>4. Instret = total.cycle - total.idle
    BY <2>1, <2>2, <2>3 DEF Instret
  <2> QED BY <2>2, <2>3, <2>4
<1> QED BY <1>1, Invariant, PTL
=============================================================================
