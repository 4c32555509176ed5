-------------------------- MODULE PsramCacheProofs --------------------------
(***************************************************************************)
(* What holds of PsramCache for every line size, set count, chip size and  *)
(* set of accesses, inside a line or past it: its invariant IInv is        *)
(* inductive, the safety properties follow from it, and under it every     *)
(* step of the cache is a step of a flat memory that keeps its promise     *)
(* within a line.                                                          *)
(***************************************************************************)
EXTENDS PsramCache, TLAPS

(* Quotient and remainder put a number together again.                     *)
LEMMA DivMod ==
  ASSUME NEW a \in Nat, NEW b \in Nat \ {0}
  PROVE  /\ a \div b \in Nat
         /\ a % b \in 0..(b - 1)
         /\ a = (a \div b) * b + (a % b)
  OBVIOUS

(* ... and are the only ones that do.                                      *)
LEMMA DivModUnique ==
  ASSUME NEW q \in Nat, NEW b \in Nat \ {0}, NEW r \in 0..(b - 1)
  PROVE  /\ (q * b + r) \div b = q
         /\ (q * b + r) % b = r
  OBVIOUS

(* Numbers below n blocks of size m, in blocks.                            *)
LEMMA MulLess ==
  ASSUME NEW q \in Nat, NEW m \in Nat, NEW b \in Nat \ {0}, NEW r \in 0..(b - 1)
  PROVE  q < m <=> q * b + r < m * b
  OBVIOUS

(* The sizes that cache.c and hw_config.h derive from one another.         *)
LEMMA Geometry ==
  /\ ChipSize \in Nat \ {0}
  /\ RamSize \in Nat \ {0}
  /\ Addr \subseteq Nat
  /\ Within \subseteq Nat
  BY GeometryAssumption DEF ChipSize, RamSize, Addr, Within

(* OFFSET, INDEX, TAG and BASE of cache.c take an address apart.           *)
LEMMA AddrParts ==
  ASSUME NEW a \in Addr
  PROVE  /\ OFFSET(a) \in Within
         /\ INDEX(a) \in Index
         /\ TAG(a) \in Nat
         /\ BASE(a) \in Addr
         /\ BASE(a) + OFFSET(a) = a
         /\ FlushBase(INDEX(a), TAG(a)) = BASE(a)
<1> DEFINE q == a \div LineSize
<1>1. a \in Nat /\ LineSize \in Nat \ {0} /\ SetCount \in Nat \ {0}
  BY Geometry, GeometryAssumption
<1>2. q \in Nat /\ a % LineSize \in 0..(LineSize - 1) /\ a = q * LineSize + (a % LineSize)
  BY <1>1, DivMod
<1>3. q \div SetCount \in Nat /\ q % SetCount \in 0..(SetCount - 1)
      /\ q = (q \div SetCount) * SetCount + (q % SetCount)
  BY <1>1, <1>2, DivMod
<1>4. q * LineSize \in 0..a
  BY <1>1, <1>2
<1>5. BASE(a) \in Addr
  BY <1>4, Geometry DEF BASE, Addr
<1>. QED
  BY <1>1, <1>2, <1>3, <1>5
  DEF OFFSET, INDEX, TAG, BASE, FlushBase, Within, Index

(* flush_base of flush_line is an address of the line its tag came from.   *)
LEMMA LineParts ==
  ASSUME NEW i \in Index, NEW t \in Nat, NEW x \in Within,
         FlushBase(i, t) \in Addr
  PROVE  /\ FlushBase(i, t) + x \in Addr
         /\ OFFSET(FlushBase(i, t) + x) = x
         /\ INDEX(FlushBase(i, t) + x) = i
         /\ TAG(FlushBase(i, t) + x) = t
         /\ BASE(FlushBase(i, t) + x) = FlushBase(i, t)
<1> DEFINE q == t * SetCount + i
<1>1. /\ LineSize \in Nat \ {0} /\ SetCount \in Nat \ {0} /\ i \in 0..(SetCount - 1)
      /\ x \in 0..(LineSize - 1) /\ ChipLines \in Nat \ {0} /\ TwoChips \in BOOLEAN
  BY GeometryAssumption DEF Index, Within
<1>2. q \in Nat
  BY <1>1
<1>3. (q * LineSize + x) \div LineSize = q /\ (q * LineSize + x) % LineSize = x
  BY <1>1, <1>2, DivModUnique
<1>4. q \div SetCount = t /\ q % SetCount = i
  BY <1>1, DivModUnique
<1>5. q * LineSize + x \in Addr
  <2> DEFINE m == IF TwoChips THEN 2 * ChipLines ELSE ChipLines
  <2>1. m \in Nat /\ RamSize = m * LineSize
    BY <1>1 DEF RamSize, ChipSize
  <2>2. q * LineSize + 0 < m * LineSize
    BY <2>1, <1>1, <1>2 DEF FlushBase, Addr
  <2>3. q < m
    <3>1. 0 \in 0..(LineSize - 1)
      BY <1>1
    <3> HIDE DEF q, m
    <3>. QED
      BY <3>1, <2>1, <2>2, <1>1, <1>2, MulLess
  <2>4. q * LineSize + x < m * LineSize
    <3> HIDE DEF q, m
    <3>. QED
      BY <2>1, <2>3, <1>1, <1>2, MulLess
  <2>5. q * LineSize + x \in Nat
    <3> HIDE DEF q
    <3>. QED  BY <1>1, <1>2
  <2>. QED
    BY <2>1, <2>4, <2>5, Geometry DEF Addr
<1>. QED
  BY <1>3, <1>4, <1>5 DEF FlushBase, OFFSET, INDEX, TAG, BASE

(* Two addresses with one set and one tag are in one line.                 *)
LEMMA SameLine ==
  ASSUME NEW a \in Addr, NEW b \in Addr
  PROVE  BASE(a) = BASE(b) <=> INDEX(a) = INDEX(b) /\ TAG(a) = TAG(b)
<1>1. 0 \in Within
  BY GeometryAssumption DEF Within
<1>2. ASSUME BASE(a) = BASE(b) PROVE INDEX(a) = INDEX(b) /\ TAG(a) = TAG(b)
  <2>1. FlushBase(INDEX(a), TAG(a)) = FlushBase(INDEX(b), TAG(b))
    BY <1>2, AddrParts
  <2>. QED
    BY <2>1, <1>1, AddrParts, LineParts
<1>. QED
  BY <1>2, AddrParts


-----------------------------------------------------------------------------
(* The chips.  A span that stays on one chip is one interval of its cells. *)

(* psram_chip_cs and the local address are a place of the chips, one       *)
(* place for each address.                                                 *)
LEMMA Placement ==
  ASSUME NEW a \in Addr
  PROVE  /\ ChipOf(a) \in Chip
         /\ LocalOf(a) \in Local
         /\ LocalOf(a) = IF ChipOf(a) = 1 THEN a - ChipSize ELSE a
         /\ ChipOf(a) = 1 => TwoChips /\ a >= ChipSize
         /\ ChipOf(a) # 1 => a < ChipSize
<1>1. ChipSize \in Nat \ {0} /\ TwoChips \in BOOLEAN /\ a \in Nat /\ a < RamSize
  BY Geometry, GeometryAssumption DEF Addr
<1>2. CASE TwoChips /\ a >= ChipSize
  <2>1. a < 2 * ChipSize
    BY <1>1, <1>2 DEF RamSize
  <2>2. (1 * ChipSize + (a - ChipSize)) % ChipSize = a - ChipSize
    <3>1. a - ChipSize \in 0..(ChipSize - 1)
      BY <1>1, <1>2, <2>1
    <3>. QED
      BY <3>1, <1>1, DivModUnique
  <2>3. 1 * ChipSize + (a - ChipSize) = a
    BY <1>1
  <2>. QED
    BY <1>1, <1>2, <2>1, <2>2, <2>3 DEF ChipOf, LocalOf, Chip, Local
<1>3. CASE TwoChips /\ a < ChipSize
  <2>1. (0 * ChipSize + a) % ChipSize = a
    BY <1>1, <1>3, DivModUnique
  <2>. QED
    BY <1>1, <1>3, <2>1 DEF ChipOf, LocalOf, Chip, Local
<1>4. CASE ~TwoChips
  BY <1>1, <1>4 DEF ChipOf, LocalOf, Chip, Local, RamSize
<1>. QED
  BY <1>1, <1>2, <1>3, <1>4

(* The addresses of a burst inside one chip are consecutive there.         *)
LEMMA SpanPlacement ==
  ASSUME NEW a \in Addr, NEW n \in Nat, LocalOf(a) + n <= ChipSize,
         NEW k \in 0..(n - 1)
  PROVE  /\ a + k \in Addr
         /\ ChipOf(a + k) = ChipOf(a)
         /\ LocalOf(a + k) = LocalOf(a) + k
         /\ LocalOf(a) + k \in Local
<1>1. ChipSize \in Nat \ {0} /\ TwoChips \in BOOLEAN /\ a \in Nat /\ a < RamSize
  BY Geometry, GeometryAssumption DEF Addr
<1>2. a + k \in Addr
  BY <1>1, Placement, Geometry DEF Addr, RamSize
<1>3. ChipOf(a + k) = ChipOf(a)
  BY <1>1, Placement DEF ChipOf
<1>4. LocalOf(a + k) = IF ChipOf(a) = 1 THEN (a + k) - ChipSize ELSE a + k
  <2> DEFINE b == a + k
  <2>1. b \in Addr /\ ChipOf(b) = ChipOf(a)
    BY <1>2, <1>3
  <2> HIDE DEF b
  <2>2. LocalOf(b) = IF ChipOf(a) = 1 THEN b - ChipSize ELSE b
    BY <2>1, Placement
  <2>. QED
    BY <2>2 DEF b
<1>5. LocalOf(a) \in Nat /\ LocalOf(a) + k = LocalOf(a + k)
  BY <1>1, <1>4, Placement DEF Local
<1>. QED
  BY <1>1, <1>2, <1>3, <1>5, Placement DEF Local

(* What a burst read by psram_access returns.                              *)
LEMMA ReadSpan ==
  ASSUME NEW p \in Cells, NEW a \in Addr, NEW n \in Nat,
         LocalOf(a) + n <= ChipSize
  PROVE  /\ PsramRead(p, a, n) \in [0..(n - 1) -> Byte]
         /\ \A k \in 0..(n - 1) : PsramRead(p, a, n)[k] = CellAt(p, a + k)
  BY SpanPlacement, Placement DEF PsramRead, CellAt, Cells

(* What a burst changes: the bytes of its span, and no other address.      *)
LEMMA WriteSpan ==
  ASSUME NEW p \in Cells, NEW a \in Addr, NEW n \in Nat,
         LocalOf(a) + n <= ChipSize,
         NEW d \in [0..(n - 1) -> Byte]
  PROVE  /\ PsramWrite(p, a, n, d) \in Cells
         /\ \A b \in Addr :
              CellAt(PsramWrite(p, a, n, d), b) =
                IF b - a \in 0..(n - 1) THEN d[b - a] ELSE CellAt(p, b)
<1> DEFINE W == PsramWrite(p, a, n, d)
<1>1. ChipOf(a) \in Chip /\ LocalOf(a) \in Local /\ Local \subseteq Nat
  BY Placement, Geometry DEF Local
<1>2. W \in Cells
  BY <1>1, Geometry DEF PsramWrite, Cells, Local
<1>3. ASSUME NEW b \in Addr
      PROVE  CellAt(W, b) = IF b - a \in 0..(n - 1) THEN d[b - a] ELSE CellAt(p, b)
  <2>1. ChipOf(b) \in Chip /\ LocalOf(b) \in Local
    BY Placement
  <2>2. CellAt(W, b) = IF ChipOf(b) = ChipOf(a) /\ LocalOf(b) - LocalOf(a) \in 0..(n - 1)
                       THEN d[LocalOf(b) - LocalOf(a)] ELSE CellAt(p, b)
    BY <1>1, <2>1 DEF PsramWrite, Cells, CellAt
  <2>3. CASE b - a \in 0..(n - 1)
    <3>1. a + (b - a) = b
      BY Geometry
    <3>2. ChipOf(b) = ChipOf(a) /\ LocalOf(b) = LocalOf(a) + (b - a)
      BY <2>3, <3>1, SpanPlacement
    <3>3. LocalOf(b) - LocalOf(a) = b - a
      <4>1. LocalOf(a) \in Nat /\ a \in Nat /\ b \in Nat
        BY <1>1, Geometry
      <4>2. b - a \in Int
        BY <4>1
      <4>. QED
        BY <3>2, <4>1, <4>2
    <3>. QED
      BY <2>2, <2>3, <3>2, <3>3
  <2>4. CASE b - a \notin 0..(n - 1)
    <3>1. ~(ChipOf(b) = ChipOf(a) /\ LocalOf(b) - LocalOf(a) \in 0..(n - 1))
      BY <2>4, Placement, Geometry
    <3>. QED
      BY <2>2, <2>4, <3>1
  <2>. QED
    BY <2>3, <2>4
<1>. QED
  BY <1>2, <1>3

(* A line never straddles the chips.                                       *)
LEMMA LineInChip ==
  ASSUME NEW i \in Index, NEW t \in Nat, FlushBase(i, t) \in Addr
  PROVE  LocalOf(FlushBase(i, t)) + LineSize <= ChipSize
<1> DEFINE q == t * SetCount + i
<1>1. /\ LineSize \in Nat \ {0} /\ SetCount \in Nat \ {0} /\ i \in 0..(SetCount - 1)
      /\ ChipLines \in Nat \ {0} /\ TwoChips \in BOOLEAN /\ 0 \in 0..(LineSize - 1)
  BY GeometryAssumption DEF Index
<1>2. q \in Nat /\ FlushBase(i, t) = q * LineSize
  BY <1>1 DEF FlushBase
<1> HIDE DEF q
<1>3. CASE ChipOf(FlushBase(i, t)) # 1
  <2>1. q * LineSize + 0 < ChipLines * LineSize
    BY <1>1, <1>2, <1>3, Placement, Geometry DEF ChipSize
  <2>2. q < ChipLines
    BY <2>1, <1>1, <1>2, MulLess
  <2>3. q * LineSize + (LineSize - 1) < ChipLines * LineSize
    BY <2>2, <1>1, <1>2, MulLess
  <2>. QED
    BY <2>3, <1>1, <1>2, <1>3, Placement, Geometry DEF ChipSize
<1>4. CASE ChipOf(FlushBase(i, t)) = 1
  <2>1. q * LineSize + 0 < (2 * ChipLines) * LineSize
    BY <1>1, <1>2, <1>4, Placement, Geometry DEF ChipSize, RamSize, Addr
  <2>2. q < 2 * ChipLines
    BY <2>1, <1>1, <1>2, MulLess
  <2>3. q * LineSize + (LineSize - 1) < (2 * ChipLines) * LineSize
    BY <2>2, <1>1, <1>2, MulLess
  <2>4. LocalOf(FlushBase(i, t)) = q * LineSize - ChipSize
    BY <1>2, <1>4, Placement
  <2>. QED
    BY <2>3, <2>4, <1>1, <1>2, Geometry DEF ChipSize
<1>. QED
  BY <1>3, <1>4


(* Writing a line back changes exactly the addresses of that line.         *)
LEMMA LineWrite ==
  ASSUME NEW p \in Cells, NEW i \in Index, NEW t \in Nat,
         FlushBase(i, t) \in Addr, NEW d \in [Within -> Byte]
  PROVE  /\ PsramWrite(p, FlushBase(i, t), LineSize, d) \in Cells
         /\ \A b \in Addr :
              CellAt(PsramWrite(p, FlushBase(i, t), LineSize, d), b) =
                IF INDEX(b) = i /\ TAG(b) = t THEN d[OFFSET(b)] ELSE CellAt(p, b)
<1> DEFINE f == FlushBase(i, t)
<1>1. LocalOf(f) + LineSize <= ChipSize /\ LineSize \in Nat /\ f \in Nat
  BY LineInChip, GeometryAssumption, Geometry
<1>2. /\ PsramWrite(p, f, LineSize, d) \in Cells
      /\ \A b \in Addr : CellAt(PsramWrite(p, f, LineSize, d), b) =
                           IF b - f \in Within THEN d[b - f] ELSE CellAt(p, b)
  BY <1>1, WriteSpan DEF Within
<1>3. ASSUME NEW b \in Addr
      PROVE  /\ b - f \in Within <=> INDEX(b) = i /\ TAG(b) = t
             /\ b - f \in Within => b - f = OFFSET(b)
  <2>1. b \in Nat
    BY Geometry
  <2>2. ASSUME b - f \in Within
        PROVE  INDEX(b) = i /\ TAG(b) = t /\ b - f = OFFSET(b)
    <3>1. f + (b - f) = b
      BY <2>1, <1>1
    <3>2. INDEX(f + (b - f)) = i /\ TAG(f + (b - f)) = t /\ OFFSET(f + (b - f)) = b - f
      BY <2>2, LineParts
    <3>. QED
      BY <3>1, <3>2
  <2>3. ASSUME INDEX(b) = i, TAG(b) = t
        PROVE  b - f \in Within
    <3>1. f + OFFSET(b) = b /\ OFFSET(b) \in Within
      BY <2>3, AddrParts
    <3>2. OFFSET(b) \in Nat
      BY <3>1, Geometry
    <3>. QED
      BY <3>1, <3>2, <1>1
  <2>. QED
    BY <2>2, <2>3
<1> HIDE DEF f
<1>4. ASSUME NEW b \in Addr
      PROVE  CellAt(PsramWrite(p, f, LineSize, d), b) =
                IF INDEX(b) = i /\ TAG(b) = t THEN d[OFFSET(b)] ELSE CellAt(p, b)
  BY <1>2, <1>3
<1>. QED
  BY <1>2, <1>4 DEF f

-----------------------------------------------------------------------------
(* The inductive invariant.  TypeOK and the shape of the cache are what    *)
(* the write-back addresses rest on; CleanIsCoherent is what makes it safe *)
(* to drop a clean victim, and FlushReachesRam needs the flush position.   *)
IInv ==
  /\ TypeOK
  /\ UniqueLine
  /\ LinesSound
  /\ CleanIsCoherent
  /\ FlushReachesRam
  /\ NothingCachedWhileLoading

(* Until a store runs past its line, the invariant speaks of every line.   *)
Intact == IInv /\ phase # "spoilt"

(* An empty cache over any chips satisfies the invariant.                  *)
LEMMA InitIInv == Init => IInv
<1> SUFFICES ASSUME Init PROVE IInv
  OBVIOUS
<1>1. psram \in Cells
  BY ByteAssumption DEF Init
<1>2. EmptyLine \in Line
  BY ByteAssumption DEF EmptyLine, Line
<1>3. cache \in [Index -> [Way -> Line]]
  BY <1>2 DEF Init
<1>4. \A i \in Index, w \in Way : cache[i][w] = EmptyLine
  BY DEF Init
<1>5. 0 \in Addr
  BY Geometry DEF Addr
<1>6. TypeOK
  BY <1>1, <1>3, <1>5, GeometryAssumption DEF Init, Idle, TypeOK
<1>. QED
  BY <1>4, <1>6 DEF Init, Intact, IInv, UniqueLine, LinesSound, CleanIsCoherent,
     FlushReachesRam, NothingCachedWhileLoading, EmptyLine, Way

(* Where an access lands: the way that holds the line, or a way whose line *)
(* is another one.  The other way never holds it.                          *)
LEMMA ChosenWay ==
  ASSUME Intact, NEW a \in Addr
  PROVE  /\ Chosen(a) \in Way
         /\ cache[INDEX(a)][Chosen(a)] \in Line
         /\ Hit(a) <=> Holds(INDEX(a), Chosen(a), TAG(a))
         /\ \A w \in Way : w # Chosen(a) => ~Holds(INDEX(a), w, TAG(a))
<1>1. INDEX(a) \in Index
  BY AddrParts
<1>2. Chosen(a) \in Way
  BY DEF Chosen, Way
<1>3. Hit(a) <=> Holds(INDEX(a), Chosen(a), TAG(a))
  BY DEF Hit, Chosen, Way
<1>4. \A w \in Way : w # Chosen(a) => ~Holds(INDEX(a), w, TAG(a))
  BY <1>1, <1>3 DEF Hit, Holds, Chosen, Way, Intact, IInv, UniqueLine
<1>. QED
  BY <1>1, <1>2, <1>3, <1>4 DEF Intact, IInv, TypeOK

(* The write-back moves the victim's bytes into the chips, nothing else.   *)
LEMMA EvictedCells ==
  ASSUME Intact, NEW a \in Addr
  PROVE  /\ Evicted(a) \in Cells
         /\ \A b \in Addr :
              CellAt(Evicted(a), b) =
                IF /\ ~Hit(a)
                   /\ cache[INDEX(a)][Chosen(a)].dirty
                   /\ INDEX(b) = INDEX(a)
                   /\ TAG(b) = cache[INDEX(a)][Chosen(a)].tag
                THEN cache[INDEX(a)][Chosen(a)].data[OFFSET(b)]
                ELSE CellAt(psram, b)
<1> DEFINE l == cache[INDEX(a)][Chosen(a)]
<1>1. INDEX(a) \in Index /\ Chosen(a) \in Way /\ l \in Line /\ psram \in Cells
  BY AddrParts, ChosenWay DEF Intact, IInv, TypeOK
<1>2. l.tag \in Nat /\ l.data \in [Within -> Byte]
  BY <1>1 DEF Line
<1>3. CASE ~Hit(a) /\ l.dirty
  <2>1. FlushBase(INDEX(a), l.tag) \in Addr
    BY <1>1, <1>3 DEF Intact, IInv, LinesSound
  <2>2. Evicted(a) = PsramWrite(psram, FlushBase(INDEX(a), l.tag), LineSize, l.data)
    BY <1>3 DEF Evicted
  <2> HIDE DEF l
  <2>3. /\ PsramWrite(psram, FlushBase(INDEX(a), l.tag), LineSize, l.data) \in Cells
        /\ \A b \in Addr :
              CellAt(PsramWrite(psram, FlushBase(INDEX(a), l.tag), LineSize, l.data), b) =
                IF INDEX(b) = INDEX(a) /\ TAG(b) = l.tag
                THEN l.data[OFFSET(b)] ELSE CellAt(psram, b)
    BY <1>1, <1>2, <2>1, LineWrite
  <2>. QED
    BY <1>3, <2>2, <2>3 DEF l
<1>4. CASE ~(~Hit(a) /\ l.dirty)
  <2>1. Evicted(a) = psram
    BY <1>4 DEF Evicted
  <2>. QED
    BY <1>1, <1>4, <2>1
<1>. QED
  BY <1>3, <1>4

(* What a read of any address returns, whichever way it is in.             *)
LEMMA ViewIs ==
  ASSUME Intact, NEW b \in Addr
  PROVE  /\ \A w \in Way : Holds(INDEX(b), w, TAG(b)) =>
              View(b) = cache[INDEX(b)][w].data[OFFSET(b)]
         /\ ~Hit(b) => View(b) = CellAt(psram, b)
         /\ View(b) \in Byte
<1>1. INDEX(b) \in Index /\ OFFSET(b) \in Within
  BY AddrParts
<1>2. \A w \in Way : Holds(INDEX(b), w, TAG(b)) =>
         View(b) = cache[INDEX(b)][w].data[OFFSET(b)]
  BY <1>1 DEF View, Hit, Holds, Way, Intact, IInv, UniqueLine
<1>3. ~Hit(b) => View(b) = CellAt(psram, b)
  BY DEF View
<1>4. CellAt(psram, b) \in Byte
  BY Placement DEF CellAt, Cells, Intact, IInv, TypeOK
<1>5. \A w \in Way : cache[INDEX(b)][w].data[OFFSET(b)] \in Byte
  BY <1>1 DEF Intact, IInv, TypeOK, Line
<1>. QED
  BY <1>2, <1>3, <1>4, <1>5 DEF Hit

(* The line an access works on carries what the guest would read there.    *)
LEMMA FetchedLine ==
  ASSUME Intact, NEW a \in Addr
  PROVE  /\ Fetched(a) \in Line
         /\ Fetched(a).tag = TAG(a)
         /\ Fetched(a).valid
         /\ \A b \in Addr : INDEX(b) = INDEX(a) /\ TAG(b) = TAG(a) =>
              /\ Fetched(a).data[OFFSET(b)] = View(b)
              /\ ~Fetched(a).dirty =>
                   Fetched(a).data[OFFSET(b)] = CellAt(Evicted(a), b)
<1>1. /\ INDEX(a) \in Index /\ TAG(a) \in Nat /\ BASE(a) \in Addr
      /\ Chosen(a) \in Way /\ Evicted(a) \in Cells
      /\ cache[INDEX(a)][Chosen(a)] \in Line
  BY AddrParts, ChosenWay, EvictedCells
<1>2. CASE Hit(a)
  <2> DEFINE l == cache[INDEX(a)][Chosen(a)]
  <2>1. Fetched(a) = [l EXCEPT !.lru = FALSE] /\ l.valid /\ l.tag = TAG(a)
    BY <1>2, ChosenWay DEF Fetched, Holds
  <2>2. /\ Fetched(a) \in Line /\ Fetched(a).tag = l.tag /\ Fetched(a).valid = l.valid
        /\ Fetched(a).data = l.data /\ Fetched(a).dirty = l.dirty
    BY <1>1, <2>1 DEF Line
  <2>3. ASSUME NEW b \in Addr, INDEX(b) = INDEX(a), TAG(b) = TAG(a)
        PROVE  l.data[OFFSET(b)] = View(b)
    BY <1>1, <1>2, <2>3, ChosenWay, ViewIs
  <2>4. ASSUME NEW b \in Addr, INDEX(b) = INDEX(a), TAG(b) = TAG(a), ~l.dirty
        PROVE  l.data[OFFSET(b)] = CellAt(Evicted(a), b)
    <3>1. InRam(INDEX(a), Chosen(a))
      BY <1>1, <2>1, <2>4 DEF Intact, IInv, CleanIsCoherent
    <3>2. l.data[OFFSET(b)] = CellAt(psram, b)
      BY <2>1, <2>4, <3>1 DEF InRam
    <3>. QED
      BY <1>2, <3>2, EvictedCells
  <2>. QED
    BY <2>1, <2>2, <2>3, <2>4
<1>3. CASE ~Hit(a)
  <2> DEFINE r == PsramRead(Evicted(a), BASE(a), LineSize)
  <2>1. Fetched(a) = [tag |-> TAG(a), data |-> r,
                      valid |-> TRUE, dirty |-> FALSE, lru |-> FALSE]
    BY <1>3 DEF Fetched
  <2>2. LocalOf(BASE(a)) + LineSize <= ChipSize
    BY <1>1, AddrParts, LineInChip
  <2>3. /\ r \in [Within -> Byte]
        /\ \A k \in Within : r[k] = CellAt(Evicted(a), BASE(a) + k)
    BY <1>1, <2>2, ReadSpan, GeometryAssumption DEF Within
  <2>4. ASSUME NEW b \in Addr, INDEX(b) = INDEX(a), TAG(b) = TAG(a)
        PROVE  r[OFFSET(b)] = CellAt(Evicted(a), b) /\ r[OFFSET(b)] = View(b)
    <3>1. OFFSET(b) \in Within /\ BASE(a) + OFFSET(b) = b
      BY <2>4, AddrParts, SameLine
    <3>2. r[OFFSET(b)] = CellAt(Evicted(a), b)
      BY <2>3, <3>1
    <3>3. ~Hit(b)
      BY <1>3, <2>4 DEF Hit
    <3>4. cache[INDEX(a)][Chosen(a)].dirty => cache[INDEX(a)][Chosen(a)].tag # TAG(b)
      BY <1>1, <1>3, <2>4, ChosenWay DEF Holds, Intact, IInv, LinesSound
    <3>5. CellAt(Evicted(a), b) = CellAt(psram, b)
      BY <3>4, EvictedCells
    <3>. QED
      BY <3>2, <3>3, <3>5, ViewIs
  <2>5. Fetched(a) \in Line
    BY <1>1, <2>1, <2>3 DEF Line
  <2>. QED
    BY <2>1, <2>4, <2>5
<1>. QED
  BY <1>2, <1>3


(* One access: the line it leaves in the chosen way is l.  The chips take  *)
(* the victim, every other line stays coherent, and the guest sees l's     *)
(* bytes in that line and what it saw before everywhere else.              *)
LEMMA AccessStep ==
  ASSUME Intact, NEW a \in Addr, NEW l \in Line,
         l.tag = TAG(a), l.valid,
         \A b \in Addr : INDEX(b) = INDEX(a) /\ TAG(b) = TAG(a) /\ ~l.dirty =>
            l.data[OFFSET(b)] = CellAt(Evicted(a), b),
         phase = "run", phase' = "run",
         psram' = Evicted(a), cache' = Touched(a, l)
  PROVE  /\ psram' \in Cells
         /\ cache' \in [Index -> [Way -> Line]]
         /\ UniqueLine' /\ LinesSound' /\ CleanIsCoherent'
         /\ FlushReachesRam' /\ NothingCachedWhileLoading'
         /\ \A b \in Addr :
              View(b)' = IF INDEX(b) = INDEX(a) /\ TAG(b) = TAG(a)
                         THEN l.data[OFFSET(b)] ELSE View(b)
<1>0. PICK c \in Way : c = Chosen(a)
  BY ChosenWay
<1> DEFINE i == INDEX(a)
           v == cache[i][c]
<1>1. /\ i \in Index /\ TAG(a) \in Nat /\ BASE(a) \in Addr
      /\ FlushBase(i, TAG(a)) = BASE(a)
      /\ c \in Way /\ Evicted(a) \in Cells /\ v \in Line
  BY <1>0, AddrParts, ChosenWay, EvictedCells
<1>2. cache \in [Index -> [Way -> Line]]
  BY DEF Intact, IInv, TypeOK
<1>3. cache'[i][c] = l
  BY <1>0, <1>1, <1>2 DEF Touched
<1>4. ASSUME NEW j \in Index, NEW w \in Way, ~(j = i /\ w = c)
      PROVE  /\ cache'[j][w] \in Line
             /\ cache'[j][w].tag = cache[j][w].tag
             /\ cache'[j][w].data = cache[j][w].data
             /\ cache'[j][w].valid = cache[j][w].valid
             /\ cache'[j][w].dirty = cache[j][w].dirty
  <2>1. cache[j][w] \in Line
    BY <1>2
  <2>2. cache'[j][w] = cache[j][w] \/ cache'[j][w] = [cache[j][w] EXCEPT !.lru = TRUE]
    BY <1>0, <1>2, <1>4 DEF Touched
  <2>. QED
    BY <2>1, <2>2 DEF Line
<1>5. cache' \in [Index -> [Way -> Line]]
  <2>1. \A j \in Index, w \in Way : cache'[j][w] \in Line
    BY <1>3, <1>4
  <2>2. cache' = [j \in Index |-> [w \in Way |-> cache'[j][w]]]
    BY <1>0, <1>1, <1>2 DEF Touched
  <2>. QED
    BY <2>1, <2>2
<1>6. ASSUME NEW j \in Index, NEW w \in Way, ~(j = i /\ w = c), cache[j][w].valid
      PROVE  ~(j = i /\ cache[j][w].tag = TAG(a))
  BY <1>0, <1>6, ChosenWay DEF Holds
<1>7. UniqueLine'
  BY <1>1, <1>3, <1>4, <1>6 DEF UniqueLine, Intact, IInv, Way
<1>8. LinesSound'
  BY <1>1, <1>3, <1>4 DEF LinesSound, Intact, IInv
<1>9. ASSUME NEW j \in Index, NEW w \in Way, ~(j = i /\ w = c), cache[j][w].valid,
             NEW b \in Addr, INDEX(b) = j, TAG(b) = cache[j][w].tag
      PROVE  CellAt(psram', b) = CellAt(psram, b)
  <2>1. ~(v.dirty /\ INDEX(b) = i /\ TAG(b) = v.tag)
    BY <1>1, <1>9 DEF Intact, IInv, LinesSound, UniqueLine, Way
  <2>. QED
    BY <1>0, <1>9, <2>1, EvictedCells
<1>10. CleanIsCoherent'
  <2> SUFFICES ASSUME NEW j \in Index, NEW w \in Way,
                      cache'[j][w].valid, ~cache'[j][w].dirty,
                      NEW b \in Addr, INDEX(b) = j, TAG(b) = cache'[j][w].tag
               PROVE  cache'[j][w].data[OFFSET(b)] = CellAt(psram', b)
    BY DEF CleanIsCoherent, InRam
  <2>1. CASE j = i /\ w = c
    BY <1>3, <2>1
  <2>2. CASE ~(j = i /\ w = c)
    <3>1. /\ cache[j][w].valid /\ ~cache[j][w].dirty /\ TAG(b) = cache[j][w].tag
          /\ cache'[j][w].data = cache[j][w].data
      BY <1>4, <2>2
    <3>2. cache[j][w].data[OFFSET(b)] = CellAt(psram, b)
      BY <3>1 DEF Intact, IInv, CleanIsCoherent, InRam
    <3>. QED
      BY <1>9, <2>2, <3>1, <3>2
  <2>. QED
    BY <2>1, <2>2
<1>11. ASSUME NEW b \in Addr
       PROVE  View(b)' = IF INDEX(b) = i /\ TAG(b) = TAG(a)
                         THEN l.data[OFFSET(b)] ELSE View(b)
  <2> DEFINE j == INDEX(b)
  <2>0. j \in Index /\ TAG(b) \in Nat
    BY AddrParts
  <2>1. ASSUME NEW w \in Way, Holds(j, w, TAG(b))'
        PROVE  View(b)' = cache'[j][w].data[OFFSET(b)]
    BY <1>7, <2>0, <2>1 DEF View, Hit, Holds, Way, UniqueLine
  <2>2. ~Hit(b)' => View(b)' = CellAt(psram', b)
    BY DEF View
  <2>3. CASE j = i /\ TAG(b) = TAG(a)
    <3>1. Holds(j, c, TAG(b))'
      BY <1>3, <2>3 DEF Holds
    <3>. QED
      BY <1>1, <1>3, <2>1, <2>3, <3>1
  <2>4. CASE ~(j = i /\ TAG(b) = TAG(a))
    <3>1. ASSUME NEW w \in Way, Holds(j, w, TAG(b)), ~(j = i /\ w = c)
          PROVE  View(b)' = View(b)
      <4>1. Holds(j, w, TAG(b))'
        BY <1>4, <2>0, <3>1 DEF Holds
      <4>2. cache'[j][w].data = cache[j][w].data
        BY <1>4, <2>0, <3>1
      <4>. QED
        BY <2>1, <3>1, <4>1, <4>2, ViewIs
    <3>2. ASSUME Holds(j, c, TAG(b)), j = i
          PROVE  View(b)' = View(b)
      <4>1. ~Hit(a)
        BY <1>0, <1>1, <2>4, <3>2, ChosenWay DEF Holds
      <4>2. v.valid /\ v.tag = TAG(b)
        BY <3>2 DEF Holds
      <4>3. ~Hit(b)'
        <5>1. ~Holds(j, c, TAG(b))'
          BY <1>3, <2>4, <3>2 DEF Holds
        <5>2. ASSUME NEW w \in Way, w # c PROVE ~Holds(j, w, TAG(b))'
          BY <1>1, <1>4, <2>0, <3>2, <5>2 DEF Holds, Intact, IInv, UniqueLine, Way
        <5>. QED
          BY <5>1, <5>2 DEF Hit
      <4>4. CellAt(Evicted(a), b) = v.data[OFFSET(b)]
        <5>1. CASE v.dirty
          BY <1>0, <3>2, <4>1, <4>2, <5>1, EvictedCells
        <5>2. CASE ~v.dirty
          <6>1. InRam(i, c)
            BY <1>1, <4>2, <5>2 DEF Intact, IInv, CleanIsCoherent
          <6>2. v.data[OFFSET(b)] = CellAt(psram, b)
            BY <3>2, <4>2, <6>1 DEF InRam
          <6>. QED
            BY <1>0, <5>2, <6>2, EvictedCells
        <5>. QED
          BY <5>1, <5>2
      <4>5. View(b) = v.data[OFFSET(b)]
        BY <1>1, <3>2, ViewIs
      <4>. QED
        BY <2>2, <4>3, <4>4, <4>5
    <3>3. ASSUME ~Hit(b)
          PROVE  View(b)' = View(b)
      <4>1. ASSUME NEW w \in Way PROVE ~Holds(j, w, TAG(b))'
        <5>1. ~Holds(j, w, TAG(b))
          BY <3>3 DEF Hit
        <5>2. CASE j = i /\ w = c
          BY <1>3, <2>4, <5>2 DEF Holds
        <5>3. CASE ~(j = i /\ w = c)
          BY <1>4, <2>0, <5>1, <5>3 DEF Holds
        <5>. QED
          BY <5>2, <5>3
      <4>2. ~Hit(b)'
        BY <4>1 DEF Hit
      <4>3. ~(v.dirty /\ j = i /\ TAG(b) = v.tag)
        BY <1>1, <3>3 DEF Hit, Holds, Intact, IInv, LinesSound
      <4>4. CellAt(Evicted(a), b) = CellAt(psram, b)
        BY <1>0, <4>3, EvictedCells
      <4>. QED
        BY <2>2, <3>3, <4>2, <4>4, ViewIs
    <3>. QED
      BY <2>4, <3>1, <3>2, <3>3 DEF Hit
  <2>. QED
    BY <2>3, <2>4
<1>12. FlushReachesRam' /\ NothingCachedWhileLoading'
  BY DEF FlushReachesRam, NothingCachedWhileLoading
<1>. QED
  BY <1>1, <1>5, <1>7, <1>8, <1>10, <1>11, <1>12

(* cache_read preserves the invariant, and returns the guest's bytes as    *)
(* far as its line goes.                                                   *)
LEMMA ReadStep ==
  ASSUME Intact, NEW s \in Accesses, cache_read(s[1], s[2])
  PROVE  /\ IInv'
         /\ \A b \in Addr : View(b)' = View(b)
         /\ bus'.data \in [0..(s[2] - 1) -> Byte]
         /\ \A k \in 0..(s[2] - 1) :
              OFFSET(s[1]) + k < LineSize => bus'.data[k] = View(s[1] + k)
<1> DEFINE a == s[1]
           l == Fetched(a)
<1>1. /\ a \in Addr /\ s[2] \in Nat \ {0}
      /\ OFFSET(a) \in Within /\ OFFSET(a) \in Nat
  BY SpanAssumption, AddrParts, Geometry
<1>2. /\ phase = "run" /\ phase' = "run" /\ flushed' = flushed
      /\ psram' = Evicted(a) /\ cache' = Touched(a, l)
  BY DEF cache_read
<1>3. PICK past \in [0..(s[2] - 1) -> Byte] :
        bus' = [op |-> "read", addr |-> a,
                data |-> [k \in 0..(s[2] - 1) |->
                            IF OFFSET(a) + k < LineSize
                            THEN l.data[OFFSET(a) + k] ELSE past[k]]]
  BY DEF cache_read
<1>10. PICK m \in Line : m = l
  BY <1>1, FetchedLine
<1>4. /\ m.tag = TAG(a) /\ m.valid /\ cache' = Touched(a, m)
      /\ \A b \in Addr : INDEX(b) = INDEX(a) /\ TAG(b) = TAG(a) =>
           /\ m.data[OFFSET(b)] = View(b)
           /\ ~m.dirty => m.data[OFFSET(b)] = CellAt(Evicted(a), b)
  BY <1>1, <1>2, <1>10, FetchedLine
<1>5. /\ psram' \in Cells
      /\ cache' \in [Index -> [Way -> Line]]
      /\ UniqueLine' /\ LinesSound' /\ CleanIsCoherent'
      /\ FlushReachesRam' /\ NothingCachedWhileLoading'
      /\ \A b \in Addr :
           View(b)' = IF INDEX(b) = INDEX(a) /\ TAG(b) = TAG(a)
                      THEN m.data[OFFSET(b)] ELSE View(b)
  <2> HIDE DEF a, l
  <2>. QED
    BY <1>1, <1>2, <1>4, AccessStep
<1>6. TypeOK'
  BY <1>1, <1>2, <1>3, <1>5 DEF TypeOK, Intact, IInv
<1>7. ASSUME NEW k \in 0..(s[2] - 1), OFFSET(a) + k < LineSize
      PROVE  l.data[OFFSET(a) + k] = View(a + k)
  <2>1. /\ BASE(a) = FlushBase(INDEX(a), TAG(a)) /\ BASE(a) \in Addr
        /\ INDEX(a) \in Index /\ TAG(a) \in Nat
        /\ OFFSET(a) \in Within /\ BASE(a) + OFFSET(a) = a
    BY <1>1, AddrParts
  <2>2. OFFSET(a) + k \in Within
    BY <1>1, <1>7, <2>1, GeometryAssumption DEF Within
  <2>3. BASE(a) + (OFFSET(a) + k) = a + k
    <3>1. BASE(a) \in Nat /\ OFFSET(a) \in Nat
      BY <2>1, Geometry
    <3>. QED
      BY <2>1, <3>1
  <2>4. /\ a + k \in Addr /\ OFFSET(a + k) = OFFSET(a) + k
        /\ INDEX(a + k) = INDEX(a) /\ TAG(a + k) = TAG(a)
    <3> HIDE DEF a
    <3>. QED
      BY <2>1, <2>2, <2>3, LineParts
  <2>. QED
    BY <1>10, <1>4, <2>4
<1>8. /\ bus'.data \in [0..(s[2] - 1) -> Byte]
      /\ \A k \in 0..(s[2] - 1) : OFFSET(a) + k < LineSize =>
           bus'.data[k] = l.data[OFFSET(a) + k]
  <2>1. m.data \in [Within -> Byte]
    BY DEF Line
  <2>2. \A k \in 0..(s[2] - 1) : OFFSET(a) + k < LineSize =>
          OFFSET(a) + k \in Within
    BY <1>1, GeometryAssumption DEF Within
  <2> HIDE DEF a, l
  <2>. QED
    BY <1>3, <1>10, <2>1, <2>2
<1>. QED
  BY <1>4, <1>5, <1>6, <1>7, <1>8 DEF Intact, IInv

LEMMA AddBack ==
  ASSUME NEW u \in Nat, NEW o \in Nat, NEW a \in Nat, NEW b \in Nat, u + o = a
  PROVE  \A k : k = b - a => u + (o + k) = b
  OBVIOUS

(* A store inside its line preserves the invariant.                        *)
LEMMA WriteStep ==
  ASSUME Intact, NEW s \in Accesses, NEW d \in [0..(s[2] - 1) -> Byte],
         InLine(s), cache_write(s[1], s[2], d)
  PROVE  /\ IInv'
         /\ \A b \in Addr : View(b)' =
              IF b - s[1] \in 0..(s[2] - 1) THEN d[b - s[1]] ELSE View(b)
<1> DEFINE a == s[1]
           l == Patched(Fetched(a), OFFSET(a), s[2], d)
<1>1. /\ a \in Addr /\ s[2] \in Nat \ {0} /\ OFFSET(a) + s[2] <= LineSize
      /\ OFFSET(a) \in Within /\ OFFSET(a) \in Nat
  BY SpanAssumption, AddrParts, Geometry DEF InLine
<1>2. /\ phase = "run" /\ phase' = "run" /\ flushed' = flushed
      /\ psram' = Evicted(a) /\ cache' = Touched(a, l)
      /\ bus' = [op |-> "write", addr |-> a, data |-> <<>>]
  BY DEF cache_write
<1>3. /\ Fetched(a) \in Line /\ Fetched(a).tag = TAG(a) /\ Fetched(a).valid
      /\ \A b \in Addr : INDEX(b) = INDEX(a) /\ TAG(b) = TAG(a) =>
           Fetched(a).data[OFFSET(b)] = View(b)
  BY <1>1, FetchedLine
<1>4. PICK m \in Line :
        /\ m = l
        /\ m.tag = TAG(a) /\ m.valid /\ m.dirty
        /\ \A x \in Within : m.data[x] = IF x - OFFSET(a) \in 0..(s[2] - 1)
                                       THEN d[x - OFFSET(a)] ELSE Fetched(a).data[x]
  <2>1. PICK g \in Line : g = Fetched(a)
    BY <1>3
  <2>2. \A x \in Within : x - OFFSET(a) \in 0..(s[2] - 1) => d[x - OFFSET(a)] \in Byte
    OBVIOUS
  <2>3. l = [g EXCEPT !.dirty = TRUE,
                      !.data = [x \in Within |-> IF x - OFFSET(a) \in 0..(s[2] - 1)
                                                 THEN d[x - OFFSET(a)] ELSE @[x]]]
    BY <2>1 DEF Patched
  <2>4. l \in Line
    <3> DEFINE e == [x \in Within |-> IF x - OFFSET(a) \in 0..(s[2] - 1)
                                      THEN d[x - OFFSET(a)] ELSE g.data[x]]
    <3>1. e \in [Within -> Byte]
      BY <2>2 DEF Line
    <3>2. l = [g EXCEPT !.dirty = TRUE, !.data = e]
      BY <2>3
    <3> HIDE DEF e, l
    <3>. QED
      BY <3>1, <3>2 DEF Line
  <2>5. l.tag = g.tag /\ l.valid = g.valid /\ l.dirty = TRUE
    BY <2>3 DEF Line
  <2>6. \A x \in Within : l.data[x] = IF x - OFFSET(a) \in 0..(s[2] - 1)
                                       THEN d[x - OFFSET(a)] ELSE g.data[x]
    BY <2>3 DEF Line
  <2> HIDE DEF l
  <2>. QED
    BY <1>3, <2>1, <2>4, <2>5, <2>6
<1>5. /\ psram' \in Cells
      /\ cache' \in [Index -> [Way -> Line]]
      /\ UniqueLine' /\ LinesSound' /\ CleanIsCoherent'
      /\ FlushReachesRam' /\ NothingCachedWhileLoading'
      /\ \A b \in Addr :
           View(b)' = IF INDEX(b) = INDEX(a) /\ TAG(b) = TAG(a)
                      THEN m.data[OFFSET(b)] ELSE View(b)
  <2>1. cache' = Touched(a, m)
    BY <1>2, <1>4
  <2> HIDE DEF a, l
  <2>. QED
    BY <1>1, <1>2, <1>4, <2>1, AccessStep
<1>6. TypeOK'
  BY <1>1, <1>2, <1>5 DEF TypeOK, Intact, IInv
<1>7. ASSUME NEW b \in Addr
      PROVE  View(b)' = IF b - a \in 0..(s[2] - 1) THEN d[b - a] ELSE View(b)
  <2>1. /\ BASE(a) \in Addr /\ BASE(a) = FlushBase(INDEX(a), TAG(a))
        /\ INDEX(a) \in Index /\ TAG(a) \in Nat /\ BASE(a) + OFFSET(a) = a
        /\ OFFSET(b) \in Within /\ BASE(b) + OFFSET(b) = b /\ BASE(b) \in Addr
        /\ BASE(a) \in Nat /\ BASE(b) \in Nat /\ a \in Nat /\ b \in Nat
        /\ OFFSET(b) \in Nat
    BY <1>1, AddrParts, Geometry
  <2>2. CASE INDEX(b) = INDEX(a) /\ TAG(b) = TAG(a)
    <3>1. BASE(a) = BASE(b)
      BY <1>1, <2>2, SameLine
    <3>2. b - a = OFFSET(b) - OFFSET(a)
      BY <1>1, <2>1, <3>1
    <3>. QED
      BY <1>3, <1>4, <1>5, <2>1, <2>2, <3>2
  <2>3. CASE ~(INDEX(b) = INDEX(a) /\ TAG(b) = TAG(a))
    <3>1. ASSUME b - a \in 0..(s[2] - 1) PROVE FALSE
      <4>0. PICK k \in 0..(s[2] - 1) : k = b - a
        BY <3>1
      <4>1. OFFSET(a) + k \in Within
        BY <1>1, GeometryAssumption DEF Within
      <4>2. BASE(a) + (OFFSET(a) + k) = b
        <5> HIDE DEF a
        <5>1. /\ BASE(a) \in Nat /\ OFFSET(a) \in Nat /\ a \in Nat /\ b \in Nat
              /\ BASE(a) + OFFSET(a) = a
          BY <1>1, <2>1
        <5>2. \A q : q = b - a => BASE(a) + (OFFSET(a) + q) = b
          BY <5>1, AddBack
        <5> QED
          BY <4>0, <5>2
      <4>3. INDEX(b) = INDEX(a) /\ TAG(b) = TAG(a)
        <5> HIDE DEF a
        <5>. QED
          BY <2>1, <4>1, <4>2, LineParts
      <4>. QED
        BY <2>3, <4>3
    <3>. QED
      BY <1>5, <2>3, <3>1
  <2>. QED
    BY <2>2, <2>3
<1>. QED
  BY <1>5, <1>6, <1>7 DEF Intact, IInv


(* A store past its line leaves well-formed cells and lines, no more.      *)
LEMMA SpoilStep ==
  ASSUME Intact, NEW s \in Accesses, NEW d \in [0..(s[2] - 1) -> Byte],
         SpoilingWrite(s[1], s[2], d)
  PROVE  IInv' /\ \A b \in Addr : View(b)' \in Byte
<1>1. PICK a \in Addr : a = s[1]
  BY SpanAssumption
<1>2. /\ psram' = Evicted(a) /\ phase' = "spoilt" /\ flushed' = flushed
      /\ bus' = [op |-> "write", addr |-> a, data |-> <<>>]
  BY <1>1, Zenon DEF SpoilingWrite
<1>3. psram' \in Cells
  BY <1>2, EvictedCells
<1>4. PICK v \in BOOLEAN, m \in BOOLEAN, t \in {TAG(b) : b \in Addr} :
        cache' = Spoilt(a, [Patched(Fetched(a), OFFSET(a), s[2], d)
                              EXCEPT !.valid = v, !.lru = m], t)
  BY <1>1, Zenon DEF SpoilingWrite
<1>5. PICK g \in Line : g = Fetched(a)
  BY FetchedLine
<1>6. PICK e : e = [x \in Within |-> IF x - OFFSET(a) \in 0..(s[2] - 1)
                                     THEN d[x - OFFSET(a)] ELSE g.data[x]]
  OBVIOUS
<1>7. e \in [Within -> Byte]
  BY <1>6 DEF Line
<1>8. PICK l : l = [Patched(g, OFFSET(a), s[2], d) EXCEPT !.valid = v, !.lru = m]
  OBVIOUS
<1>9. l \in Line
  <2>1. Patched(g, OFFSET(a), s[2], d) = [g EXCEPT !.dirty = TRUE, !.data = e]
    BY <1>6 DEF Patched
  <2>. QED
    BY <1>7, <1>8, <2>1 DEF Line
<1>10. PICK c : c = Touched(a, l)
  OBVIOUS
<1>11. \A i \in Index, w \in Way : c[i][w] \in Line
  <2>1. cache \in [Index -> [Way -> Line]]
    BY DEF Intact, IInv, TypeOK
  <2>2. ASSUME NEW i \in Index, NEW w \in Way
        PROVE  \/ c[i][w] = l
               \/ c[i][w] = cache[i][w]
               \/ c[i][w] = [cache[i][w] EXCEPT !.lru = TRUE]
    BY <1>10, <2>1 DEF Touched
  <2>3. ASSUME NEW k \in Line PROVE [k EXCEPT !.lru = TRUE] \in Line
    BY DEF Line
  <2>4. ASSUME NEW i \in Index, NEW w \in Way PROVE c[i][w] \in Line
    <3>1. PICK k \in Line : k = cache[i][w]
      BY <2>1
    <3>2. [k EXCEPT !.lru = TRUE] \in Line
      BY <2>3
    <3>3. c[i][w] = l \/ c[i][w] = k \/ c[i][w] = [k EXCEPT !.lru = TRUE]
      BY <2>2, <3>1, Zenon
    <3>. QED
      BY <1>9, <3>2, <3>3, Zenon
  <2>. QED
    BY <2>4
<1>12. cache' = [i \in Index |-> [w \in Way |->
           IF <<i, w>> = Following(a) THEN [c[i][w] EXCEPT !.tag = t] ELSE c[i][w]]]
  BY <1>4, <1>5, <1>8, <1>10, Zenon DEF Spoilt
<1>13. t \in Nat
  BY <1>4, AddrParts
<1>14. ASSUME NEW k \in Line PROVE [k EXCEPT !.tag = t] \in Line
  BY <1>13 DEF Line
<1>15. cache' \in [Index -> [Way -> Line]]
  BY <1>11, <1>12, <1>14
<1>16. IInv'
  BY <1>2, <1>3, <1>15 DEF Intact, IInv, TypeOK, UniqueLine, LinesSound, CleanIsCoherent,
     FlushReachesRam, NothingCachedWhileLoading
<1>17. ASSUME NEW b \in Addr PROVE View(b)' \in Byte
  <2>1. INDEX(b) \in Index /\ OFFSET(b) \in Within
    BY AddrParts
  <2>2. \A w \in Way : cache'[INDEX(b)][w].data[OFFSET(b)] \in Byte
    BY <1>15, <2>1 DEF Line
  <2>3. CellAt(psram', b) \in Byte
    BY <1>3, Placement DEF CellAt, Cells
  <2>. QED
    BY <2>2, <2>3 DEF View, Way
<1>. QED
  BY <1>16, <1>17

(* One flush_line, on whatever cells the one before it left.               *)
LEMMA FlushedLine ==
  ASSUME Intact, NEW p \in Cells, NEW i \in Index, NEW w \in Way
  PROVE  /\ flush_line(p, i, w) \in Cells
         /\ \A b \in Addr :
              CellAt(flush_line(p, i, w), b) =
                IF cache[i][w].dirty /\ INDEX(b) = i /\ TAG(b) = cache[i][w].tag
                THEN cache[i][w].data[OFFSET(b)] ELSE CellAt(p, b)
<1>1. PICK l \in Line : l = cache[i][w]
  BY DEF Intact, IInv, TypeOK
<1>2. CASE l.dirty
  <2>1. FlushBase(i, l.tag) \in Addr
    BY <1>1, <1>2 DEF Intact, IInv, LinesSound
  <2>2. l.tag \in Nat /\ l.data \in [Within -> Byte]
    BY DEF Line
  <2>3. flush_line(p, i, w) = PsramWrite(p, FlushBase(i, l.tag), LineSize, l.data)
    BY <1>1, <1>2 DEF flush_line
  <2>. QED
    BY <1>1, <1>2, <2>1, <2>2, <2>3, LineWrite
<1>3. CASE ~l.dirty
  BY <1>1, <1>3 DEF flush_line
<1>. QED
  BY <1>2, <1>3

(* A flush step moves the dirty lines of one set out.  A line of any other *)
(* set keeps its cells, and what the guest would read does not change.     *)
LEMMA FlushStep ==
  ASSUME Intact, FlushSet
  PROVE  IInv' /\ \A b \in Addr : View(b)' = View(b)
<1> DEFINE f == flushed
<1>1. /\ f \in Index /\ f + 1 \in 0..SetCount /\ psram \in Cells
      /\ cache \in [Index -> [Way -> Line]] /\ cache' = cache
      /\ phase = "flush" /\ phase' = "flush" /\ bus' = bus /\ flushed' = f + 1
      /\ psram' = flush_line(flush_line(psram, f, 1), f, 2)
  BY GeometryAssumption DEF FlushSet, Intact, IInv, TypeOK, Index
<1>2. PICK q \in Cells : q = flush_line(psram, f, 1)
  BY <1>1, FlushedLine DEF Way
<1>3. psram' \in Cells
  BY <1>1, <1>2, FlushedLine DEF Way
<1>4. ASSUME NEW b \in Addr
      PROVE  CellAt(psram', b) =
               IF cache[f][2].dirty /\ INDEX(b) = f /\ TAG(b) = cache[f][2].tag
               THEN cache[f][2].data[OFFSET(b)]
               ELSE IF cache[f][1].dirty /\ INDEX(b) = f /\ TAG(b) = cache[f][1].tag
               THEN cache[f][1].data[OFFSET(b)]
               ELSE CellAt(psram, b)
  BY <1>1, <1>2, FlushedLine DEF Way
<1>5. ASSUME NEW i \in Index, NEW w \in Way, cache[i][w].valid,
             NEW b \in Addr, INDEX(b) = i, TAG(b) = cache[i][w].tag
      PROVE  CellAt(psram', b) = IF i = f /\ cache[i][w].dirty
                                 THEN cache[i][w].data[OFFSET(b)]
                                 ELSE CellAt(psram, b)
  BY <1>1, <1>4, <1>5 DEF Intact, IInv, UniqueLine, LinesSound, Way
<1>6. CleanIsCoherent'
  <2> SUFFICES ASSUME NEW i \in Index, NEW w \in Way, cache[i][w].valid, ~cache[i][w].dirty,
                      NEW b \in Addr, INDEX(b) = i, TAG(b) = cache[i][w].tag
               PROVE  cache[i][w].data[OFFSET(b)] = CellAt(psram', b)
    BY <1>1 DEF CleanIsCoherent, InRam
  <2>1. cache[i][w].data[OFFSET(b)] = CellAt(psram, b)
    BY DEF Intact, IInv, CleanIsCoherent, InRam
  <2>. QED
    BY <1>5, <2>1
<1>7. FlushReachesRam'
  <2> SUFFICES ASSUME NEW i \in Index, NEW w \in Way, cache[i][w].valid, i < f + 1,
                      NEW b \in Addr, INDEX(b) = i, TAG(b) = cache[i][w].tag
               PROVE  cache[i][w].data[OFFSET(b)] = CellAt(psram', b)
    BY <1>1 DEF FlushReachesRam, InRam
  <2>1. CASE i = f /\ cache[i][w].dirty
    BY <1>5, <2>1
  <2>2. CASE i = f /\ ~cache[i][w].dirty
    <3>1. cache[i][w].data[OFFSET(b)] = CellAt(psram, b)
      BY <2>2 DEF Intact, IInv, CleanIsCoherent, InRam
    <3>. QED
      BY <1>5, <2>2, <3>1
  <2>3. CASE i # f
    <3>1. i < f
      BY <1>1, <2>3, GeometryAssumption DEF Index
    <3>2. cache[i][w].data[OFFSET(b)] = CellAt(psram, b)
      BY <1>1, <3>1 DEF Intact, IInv, FlushReachesRam, InRam
    <3>. QED
      BY <1>5, <2>3, <3>2
  <2>. QED
    BY <2>1, <2>2, <2>3
<1>8. IInv'
  BY <1>1, <1>3, <1>6, <1>7
  DEF Intact, IInv, TypeOK, UniqueLine, LinesSound, NothingCachedWhileLoading
<1>9. ASSUME NEW b \in Addr
      PROVE  View(b)' = View(b)
  <2>1. CASE Hit(b)
    BY <1>1, <2>1 DEF View, Hit, Holds
  <2>2. CASE ~Hit(b)
    <3>1. \A w \in Way : cache[f][w].dirty /\ INDEX(b) = f => TAG(b) # cache[f][w].tag
      BY <1>1, <2>2 DEF Hit, Holds, Intact, IInv, LinesSound
    <3>2. CellAt(psram', b) = CellAt(psram, b)
      BY <1>4, <3>1 DEF Way
    <3>3. View(b)' = CellAt(psram', b)
      BY <1>1, <2>2 DEF View, Hit, Holds
    <3>. QED
      BY <2>2, <3>2, <3>3, ViewIs
  <2>. QED
    BY <2>1, <2>2
<1>. QED
  BY <1>8, <1>9

(* The loader: nothing is cached, so what lands in the chips is what the   *)
(* guest will read.                                                        *)
LEMMA LoadStep ==
  ASSUME Intact, NEW s \in Transfers, NEW d \in [0..(s[2] - 1) -> Byte],
         psram_load_file(s[1], s[2], d)
  PROVE  /\ IInv'
         /\ \A b \in Addr : View(b)' =
              IF b - s[1] \in 0..(s[2] - 1) THEN d[b - s[1]] ELSE View(b)
<1>1. /\ s[1] \in Addr /\ s[2] \in Nat /\ LocalOf(s[1]) + s[2] <= ChipSize
      /\ psram \in Cells
  BY SpanAssumption DEF InChip, Intact, IInv, TypeOK
<1>2. /\ phase = "load" /\ phase' = "load" /\ flushed' = flushed /\ bus' = bus
      /\ cache' = cache /\ psram' = PsramWrite(psram, s[1], s[2], d)
      /\ \A i \in Index, w \in Way : ~cache[i][w].valid
  BY DEF psram_load_file, Intact, IInv, NothingCachedWhileLoading
<1>3. /\ psram' \in Cells
      /\ \A b \in Addr : CellAt(psram', b) =
           IF b - s[1] \in 0..(s[2] - 1) THEN d[b - s[1]] ELSE CellAt(psram, b)
  BY <1>1, <1>2, WriteSpan
<1>4. IInv'
  BY <1>2, <1>3 DEF Intact, IInv, TypeOK, UniqueLine, LinesSound, CleanIsCoherent,
     FlushReachesRam, NothingCachedWhileLoading, Way
<1>5. ASSUME NEW b \in Addr PROVE ~Hit(b) /\ ~Hit(b)'
  BY <1>2, AddrParts DEF Hit, Holds
<1>6. ASSUME NEW b \in Addr PROVE View(b)' = CellAt(psram', b) /\ View(b) = CellAt(psram, b)
  BY <1>5 DEF View
<1>. QED
  BY <1>3, <1>4, <1>6

(* cache_reset preserves the invariant.                                    *)
LEMMA ResetStep ==
  ASSUME IInv, cache_reset
  PROVE  IInv' /\ \A b \in Addr : View(b)' \in Byte
<1>1. /\ phase' = "load" /\ flushed' = flushed /\ psram' \in Cells /\ bus' = Idle
      /\ cache' = [i \in Index |-> [w \in Way |-> EmptyLine]]
  BY ByteAssumption DEF cache_reset, IInv, TypeOK
<1>2. EmptyLine \in Line
  BY ByteAssumption DEF EmptyLine, Line
<1>3. /\ cache' \in [Index -> [Way -> Line]]
      /\ \A i \in Index, w \in Way : ~cache'[i][w].valid /\ ~cache'[i][w].dirty
  BY <1>1, <1>2 DEF EmptyLine
<1>4. IInv'
  BY <1>1, <1>3, Geometry DEF IInv, TypeOK, Idle, Addr, UniqueLine, LinesSound,
     CleanIsCoherent, FlushReachesRam, NothingCachedWhileLoading, Way
<1>5. ASSUME NEW b \in Addr PROVE View(b)' \in Byte
  <2>1. ~Hit(b)'
    BY <1>3, AddrParts DEF Hit, Holds
  <2>2. View(b)' = CellAt(psram', b)
    BY <1>1, <2>1 DEF View
  <2>. QED
    BY <1>1, <2>2, Placement DEF CellAt, Cells
<1>. QED
  BY <1>4, <1>5

(* The steps that only move start_vm along.                                *)
LEMMA PhaseStep ==
  ASSUME Intact, \/ Start \/ StartFlush \/ EndFlush \/ Halt
               \/ \E s \in Transfers : SaveChunk(s[1], s[2])
  PROVE  IInv' /\ \A b \in Addr : View(b)' = View(b)
<1>1. cache' = cache /\ psram' = psram
  BY DEF Start, StartFlush, EndFlush, Halt, SaveChunk
<1>2. ASSUME NEW b \in Addr PROVE View(b)' = View(b)
  BY <1>1 DEF View, Hit, Holds
<1>3. \A i \in Index, w \in Way : InRam(i, w)' <=> InRam(i, w)
  BY <1>1 DEF InRam
<1>4. UniqueLine' /\ LinesSound' /\ CleanIsCoherent'
  BY <1>1, <1>3 DEF Intact, IInv, UniqueLine, LinesSound, CleanIsCoherent
<1>5. TypeOK'
  BY <1>1, Geometry, GeometryAssumption, SpanAssumption
  DEF Intact, IInv, TypeOK, Start, StartFlush, EndFlush, Halt, SaveChunk, Idle, Addr
<1>6. FlushReachesRam'
  <2>1. CASE Start
    BY <2>1 DEF Start, FlushReachesRam
  <2>2. CASE StartFlush
    BY <1>1, <2>2 DEF StartFlush, FlushReachesRam, Index
  <2>3. CASE EndFlush
    <3>1. \A i \in Index : i < flushed
      BY <2>3, GeometryAssumption DEF EndFlush, Index
    <3>. QED
      BY <1>1, <1>3, <2>3, <3>1 DEF EndFlush, FlushReachesRam, Intact, IInv
  <2>4. CASE Halt
    BY <2>4 DEF Halt, FlushReachesRam
  <2>5. CASE \E s \in Transfers : SaveChunk(s[1], s[2])
    BY <1>1, <1>3, <2>5 DEF SaveChunk, FlushReachesRam, Intact, IInv
  <2>. QED
    BY <2>1, <2>2, <2>3, <2>4, <2>5
<1>7. NothingCachedWhileLoading'
  BY <1>1 DEF NothingCachedWhileLoading, Intact, IInv, Start, StartFlush, EndFlush, Halt, SaveChunk
<1>. QED
  BY <1>2, <1>4, <1>5, <1>6, <1>7 DEF Intact, IInv

(* One store, inside its line or past it.                                  *)
Stores(s, d) ==
  \/ InLine(s) /\ cache_write(s[1], s[2], d)
  \/ ~InLine(s) /\ SpoilingWrite(s[1], s[2], d)

(* Only a boot follows a spoilt run.                                       *)
LEMMA Followed ==
  ASSUME IInv,
         \/ Start \/ StartFlush \/ FlushSet \/ EndFlush \/ Halt
         \/ \E a, n : cache_read(a, n) \/ SaveChunk(a, n)
         \/ \E a, n, d : cache_write(a, n, d) \/ SpoilingWrite(a, n, d)
                         \/ psram_load_file(a, n, d)
  PROVE  Intact
  BY DEF Intact, Start, StartFlush, FlushSet, EndFlush, Halt, cache_read, SaveChunk,
     cache_write, SpoilingWrite, psram_load_file

(* Every step preserves the invariant.                                     *)
LEMMA NextIInv == IInv /\ [Next]_vars => IInv'
<1> SUFFICES ASSUME IInv, [Next]_vars PROVE IInv'
  OBVIOUS
<1>1. CASE cache_reset
  BY <1>1, ResetStep
<1>2. CASE Start \/ StartFlush \/ EndFlush \/ Halt
  BY <1>2, PhaseStep, Followed
<1>3. CASE FlushSet
  BY <1>3, FlushStep, Followed
<1>4. ASSUME NEW s \in Accesses, cache_read(s[1], s[2])
      PROVE  IInv'
  BY <1>4, ReadStep, Followed
<1>5. ASSUME NEW s \in Accesses, NEW d \in [0..(s[2] - 1) -> Byte],
             Stores(s, d)
      PROVE  IInv'
  BY <1>5, WriteStep, SpoilStep, Followed DEF Stores
<1>6. CASE \E s \in Transfers : SaveChunk(s[1], s[2])
  BY <1>6, PhaseStep, Followed
<1>7. ASSUME NEW s \in Transfers, NEW d \in [0..(s[2] - 1) -> Byte],
             psram_load_file(s[1], s[2], d)
      PROVE  IInv'
  BY <1>7, LoadStep, Followed
<1>8. CASE UNCHANGED vars
  <2>1. \A i \in Index, w \in Way : InRam(i, w)' <=> InRam(i, w)
    BY <1>8 DEF InRam, vars
  <2>. QED
    BY <1>8, <2>1 DEF vars, IInv, TypeOK, UniqueLine, LinesSound, CleanIsCoherent,
       FlushReachesRam, NothingCachedWhileLoading
<1>. QED
  BY <1>1, <1>2, <1>3, <1>4, <1>5, <1>6, <1>7, <1>8 DEF Next, Stores

-----------------------------------------------------------------------------
(* The invariant holds of every behaviour of the cache (cache.c), for      *)
(* every line size, set count and chip size and every set of accesses.     *)
THEOREM CacheInvariant == Spec => []IInv
  BY InitIInv, NextIInv, PTL DEF Spec

(* cache.c only ever holds well-formed lines.                              *)
THEOREM TypeCorrect == Spec => []TypeOK
<1>1. IInv => TypeOK
  BY DEF IInv
<1>. QED
  BY <1>1, CacheInvariant, PTL

(* The two ways of a set of cache.c never hold the same line.              *)
THEOREM LineCachedOnce == Spec => []UniqueLine
<1>1. IInv => UniqueLine
  BY DEF IInv
<1>. QED
  BY <1>1, CacheInvariant, PTL

(* A victim cache.c drops without a write-back equals the PSRAM.           *)
THEOREM CleanVictimsAreSafe == Spec => [](CleanIsCoherent /\ LinesSound)
<1>1. IInv => CleanIsCoherent /\ LinesSound
  BY DEF IInv
<1>. QED
  BY <1>1, CacheInvariant, PTL

(* What cache_flush has passed is in the chips, where the snapshot reads.  *)
THEOREM FlushIsComplete == Spec => []FlushReachesRam
<1>1. IInv => FlushReachesRam
  BY DEF IInv
<1>. QED
  BY <1>1, CacheInvariant, PTL

-----------------------------------------------------------------------------
(* The refinement: step by step, the cache is a flat memory.               *)

(* The bytes of an access are in RAM as far as its line goes.              *)
LEMMA AccessInRam ==
  ASSUME NEW s \in Accesses, NEW k \in 0..(s[2] - 1), OFFSET(s[1]) + k < LineSize
  PROVE  s[1] + k \in Addr
<1> DEFINE a == s[1]
<1>1. /\ a \in Addr /\ s[2] \in Nat \ {0}
      /\ OFFSET(a) \in Within /\ BASE(a) \in Addr
      /\ BASE(a) = FlushBase(INDEX(a), TAG(a)) /\ INDEX(a) \in Index /\ TAG(a) \in Nat
      /\ BASE(a) + OFFSET(a) = a
      /\ OFFSET(a) \in Nat /\ BASE(a) \in Nat
  BY SpanAssumption, AddrParts, Geometry
<1>2. OFFSET(a) + k \in Within
  BY <1>1, GeometryAssumption DEF Within
<1>3. BASE(a) + (OFFSET(a) + k) = a + k
  BY <1>1
<1> HIDE DEF a
<1>4. a + k \in Addr
  BY <1>1, <1>2, <1>3, LineParts
<1>. QED
  BY <1>4 DEF a

(* A block of the flat memory is a line.                                   *)
LEMMA BlockIsLine ==
  ASSUME NEW s \in Accesses
  PROVE  /\ s[2] <= Flat!Reach(s[1]) <=> InLine(s)
         /\ s[2] > Flat!Reach(s[1]) <=> ~InLine(s)
         /\ \A k \in 0..(s[2] - 1) :
              k < Flat!Reach(s[1]) <=> OFFSET(s[1]) + k < LineSize
<1>1. PICK o \in Nat : o = OFFSET(s[1])
  BY SpanAssumption, AddrParts, Geometry
<1>2. PICK n \in Nat : n = s[2]
  BY SpanAssumption
<1>3. LineSize \in Nat
  BY GeometryAssumption
<1>4. Flat!Reach(s[1]) = LineSize - o
  BY <1>1 DEF Flat!Reach, OFFSET
<1>5. InLine(s) <=> o + n <= LineSize
  BY <1>1, <1>2 DEF InLine
<1>. QED
  BY <1>1, <1>2, <1>3, <1>4, <1>5

(* The initial states map to those of a flat memory.                       *)
LEMMA FlatInit == Init => Flat!Init
<1> SUFFICES ASSUME Init PROVE Flat!Init
  OBVIOUS
<1>1. \A b \in Addr : View(b) \in Byte
  BY InitIInv, ViewIs DEF Init, Intact
<1>. QED
  BY <1>1 DEF Init, Idle, Flat!Init, Flat!Idle

(* Every step maps to a step of a flat memory, or to none.                 *)
LEMMA FlatStep == IInv /\ [Next]_vars => [Flat!Next]_(Flat!vars)
<1> SUFFICES ASSUME IInv, [Next]_vars PROVE [Flat!Next]_(Flat!vars)
  OBVIOUS
<1> DEFINE mem == [b \in Addr |-> View(b)]
           ph == IF phase = "flush" THEN "save" ELSE phase
<1>1. CASE cache_reset
  <2>1. \A b \in Addr : View(b)' \in Byte
    BY <1>1, ResetStep
  <2>2. Flat!Boot
    BY <1>1, <2>1 DEF cache_reset, Idle, Flat!Boot, Flat!Idle
  <2>. QED
    BY <2>2 DEF Flat!Next
<1>2. CASE Start \/ StartFlush \/ EndFlush \/ Halt
  <2>1. \A b \in Addr : View(b)' = View(b)
    BY <1>2, PhaseStep, Followed
  <2>2. mem' = mem
    BY <2>1
  <2>3. CASE Start
    <3>1. Flat!Start
      BY <2>2, <2>3 DEF Start, Flat!Start
    <3>. QED
      BY <3>1 DEF Flat!Next
  <2>4. CASE StartFlush
    <3>1. Flat!Freeze
      BY <2>2, <2>4 DEF StartFlush, Flat!Freeze
    <3>. QED
      BY <3>1 DEF Flat!Next
  <2>5. CASE EndFlush
    BY <2>2, <2>5 DEF EndFlush, Flat!vars
  <2>6. CASE Halt
    <3>1. Flat!Halt
      BY <2>2, <2>6 DEF Halt, Idle, Flat!Halt, Flat!Idle
    <3>. QED
      BY <3>1 DEF Flat!Next
  <2>. QED
    BY <1>2, <2>3, <2>4, <2>5, <2>6
<1>3. CASE FlushSet
  <2>1. \A b \in Addr : View(b)' = View(b)
    BY <1>3, FlushStep, Followed
  <2>2. mem' = mem
    BY <2>1
  <2>. QED
    BY <1>3, <2>2 DEF FlushSet, Flat!vars
<1>4. ASSUME NEW s \in Accesses, cache_read(s[1], s[2])
      PROVE  Flat!Next
  <2>1. \A b \in Addr : View(b)' = View(b)
    BY <1>4, ReadStep, Followed
  <2>2. mem' = mem
    BY <2>1
  <2>3. /\ bus'.data \in [0..(s[2] - 1) -> Byte]
        /\ \A k \in 0..(s[2] - 1) :
             k < Flat!Reach(s[1]) => bus'.data[k] = mem[s[1] + k]
    BY <1>4, ReadStep, AccessInRam, BlockIsLine, Followed
  <2>4. /\ phase = "run" /\ phase' = "run"
        /\ bus' = [op |-> "read", addr |-> s[1], data |-> bus'.data]
    BY <1>4 DEF cache_read
  <2>5. Flat!Read(s[1], s[2])
    BY <2>2, <2>3, <2>4 DEF Flat!Read
  <2>. QED
    BY <2>5 DEF Flat!Next
<1>9. ASSUME NEW s \in Accesses, NEW d \in [0..(s[2] - 1) -> Byte],
             ~InLine(s), SpoilingWrite(s[1], s[2], d)
      PROVE  Flat!Next
  <2>1. \A b \in Addr : View(b)' \in Byte
    BY <1>9, SpoilStep, Followed
  <2>2. mem' \in [Addr -> Byte]
    BY <2>1
  <2>3. Flat!Spoil(s[1], s[2])
    BY <1>9, <2>2, BlockIsLine DEF SpoilingWrite, Flat!Spoil
  <2>. QED
    BY <2>3 DEF Flat!Next
<1>5. ASSUME NEW s \in Accesses, NEW d \in [0..(s[2] - 1) -> Byte],
             InLine(s), cache_write(s[1], s[2], d)
      PROVE  Flat!Next
  <2>1. \A b \in Addr : View(b)' =
           IF b - s[1] \in 0..(s[2] - 1) THEN d[b - s[1]] ELSE View(b)
    BY <1>5, WriteStep, Followed
  <2>2. mem' = [b \in Addr |-> IF b - s[1] \in 0..(s[2] - 1) THEN d[b - s[1]] ELSE mem[b]]
    BY <2>1
  <2>3. Flat!Write(s[1], s[2], d)
    BY <1>5, <2>2, BlockIsLine DEF cache_write, Flat!Write, Flat!Stored
  <2>. QED
    BY <2>3 DEF Flat!Next
<1>6. ASSUME NEW s \in Transfers, SaveChunk(s[1], s[2])
      PROVE  Flat!Next
  <2>1. \A b \in Addr : View(b)' = View(b)
    BY <1>6, PhaseStep, Followed
  <2>2. mem' = mem
    BY <2>1
  <2>0. Intact
    BY <1>6, Followed
  <2>3. ASSUME NEW b \in Addr PROVE View(b) = CellAt(psram, b)
    <3>1. CASE ~Hit(b)
      BY <2>0, <3>1, ViewIs
    <3>2. CASE Hit(b)
      <4>1. PICK w \in Way : Holds(INDEX(b), w, TAG(b))
        BY <3>2 DEF Hit
      <4>2. InRam(INDEX(b), w)
        BY <1>6, <4>1, AddrParts DEF SaveChunk, Holds, IInv, FlushReachesRam
      <4>. QED
        BY <2>0, <4>1, <4>2, ViewIs DEF InRam, Holds
    <3>. QED
      BY <3>1, <3>2
  <2>4. /\ s[1] \in Addr /\ s[2] \in Nat /\ LocalOf(s[1]) + s[2] <= ChipSize
        /\ psram \in Cells
    BY SpanAssumption DEF InChip, IInv, TypeOK
  <2>5. ASSUME NEW k \in 0..(s[2] - 1)
        PROVE  PsramRead(psram, s[1], s[2])[k] = mem[s[1] + k]
    BY <2>3, <2>4, ReadSpan, SpanPlacement
  <2>6. PsramRead(psram, s[1], s[2]) = [k \in 0..(s[2] - 1) |-> mem[s[1] + k]]
    <3> HIDE DEF mem
    <3>. QED
      BY <2>5 DEF PsramRead
  <2>7. /\ phase = "save" /\ phase' = "save"
        /\ bus' = [op |-> "save", addr |-> s[1], data |-> PsramRead(psram, s[1], s[2])]
    BY <1>6 DEF SaveChunk
  <2>8. Flat!Save(s[1], s[2])
    BY <2>2, <2>6, <2>7 DEF Flat!Save, Flat!Bytes
  <2>. QED
    BY <2>8 DEF Flat!Next
<1>7. ASSUME NEW s \in Transfers, NEW d \in [0..(s[2] - 1) -> Byte],
             psram_load_file(s[1], s[2], d)
      PROVE  Flat!Next
  <2>1. \A b \in Addr : View(b)' =
           IF b - s[1] \in 0..(s[2] - 1) THEN d[b - s[1]] ELSE View(b)
    BY <1>7, LoadStep, Followed
  <2>2. mem' = [b \in Addr |-> IF b - s[1] \in 0..(s[2] - 1) THEN d[b - s[1]] ELSE mem[b]]
    BY <2>1
  <2>3. Flat!Load(s[1], s[2], d)
    BY <1>7, <2>2 DEF psram_load_file, Flat!Load, Flat!Stored
  <2>. QED
    BY <2>3 DEF Flat!Next
<1>8. CASE UNCHANGED vars
  <2>1. mem' = mem
    BY <1>8 DEF vars, View, Hit, Holds
  <2>. QED
    BY <1>8, <2>1 DEF vars, Flat!vars
<1>. QED
  BY <1>1, <1>2, <1>3, <1>4, <1>5, <1>6, <1>7, <1>8, <1>9 DEF Next

(* The cache over the chips (cache.c, psram.c) implements the flat RAM the *)
(* hart's loads and stores assume, for every geometry and every set of     *)
(* accesses, misaligned ones included: a load returns the bytes last       *)
(* written as far as the line it starts in, a snapshot chunk returns all   *)
(* of them, until the first store that runs past its line, and again from  *)
(* the next boot on.                                                       *)
THEOREM CacheImplementsFlatMemory == Spec => ImplementsFlatMemory
  BY InitIInv, NextIInv, FlatInit, FlatStep, PTL DEF Spec, ImplementsFlatMemory, Flat!Spec

-----------------------------------------------------------------------------
(* The replacement.  What keeps the last line is not the invariant above   *)
(* but the marks of the ways: from the first access of a run on, the way   *)
(* used last is unmarked and the other one is marked.                      *)
Recent ==
  /\ phase = "load" => bus.op = "none"
  /\ phase = "run" /\ bus.op # "none" =>
       \E w \in Way :
         /\ Holds(INDEX(bus.addr), w, TAG(bus.addr))
         /\ ~cache[INDEX(bus.addr)][w].lru
         /\ \A v \in Way : v # w => cache[INDEX(bus.addr)][v].lru

(* The line of the previous access is still cached.                        *)
StillCached ==
  \E w \in Way : cache'[INDEX(bus.addr)][w].valid
                 /\ cache'[INDEX(bus.addr)][w].tag = TAG(bus.addr)

(* An access unmarks the way it works on and marks the other, and takes    *)
(* a marked way when it has to replace a line.                             *)
LEMMA AccessMarks ==
  ASSUME Intact, Recent, NEW a \in Addr, NEW l \in Line,
         l.tag = TAG(a), l.valid, ~l.lru,
         phase = "run", phase' = "run", cache' = Touched(a, l),
         bus'.addr = a
  PROVE  Recent' /\ (bus.op # "none" => StillCached)
<1>1. PICK c \in Way : c = Chosen(a)
  BY ChosenWay
<1>2. PICK i \in Index : i = INDEX(a)
  BY AddrParts
<1>3. cache \in [Index -> [Way -> Line]]
  BY DEF Intact, IInv, TypeOK
<1>4. cache' = [cache EXCEPT ![i] =
                  [w \in Way |-> IF w = c THEN l ELSE [@[w] EXCEPT !.lru = TRUE]]]
  BY <1>1, <1>2 DEF Touched
<1>5. cache'[i][c] = l
  BY <1>3, <1>4
<1>6. ASSUME NEW v \in Way, v # c
      PROVE  /\ cache'[i][v].lru
             /\ cache'[i][v].valid = cache[i][v].valid
             /\ cache'[i][v].tag = cache[i][v].tag
  <2>1. cache[i][v] \in Line /\ cache'[i][v] = [cache[i][v] EXCEPT !.lru = TRUE]
    BY <1>3, <1>4, <1>6
  <2>. QED
    BY <2>1 DEF Line
<1>7. Recent'
  <2>1. Holds(i, c, TAG(a))' /\ ~cache'[i][c].lru
    BY <1>5 DEF Holds
  <2>2. \A v \in Way : v # c => cache'[i][v].lru
    BY <1>6
  <2>. QED
    BY <1>2, <2>1, <2>2 DEF Recent, Holds
<1>8. ASSUME bus.op # "none"  PROVE StillCached
  <2>1. PICK j \in Index : j = INDEX(bus.addr)
    BY AddrParts DEF Intact, IInv, TypeOK
  <2>2. PICK w \in Way : /\ Holds(j, w, TAG(bus.addr)) /\ ~cache[j][w].lru
                         /\ \A v \in Way : v # w => cache[j][v].lru
    BY <1>8, <2>1 DEF Recent
  <2>3. CASE j # i
    <3>1. cache'[j] = cache[j]
      BY <1>3, <1>4, <2>3
    <3>. QED
      BY <2>1, <2>2, <3>1 DEF StillCached, Holds
  <2>4. CASE j = i /\ w # c
    BY <1>6, <2>1, <2>2, <2>4 DEF StillCached, Holds
  <2>5. CASE j = i /\ w = c
    <3>1. Holds(i, c, TAG(a))
      <4>1. Hit(a) \/ cache[i][c].lru
        <5>1. CASE cache[i][1].lru
          BY <1>1, <1>2, <5>1 DEF Chosen
        <5>2. CASE ~cache[i][1].lru
          BY <1>1, <1>2, <2>2, <2>5, <5>2 DEF Chosen, Way
        <5>. QED
          BY <5>1, <5>2
      <4>. QED
        BY <1>1, <1>2, <2>2, <2>5, <4>1, ChosenWay
    <3>2. TAG(bus.addr) = TAG(a)
      BY <2>2, <2>5, <3>1 DEF Holds
    <3>. QED
      BY <1>5, <2>1, <2>5, <3>2 DEF StillCached
  <2>. QED
    BY <2>3, <2>4, <2>5
<1>. QED
  BY <1>7, <1>8

LEMMA ReadMarks ==
  ASSUME Intact, Recent, NEW s \in Accesses, cache_read(s[1], s[2])
  PROVE  Recent' /\ (bus.op # "none" => StillCached)
<1>1. PICK a \in Addr : a = s[1]
  BY SpanAssumption
<1>2. PICK l \in Line : l = Fetched(a) /\ l.tag = TAG(a) /\ l.valid
  BY FetchedLine
<1>3. ~l.lru
  BY <1>2, ChosenWay DEF Fetched, Line
<1>4. /\ phase = "run" /\ phase' = "run" /\ cache' = Touched(a, l) /\ bus'.addr = a
  BY <1>1, <1>2 DEF cache_read
<1>. QED
  BY <1>2, <1>3, <1>4, AccessMarks

LEMMA WriteMarks ==
  ASSUME Intact, Recent, NEW s \in Accesses, NEW d \in [0..(s[2] - 1) -> Byte],
         cache_write(s[1], s[2], d)
  PROVE  Recent' /\ (bus.op # "none" => StillCached)
<1>1. PICK a \in Addr : a = s[1]
  BY SpanAssumption
<1>2. PICK g \in Line : g = Fetched(a) /\ g.tag = TAG(a) /\ g.valid
  BY FetchedLine
<1>3. ~g.lru
  BY <1>2, ChosenWay DEF Fetched, Line
<1>4. PICK e : e = [x \in Within |-> IF x - OFFSET(a) \in 0..(s[2] - 1)
                                     THEN d[x - OFFSET(a)] ELSE g.data[x]]
  OBVIOUS
<1>5. e \in [Within -> Byte]
  BY <1>4 DEF Line
<1>6. PICK l : l = [g EXCEPT !.dirty = TRUE, !.data = e]
  OBVIOUS
<1>7. l \in Line /\ l.tag = TAG(a) /\ l.valid /\ ~l.lru
  BY <1>2, <1>3, <1>5, <1>6 DEF Line
<1>8. l = Patched(Fetched(a), OFFSET(a), s[2], d)
  BY <1>2, <1>4, <1>6 DEF Patched
<1>9. /\ phase = "run" /\ phase' = "run" /\ cache' = Touched(a, l) /\ bus'.addr = a
  BY <1>1, <1>8 DEF cache_write
<1>. QED
  BY <1>7, <1>9, AccessMarks

LEMMA NextRecent ==
  ASSUME IInv, Recent, [Next]_vars
  PROVE  /\ Recent'
         /\ (vars' # vars /\ phase = "run" /\ phase' = "run" /\ bus.op # "none"
               => StillCached)
<1>1. CASE cache_reset
  BY <1>1 DEF cache_reset, Recent, Idle
<1>2. CASE Start
  BY <1>2 DEF Start, Recent
<1>3. CASE StartFlush \/ FlushSet \/ EndFlush \/ Halt
  BY <1>3 DEF StartFlush, FlushSet, EndFlush, Halt, Recent
<1>4. CASE \E s \in Accesses : cache_read(s[1], s[2])
  BY <1>4, ReadMarks, Followed
<1>5. CASE \E s \in Accesses : \E d \in [0..(s[2] - 1) -> Byte] : cache_write(s[1], s[2], d)
  BY <1>5, WriteMarks, Followed
<1>9. CASE \E s \in Accesses : \E d \in [0..(s[2] - 1) -> Byte] : SpoilingWrite(s[1], s[2], d)
  BY <1>9 DEF SpoilingWrite, Recent
<1>6. CASE \E s \in Transfers : SaveChunk(s[1], s[2])
  BY <1>6 DEF SaveChunk, Recent
<1>7. CASE \E s \in Transfers : \E d \in [0..(s[2] - 1) -> Byte] : psram_load_file(s[1], s[2], d)
  BY <1>7 DEF psram_load_file, Recent
<1>8. CASE UNCHANGED vars
  BY <1>8 DEF vars, Recent, Holds
<1>. QED
  BY <1>1, <1>2, <1>3, <1>4, <1>5, <1>6, <1>7, <1>8, <1>9 DEF Next

(* Between two accesses of a run the line of the first survives the second *)
(* (cache.c: the replacement by the lru bit): an instruction and the data  *)
(* it works on do not evict each other, whatever the geometry.             *)
THEOREM MostRecentSurvives == Spec => MostRecentStays
<1>1. Init => Recent
  BY DEF Init, Recent
<1>2. IInv /\ Recent /\ [Next]_vars => Recent'
  BY NextRecent
<1>3. IInv /\ Recent /\ [Next]_vars =>
        [phase = "run" /\ phase' = "run" /\ bus.op # "none" =>
           \E w \in Way : /\ cache'[INDEX(bus.addr)][w].valid
                          /\ cache'[INDEX(bus.addr)][w].tag = TAG(bus.addr)]_vars
  BY NextRecent DEF StillCached
<1>. QED
  BY <1>1, <1>2, <1>3, CacheInvariant, PTL DEF Spec, MostRecentStays
=============================================================================
