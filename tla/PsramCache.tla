----------------------------- MODULE PsramCache -----------------------------
(***************************************************************************)
(* The guest's RAM as the firmware keeps it: a two-way write-back cache    *)
(* (cache/cache.c) over one or two serial PSRAM chips (psram/psram.c and   *)
(* hal/hal_psram.h), together with the callers that bypass the cache: the  *)
(* image loader and the snapshot writer of emulator.c.                     *)
(*                                                                         *)
(* Only core 1 touches any of this, so one call is one step.  Addresses    *)
(* are kept at byte granularity; a line is LineSize bytes, an access       *)
(* covers a <<address, count>> span.                                       *)
(***************************************************************************)
EXTENDS Integers

CONSTANTS
  LineSize,   \* CACHE_LINE_SIZE, 1 << OFFSET_BITS
  SetCount,   \* CACHE_SET_SIZE, 1 << INDEX_BITS
  ChipLines,  \* PSRAM_CHIP_SIZE_BYTES / CACHE_LINE_SIZE
  TwoChips,   \* PSRAM_TWO_CHIPS
  Byte,       \* values of a byte
  Zero,       \* the byte memset leaves in a reset line
  PowerOn,    \* contents the chips may come up with
  Accesses,   \* spans MINIRV32_LOAD and STORE ask for (1, 2 or 4 bytes)
  Transfers   \* spans the loader and the snapshot writer transfer

ChipSize == ChipLines * LineSize
RamSize  == IF TwoChips THEN 2 * ChipSize ELSE ChipSize
Addr     == 0..(RamSize - 1)
Chip     == IF TwoChips THEN {0, 1} ELSE {0}
Local    == 0..(ChipSize - 1)
Index    == 0..(SetCount - 1)
Way      == {1, 2}
Within   == 0..(LineSize - 1)

(* ADDR macros of cache.c.                                                 *)
OFFSET(a) == a % LineSize
INDEX(a)  == (a \div LineSize) % SetCount
TAG(a)    == (a \div LineSize) \div SetCount
BASE(a)   == (a \div LineSize) * LineSize

(* flush_base: the address a line is written back to, rebuilt from its set *)
(* and its tag.                                                            *)
FlushBase(i, t) == (t * SetCount + i) * LineSize

(* Variants named Bad... are plausible slips in the code beside them, kept *)
(* to show that the properties below would notice.                         *)
BadChipOf(a) == 0

(* Chip select takes the full address, the command bytes the local one.    *)
ChipOf(a)  == IF TwoChips /\ a >= ChipSize THEN 1 ELSE 0
LocalOf(a) == IF TwoChips THEN a % ChipSize ELSE a

Cells == [Chip -> [Local -> Byte]]

(* A span inside one line, and one inside one chip.  Nothing keeps a guest *)
(* access inside a line: the hart does not trap a misaligned one, start_vm *)
(* itself loads words at every byte of the DTB (LOAD4(++ptr)), and the     *)
(* check in cache.c is commented out.  The 512-byte chunks start at 0 and  *)
(* at DTB_SIZE (2048) below the end of RAM, and so divide a chip.          *)
InLine(s) == OFFSET(s[1]) + s[2] <= LineSize
InChip(s) == LocalOf(s[1]) + s[2] <= ChipSize

ASSUME GeometryAssumption ==
  /\ LineSize \in Nat \ {0}
  /\ SetCount \in Nat \ {0}
  /\ ChipLines \in Nat \ {0}
  /\ TwoChips \in BOOLEAN
ASSUME ByteAssumption == Zero \in Byte /\ PowerOn \subseteq Cells
ASSUME SpanAssumption ==
  /\ Accesses \subseteq Addr \X (Nat \ {0})
  /\ Transfers \subseteq Addr \X (Nat \ {0})
  /\ \A s \in Transfers : InChip(s)

VARIABLES
  psram,   \* psram[c][l]: the cells of the chips
  cache,   \* cache[i][w]: the lines
  phase,   \* where start_vm is
  flushed, \* the set cache_flush is at
  bus      \* the last operation and the bytes it returned

vars == <<psram, cache, phase, flushed, bus>>

Line == [tag : Nat, data : [Within -> Byte],
         valid : BOOLEAN, dirty : BOOLEAN, lru : BOOLEAN]

EmptyLine == [tag |-> 0, data |-> [x \in Within |-> Zero],
              valid |-> FALSE, dirty |-> FALSE, lru |-> FALSE]

-----------------------------------------------------------------------------
(* psram_access: one burst on the chip the first address selects.          *)
PsramRead(p, a, n) == [k \in 0..(n-1) |-> p[ChipOf(a)][LocalOf(a) + k]]

PsramWrite(p, a, n, d) ==
  [p EXCEPT ![ChipOf(a)] =
     [l \in Local |-> IF l - LocalOf(a) \in 0..(n-1)
                      THEN d[l - LocalOf(a)] ELSE @[l]]]

(* The way an access ends up in: a hit, way 1 first, or the victim.        *)
Holds(i, w, t) == cache[i][w].valid /\ cache[i][w].tag = t
BadHit(a) == Holds(INDEX(a), 1, TAG(a))
Hit(a) == \E w \in Way : Holds(INDEX(a), w, TAG(a))
Chosen(a) ==
  IF Hit(a) THEN IF Holds(INDEX(a), 1, TAG(a)) THEN 1 ELSE 2
  ELSE IF cache[INDEX(a)][1].lru THEN 1 ELSE 2

(* The chips after a dirty victim is written back, if there is one.        *)
Evicted(a) ==
  LET i == INDEX(a)
      l == cache[i][Chosen(a)]
  IN IF ~Hit(a) /\ l.dirty
     THEN PsramWrite(psram, FlushBase(i, l.tag), LineSize, l.data)
     ELSE psram

(* The line an access works on: the cached one, or one fetched after the   *)
(* write-back, with every status bit but "valid" cleared.                  *)
Fetched(a) ==
  IF Hit(a) THEN [cache[INDEX(a)][Chosen(a)] EXCEPT !.lru = FALSE]
  ELSE [tag |-> TAG(a), data |-> PsramRead(Evicted(a), BASE(a), LineSize),
        valid |-> TRUE, dirty |-> FALSE, lru |-> FALSE]

BadTouched(a, l) ==
  [cache EXCEPT ![INDEX(a)] = [@ EXCEPT ![Chosen(a)] = [l EXCEPT !.lru = TRUE]]]

(* The cache with line l in the chosen way and the other way marked LRU.   *)
Touched(a, l) ==
  [cache EXCEPT ![INDEX(a)] =
     [w \in Way |-> IF w = Chosen(a) THEN l ELSE [@[w] EXCEPT !.lru = TRUE]]]

-----------------------------------------------------------------------------
Idle == [op |-> "none", addr |-> 0, data |-> <<>>]

Init ==
  /\ psram \in PowerOn
  /\ cache = [i \in Index |-> [w \in Way |-> EmptyLine]]
  /\ phase = "off"
  /\ flushed = 0
  /\ bus = Idle

BadReset ==
  /\ phase = "off"
  /\ phase' = "load"
  /\ bus' = Idle
  /\ UNCHANGED <<psram, cache, flushed>>

(* start_vm begins: cache_reset drops every line, dirty ones included.     *)
(* After a spoilt run the chips hold whatever its write-backs left there.  *)
cache_reset ==
  /\ phase \in {"off", "spoilt"}
  /\ psram' \in IF phase = "off" THEN {psram} ELSE PowerOn
  /\ cache' = [i \in Index |-> [w \in Way |-> EmptyLine]]
  /\ phase' = "load"
  /\ bus' = Idle
  /\ UNCHANGED flushed

(* psram_load_file: chunks go to the chips past the cache.                 *)
psram_load_file(a, n, d) ==
  /\ phase = "load"
  /\ psram' = PsramWrite(psram, a, n, d)
  /\ UNCHANGED <<cache, phase, flushed, bus>>

Start ==
  /\ phase = "load"
  /\ phase' = "run"
  /\ UNCHANGED <<psram, cache, flushed, bus>>

(* A load works on the line of its first byte alone: what it copies from   *)
(* past the end of line->data is whatever the struct and its neighbour     *)
(* hold there.                                                             *)
cache_read(a, n) ==
  /\ phase = "run"
  /\ psram' = Evicted(a)
  /\ cache' = Touched(a, Fetched(a))
  /\ \E past \in [0..(n-1) -> Byte] :
       bus' = [op |-> "read", addr |-> a,
               data |-> [k \in 0..(n-1) |->
                           IF OFFSET(a) + k < LineSize
                           THEN Fetched(a).data[OFFSET(a) + k] ELSE past[k]]]
  /\ UNCHANGED <<phase, flushed>>

BadPatched(l, o, n, d) ==
  [l EXCEPT !.data = [x \in Within |-> IF x - o \in 0..(n-1) THEN d[x - o] ELSE @[x]]]

Patched(l, o, n, d) ==
  [l EXCEPT !.dirty = TRUE,
            !.data = [x \in Within |-> IF x - o \in 0..(n-1)
                                       THEN d[x - o] ELSE @[x]]]

cache_write(a, n, d) ==
  /\ phase = "run"
  /\ psram' = Evicted(a)
  /\ cache' = Touched(a, Patched(Fetched(a), OFFSET(a), n, d))
  /\ bus' = [op |-> "write", addr |-> a, data |-> <<>>]
  /\ UNCHANGED <<phase, flushed>>

(* The line that follows the chosen one in the array "cache", if any, and  *)
(* the cache when line l is chosen and that next line has lost its tag.    *)
Following(a) ==
  IF Chosen(a) = 1 THEN <<INDEX(a), 2>> ELSE <<INDEX(a) + 1, 1>>
Spoilt(a, l, t) ==
  [i \in Index |-> [w \in Way |->
     IF <<i, w>> = Following(a) THEN [Touched(a, l)[i][w] EXCEPT !.tag = t]
     ELSE Touched(a, l)[i][w]]]

(* The same cache_write when the store runs past the line: behind the data *)
(* lie the status of this line and the tag of the following one, and no    *)
(* byte reaches the next addresses.  SET_DIRTY still comes last.  From     *)
(* here on the cache no longer says which line is where, and the run is    *)
(* followed only to the next boot.                                         *)
SpoilingWrite(a, n, d) ==
  /\ phase = "run"
  /\ psram' = Evicted(a)
  /\ \E v, m \in BOOLEAN, t \in {TAG(b) : b \in Addr} :
       cache' = Spoilt(a, [Patched(Fetched(a), OFFSET(a), n, d)
                             EXCEPT !.valid = v, !.lru = m], t)
  /\ phase' = "spoilt"
  /\ bus' = [op |-> "write", addr |-> a, data |-> <<>>]
  /\ UNCHANGED flushed

(* cache_flush: set by set, the dirty lines go out, way 1 before way 2.    *)
(* The lines stay as they are, dirty bits included.                        *)
flush_line(p, i, w) ==
  IF cache[i][w].dirty
  THEN PsramWrite(p, FlushBase(i, cache[i][w].tag), LineSize, cache[i][w].data)
  ELSE p

StartFlush ==
  /\ phase = "run"
  /\ phase' = "flush"
  /\ flushed' = 0
  /\ UNCHANGED <<psram, cache, bus>>

BadFlushSet ==
  /\ phase = "flush"
  /\ flushed < SetCount
  /\ psram' = flush_line(psram, flushed, 1)
  /\ flushed' = flushed + 1
  /\ UNCHANGED <<cache, phase, bus>>

BadFlushEnd ==
  /\ phase = "flush"
  /\ flushed <= SetCount
  /\ flushed' = flushed + 1
  /\ UNCHANGED <<psram, cache, phase, bus>>

FlushSet ==
  /\ phase = "flush"
  /\ flushed < SetCount
  /\ psram' = flush_line(flush_line(psram, flushed, 1), flushed, 2)
  /\ flushed' = flushed + 1
  /\ UNCHANGED <<cache, phase, bus>>

EndFlush ==
  /\ phase = "flush"
  /\ flushed = SetCount
  /\ phase' = "save"
  /\ UNCHANGED <<psram, cache, flushed, bus>>

(* The snapshot writer reads the chips past the cache.                     *)
SaveChunk(a, n) ==
  /\ phase = "save"
  /\ bus' = [op |-> "save", addr |-> a, data |-> PsramRead(psram, a, n)]
  /\ UNCHANGED <<psram, cache, phase, flushed>>

(* start_vm returns: after a snapshot, or at once on reboot and power-off, *)
(* with dirty lines still in the cache.                                    *)
Halt ==
  /\ phase \in {"run", "save"}
  /\ phase' = "off"
  /\ bus' = Idle
  /\ UNCHANGED <<psram, cache, flushed>>

Next ==
  \/ cache_reset \/ Start \/ StartFlush \/ FlushSet \/ EndFlush \/ Halt
  \/ \E s \in Accesses : cache_read(s[1], s[2])
  \/ \E s \in Accesses : \E d \in [0..(s[2]-1) -> Byte] :
        \/ InLine(s) /\ cache_write(s[1], s[2], d)
        \/ ~InLine(s) /\ SpoilingWrite(s[1], s[2], d)
  \/ \E s \in Transfers : SaveChunk(s[1], s[2])
  \/ \E s \in Transfers : \E d \in [0..(s[2]-1) -> Byte] :
        psram_load_file(s[1], s[2], d)

Spec == Init /\ [][Next]_vars

-----------------------------------------------------------------------------
(* Every variable has its type.                                            *)
TypeOK ==
  /\ psram \in Cells
  /\ cache \in [Index -> [Way -> Line]]
  /\ phase \in {"off", "load", "run", "flush", "save", "spoilt"}
  /\ flushed \in 0..SetCount
  /\ bus.op \in {"none", "read", "write", "save"}
  /\ bus.addr \in Addr

(* The byte cells p hold for an address, and a line that equals the PSRAM.  *)
CellAt(p, a) == p[ChipOf(a)][LocalOf(a)]
InRam(i, w) ==
  \A a \in Addr : INDEX(a) = i /\ TAG(a) = cache[i][w].tag =>
    cache[i][w].data[OFFSET(a)] = CellAt(psram, a)

(* A line is cached at most once: a second copy would take the writes of   *)
(* one way and serve the reads of the other, and be written back last.     *)
(* cache.c never compares the ways on a miss, it relies on this.           *)
UniqueLine ==
  phase # "spoilt" => \A i \in Index :
    ~(cache[i][1].valid /\ cache[i][2].valid /\ cache[i][1].tag = cache[i][2].tag)

(* A dirty line is a valid one, and a valid one lies in RAM.  Both write-  *)
(* backs test the dirty bit alone, although the comment beside them says   *)
(* "valid and dirty", and compute their address from whatever tag is there.*)
LinesSound ==
  phase # "spoilt" => \A i \in Index, w \in Way :
    /\ cache[i][w].dirty => cache[i][w].valid
    /\ cache[i][w].valid => FlushBase(i, cache[i][w].tag) \in Addr

(* A line that is not dirty equals the PSRAM behind it: it can be dropped  *)
(* without a write-back.                                                   *)
CleanIsCoherent ==
  phase # "spoilt" => \A i \in Index, w \in Way :
    cache[i][w].valid /\ ~cache[i][w].dirty => InRam(i, w)

(* What the flush has passed is in PSRAM, so the chunks the snapshot reads *)
(* past the cache hold the guest's last bytes.                             *)
FlushReachesRam ==
  phase \in {"flush", "save"} => \A i \in Index, w \in Way :
    cache[i][w].valid /\ (phase = "flush" => i < flushed) => InRam(i, w)

(* The loader writes past the cache, so nothing may be cached by then: the *)
(* reset at the top of start_vm is what keeps an old line from answering.  *)
NothingCachedWhileLoading ==
  phase = "load" => \A i \in Index, w \in Way : ~cache[i][w].valid

(* Between two accesses of one run, the line of the first outlives the     *)
(* second: the replacement never takes the way used last.                  *)
MostRecentStays ==
  [][phase = "run" /\ phase' = "run" /\ bus.op # "none" =>
       \E w \in Way : /\ cache'[INDEX(bus.addr)][w].valid
                      /\ cache'[INDEX(bus.addr)][w].tag = TAG(bus.addr)]_vars

(* The guest's RAM: what a load of one byte would return.                  *)
View(a) ==
  IF Hit(a) THEN cache[INDEX(a)][IF Holds(INDEX(a), 1, TAG(a)) THEN 1 ELSE 2].data[OFFSET(a)]
  ELSE CellAt(psram, a)

Flat == INSTANCE FlatMemory WITH
  mem   <- [a \in Addr |-> View(a)],
  phase <- IF phase = "flush" THEN "save" ELSE phase,
  bus   <- bus,
  Block <- LineSize,
  Spans <- Accesses \cup Transfers

(* The cache over the chips implements a flat memory of these bytes: loads *)
(* and snapshot chunks return the bytes last stored or loaded, but for the *)
(* bytes of a load past its line; a store past its line (the check cache.c *)
(* has commented out) ends the promise until the next boot.                *)
ImplementsFlatMemory == Flat!Spec
=============================================================================
