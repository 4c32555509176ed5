# A verification project for the tiny-rv32ima machine

The repository is a RISC-V computer on a microcontroller: a firmware for the
RP2040/RP2350 that interprets RV32IMA, keeps the guest's RAM in SPI PSRAM
behind a small cache, its disk on an SD card behind Petit FatFs, and gives it a
console on USB, a VGA terminal and a PS/2 keyboard.  The guest is Linux 6.6
with a few drivers of its own.  This directory models the firmware's own logic
in TLA+, checks it with TLC on small instances and proves its main invariants
with TLAPS for every size of cache, queue, screen, batch, snapshot and disk.

Short names used below: `T/` is `src/upstream/pico-rv32ima/tiny-rv32ima/`, `P/`
is `src/upstream/pico-rv32ima/pico-rv32ima/`.

## 1. The system

### Who runs what

* **Core 0** (`P/main.c`) sets the hardware up and runs `console_task` for ever:
  USB, the terminal, the keyboard, the OLED panel.
* **Core 1** (`core1_entry`) calls `vm_init_hw` once and `start_vm` for ever.
  `start_vm` loads or resumes a guest and interprets it in batches of 4096
  instructions.
* **The PS/2 interrupt** assembles scan codes while either core works.
* Between the cores there are three SDK queues of 64 bytes (`ser_screen_queue`,
  `term_screen_queue`, `kb_queue`) and a few words read without a lock
  (`vm_stage`, the cycle CSR, `vm_idle_lo/hi`).
* **The SD card** outlives everything: the files IMAGE, DTB, BLK (the guest's
  disk), SNAP (a snapshot) and STAT (the power state).

### Components

| component | state | operations | hard part | model |
|---|---|---|---|---|
| Cache over PSRAM (`T/cache`, `T/psram`, `P/hal/hal_psram.h`) | 4096 sets of two 16-byte lines with valid, dirty and LRU bits; two 8 MB chips | `cache_reset`, `cache_read`, `cache_write`, `cache_flush`; `psram_access` and `psram_load_file` go past the cache | write-back before refill, LRU as a side effect of a macro, coherence with the two users that bypass it, the chip boundary | `PsramCache`, `FlatMemory`, `PsramCacheProofs` |
| VM lifecycle (`T/emulator/emulator.c`) | power state on the card, snapshot, one open file, `hibernate_request`, RAM and hart | boot, run, reboot, power-off, hibernate, resume | loss of power at any point, one file at a time, card errors | `VmLifecycle`, `VmLifecycleProofs` |
| Retired-instruction counter | `cycleh:cyclel`, `vm_idle_hi:vm_idle_lo` | carries in the step function and in `start_vm`; `vm_get_instret` on the other core | two-word values stored half by half and read without a lock | `InstretCounter`, `InstretProofs` |
| Hart, traps and timer (`T/emulator/mini-rv32ima.h`) | pc, mstatus, mie, mip, mtvec, mepc, privilege, WFI flag, 64-bit timer and match | a batch: timer, wake-up, interrupt, instructions, trap, MRET; reboot | `mip` is worked out once per batch, 64 bits in two words, sleep | `HartTrap`, `HartProofs` |
| Hart, A extension | the reservation in `extraflags` | LR, SC, AMOs | stores of a handler between LR and SC | not modelled (section 6) |
| Hart, decoding and arithmetic | registers | 47 instructions | sign extension, division by zero and overflow, alignment | planned |
| Console queues (`P/console/console.c`, `terminal.c`, `P/hal/hal_console.h`) | the three queues | `console_putc`, `console_read`, `console_task`, `send_keys` | two cores, two sinks of different speed, replies to the writer itself | `ConsoleQueues`, `ConsoleProofs` |
| VT102 terminal (`P/console/terminal/vt.c`, `terminal.c`) | cursor, margins, modes, saved cursor, parser state, screen; the painted cursor | `vt_putc` with every control, escape and CSI sequence; `cursor_show`, `cursor_hide`, the blink | state kept between bytes, wrap pending, origin mode, counts from the guest, the cursor drawn into the cells that scroll | `VtTerminal`, `VtProofs` |
| PS/2 keyboard (`P/console/ps2/ps2.c`) | ring of 45 scan codes, frame under assembly, decoder flags | interrupt, `get_scan_code`, `get_iso8859_code` | lost clocks, full ring, lost break codes, prefixes | `Ps2Keyboard`, `ConsoleProofs` |
| Block device (CSRs 0x151..0x155, patch 0002) | RAM address, size, error | offset, size, direction, transfer loop, status | several CSRs make one request, `blk_err` is overwritten for each block, the file object is shared with the power state | `BlkDevice`, `BlockDisk`, `BlkProofs` |
| Petit FatFs (`T/pff/pff.c`) | the one file: position, cluster, open or not | `pf_open`, `pf_lseek`, `pf_read`, `pf_write` | cluster chains, positions on a cluster boundary, end of file, errors that close the file | `PetitFs`, `BlkProofs` |
| SD over SPI (`T/pff/mmcbbp.c`) | `CardType`, the command and block under way, counters of the waits | `disk_initialize`, `disk_readp`, `disk_writep` | four kinds of cards, counted waits, late answers, a card still busy | `MmcDisk`, `MmcProofs` |
| GPIO and SPI CSRs (`P/hal/hal_csr.h`, patch 0004) | selected pin, SPI data | two-step CSR protocol | another task between the two steps | planned |
| OLED panel (`P/console/oled`) | framebuffer, dirty pages, chunk index, error count | row, flush step | chunks against redraws | planned |
| VGA, USB descriptors, desktop harness, guest applications, vendored port | | | none of interest, or not the machine | not modelled |

### How they meet

The hart reaches RAM through `cache_read`/`cache_write`, devices through CSR
numbers (`HandleOtherCSRRead/Write`).  A disk CSR moves blocks between the card
and RAM through the cache; the image loader and the snapshot writer move chunks
between the card and PSRAM past it, which is why `start_vm` resets the cache
before loading and flushes it before saving.  Petit FatFs has a single open
file: saving the power state closes the guest's disk.  A console CSR puts a
byte in two queues on core 1; core 0 drains them, and what the terminal answers
comes back through `kb_queue`.  The timer comes from the clock, and a hart in
WFI makes `start_vm` credit cycles to the idle counter.

### What is hard to test

`PROJECT.json` lists every hazard at its line under "hazards", with the
properties that cover it or the reason why none does yet.  The main ones are a
loss of power in each window of a boot or a hibernation, the order of write-back,
refill and bypass in the cache, loads of core 0 between two stores of core 1,
interrupts between two instructions that belong together, and both cores
waiting on full queues.

## 2. The modules

### FlatMemory, PsramCache, MCPsramCache, PsramCacheProofs

`PsramCache` is `cache.c` over `psram_access`.  The address arithmetic keeps the
macros' names (`OFFSET`, `INDEX`, `TAG`, `BASE`); `ChipOf` is the HAL's chip
select on the full address, `LocalOf` the address within the chip.  `cache` is
the array of sets, each line a record of tag, data and the three status bits.
One call of `cache_read` or `cache_write` is one action (only core 1 calls
them): find the way (way 1 first), else the LRU victim, write it back if dirty,
fetch, mark the other way LRU.  `cache_flush` goes a set per step.
`psram_load_file` and `SaveChunk` are the two users past the cache, `phase` is
the part of `start_vm` that decides which of them may act.  `bus` records the
last operation and what it returned.

Nothing keeps an access inside its line: the check in `cache.c` is commented out, the
hart traps no misaligned access, and `start_vm` itself loads a word at each byte of
the DTB (`emulator.c:307`).  A load past its line returns whatever lies behind the
line's data (`past`).  A store past it (`SpoilingWrite`) overwrites the status bits of
its own line and the tag of the next one in the array (`Following`); from there on
(`phase` "spoilt") the cache no longer says which line is where, and the run is followed
only to the next boot.

`FlatMemory` promises what the hart assumes: an array of bytes; a read or a
snapshot chunk returns the last bytes written; a new guest may find anything
only when the machine is off.  Two limits remain of the lines: a read promises nothing
past the aligned block (`Block`) it starts in, and a write past its block spoils the
memory until the next boot.  `PsramCache` implements it under the mapping
that reads each byte from the way that holds it, else from the chip (`View`).

### VmLifecycle, MCVmLifecycle

One variable `pc` is core 1's place in `vm_init_hw` and `start_vm`; each action is
the code between two places where the card is touched or the supply may fail.
`stat`, `snap`, `disk` survive `PowerCut`; the rest is lost.  Contents are stamps:
each guest change uses a fresh one, so a snapshot is the right one exactly when
its stamps are.  A snapshot is written in chunks, so half of it can be old.
Every `Panic` of the code is an alternative of its action.  `WaitsForKey` is the
test before the wait at the top of `start_vm`.
`vm_save_powerstate` may fail (SdFaults): the code never looks at its result,
neither does the model.

### InstretCounter

Two-word counters with `Base` in place of 2^32.  A batch adds to the cycle CSR in
locals and stores the two words at the end, one after the other and in either
order (the compiler's choice: plain stores, nothing orders them);
`vm_idle_lo` and `vm_idle_hi` likewise, in the order the carry test fixes.
The reader on core 0 does its three loads as three steps.  `from` and `to`
remember the values the counter had meanwhile.  `ran` counts the instructions
executed, `lost` those of steps that returned before adding theirs, `forgotten` what
the idle counter held when a hibernation left it behind.

### HartTrap

`Step` is the top of `MiniRV32IMAStep` (timer, mip, WFI, the one interrupt
check), the instruction actions are one instruction each until the batch is
used up; `Goto` ends the batch.  Any program is allowed: every instruction that
touches the trap state may come next, in any order.  `timer` and `timermatch`
are two words of base `Base`, carried by hand as the code does; `now` is the
exact time, which the model compares with.

### ConsoleQueues

One step per queue operation, each core with its own place in its code (`c1`,
`c0`).  `console_putc` adds to the serial queue, then to the screen queue, blocking
on each; `console_task` drains the serial queue, polls USB, feeds the terminal at
most `TERM_BYTES_PER_TASK` bytes, polls the keyboard.  `send_keys` adds a sequence
byte by byte and drops what does not fit.  `cdc` is the USB port: `UsbTask` (`tud_task`)
learns whether a host is there and what it has taken; `RemoveSer` takes a byte off the
queue in any case and hands it to the port, which drops it without a host or without
room (`Fits`), the result being ignored.  Printed bytes are numbered modulo
`Wrap`, which is more than both queues hold, so equal numbers mean equal bytes.

### VtTerminal

`vt` is the emulator's state: cursor, margins, modes and the saved copies.
`vt_putc` is one action per class of byte (`Control`, `Escape`, `Printable`,
`CsiPrefix`, `CsiFinal`, ...) in each parser state, with `run_csi` and its final
bytes as operators on `vt`; each returns the whole state, scroll, erase and
wrap included.  A cell's glyph does not matter to any property; what does is which
cells hold the cursor's colours (`marked`) and which old row each row shows
(`from`, set back at the start of every byte).  `cursor_hide` before a batch of
bytes, `cursor_show` after it and the blink between batches are `terminal.c`'s.

### Ps2Keyboard

The keyboard's side (`Press`, `Release`, typematic repeat, prefixes of scan code
set 2) is environment.  `Frame` is the interrupt over the 11 clocks of one frame,
of which none, one or all may be missed, with or without the 250 ms pause that
resets the count; a frame put together from two reads as any code of `Garbled`.
`Decode` is one turn of `get_iso8859_code` with its flags.  `due` and `got` compare
what was pressed with what is delivered; `whole` and `sure` say which modifiers
have sent a complete event since the last loss.  The decoder is wrong about two
characters: a plain key after right Ctrl (`stray`), and any key when one of two Ctrl
keys has come up and the other is still down (`shared`).  `unsure` suspends the promise
around such a character, until a later key finds everything read (after a loss
characters are not observed at all); a decoder that
types it right satisfies the properties too.  `CtrlLettersArrive` states what
`terminal.c:122` says of these letters, and is violated.

### PetitFs, BlkDevice, BlockDisk

`PetitFs` models `pff.c` by sectors: `pf_open`, `pf_lseek` a cluster per step,
`pf_read` and `pf_write` with the cluster of the sector at the position
(`CurrClust`), and `Abort`, the macro that closes the file on an error.  Any disk
access may fail.  `BlkDevice` EXTENDS it: the driver's five CSR accesses, the
transfer loop a block per step, the saves of the power state through the same
file object, reboots in the middle of a request, hibernation between requests,
power cuts.  `BlockDisk` is what the driver promises its kernel: an array of
blocks, a request that is answered "ok" has moved every block in order, one
answered "ioerr" may have spoiled only what it was about.  `BlkDevice` implements it; the
mapping reads each block through the file's chain, and counts a request as
failing as soon as the file has been closed.

### MmcDisk

The driver a byte at a time.  `Send`/`Poll` are `send_cmd`; `AfterCmd0` ... `AfterCmd16`
are `disk_initialize` between its commands; `disk_readp` and the three uses of
`disk_writep` (start, bytes, finish) follow.  Each counted wait is a counter, so a
late answer, none, or one that comes with the last poll are all there.  The card
(`Answer`, `Exchange`, `Program`) is environment: it may refuse any command, answer
at any poll, take its time over a block, and stay busy after the driver has given
up or the microcontroller has restarted.  It never sends a byte that belongs to
no protocol state, and its data arrive uncorrupted (the driver checks no CRC).

### The proof modules

`PsramCacheProofs`, `VmLifecycleProofs`, `HartProofs`,
`InstretProofs`, `ConsoleProofs` (`ConsoleQueues` and `Ps2Keyboard`), `VtProofs`,
`BlkProofs` (`BlkDevice` with the `PetitFs` it extends), `MmcProofs`.  Each EXTENDS
the components' modules and changes nothing in them.  `Ps2Keyboard` has names of its
own (`Ps2Init`, `Ps2Next`, `Ps2Spec`) so that it can stand beside `ConsoleQueues`.

Definitions under a comment "What a slip would do" (`BadHit`, `LateCarry`, `KeepOpen`)
stand before the right ones and are what a slip in the code would give; no
specification uses them.  PROJECT.json names, for every property, one such
definition that breaks it.

## 3. The runs

| run | states | what it asks | answer |
|---|---|---|---|
| `cache` | 105,280 | no line cached twice, dirty lines valid and in RAM, clean lines equal PSRAM, the flush complete, the last line used is never the victim; the cache implements the flat memory, within a line and until a store past one | holds |
| `lifecycle` | 602,842 | the guest writes its own disk; a finished snapshot is resumed exactly and once; a cut in a running guest is reported; hibernations and boots end | holds |
| `hibernate_cut` | | only whole snapshots are restored | violated |
| `instret` | 928,781 | carries exact, the retry catches a carry between loads, sleeps come out, up to what steps cut short and hibernations leave wrong | holds |
| `instret_torn` | | every sample is a value of its time | violated |
| `hart` | 333,777 | timer exact, no stale interrupt, interrupts within a batch, MRET returns to where the trap struck, sleeps end | holds |
| `console` | 1,216,376 | everything comes to screen and port in order, a host that reads misses nothing, nobody waits on a queue it has seen non-empty, writers return, no task starves | holds |
| `disk` | 892,224 | the guest's disk is an array of blocks and every error is reported; the file position and its cluster agree | holds |
| `terminal` | 633,100 | cursor and margins on the screen, rows outside the margins stay, origin mode keeps the cursor inside, no cell keeps the cursor's colours | holds |
| `keyboard` | 3,200,334 | without a loss, what is typed arrives in order and complete, but around two characters; after a loss, a modifier rights itself | holds |
| `keyboard_rctrl` | | a letter typed with a Ctrl key arrives as such | violated |
| `sd` | 113,216 | the addressing fits the card, OK means done, block bytes go to a card that awaits them, calls return | holds |

### The bounds

* *cache*: two sets, two-byte lines, two chips of three lines.  Lines 0, 2 and 4
  compete for the two ways of set 0, so every miss path (empty way, clean victim,
  dirty victim) is taken with every LRU order; line 4 is on the second chip and
  line 3 begins it, off a set boundary.  Accesses stay within a line or cross it, from
  way 1 or 2 of set 0.  Two byte values tell old from new.
* *lifecycle*: two chunks (a snapshot can be half new), one of them covered by the
  kernel image, two guest changes (work before and after one hibernation), power
  cuts at every program point and STAT errors at every read and write.
* *instret*: base 3, batches of up to 2, totals to 5: a carry, values on both
  sides, and a second carry's worth of room.
* *hart*: base 3, time to 5: matches in the low word only and in both words, a
  carry between them, and a last time past every match; batches of 3, two
  instruction addresses and the one outside RAM.
* *console*: queues of 2, 2 bytes per task, sequences of up to 2 bytes, one key or
  typed byte: each queue is empty, partly full and full, and a reply can meet a
  full key queue while the writer waits on a full screen queue.  The USB buffer holds
  6, one more than a reading host must leave free (`Burst`, 5; in the firmware 129 of
  512), so it is met exactly at that limit and beyond it.
* *disk*: a disk of four blocks in two clusters that stand in reverse order on the
  card, the power state's cluster between them; segments of one and two blocks,
  two buffers.  Transfers begin on, cross and end on a cluster boundary and the end
  of the file, and a wrong cluster is another file's.  Block contents are
  interchangeable (symmetry over `Data`; all properties of the run are safety).
* *terminal*: 2 columns, 4 rows, parameters 0 to 3.  Margins of two and three rows
  leave rows above and below; a count can be more than a region, a row or the
  screen holds.  All screens of two columns have a first, a last and (with wrap
  pending) a past-the-last position.
* *keyboard*: one shift, both Ctrl keys (one has a prefix, and they share a flag), a
  plain and an extended key, a ring of 4 (the longest event, E0 F0 14, just fits), two
  losses.  Two garbled codes: the release
  prefix and a modifier, the two with a lasting effect.  Right shift and AltGr differ
  from these only in their code.
* *keyboard_rctrl*: right Ctrl and a letter, no losses: the fewest keys that show it.
* *sd*: all four kinds of cards, two sectors of two bytes, whose value may be that of
  the data token; every wait counts 2, so an answer comes in time, last or never.

No run turns the deadlock check off: every model can always go on (a card that panics
can lose power, a batch can end).

### Fairness

* `VmLifecycle!FairSpec`: core 1 keeps stepping, past the wait for a key only where
  the code's test (`WaitsForKey`) finds none.  Presses of the key, what the guest does
  and the supply are nobody's duty.
  The end of the batch that asked for hibernation is core 1's step because a
  batch has 4096 instructions at most.
* `HartTrap!FairSpec`: `start_vm` keeps calling the step function and the clock
  advances.  Which instruction the guest executes is free.
* `ConsoleQueues!FairSpec`: core 0's loop and a begun `console_putc` or
  `console_read` go on.  That the guest prints, reads or gets keys is not assumed.
* `MmcDisk!FairSpec`: core 1 goes on with a call it is in.  The card owes nothing: it
  may never answer, never finish a block.

The disk, terminal and keyboard models state no fairness and no liveness.

## 4. What the runs found

* `hibernate_cut`: `start_vm` writes HIBERNATE to STAT before it flushes the
  cache, opens SNAP and writes the first chunk (`emulator.c:375`).  If the supply
  fails during the write (megabytes over bit-banged SPI), or a card error panics
  and the user switches off, the next boot restores a snapshot of which half is
  old and runs it over the live disk.
* `instret_torn`: the high word is compared before and after, but the writer
  stores the halves one after the other; three loads between the two stores agree
  with each other and are off by 2^32.
* `keyboard_rctrl`: right Ctrl's prefix E0 stays set after its make code (`ps2.c:180`),
  so the letter that follows is looked up as an extended key and types nothing, where
  `terminal.c:122` says that Ctrl+letter is a control code.

Behaviour met on the way that contradicts no statement of the repository clearly
enough to be listed, or that a property makes an exception for:

* The results of `vm_save_powerstate` are ignored, so after a failed write of
  RUNNING the same snapshot is resumed again (`ResumedIsFrozen` is stated for a card
  whose STAT writes succeed).
* `emulator.c:114-123` calls the counter less the sleeps "Instructions actually
  retired".  It is wrong both ways: steps that end in WFI or a syscon store return
  before they count their instructions (`mini-rv32ima.h:280`, `424`, against `542`), and
  the cycle CSR is in the snapshot while the idle counter is not, so after a resumption
  the sleeps of the former life count as instructions.  `SleepComesOut` states how
  wrong: never below the instructions run by more than those of steps cut short (`lost`),
  never above by more than the sleeps that hibernations forgot (`forgotten`), exact
  without either.  Both errors occur in the run `instret`.
* MRET puts the privilege it leaves in MPP; the manual the comment quotes makes it
  the least one.
* Nothing changes the reservation of LR but another LR, neither a store nor a trap: a
  handler that stores to the word between LR and SC is not noticed, and its store is lost.
* The patching of the command line searches the DTB with a load at every byte
  (`emulator.c:307`); of those that cross a line, the cache returns bytes from behind the
  line's data.
* The serial port drops what is printed while no host is connected (as `console.c:141`
  says) and what does not fit its buffer, since nobody looks at the result of
  `tud_cdc_write_char` (`console.c:57`).  `ReadingHostMissesNothing` says which host misses
  nothing: one that has left room for twice the queue and one byte when a round begins.
* One transient error in a block transfer closes the guest's disk (`ABORT`) until the
  next boot: every later request fails with "not opened".
* ESC E leaves wrap-pending set with the cursor in column 0; a full reset copies the
  cursor of before the reset into the saved one; a restored cursor is not put back
  within the margins (`OriginHolds` excepts it).
* Left and right Ctrl share a flag (`ps2.c:159`): releasing one of two releases both.  What
  is typed then comes without Ctrl, and is the second exception of the keyboard's
  properties.

## 5. What is proved

Every theorem holds for every value of the constants that satisfies the named
assumptions, which the runs evaluate.  The shape is the same each time: a
strengthening (`IInv`, for the keyboard `KeyboardInv`) that TLC has agreed with on the
run's instance, `Init => IInv`, one lemma per action or group of actions, and the
theorems from the step by PTL.  Every invariant and every action property of the
passing runs is proved, and so are both refinements.
The `Spec` of the theorems has no fairness; the fair specification of a run implies it.

### The cache (`PsramCacheProofs`)

For every line size, number of sets, chip size, one or two chips, byte set and set
of accesses, aligned or not: `TypeCorrect`, `LineCachedOnce`, `CleanVictimsAreSafe`,
`FlushIsComplete`, and `CacheImplementsFlatMemory` (`Spec => ImplementsFlatMemory`).

*Assumptions*: `GeometryAssumption` (sizes are positive), `ByteAssumption`, and
`SpanAssumption`: accesses begin in RAM, and a direct transfer stays within a chip.  The
last follows from the code: chunks of 512 bytes from 0 and from 2048 bytes below the end
of RAM divide a chip of 8 MB.

*What is promised of accesses past a line*: of a load, the bytes as far as the line it
starts in; after a store past its line nothing until the next boot, so `UniqueLine`,
`CleanIsCoherent` and the refinement speak of runs without one.

*The argument.*  None of the invariants is inductive alone.  That a clean line
equals PSRAM can be broken by a write-back to a wrong address, so one needs that
a valid line's tag is that of an address in RAM and that no other way holds the
same line; that a dirty line is valid; that before a reset or a load nothing
is cached; and, during the flush, that a set once passed is coherent although its
dirty bits stay.  `IInv` is the conjunction; `Intact` is `IInv` with no store past a line
in the run so far.  The arithmetic is in
`AddrParts`, `LineParts`, `SameLine`, `Placement` (address, line and cell determine one
another); `EvictedCells` says what the write-back changes, `FetchedLine` what the
access then works on, `AccessStep` is the common step of `cache_read` and
`cache_write`.  For the refinement, `FlatStep` shows action by action that a step
under `IInv` is a step of `FlatMemory` or leaves the viewed memory alone: a miss
moves bytes between line and chip without changing what a read returns.

`MostRecentSurvives` proves the action property `MostRecentStays`.  What keeps the line
of the access before is not `IInv` but the marks, which the macro sets as a side
effect: `Recent` says that the way used last is unmarked and every other way of its set
marked, so that the next victim in this set is another way (`AccessMarks`).

### The lifecycle (`VmLifecycleProofs`)

`TypeCorrect`, `DiskWritesGoToTheDisk`, `ResumedAsFrozen`, `CutsAreReported`, for any
number of chunks and changes (`LifecycleAssumption`).  That a resumed guest is the
frozen one speaks of a boot, but is decided at the hibernation before it, with any
number of power cuts in between.  `IInv` follows the guest through them: what STAT
says at each program point (`Marked`), that the RAM is the frozen one while it is
saved (`Held`), which chunks of the snapshot are already right (`Copied`) and which
of the RAM are already restored (`Kept`), that nobody writes the disk from freezing to the
moment RUNNING is on the card (`SameDisk`), and what a cut leaves behind (`CutKnown`).

### The hart (`HartProofs`)

`TimerCountsTime`, `InterruptsAreFresh`, `InterruptsAreTaken`, `TrapsReturn` and
`TypeCorrect`, for every base, batch length, RAM size and length of time
(`HartAssumption`).  `TakenWithinABatch` needs the relation between how long an
interrupt has waited and what is left of the batch; `ReturnIsExact`, an action
property, that a live context agrees with mepc, MPP and MPIE.

### The counter (`InstretProofs`)

`CarryIsExact`, `RetrySuffices`, `SleepIsNotRetired`, `TypeCorrect`
(`CounterAssumption`: a batch is shorter than a word's range, totals fit in two
words).  `CycleStored` and `IdleStored` say, for each point between two stores, which
half is new; `Account` relates the totals to what was retired; `Sampled` says what
the reader's first two loads leave possible.  The third load is then a matter of
arithmetic: two equal high words and no pair half stored at any of the loads.

### Console and terminal (`ConsoleProofs`, `VtProofs`)

`OutputArrives` (to the screen and to the serial port's code; the port drops bytes for a
host that is not there or does not read), `NothingMissedByReaders`, `SeenStaysThere`,
`TypeCorrect`, for queues of any length (`ConsoleAssumption`).  `Holds` states a queue's
contents position by position; that a core finds what it has seen needs that nobody else
removes from that queue.  `Room` is the argument for the port: while core 0 drains the
serial queue nothing is transmitted, but each byte core 1 adds to it has also to go into
`term_screen_queue`, which core 0 does not touch meanwhile; so a round takes at most what
both queues hold and the byte in hand (`ReadingHostMissesNothing`).

`NoGhostCursor`, `OutsideDoesNotMove`, `TypeCorrect`, for every screen size and
parameter bound (`ScreenAssumption`).  The invariant is small (a well-formed state,
rows that came from rows, nothing painted during a batch); the work is in one lemma
per operation of `vt.c`: each keeps a `Sound` state sound, whatever its parameter.
With `TypeCorrect`, every index the code forms from cursor and margins is in range, as
long as every parameter is in 0..`MaxParam`, whatever that is.  `vt.c:623` adds digits to an
int without a limit, so a number long enough can come out negative; for such a parameter
nothing is claimed.
`OriginModeHolds` (`OriginHolds`) needs the same lemmas once more for the cursor's row:
each operation of a byte keeps `Kept`, the cursor within the margins in origin mode,
but for the restored cursor, which the property excepts.

### The keyboard (`ConsoleProofs`)

`KeyboardInvariant`, `KeysComeAsPressed` (`TypedAsPressed`), `NoKeyIsSwallowed`
(`NothingSwallowed`) and `ModifiersAreRecovered` (`ModifiersRecover`), for every choice of
keys, both Ctrl keys among them, length of the ring, set of garbled codes and number of
losses (`KeyboardAssumption`, `GarbledAssumption`).  The first two promise nothing around a
plain key typed after right Ctrl (it types nothing, section 4) and around one typed when
one of two Ctrl keys has come up (it comes without Ctrl), up to the next key that
finds everything read.

*The argument.*  Between a press and what it types there are codes on the wire and
in the ring, whose effect depends on the flags that the codes before them will
leave.  The invariant therefore runs the decoder ahead: there is a function `r` over the
ring, from the decoder's state to the flags after each code (`Flags`), and one of how many
of the characters due each code will have delivered (`Tally`).  Of the end of that run,
once the rest of the event on the wire is added (`Finish`), it says: without a loss the
flags are those of the keys held (`Exact`; with a Ctrl key released while the other is down,
Ctrl counts as up) and the characters all those due
(`Promised`); after a loss, the release prefix is gone as soon as one whole event has
passed, and each modifier that has sent one since has its flag right (`AtEnd`).  A
press or release lengthens the wire (`PressEnds`, `ReleaseEnds`: what each key's codes
do to any flags), a frame moves a code from the wire to the ring without changing the
end (`ArriveStep`), a lost one gives up the promises (`LostStep`), and the decoder's step
is the first of the run (`DecodeIsAfter`, `RunTail`, `TallyTail`).  The existential over `r` and
`d` is out of TLC's reach as it stands; TLC has agreed with the invariant with both computed
along the ring.

### The disk (`BlkProofs`)

`TypeCorrect`, `PositionIsKnown` (`PositionKnown`) and `DiskIsAnArrayOfBlocks`
(`Spec => ImplementsBlockDisk`), for every volume, cluster size, capacity, RAM and length
of request.

*Assumptions*: `SizeAssumption` (clusters are not empty, the data area does not begin
at sector 0), `VolumeAssumption` (a sound volume: each file's chain is in the table and
long enough for the file, and no cluster is in two places), `DeviceAssumption` (the disk
and the power state are two files, the second not empty) and `WholeFileAssumption` (the
image is as long as the device announces).  The last is not the code's doing: the device
announces 64 MB (`emulator.c:27`) whatever the file is, and `src/README.md:93` speaks of a
60 MB rootfs.  The theorems and the run are about cards whose file is that long.

*The argument.*  `TypeOK` says that what is written lands on a sector of the data area;
that needs the cluster of the position to be the right one, which `pf_lseek` and the
transfers each take from the step before.  The whole of it is `PositionKnown`: the
remembered cluster is the chain's at the sector before the position, or within a seek
at the position itself.  The arithmetic of clusters (`DivModUnique`, `FromBoundary`,
`CurrentCluster`) and `SectorsApart` (two sectors of files that are one sector of the card
are the same sector of the same file) turn that into "the sector transferred is this block".
`IInv` adds that the registers are the request's (`Asked`), that a seek ends where the
request begins (`Sought`) and that position, RAM pointer and blocks done go together while
the file is open (`Moving`), from which `blk_err` of the last block says whether the file
was open throughout.  For the refinement, each action is a step of `BlockDisk` or leaves
the disk that the kernel sees alone: saving the power state writes no sector of the image, a
round of the loop moves one block or spoils at most that one.

### The card (`MmcProofs`)

`AddressingFits`, for every count of polls and tries, sector size and set of kinds
(`CardAssumption`).  The danger is a high-capacity card taken for an old one because
an answer was late; `Unmoved` says that such a card is never told that the host knows its
kind, stays idle, and so never gives the answer that would end the wrong path.  It rests
on the card being reset and not busy (`Reset`, `Heard`): a busy card's zeros read as OK.

`OkIsDone` (`OkMeansDone`) and `BlocksAreAwaited` (`BlockIsAwaited`), under the same
assumption.  `TInv` puts the card beside the driver at each program point of a
transfer: while the driver polls, the card owes it no other answer than that
(`Awaiting`); of the bytes of the sector, those that have passed are in the buffer as far
as they were asked for and the others are still to come (`Reading`); of a block written,
the card has what was sent and the driver the rest (`Writing`).  A card left busy by an
earlier call is part of it: its zeros may be taken for an answer to CMD17, but no token
follows, and what it still programs is a whole block.

### Only model-checked

* Liveness (`HibernationStops`, `BootEnds`, `SleepEnds`, `PutReturns`,
  `EveryTaskRuns`, `CallsReturn`): fairness is out of the prover's reach.
* That the invariants' instances are reached, that every action fires, and that each
  property can fail at all: a matter of runs and of the broken definitions.

## 6. What is left out, and why

* Bit timing of SPI, PIO and DMA, and `psram_init`'s reset sequence: one outcome,
  success or panic.  The frames of the keyboard are counted in clocks, their bits are not modelled.
* Device-tree patching and messages: no state the machine depends on later.
* The syscon value 3: it makes `start_vm` end without a return value, and no guest
  of the repository writes it.
* A write of a sector that a loss of power cuts in half: the card's own business.
* Corrupted bytes between driver and card: the driver checks no CRC, so nothing can be
  promised about them.
* Mounting the volume and searching the directory: one outcome each.  `pff.c`'s other
  functions are not built.
* A disk image shorter than the 64 MB the device announces: `WholeFileAssumption`.  The
  truncation at the end of the file is modelled; without the assumption the guest's
  writes beyond it vanish with an OK.
* Hibernation in the middle of a block request.  That it does not happen is an assumption
  about the guest: Linux freezes its tasks on its way into hibernation, but no guest code
  in the repository shows that this is what writes the CSR.
* LR and SC.  SC compares addresses, and only another LR changes the reservation; whether
  that is enough depends on what the guest's handlers do to the word in between.
* What a guest does after a store past a cache line: until the next boot, anything.
* Glyphs, the guest's colours (SGR) and the terminal's replies; parameters above
  `MaxParam`.  The code accumulates them in an int without a cap.
* VGA, USB tables, the desktop harness and the guest's programs: see PROJECT.json.

Most of the C in the repository is an earlier vendored port with its full FatFs and SD
libraries (`src/upstream/pico-linux`), which the firmware's build does not use; code
page tables and headers make up the larger part of it.  The map therefore stands for a small
share of all lines, and for most of the lines of the firmware's own logic.

## 7. The plan

Done: cache, lifecycle, counter, hart traps, console, terminal,
keyboard, disk, card driver, with the proofs above.  Left, in this order; each module
is parameterised by CONSTANTS with named assumptions and has no RECURSIVE operator:

1. `StatusPanel`: rows, dirty pages, chunks.  The hazard is a page redrawn between its
   two chunks, which stays half stale on the panel.
2. `GpioCsr`: select and operate as two steps of two tasks of the guest.
3. `BlkDevice` over `MmcDisk`: the outcomes that `PetitFs` chooses freely replaced by those
   of the card driver, and `VmLifecycle` over `BlkDevice` in place of `GuestDiskWrite`.
4. `HartIsa`: decoding and arithmetic as operators over words of small width,
   against reference definitions.
5. Proofs about these as they come; a refinement of `PetitFs`'s free outcomes by
   `MmcDisk`'s calls, with `OkMeansDone` as the lemma in the middle.
