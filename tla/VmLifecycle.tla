----------------------------- MODULE VmLifecycle -----------------------------
(***************************************************************************)
(* The life of the virtual machine on core 1: vm_init_hw and start_vm      *)
(* (emulator.c), called for ever by core1_entry (main.c).                  *)
(*                                                                         *)
(* The SD card keeps the power state (file STAT), the snapshot (SNAP) and  *)
(* the guest's disk (BLK) across a loss of power; Petit FatFs has a single *)
(* open file.  Contents are stamps: every guest step that changes memory,  *)
(* the hart or the disk uses a fresh one, so two contents are the same     *)
(* exactly when their stamps are.  Stamp 0 is what a cold boot loads.      *)
(***************************************************************************)
EXTENDS Integers

CONSTANTS
  Chunks,     \* the blk_buf-sized pieces of RAM, 1..ram_amt / 512
  Loaded,     \* the pieces the kernel image and the device tree cover
  MaxStamp,   \* bound on the guest's changes
  PowerCuts,  \* program points where the supply may fail
  SdFaults    \* whether reading or writing STAT may fail

ASSUME LifecycleAssumption ==
  /\ Chunks \in Nat \ {0}
  /\ Loaded \subseteq 1..Chunks
  /\ MaxStamp \in Nat
  /\ SdFaults \in BOOLEAN

Code == {"POWEROFF", "HIBERNATE", "REBOOT", "GET_SD", "RUNNING", "UNKNOWN"}

(* vmStage, in its declared order.                                         *)
INIT     == 0
PSRAM_OK == 1
SD_OK    == 2
LOADING  == 3
RUNNING  == 4
HALTED   == 5
Stage == INIT..HALTED

(* Program points of core 1, those of a boot and of a hibernation apart.   *)
Hibernating == {"h_stat", "h_flush", "h_open", "h_ram", "h_core", "h_end"}
Booting == {"open", "load", "dtb", "save", "blk"}
Point == {"off", "psram", "sd", "wait", "panic", "run"} \cup Booting \cup Hibernating

(* RAM, the hart's registers, and whether a boot has just set those that   *)
(* it sets (pc, a0, a1, the privilege).                                    *)
Image == [ram : [1..Chunks -> 0..MaxStamp], core : 0..MaxStamp, entry : BOOLEAN]

VARIABLES
  \* on the SD card
  stat,        \* STAT
  snap,        \* SNAP: RAM, then the hart
  disk,        \* BLK
  \* in the firmware
  pc,          \* program point of core 1
  state,       \* vm_state of core1_entry, prev_power_state of start_vm
  stage,       \* vm_stage
  image,       \* the guest's RAM and hart
  hibernate_request,
  file,        \* the one file Petit FatFs has open
  chunk,       \* the RAM chunk the snapshot writer is at
  warned,      \* this boot said "System hasn't been cleanly shutdown"
  \* history
  stamp,       \* the last stamp used
  frozen,      \* guest and disk when the last hibernation began
  whole,       \* that hibernation finished writing its snapshot
  cut,         \* the supply failed while the guest was running
  missed       \* a read or a write of STAT failed

card == <<stat, snap, disk>>
history == <<stamp, frozen, whole, cut, missed>>
vars == <<card, pc, state, stage, image, hibernate_request, file, chunk, warned, history>>

Cold == [ram |-> [k \in 1..Chunks |-> 0], core |-> 0, entry |-> FALSE]

Init ==
  /\ stat \in {"POWEROFF", "UNKNOWN"}
  /\ snap = Cold
  /\ disk = 0
  /\ pc = "off"
  /\ state = "GET_SD"
  /\ stage = INIT
  /\ image = Cold
  /\ hibernate_request = FALSE
  /\ file = "none"
  /\ chunk = 1
  /\ warned = FALSE
  /\ stamp = 0
  /\ frozen = [image |-> Cold, disk |-> 0]
  /\ whole = FALSE
  /\ cut = FALSE
  /\ missed = FALSE

-----------------------------------------------------------------------------
(* Power, and vm_init_hw.                                                  *)

PowerOn ==
  /\ pc = "off"
  /\ pc' = "psram"
  /\ UNCHANGED <<card, state, stage, image, hibernate_request, file, chunk, warned, history>>

(* The card keeps its files; everything else starts over.                  *)
PowerCut ==
  /\ pc \in PowerCuts \ {"off"}
  /\ pc' = "off"
  /\ state' = "GET_SD"
  /\ stage' = INIT
  /\ image' = Cold
  /\ hibernate_request' = FALSE
  /\ file' = "none"
  /\ chunk' = 1
  /\ warned' = FALSE
  /\ cut' = (cut \/ pc = "run")
  /\ UNCHANGED <<card, stamp, frozen, whole, missed>>

(* console_panic never returns.                                            *)
Panic ==
  /\ pc' = "panic"
  /\ UNCHANGED <<card, state, stage, image, hibernate_request, file, chunk, warned, history>>

psram_init ==
  /\ pc = "psram"
  /\ \/ /\ pc' = "sd"
        /\ stage' = PSRAM_OK
        /\ UNCHANGED <<card, state, image, hibernate_request, file, chunk, warned, history>>
     \/ Panic

(* Up to five tries; the outcome is all that matters.                      *)
pf_mount ==
  /\ pc = "sd"
  /\ \/ /\ pc' = "wait"
        /\ stage' = SD_OK
        /\ UNCHANGED <<card, state, image, hibernate_request, file, chunk, warned, history>>
     \/ Panic

-----------------------------------------------------------------------------
(* start_vm: from the power button to the guest's first instruction.       *)

(* start_vm begins with a wait for a key, unless the guest asked for the   *)
(* reboot.  (What a slip would do: wait each time.)                        *)
WaitAlways == TRUE
WaitsForKey == state # "REBOOT"

(* The key is pressed, or there is no wait for it.  The saved power        *)
(* state is read once per power-up only; later rounds use what start_vm    *)
(* returned.                                                               *)
Begin ==
  /\ pc = "wait"
  /\ pc' = "open"
  /\ stage' = LOADING
  /\ IF state = "GET_SD"
     THEN \/ state' = stat /\ file' = "STAT" /\ UNCHANGED missed
          \/ SdFaults /\ state' = "UNKNOWN" /\ file' \in {"STAT", "none"} /\ missed' = TRUE
     ELSE UNCHANGED <<state, file, missed>>
  /\ warned' = (state' = "RUNNING")
  /\ hibernate_request' = FALSE
  /\ UNCHANGED <<card, image, chunk, stamp, frozen, whole, cut>>

Resuming == state = "HIBERNATE"

OpenImage ==
  /\ pc = "open"
  /\ \/ /\ pc' = "load"
        /\ file' = IF Resuming THEN "SNAP" ELSE "IMAGE"
        /\ UNCHANGED <<card, state, stage, image, hibernate_request, chunk, warned, history>>
     \/ Panic

EndlessLoad == pc = "load" /\ UNCHANGED vars

(* psram_load_file(0), and the hart behind it in a snapshot.  A kernel     *)
(* image ends before RAM does: what lies past it stays.                    *)
LoadImage ==
  /\ pc = "load"
  /\ \/ /\ image' = IF Resuming THEN snap
                    ELSE [image EXCEPT !.ram =
                            [k \in 1..Chunks |-> IF k \in Loaded THEN 0 ELSE @[k]]]
        /\ pc' = IF Resuming THEN "save" ELSE "dtb"
        /\ UNCHANGED <<card, state, stage, hibernate_request, file, chunk, warned, history>>
     \/ Panic

(* The device tree, its patches and the hart's start registers; every      *)
(* other register is what the last guest left in it.                       *)
LoadDtb ==
  /\ pc = "dtb"
  /\ \/ /\ pc' = "save"
        /\ file' = "DTB"
        /\ image' = [image EXCEPT !.entry = TRUE]
        /\ UNCHANGED <<card, state, stage, hibernate_request, chunk, warned, history>>
     \/ Panic

(* vm_save_powerstate opens STAT in place of whatever was open; its result *)
(* is never looked at.                                                     *)
vm_save_powerstate(code) ==
  \/ /\ stat' = code
     /\ file' = "STAT"
     /\ UNCHANGED missed
  \/ /\ SdFaults
     /\ UNCHANGED stat
     /\ file' \in {"STAT", "none"}
     /\ missed' = TRUE

(* (Definitions a code slip would give -- SkipSaveRunning, ForgetBlk,      *)
(* EndlessFlush, EndlessLoad, LateChunkTest -- stand beside the right      *)
(* ones.)                                                                  *)
SkipSaveRunning ==
  /\ pc = "save"
  /\ pc' = "blk"
  /\ file' = "STAT"
  /\ UNCHANGED <<card, state, stage, image, hibernate_request, chunk, warned, history>>

SaveRunning ==
  /\ pc = "save"
  /\ pc' = "blk"
  /\ vm_save_powerstate("RUNNING")
  /\ UNCHANGED <<snap, disk, state, stage, image, hibernate_request, chunk, warned,
                 stamp, frozen, whole, cut>>

ForgetBlk ==
  /\ pc = "blk"
  /\ pc' = "run"
  /\ stage' = RUNNING
  /\ UNCHANGED <<card, state, image, hibernate_request, file, chunk, warned, history>>

OpenBlk ==
  /\ pc = "blk"
  /\ \/ /\ pc' = "run"
        /\ file' = "BLK"
        /\ stage' = RUNNING
        /\ cut' = FALSE
        /\ UNCHANGED <<card, state, image, hibernate_request, chunk, warned, stamp, frozen, whole, missed>>
     \/ Panic

-----------------------------------------------------------------------------
(* The guest runs, in batches of instructions.                             *)

GuestStep(k) ==
  /\ pc = "run"
  /\ stamp < MaxStamp
  /\ stamp' = stamp + 1
  /\ image' = [image EXCEPT !.ram[k] = stamp', !.core = stamp', !.entry = FALSE]
  /\ UNCHANGED <<card, pc, state, stage, hibernate_request, file, chunk, warned, frozen, whole, cut, missed>>

(* A block write goes to the open file, whichever that is.                 *)
GuestDiskWrite ==
  /\ pc = "run"
  /\ stamp < MaxStamp
  /\ stamp' = stamp + 1
  /\ disk' = IF file = "BLK" THEN stamp' ELSE disk
  /\ stat' = IF file = "STAT" THEN "UNKNOWN" ELSE stat
  /\ UNCHANGED <<snap, pc, state, stage, image, hibernate_request, file, chunk, warned, frozen, whole, cut, missed>>

(* CSR 0x170; the rest of the batch still runs.                            *)
RequestHibernate ==
  /\ pc = "run"
  /\ ~hibernate_request
  /\ hibernate_request' = TRUE
  /\ UNCHANGED <<card, pc, state, stage, image, file, chunk, warned, history>>

(* A syscon store ends the batch; any other value is the default branch,   *)
(* which alone does not set the stage.                                     *)
Exit(code) ==
  /\ pc = "run"
  /\ vm_save_powerstate(code)
  /\ pc' = "wait"
  /\ state' = code
  /\ stage' = IF code = "UNKNOWN" THEN stage ELSE HALTED
  /\ UNCHANGED <<snap, disk, image, hibernate_request, chunk, warned,
                 stamp, frozen, whole, cut>>

-----------------------------------------------------------------------------
(* Hibernation, at the end of the batch that asked for it.                 *)

EndBatch ==
  /\ pc = "run"
  /\ hibernate_request
  /\ pc' = "h_stat"
  /\ frozen' = [image |-> image, disk |-> disk]
  /\ whole' = FALSE
  /\ UNCHANGED <<card, state, stage, image, hibernate_request, file, chunk, warned, stamp, cut, missed>>

SaveHibernate ==
  /\ pc = "h_stat"
  /\ pc' = "h_flush"
  /\ vm_save_powerstate("HIBERNATE")
  /\ UNCHANGED <<snap, disk, state, stage, image, hibernate_request, chunk, warned,
                 stamp, frozen, whole, cut>>

EndlessFlush == pc = "h_flush" /\ UNCHANGED vars

(* cache_flush: PsramCache shows that the chunks read below are then the   *)
(* guest's RAM.                                                            *)
Flush ==
  /\ pc = "h_flush"
  /\ pc' = "h_open"
  /\ UNCHANGED <<card, state, stage, image, hibernate_request, file, chunk, warned, history>>

OpenSnap ==
  /\ pc = "h_open"
  /\ \/ /\ pc' = "h_ram"
        /\ file' = "SNAP"
        /\ chunk' = 1
        /\ UNCHANGED <<card, state, stage, image, hibernate_request, warned, history>>
     \/ Panic

LateChunkTest ==
  /\ pc = "h_ram"
  /\ \/ /\ snap' = [snap EXCEPT !.ram[chunk] = image.ram[chunk]]
        /\ chunk' = chunk + 1
        /\ pc' = IF chunk > Chunks THEN "h_core" ELSE "h_ram"
        /\ UNCHANGED <<stat, disk, state, stage, image, hibernate_request, file, warned, history>>
     \/ Panic

(* Each chunk is one whole sector, on the card when pf_write returns.      *)
WriteChunk ==
  /\ pc = "h_ram"
  /\ \/ /\ snap' = [snap EXCEPT !.ram[chunk] = image.ram[chunk]]
        /\ chunk' = chunk + 1
        /\ pc' = IF chunk = Chunks THEN "h_core" ELSE "h_ram"
        /\ UNCHANGED <<stat, disk, state, stage, image, hibernate_request, file, warned, history>>
     \/ Panic

(* The hart is part of a sector: pf_write streams it, the finalising       *)
(* pf_write(0, 0) commits it.                                              *)
WriteCore ==
  /\ pc = "h_core"
  /\ \/ /\ pc' = "h_end"
        /\ UNCHANGED <<card, state, stage, image, hibernate_request, file, chunk, warned, history>>
     \/ Panic

Finalize ==
  /\ pc = "h_end"
  /\ \/ /\ snap' = [snap EXCEPT !.core = image.core, !.entry = image.entry]
        /\ pc' = "wait"
        /\ state' = "HIBERNATE"
        /\ whole' = TRUE
        /\ UNCHANGED <<stat, disk, stage, image, hibernate_request, file, chunk, warned,
                       stamp, frozen, cut, missed>>
     \/ Panic

-----------------------------------------------------------------------------
Core1 ==
  \/ psram_init \/ pf_mount
  \/ OpenImage \/ LoadImage \/ LoadDtb \/ SaveRunning \/ OpenBlk
  \/ EndBatch \/ SaveHibernate \/ Flush \/ OpenSnap \/ WriteChunk \/ WriteCore \/ Finalize

Guest ==
  \/ \E k \in 1..Chunks : GuestStep(k)
  \/ GuestDiskWrite \/ RequestHibernate
  \/ \E code \in {"POWEROFF", "REBOOT", "UNKNOWN"} : Exit(code)

Next == PowerOn \/ PowerCut \/ Begin \/ Core1 \/ Guest

Spec == Init /\ [][Next]_vars

(* Core 1 keeps stepping, past the wait for a key only where there is none.*)
(* Whether a key is pressed, and what the guest does, is nobody's duty.    *)
(* The batch bound (4096 instructions) makes the end of a batch a step     *)
(* core 1 must take.                                                       *)
FairSpec == Spec /\ WF_vars(Core1 \/ (~WaitsForKey /\ Begin))

-----------------------------------------------------------------------------
(* Every variable has its type.                                            *)
TypeOK ==
  /\ stat \in Code
  /\ snap \in Image /\ image \in Image
  /\ disk \in 0..MaxStamp
  /\ pc \in Point
  /\ state \in Code
  /\ stage \in Stage
  /\ {hibernate_request, warned, whole, cut, missed} \subseteq BOOLEAN
  /\ file \in {"none", "STAT", "IMAGE", "SNAP", "DTB", "BLK"}
  /\ chunk \in 1..(Chunks + 1)
  /\ stamp \in 0..MaxStamp
  /\ frozen \in [image : Image, disk : 0..MaxStamp]

(* While the guest runs, the one open file is its disk.  Saving the power  *)
(* state silently switches files (vm_save_powerstate), so the order of the *)
(* last two steps of a boot is what keeps block writes off STAT.           *)
GuestWritesItsDisk == pc = "run" => file = "BLK"

(* A guest resumed from a finished snapshot is the one that was frozen,    *)
(* over the disk it was frozen with: no chunk is missing or misplaced, and *)
(* no snapshot is taken up again after its guest went on and changed the   *)
(* disk (why RUNNING is saved before the disk is opened), wherever the     *)
(* supply fails.  (Where STAT could not be written, nobody looks at the    *)
(* result and this no longer holds.)                                       *)
ResumedIsFrozen ==
  pc \in {"save", "blk"} /\ Resuming /\ whole /\ ~missed =>
    frozen = [image |-> image, disk |-> disk]

(* README.md:15 of tiny-rv32ima: "Supports hibernating to SD card".  Only  *)
(* a finished snapshot should be restored; start_vm saves HIBERNATE before *)
(* the first chunk is written, so a power cut or a card error on the way   *)
(* leaves a card that restores half a snapshot.                            *)
OnlyWholeSnapshots == pc \in {"load", "save", "blk"} /\ Resuming => whole

(* A boot that follows a power cut in a running guest loads the kernel and *)
(* says so; it never takes up an old snapshot (as long as STAT can be     *)
(* read and written).                                                       *)
CutIsReported ==
  cut /\ ~missed /\ pc \in Booting => warned /\ ~Resuming

(* A guest that asked to hibernate stops: it ends in the wait for a key    *)
(* (or in a panic, or the supply fails).                                   *)
HibernationStops ==
  hibernate_request ~> pc \in {"wait", "panic", "off"}

(* Once started, or asked for by the guest, a boot reaches the guest or a  *)
(* panic; it never hangs and never waits for a key.                        *)
BootEnds ==
  pc \in Booting \/ (pc = "wait" /\ state = "REBOOT") ~> pc \in {"run", "panic", "off"}
=============================================================================
