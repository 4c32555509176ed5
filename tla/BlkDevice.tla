----------------------------- MODULE BlkDevice -----------------------------
(***************************************************************************)
(* The guest's disk: the block driver's five CSR accesses, the emulator's  *)
(* handling of them over Petit FatFs, and the other use of the one open    *)
(* file, the power state.  RAM is counted in block-sized cells.            *)
(* A segment of a request of the kernel is a request here: the driver's    *)
(* loop asks for the next one where the last ended, or stops on an error.  *)
(***************************************************************************)
EXTENDS PetitFs

CONSTANTS BLK, STAT,  \* two of the files
          Capacity,   \* blk_size, in blocks
          Cells,      \* buffers in RAM: 0 .. Cells - 1
          MaxLen      \* bound: blocks of one segment

Block == 0 .. Capacity - 1
Cell == 0 .. Cells - 1

ASSUME DeviceAssumption ==
  /\ {BLK, STAT} \subseteq File /\ BLK # STAT
  /\ Capacity \in Nat /\ Cells \in Nat
  /\ MaxLen \in Nat
  /\ fsize[STAT] > 0

(* The image on the card is as long as the size the device announces.      *)
(* Nothing in the firmware looks: blk_size is 64 MB whatever the file is,  *)
(* while the README speaks of a 60 MB rootfs (src/README.md:93).           *)
ASSUME WholeFileAssumption == Capacity <= fsize[BLK]

VARIABLES pc,                 \* where core 1 is
          blk_ram_ptr, blk_transfer_size, blk_err, nblocks,
          drv, req, answer,   \* the guest's driver
          ram

csrVars == <<blk_ram_ptr, blk_transfer_size, blk_err, nblocks>>
drvVars == <<drv, req, answer>>
vars == <<pffVars, pc, csrVars, drvVars, ram>>

Nothing == [op |-> "none", pos |-> 0, len |-> 0, buf |-> 0]

Init ==
  /\ PffInit
  /\ pc = "off"
  /\ blk_ram_ptr = 0 /\ blk_transfer_size = 0 /\ blk_err = "OK" /\ nblocks = 0
  /\ drv = "idle" /\ req = Nothing /\ answer = "none"
  /\ ram \in [Cell -> Data]

-----------------------------------------------------------------------------
(* The machine around it.                                                  *)
Forget == drv' = "idle" /\ req' = Nothing /\ answer' = "none"

(* start_vm up to the call that saves EMU_RUNNING.                         *)
Boot ==
  /\ pc = "off" /\ pc' = "save"
  /\ UNCHANGED <<pffVars, csrVars, drvVars, ram>>

(* vm_save_powerstate: opens STAT and writes its first byte; whatever      *)
(* fails, nobody looks.                                                    *)
SaveState ==
  /\ pc \in {"save", "halt"}
  /\ pc' = IF pc = "save" THEN "open" ELSE "off"
  /\ \/ /\ fs' = [file |-> STAT, opened |-> TRUE, fptr |-> 1, curr |-> chain[STAT][1]]
        /\ \E d \in Data : card' = [card EXCEPT ![SectorOf(STAT, 0)] = d]
     \/ /\ Faults
        /\ fs' = [fs EXCEPT !.file = STAT, !.opened = FALSE, !.fptr = 0]
        /\ \/ UNCHANGED card
           \/ \E d \in Data : card' = [card EXCEPT ![SectorOf(STAT, 0)] = d]
  /\ UNCHANGED <<ofs, csrVars, drvVars, ram>>

OpenBlk ==
  /\ pc = "open"
  /\ \/ pf_open(BLK, TRUE) /\ pc' = "run"
     \/ Faults /\ pf_open(BLK, FALSE) /\ pc' = "panic"
  /\ UNCHANGED <<csrVars, drvVars, ram>>

(* The guest ends, by rebooting or by switching itself off, wherever its   *)
(* driver is; or it is put to sleep between two requests and wakes there.  *)
Reboot ==
  /\ pc = "run" /\ pc' = "halt"
  /\ Forget
  /\ UNCHANGED <<pffVars, csrVars, ram>>

Hibernate ==
  /\ pc = "run" /\ drv = "idle" /\ pc' = "halt"
  /\ UNCHANGED <<pffVars, csrVars, drvVars, ram>>

PowerCut ==
  /\ pc' = "off"
  /\ IF pc = "off" THEN UNCHANGED drvVars ELSE Forget
  /\ fs' = Abort(fs) /\ ofs' = 0
  /\ blk_ram_ptr' = 0 /\ blk_transfer_size' = 0 /\ blk_err' = "OK" /\ nblocks' = 0
  /\ UNCHANGED <<card, ram>>

-----------------------------------------------------------------------------
(* The guest's driver: ask, five CSR accesses, answer.                     *)
Fill ==
  /\ pc = "run" /\ drv = "idle"
  /\ \E c \in Cell, d \in Data : ram' = [ram EXCEPT ![c] = d]
  /\ UNCHANGED <<pffVars, pc, csrVars, drvVars>>

Segments == [op : {"read", "write"}, pos : 0 .. Capacity, len : 1 .. MaxLen, buf : Cell]

Request ==
  /\ pc = "run" /\ drv = "idle"
  /\ \E r \in Segments :
       /\ r.buf + r.len <= Cells
       /\ IF r.pos + r.len > Capacity
          THEN answer' = "ioerr" /\ UNCHANGED <<drv, req>>
          ELSE answer' = "none" /\ drv' = "ram" /\ req' = r
  /\ UNCHANGED <<pffVars, pc, csrVars, ram>>

SetRam ==
  /\ pc = "run" /\ drv = "ram" /\ drv' = "offs"
  /\ blk_ram_ptr' = req.buf
  /\ UNCHANGED <<pffVars, pc, blk_transfer_size, blk_err, nblocks, req, answer, ram>>

SetOffs ==
  /\ pc = "run" /\ drv = "offs" /\ drv' = "size"
  /\ IF fs.opened
     THEN SeekStart(req.pos) /\ pc' = "seek" /\ UNCHANGED blk_err
     ELSE blk_err' = "NOT_OPENED" /\ UNCHANGED <<pffVars, pc>>
  /\ UNCHANGED <<blk_ram_ptr, blk_transfer_size, nblocks, req, answer, ram>>

Seek ==
  /\ pc = "seek"
  /\ \/ SeekFollow /\ UNCHANGED <<pc, blk_err>>
     \/ SeekAbort /\ pc' = "run" /\ blk_err' = "DISK_ERR"
     \/ SeekDone /\ pc' = "run" /\ blk_err' = "OK"
  /\ UNCHANGED <<blk_ram_ptr, blk_transfer_size, nblocks, drvVars, ram>>

SetSize ==
  /\ pc = "run" /\ drv = "size" /\ drv' = "go"
  /\ blk_transfer_size' = req.len
  /\ UNCHANGED <<pffVars, pc, blk_ram_ptr, blk_err, nblocks, req, answer, ram>>

(* What a slip would do: one round too many.                               *)
AfterOneMore(left) == IF left < 0 THEN "run" ELSE "move"
(* while (nblocks--)                                                       *)
After(left) == IF left = 0 THEN "run" ELSE "move"

Go ==
  /\ pc = "run" /\ drv = "go" /\ drv' = "status"
  /\ nblocks' = blk_transfer_size
  /\ pc' = After(nblocks')
  /\ UNCHANGED <<pffVars, blk_ram_ptr, blk_transfer_size, blk_err, req, answer, ram>>

(* One round of the loop over the blocks: RAM goes out through the cache,  *)
(* or blk_buf comes in, whatever pf_read has put there.                    *)
MoveBlock ==
  /\ pc = "move"
  /\ \E rc \in {"OK", "DISK_ERR", "NOT_OPENED"}, d \in Data :
       /\ \/ req.op = "write" /\ d = ram[blk_ram_ptr] /\ pf_write(rc, d) /\ UNCHANGED ram
          \/ req.op = "read" /\ pf_read(rc, d) /\ ram' = [ram EXCEPT ![blk_ram_ptr] = d]
       /\ blk_err' = rc
  /\ blk_ram_ptr' = blk_ram_ptr + 1
  /\ nblocks' = nblocks - 1
  /\ pc' = After(nblocks')
  /\ UNCHANGED <<blk_transfer_size, drvVars>>

Status ==
  /\ pc = "run" /\ drv = "status" /\ drv' = "idle"
  /\ answer' = IF blk_err = "OK" THEN "ok" ELSE "ioerr"
  /\ req' = Nothing
  /\ UNCHANGED <<pffVars, pc, csrVars, ram>>

Next ==
  \/ Boot \/ SaveState \/ OpenBlk \/ Reboot \/ Hibernate \/ PowerCut
  \/ Fill \/ Request \/ SetRam \/ SetOffs \/ Seek \/ SetSize \/ Go \/ MoveBlock \/ Status

Spec == Init /\ [][Next]_vars

-----------------------------------------------------------------------------
TypeOK ==
  /\ PffTypeOK
  /\ pc \in {"off", "save", "open", "run", "seek", "move", "halt", "panic"}
  /\ blk_ram_ptr \in 0 .. Cells
  /\ blk_transfer_size \in 0 .. MaxLen
  /\ nblocks \in 0 .. MaxLen
  /\ blk_err \in {"OK", "DISK_ERR", "NOT_OPENED"}
  /\ drv \in {"idle", "ram", "offs", "size", "go", "status"}
  /\ req \in Segments \cup {Nothing}
  /\ answer \in {"none", "ok", "ioerr"}
  /\ ram \in [Cell -> Data]

(* Wherever the position stands, curr_clust is the cluster of the sector   *)
(* before it; during a seek it is the cluster at the position itself.      *)
(* pf_lseek and the next transfer both go on from that cluster, and on a   *)
(* boundary the two ways of counting differ by one (pff.c 1062-1084).      *)
PositionKnown ==
  fs.opened =>
    IF pc = "seek"
    THEN \/ ofs = 0 /\ fs.fptr = 0
         \/ ofs > 0 /\ fs.fptr % csize = 0 /\ fs.curr = Place(fs.file, fs.fptr)
    ELSE fs.fptr > 0 => fs.curr = Place(fs.file, fs.fptr - 1)

(* The guest sees an array of blocks: a request answered "ok" has moved    *)
(* every block, an error in any of them is reported although blk_err is    *)
(* overwritten for each, and saving the power state through the same file  *)
(* object touches no block (emulator.c 161-174, 459-487).                  *)
BlockDevice == INSTANCE BlockDisk WITH
  disk <- [b \in Block |-> card[SectorOf(BLK, b)]],
  io <- IF drv = "idle" THEN [req |-> Nothing, done |-> 0]
        ELSE [req |-> req,
              done |-> IF ~fs.opened THEN -1
                       ELSE IF drv = "status" THEN req.len - nblocks ELSE 0]

ImplementsBlockDisk == BlockDevice!Spec
=============================================================================
