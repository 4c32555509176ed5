-------------------------- MODULE VmLifecycleProofs --------------------------
(***************************************************************************)
(* The life of the virtual machine, for any size of the snapshot, any      *)
(* number of guest changes, and power cuts at any set of program points:   *)
(* block writes go to the guest's disk, what is resumed from a finished    *)
(* snapshot is what was frozen, and a cut in a running guest is reported.  *)
(***************************************************************************)
EXTENDS VmLifecycle, TLAPS

-----------------------------------------------------------------------------
(* The invariant.                                                          *)

(* RUNNING is on the card before the guest's disk is opened.               *)
Marked == ~missed /\ pc \in {"blk", "run", "h_stat"} => stat = "RUNNING"

(* While a snapshot is written, nothing moves.                             *)
Held ==
  pc \in Hibernating => ~whole /\ image = frozen.image /\ disk = frozen.disk

(* The pieces written so far.                                              *)
Copied ==
  /\ pc = "h_ram" => /\ chunk \in 1..Chunks
                     /\ \A k \in 1..(chunk - 1) : snap.ram[k] = image.ram[k]
  /\ pc \in {"h_core", "h_end"} => snap.ram = image.ram

(* A finished snapshot is what was frozen, and what is resumed.            *)
Kept ==
  /\ whole => snap = frozen.image
  /\ pc \in {"save", "blk"} /\ Resuming => image = snap
  /\ pc = "dtb" => ~Resuming

(* Whoever may still resume a finished snapshot finds the disk untouched.  *)
SameDisk ==
  whole /\ ~missed /\ (stat = "HIBERNATE" \/ (Resuming /\ pc # "run"))
    => disk = frozen.disk

(* What the card and core 1 know of a cut in a running guest.              *)
CutKnown ==
  cut => /\ pc \notin Hibernating \cup {"run"}
         /\ ~missed =>
              /\ stat = "RUNNING"
              /\ pc \in {"off", "psram", "sd", "wait"} => state = "GET_SD"
              /\ pc \in Booting => state = "RUNNING" /\ warned

Order == GuestWritesItsDisk /\ Marked /\ Held /\ Copied /\ Kept /\ SameDisk /\ CutKnown

Fields ==
  /\ stat \in Code
  /\ snap \in Image /\ image \in Image
  /\ disk \in 0..MaxStamp
  /\ pc \in Point
  /\ state \in Code
  /\ stage \in Stage
  /\ file \in {"none", "STAT", "IMAGE", "SNAP", "DTB", "BLK"}
  /\ chunk \in 1..(Chunks + 1)
  /\ stamp \in 0..MaxStamp
  /\ frozen \in [image : Image, disk : 0..MaxStamp]

Switches ==
  /\ hibernate_request \in BOOLEAN /\ warned \in BOOLEAN
  /\ whole \in BOOLEAN /\ cut \in BOOLEAN /\ missed \in BOOLEAN

IInv == Fields /\ Switches /\ Order

LEMMA ColdIsImage == Cold \in Image
  BY LifecycleAssumption DEF Cold, Image

LEMMA LoadedIsImage ==
  ASSUME NEW i \in Image
  PROVE  [i EXCEPT !.ram = [k \in 1..Chunks |-> IF k \in Loaded THEN 0 ELSE @[k]]] \in Image
<1>1. PICK r : r = [k \in 1..Chunks |-> IF k \in Loaded THEN 0 ELSE i.ram[k]]
  OBVIOUS
<1>2. r \in [1..Chunks -> 0..MaxStamp]
  BY <1>1, LifecycleAssumption DEF Image
<1>3. [i EXCEPT !.ram = r] \in Image
  BY <1>2 DEF Image
<1>4. [i EXCEPT !.ram = [k \in 1..Chunks |-> IF k \in Loaded THEN 0 ELSE @[k]]]
        = [i EXCEPT !.ram = r]
  BY <1>1, Zenon
<1> QED BY <1>3, <1>4, Zenon

LEMMA PieceIsImage ==
  ASSUME NEW i \in Image, NEW k \in 1..Chunks, NEW v \in 0..MaxStamp
  PROVE  [i EXCEPT !.ram[k] = v] \in Image
<1>1. PICK r : r = [i.ram EXCEPT ![k] = v]
  OBVIOUS
<1>2. r \in [1..Chunks -> 0..MaxStamp]
  BY <1>1 DEF Image
<1>3. [i EXCEPT !.ram = r] \in Image
  BY <1>2 DEF Image
<1>4. [i EXCEPT !.ram[k] = v] = [i EXCEPT !.ram = r]
  BY <1>1, Zenon
<1> QED BY <1>3, <1>4, Zenon

LEMMA InitIInv == Init => IInv
<1> SUFFICES ASSUME Init PROVE IInv
  OBVIOUS
<1> USE DEF Init
<1>1. Fields
  <2>1. MaxStamp \in Nat /\ Chunks \in Nat /\ Chunks > 0
    BY LifecycleAssumption
  <2>2. [image |-> Cold, disk |-> 0] \in [image : Image, disk : 0..MaxStamp]
    BY <2>1, ColdIsImage
  <2> QED BY <2>1, <2>2, ColdIsImage
      DEF Fields, Code, Stage, INIT, HALTED, Point, Booting, Hibernating
<1>2. Switches
  BY DEF Switches
<1>3. Order
  BY DEF Order, GuestWritesItsDisk, Marked, Held, Copied, Kept, SameDisk, CutKnown,
         Hibernating, Booting, Resuming
<1> QED BY <1>1, <1>2, <1>3 DEF IInv

-----------------------------------------------------------------------------
(* Types.                                                                  *)

LEMMA SwitchStep == Switches /\ Next => Switches'
<1> SUFFICES ASSUME Switches, Next PROVE Switches'
  OBVIOUS
<1>1. /\ (cut \/ pc = "run") \in BOOLEAN /\ (state' = "RUNNING") \in BOOLEAN
      /\ TRUE \in BOOLEAN /\ FALSE \in BOOLEAN
  OBVIOUS
<1>2. whole' \in BOOLEAN
  BY DEF Switches, Next, PowerOn, PowerCut, Begin, Core1, Guest, history, Panic,
     psram_init, pf_mount, OpenImage, LoadImage, LoadDtb, SaveRunning, OpenBlk,
     EndBatch, SaveHibernate, Flush, OpenSnap, WriteChunk, WriteCore, Finalize,
     GuestStep, GuestDiskWrite, RequestHibernate, Exit
<1>3. hibernate_request' \in BOOLEAN
  BY DEF Switches, Next, PowerOn, PowerCut, Begin, Core1, Guest, history, Panic,
     psram_init, pf_mount, OpenImage, LoadImage, LoadDtb, SaveRunning, OpenBlk,
     EndBatch, SaveHibernate, Flush, OpenSnap, WriteChunk, WriteCore, Finalize,
     GuestStep, GuestDiskWrite, RequestHibernate, Exit
<1>4. missed' \in BOOLEAN
  BY DEF Switches, Next, PowerOn, PowerCut, Begin, Core1, Guest, history, Panic,
     psram_init, pf_mount, OpenImage, LoadImage, LoadDtb, SaveRunning, OpenBlk,
     EndBatch, SaveHibernate, Flush, OpenSnap, WriteChunk, WriteCore, Finalize,
     GuestStep, GuestDiskWrite, RequestHibernate, Exit, vm_save_powerstate
<1>5. warned' \in BOOLEAN
  <2>1. CASE Begin
    BY <1>1, <2>1, Zenon DEF Begin
  <2>2. CASE ~Begin
    BY <2>2 DEF Switches, Next, PowerOn, PowerCut, Core1, Guest, history, Panic,
       psram_init, pf_mount, OpenImage, LoadImage, LoadDtb, SaveRunning, OpenBlk,
       EndBatch, SaveHibernate, Flush, OpenSnap, WriteChunk, WriteCore, Finalize,
       GuestStep, GuestDiskWrite, RequestHibernate, Exit
  <2> QED BY <2>1, <2>2
<1>6. cut' \in BOOLEAN
  <2>1. CASE PowerCut
    BY <1>1, <2>1, Zenon DEF PowerCut
  <2>2. CASE ~PowerCut
    BY <2>2 DEF Switches, Next, PowerOn, Begin, Core1, Guest, history, Panic,
       psram_init, pf_mount, OpenImage, LoadImage, LoadDtb, SaveRunning, OpenBlk,
       EndBatch, SaveHibernate, Flush, OpenSnap, WriteChunk, WriteCore, Finalize,
       GuestStep, GuestDiskWrite, RequestHibernate, Exit
  <2> QED BY <2>1, <2>2
<1> QED BY <1>2, <1>3, <1>4, <1>5, <1>6 DEF Switches

LEMMA FieldStep ==
  ASSUME Fields, Copied, Next
  PROVE  Fields'
<1> USE DEF Fields, Code, Stage, INIT, PSRAM_OK, SD_OK, LOADING, RUNNING, HALTED,
            Point, Booting, Hibernating, card, history
<1>1. CASE Panic
  BY <1>1 DEF Panic
<1>2. CASE PowerOn
  BY <1>2 DEF PowerOn
<1>3. CASE PowerCut
  BY <1>3, ColdIsImage, LifecycleAssumption DEF PowerCut
<1>4. CASE Begin
  BY <1>4 DEF Begin
<1>5. CASE psram_init
  BY <1>5, <1>1 DEF psram_init
<1>6. CASE pf_mount
  BY <1>6, <1>1 DEF pf_mount
<1>7. CASE OpenImage
  BY <1>7, <1>1 DEF OpenImage
<1>8. CASE LoadImage
  BY <1>8, <1>1, LoadedIsImage DEF LoadImage
<1>9. CASE LoadDtb
  BY <1>9, <1>1 DEF LoadDtb, Image
<1>10. CASE SaveRunning
  BY <1>10 DEF SaveRunning, vm_save_powerstate
<1>11. CASE OpenBlk
  BY <1>11, <1>1 DEF OpenBlk
<1>12. CASE EndBatch
  BY <1>12 DEF EndBatch
<1>13. CASE SaveHibernate
  BY <1>13 DEF SaveHibernate, vm_save_powerstate
<1>14. CASE Flush
  BY <1>14 DEF Flush
<1>15. CASE OpenSnap
  BY <1>15, <1>1, LifecycleAssumption DEF OpenSnap
<1>16. CASE WriteChunk
  <2>1. chunk \in 1..Chunks /\ image.ram[chunk] \in 0..MaxStamp /\ Chunks \in Nat
    BY <1>16, LifecycleAssumption DEF WriteChunk, Copied, Image
  <2>2. [snap EXCEPT !.ram[chunk] = image.ram[chunk]] \in Image
    BY <2>1, PieceIsImage
  <2> QED BY <1>16, <1>1, <2>1, <2>2 DEF WriteChunk
<1>17. CASE WriteCore
  BY <1>17, <1>1 DEF WriteCore
<1>18. CASE Finalize
  BY <1>18, <1>1 DEF Finalize, Image
<1>19. ASSUME NEW k \in 1..Chunks, GuestStep(k) PROVE Fields'
  <2>1. PICK v \in 0..MaxStamp : v = stamp'
    BY <1>19, LifecycleAssumption DEF GuestStep
  <2>2. PICK i \in Image : i = [image EXCEPT !.ram[k] = v]
    BY PieceIsImage
  <2>3. image' = [i EXCEPT !.core = v, !.entry = FALSE]
    BY <1>19, <2>1, <2>2, Zenon DEF GuestStep
  <2>4. image' \in Image
    BY <2>3 DEF Image
  <2> QED BY <1>19, <2>1, <2>4 DEF GuestStep
<1>20. CASE GuestDiskWrite
  BY <1>20, LifecycleAssumption DEF GuestDiskWrite
<1>21. CASE RequestHibernate
  BY <1>21 DEF RequestHibernate
<1>22. ASSUME NEW code \in {"POWEROFF", "REBOOT", "UNKNOWN"}, Exit(code) PROVE Fields'
  BY <1>22 DEF Exit, vm_save_powerstate
<1> QED BY <1>2, <1>3, <1>4, <1>5, <1>6, <1>7, <1>8, <1>9, <1>10, <1>11, <1>12, <1>13, <1>14, <1>15, <1>16, <1>17, <1>18, <1>19, <1>20, <1>21, <1>22 DEF Next, Core1, Guest

-----------------------------------------------------------------------------
(* The order of events.                                                    *)

LEMMA SamePieces ==
  ASSUME NEW f \in [1..Chunks -> 0..MaxStamp], NEW g \in [1..Chunks -> 0..MaxStamp],
         \A k \in 1..Chunks : f[k] = g[k]
  PROVE  f = g
<1>1. f = [k \in 1..Chunks |-> f[k]] /\ g = [k \in 1..Chunks |-> g[k]]
  OBVIOUS
<1>2. [k \in 1..Chunks |-> f[k]] = [k \in 1..Chunks |-> g[k]]
  BY Zenon
<1> QED BY <1>1, <1>2, Zenon

LEMMA OrderStep ==
  ASSUME Fields, Switches, Order, Next
  PROVE  Order'
<1> USE DEF Order, GuestWritesItsDisk, Marked, Held, Copied, Kept, SameDisk, CutKnown,
            Resuming, Booting, Hibernating, card, history
<1>1. CASE Panic /\ pc # "run"
  BY <1>1 DEF Panic
<1>2. CASE PowerOn
  BY <1>2 DEF PowerOn
<1>3. CASE PowerCut
  BY <1>3 DEF PowerCut
<1>4. CASE Begin
  BY <1>4 DEF Begin
<1>5. CASE psram_init
  BY <1>5, <1>1 DEF psram_init
<1>6. CASE pf_mount
  BY <1>6, <1>1 DEF pf_mount
<1>7. CASE OpenImage
  BY <1>7, <1>1 DEF OpenImage
<1>8. CASE LoadImage
  BY <1>8, <1>1 DEF LoadImage
<1>9. CASE LoadDtb
  BY <1>9, <1>1 DEF LoadDtb
<1>10. CASE SaveRunning
  BY <1>10 DEF SaveRunning, vm_save_powerstate
<1>11. CASE OpenBlk
  BY <1>11, <1>1 DEF OpenBlk
<1>12. CASE EndBatch
  BY <1>12 DEF EndBatch
<1>13. CASE SaveHibernate
  BY <1>13 DEF SaveHibernate, vm_save_powerstate
<1>14. CASE Flush
  BY <1>14 DEF Flush
<1>15. CASE OpenSnap
  BY <1>15, <1>1, LifecycleAssumption DEF OpenSnap
<1>16. CASE WriteChunk
  <2>1. CASE Panic
    BY <1>1, <1>16, <2>1 DEF WriteChunk
  <2>2. CASE ~Panic
    <3>1. /\ pc = "h_ram" /\ chunk' = chunk + 1
          /\ pc' = IF chunk = Chunks THEN "h_core" ELSE "h_ram"
          /\ snap' = [snap EXCEPT !.ram[chunk] = image.ram[chunk]]
          /\ UNCHANGED <<stat, disk, state, image, file, warned, frozen, whole, cut, missed>>
      BY <1>16, <2>2 DEF WriteChunk
    <3>2. /\ Chunks \in Nat /\ chunk \in 1..Chunks /\ ~whole
          /\ \A k \in 1..(chunk - 1) : snap.ram[k] = image.ram[k]
      BY <3>1, LifecycleAssumption
    <3>3. PICK r : r = [snap.ram EXCEPT ![chunk] = image.ram[chunk]]
      OBVIOUS
    <3>4. snap' = [snap EXCEPT !.ram = r]
      BY <3>1, <3>3, Zenon
    <3>5. snap'.ram = r /\ r \in [1..Chunks -> 0..MaxStamp] /\ image.ram \in [1..Chunks -> 0..MaxStamp]
      BY <3>2, <3>3, <3>4 DEF Fields, Image
    <3>6. ASSUME NEW k \in 1..chunk PROVE r[k] = image.ram[k]
      <4>1. snap.ram \in [1..Chunks -> 0..MaxStamp] /\ k \in 1..Chunks
        BY <3>2 DEF Fields, Image
      <4>2. CASE k = chunk
        BY <3>3, <4>1, <4>2
      <4>3. CASE k # chunk
        <5>1. k \in 1..(chunk - 1) /\ r[k] = snap.ram[k]
          BY <3>2, <3>3, <4>1, <4>3
        <5> QED BY <3>2, <5>1
      <4> QED BY <4>2, <4>3
    <3>7. Copied'
      <4>1. CASE chunk = Chunks
        <5>1. r = image.ram
          <6>1. PICK w \in [1..Chunks -> 0..MaxStamp] : w = image.ram
            BY <3>5
          <6>2. \A k \in 1..Chunks : r[k] = w[k]
            BY <3>6, <4>1, <6>1
          <6>3. r = w
            BY <3>5, <6>2, SamePieces
          <6> QED BY <6>1, <6>3
        <5> QED BY <3>1, <3>5, <4>1, <5>1
      <4>2. CASE chunk # Chunks
        <5>1. chunk' \in 1..Chunks /\ 1..(chunk' - 1) = 1..chunk
          BY <3>1, <3>2, <4>2
        <5> QED BY <3>1, <3>5, <3>6, <4>2, <5>1
      <4> QED BY <4>1, <4>2
    <3> HIDE DEF Copied
    <3> QED BY <3>1, <3>2, <3>7
  <2> QED BY <2>1, <2>2
<1>17. CASE WriteCore
  BY <1>17, <1>1 DEF WriteCore
<1>18. CASE Finalize
  <2>1. CASE Panic
    BY <1>1, <1>18, <2>1 DEF Finalize
  <2>2. CASE ~Panic
    <3>1. /\ pc = "h_end" /\ pc' = "wait" /\ state' = "HIBERNATE" /\ whole'
          /\ snap' = [snap EXCEPT !.core = image.core, !.entry = image.entry]
          /\ UNCHANGED <<stat, disk, image, warned, frozen, cut, missed>>
      BY <1>18, <2>2 DEF Finalize
    <3>2. image = frozen.image /\ disk = frozen.disk /\ snap.ram = image.ram /\ ~cut
      BY <3>1
    <3>3. snap' = image
      BY <3>1, <3>2 DEF Fields, Image
    <3> QED BY <3>1, <3>2, <3>3
  <2> QED BY <2>1, <2>2
<1>19. ASSUME NEW k \in 1..Chunks, GuestStep(k) PROVE Order'
  BY <1>19 DEF GuestStep
<1>20. CASE GuestDiskWrite
  BY <1>20 DEF GuestDiskWrite
<1>21. CASE RequestHibernate
  BY <1>21 DEF RequestHibernate
<1>22. ASSUME NEW code \in {"POWEROFF", "REBOOT", "UNKNOWN"}, Exit(code) PROVE Order'
  BY <1>22 DEF Exit, vm_save_powerstate
<1> QED BY <1>2, <1>3, <1>4, <1>5, <1>6, <1>7, <1>8, <1>9, <1>10, <1>11, <1>12, <1>13, <1>14, <1>15, <1>16, <1>17, <1>18, <1>19, <1>20, <1>21, <1>22 DEF Next, Core1, Guest

LEMMA Invariant == Spec => []IInv
<1>1. IInv /\ UNCHANGED vars => IInv'
  BY DEF IInv, Fields, Switches, Order, GuestWritesItsDisk, Marked, Held, Copied, Kept,
         SameDisk, CutKnown, Resuming, vars, card, history
<1>2. IInv /\ Next => IInv'
  <2>1. IInv /\ Next => Fields'
    BY FieldStep DEF IInv, Order
  <2> QED BY <2>1, SwitchStep, OrderStep DEF IInv
<1>3. IInv /\ [Next]_vars => IInv'
  BY <1>1, <1>2
<1> QED BY InitIInv, <1>3, PTL DEF Spec

-----------------------------------------------------------------------------
(* Every variable has its type.                                            *)
THEOREM TypeCorrect == Spec => []TypeOK
<1>1. IInv => TypeOK
  BY DEF IInv, Fields, Switches, TypeOK
<1> QED BY <1>1, Invariant, PTL

(* The guest's block writes go to BLK, never to the power state that       *)
(* vm_save_powerstate opens in its place.                                  *)
THEOREM DiskWritesGoToTheDisk == Spec => []GuestWritesItsDisk
<1>1. IInv => GuestWritesItsDisk
  BY DEF IInv, Order
<1> QED BY <1>1, Invariant, PTL

(* A guest resumed from a finished snapshot is the one that was frozen,    *)
(* and so is its disk, wherever the supply has failed meanwhile.           *)
THEOREM ResumedAsFrozen == Spec => []ResumedIsFrozen
<1>1. IInv => ResumedIsFrozen
  <2> SUFFICES ASSUME IInv, pc \in {"save", "blk"}, Resuming, whole, ~missed
               PROVE  frozen = [image |-> image, disk |-> disk]
    BY DEF ResumedIsFrozen
  <2>1. frozen.image = image /\ frozen.disk = disk
    BY DEF IInv, Order, Kept, SameDisk
  <2> QED BY <2>1 DEF IInv, Fields
<1> QED BY <1>1, Invariant, PTL

(* start_vm notices a power cut in a running guest and boots anew.         *)
THEOREM CutsAreReported == Spec => []CutIsReported
<1>1. IInv => CutIsReported
  BY DEF IInv, Order, CutKnown, CutIsReported, Resuming
<1> QED BY <1>1, Invariant, PTL
=============================================================================
