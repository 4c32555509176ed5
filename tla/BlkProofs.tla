----------------------------- MODULE BlkProofs -----------------------------
(***************************************************************************)
(* The guest's disk for every volume, cluster size, capacity and length of *)
(* request: the position of the one open file and its cluster agree, and   *)
(* the driver over CSRs, emulator and Petit FatFs is an array of blocks.   *)
(***************************************************************************)
EXTENDS BlkDevice, TLAPS

Running == {"run", "seek", "move"}

(* While the guest runs, what is open is its disk: errors close the file,  *)
(* nothing opens another one.                                              *)
DiskOpen == pc \in Running /\ fs.opened => fs.file = BLK

(* The driver works on one request, within disk and RAM, and the registers *)
(* it has set are that request's.                                          *)
Asked ==
  /\ drv # "idle" => /\ pc \in Running
                     /\ req \in Segments
                     /\ req.pos + req.len <= Capacity
                     /\ req.buf + req.len <= Cells
  /\ drv \in {"offs", "size", "go"} => blk_ram_ptr = req.buf
  /\ drv = "go" => blk_transfer_size = req.len

(* A seek ends where the request begins.                                   *)
Sought ==
  /\ pc = "seek" => drv = "size" /\ fs.opened /\ fs.fptr + ofs = req.pos
  /\ pc = "run" /\ drv \in {"size", "go"} /\ fs.opened => fs.fptr = req.pos

(* As many blocks are done as the position, as long as the file is open,   *)
(* and the RAM pointer have gone on; blk_err, though overwritten for each  *)
(* block, tells in the end whether the file was open throughout.           *)
Moving ==
  /\ pc = "move" => drv = "status" /\ nblocks > 0
  /\ drv = "status" =>
       /\ nblocks <= req.len
       /\ blk_ram_ptr = req.buf + (req.len - nblocks)
       /\ fs.opened => fs.fptr = req.pos + (req.len - nblocks)
  /\ drv = "status" /\ pc = "run" => nblocks = 0 /\ (blk_err = "OK" <=> fs.opened)

IInv == TypeOK /\ PositionKnown /\ DiskOpen /\ Asked /\ Sought /\ Moving
-----------------------------------------------------------------------------
(* Quotient and remainder put a number together again.                     *)
LEMMA DivMod ==
  ASSUME NEW a \in Nat, NEW b \in Nat \ {0}
  PROVE  /\ a \div b \in Nat
         /\ a % b \in 0..(b - 1)
         /\ a = (a \div b) * b + (a % b)
  OBVIOUS

(* ... and are the only ones that do.                                      *)
LEMMA DivModUnique ==
  ASSUME NEW q \in Nat, NEW b \in Nat \ {0}, NEW r \in 0..(b - 1)
  PROVE  /\ q * b + r \in Nat
         /\ (q * b + r) \div b = q
         /\ (q * b + r) % b = r
  OBVIOUS

(* Numbers below n blocks of size m, in blocks.                            *)
LEMMA MulLess ==
  ASSUME NEW q \in Nat, NEW m \in Nat, NEW b \in Nat \ {0}, NEW r \in 0..(b - 1)
  PROVE  q < m <=> q * b + r < m * b
  OBVIOUS

(* Where pf_lseek and pf_read stand when the position is on a boundary.    *)
LEMMA Before ==
  ASSUME NEW k \in Nat \ {0}, NEW b \in Nat \ {0}
  PROVE  /\ k % b # 0 => (k - 1) \div b = k \div b
         /\ k % b = 0 => (k - 1) \div b = (k \div b) - 1 /\ k \div b > 0
<1> DEFINE q == k \div b
           r == k % b
<1>1. q \in Nat /\ r \in 0..(b - 1) /\ k = q * b + r
  BY DivMod
<1>2. CASE r # 0
  <2>1. r - 1 \in 0..(b - 1) /\ k - 1 = q * b + (r - 1)
    BY <1>1, <1>2
  <2>2. (q * b + (r - 1)) \div b = q
    <3> HIDE DEF q, r
    <3>. QED  BY <1>1, <2>1, DivModUnique
  <2>. QED
    BY <1>2, <2>1, <2>2
<1>3. CASE r = 0
  <2>1. q > 0
    <3> HIDE DEF q, r
    <3>. QED  BY <1>1, <1>3
  <2>2. b - 1 \in 0..(b - 1) /\ q - 1 \in Nat
    BY <1>1, <2>1
  <2>3. k - 1 = (q - 1) * b + (b - 1)
    <3> HIDE DEF q, r
    <3>. QED  BY <1>1, <1>3
  <2>4. ((q - 1) * b + (b - 1)) \div b = q - 1
    <3> DEFINE p == q - 1
               t == b - 1
    <3>1. p \in Nat /\ t \in 0..(b - 1)
      BY <2>2
    <3>2. (p * b + t) \div b = p
      <4> HIDE DEF p, t
      <4>. QED  BY <3>1, DivModUnique
    <3>. QED  BY <3>2
  <2>. QED
    BY <1>3, <2>1, <2>3, <2>4
<1>. QED
  BY <1>2, <1>3

(* A multiple of b, and the b numbers from there on.                       *)
LEMMA FromBoundary ==
  ASSUME NEW p \in Nat, NEW b \in Nat \ {0}, p % b = 0, NEW r \in 0..(b - 1)
  PROVE  /\ (p + r) \div b = p \div b
         /\ (p + b) \div b = (p \div b) + 1
         /\ (p + b) % b = 0
<1> DEFINE q == p \div b
<1>1. q \in Nat /\ p = q * b + 0 /\ 0 \in 0..(b - 1) /\ q + 1 \in Nat
  BY DivMod
<1>2. (q * b + r) \div b = q
  <2> HIDE DEF q
  <2>. QED  BY <1>1, DivModUnique
<1>3. ((q + 1) * b + 0) \div b = q + 1 /\ ((q + 1) * b + 0) % b = 0
  <2> DEFINE n == q + 1
  <2>1. n \in Nat
    BY <1>1
  <2>2. (n * b + 0) \div b = n /\ (n * b + 0) % b = 0
    <3> HIDE DEF n
    <3>. QED  BY <1>1, <2>1, DivModUnique
  <2>. QED  BY <2>2
<1>4. p + b = (q + 1) * b + 0 /\ p + r = q * b + r
  <2> HIDE DEF q
  <2>. QED  BY <1>1
<1>. QED
  BY <1>2, <1>3, <1>4

-----------------------------------------------------------------------------
(* A sector of a file lies in a cluster of its chain.                      *)
LEMMA PlaceInChain ==
  ASSUME NEW f \in File, NEW b \in Nat, b < fsize[f]
  PROVE  /\ (b \div csize) + 1 \in 1 .. Len(chain[f])
         /\ Place(f, b) \in Clusters
         /\ Place(f, b) \in Nat
<1> DEFINE q == b \div csize
           r == b % csize
           n == Len(chain[f])
<1>1. csize \in Nat \ {0} /\ n_fatent \in Nat
  BY SizeAssumption
<1>2. q \in Nat /\ r \in 0..(csize - 1) /\ b = q * csize + r
  BY <1>1, DivMod
<1>3. n \in Nat /\ fsize[f] \in Nat /\ fsize[f] <= csize * n /\ chain[f] \in Seq(Clusters)
  BY VolumeAssumption
<1>4. q * csize + r < n * csize
  <2> HIDE DEF q, r, n
  <2>. QED  BY <1>1, <1>2, <1>3
<1>5. q < n
  <2> HIDE DEF q, r, n
  <2>. QED  BY <1>1, <1>2, <1>3, <1>4, MulLess
<1>6. q + 1 \in 1 .. n
  BY <1>2, <1>3, <1>5
<1>7. chain[f][q + 1] \in Clusters
  BY <1>3, <1>6
<1>8. Clusters \subseteq Nat
  BY <1>1 DEF Clusters
<1>. QED
  BY <1>6, <1>7, <1>8 DEF Place

(* ... and is a sector of the card.                                        *)
LEMMA SectorInCard ==
  ASSUME NEW f \in File, NEW b \in Nat, b < fsize[f]
  PROVE  SectorOf(f, b) \in Sectors
<1> DEFINE c == Place(f, b) - 2
           m == n_fatent - 2
           r == b % csize
<1>1. csize \in Nat \ {0} /\ m \in Nat /\ database \in Nat \ {0} /\ n_fatent \in Nat
  BY SizeAssumption
<1>2. Place(f, b) \in Clusters /\ Place(f, b) \in Nat
  BY PlaceInChain
<1>3. c \in Nat /\ c < m
  BY <1>1, <1>2 DEF Clusters
<1>4. r \in 0..(csize - 1)
  BY <1>1, DivMod
<1>5. c * csize + r < m * csize /\ c * csize + r \in Nat
  <2> HIDE DEF c, m, r
  <2>. QED  BY <1>1, <1>3, <1>4, MulLess, DivModUnique
<1>6. SectorOf(f, b) = (c * csize + database) + r
  BY <1>2 DEF SectorOf, clust2sect
<1>7. Sectors = database .. (database + m * csize) - 1
  BY <1>1 DEF Sectors
<1>. QED
  <2> HIDE DEF c, m, r
  <2>1. c * csize \in Nat /\ m * csize \in Nat
    BY <1>1, <1>3
  <2>2. (c * csize + database) + r \in database .. (database + m * csize) - 1
    <3> DEFINE x == c * csize
               y == m * csize
    <3> HIDE DEF x, y
    <3>. QED  BY <1>1, <1>4, <1>5, <2>1 DEF x, y
  <2>. QED  BY <1>6, <1>7, <2>2

(* No two sectors of the files are one sector of the card.                 *)
LEMMA SectorsApart ==
  ASSUME NEW f \in File, NEW b \in Nat, b < fsize[f],
         NEW g \in File, NEW d \in Nat, d < fsize[g],
         SectorOf(f, b) = SectorOf(g, d)
  PROVE  f = g /\ b = d
<1> DEFINE x == Place(f, b) - 2
           y == Place(g, d) - 2
           r == b % csize
           s == d % csize
<1>1. csize \in Nat \ {0} /\ database \in Nat \ {0} /\ n_fatent \in Nat
  BY SizeAssumption
<1>2. /\ Place(f, b) \in Clusters /\ Place(f, b) \in Nat
      /\ Place(g, d) \in Clusters /\ Place(g, d) \in Nat
  BY PlaceInChain
<1>3. x \in Nat /\ y \in Nat
  BY <1>1, <1>2 DEF Clusters
<1>4. /\ r \in 0..(csize - 1) /\ b = (b \div csize) * csize + r
      /\ s \in 0..(csize - 1) /\ d = (d \div csize) * csize + s
  BY <1>1, DivMod
<1>5. (x * csize + database) + r = (y * csize + database) + s
  BY <1>2 DEF SectorOf, clust2sect
<1>6. x * csize + r = y * csize + s
  <2> DEFINE u == x * csize
             v == y * csize
  <2>1. u \in Nat /\ v \in Nat
    <3> HIDE DEF x, y
    <3>. QED  BY <1>1, <1>3
  <2>2. (u + database) + r = (v + database) + s
    BY <1>5
  <2>3. u + r = v + s
    <3> HIDE DEF u, v, r, s
    <3>. QED  BY <1>1, <1>4, <2>1, <2>2
  <2>. QED  BY <2>3
<1>7. x = y /\ r = s
  <2>1. (x * csize + r) \div csize = x /\ (x * csize + r) % csize = r
    <3> HIDE DEF x, y, r, s
    <3>. QED  BY <1>1, <1>3, <1>4, DivModUnique
  <2>2. (y * csize + s) \div csize = y /\ (y * csize + s) % csize = s
    <3> HIDE DEF x, y, r, s
    <3>. QED  BY <1>1, <1>3, <1>4, DivModUnique
  <2> HIDE DEF x, y, r, s
  <2>. QED  BY <1>6, <2>1, <2>2
<1>8. Place(f, b) = Place(g, d)
  BY <1>2, <1>7
<1>9. f = g /\ (b \div csize) + 1 = (d \div csize) + 1
  BY <1>8, PlaceInChain, VolumeAssumption DEF Place
<1>10. b \div csize = d \div csize
  <2>1. b \div csize \in Nat /\ d \div csize \in Nat
    BY <1>1, DivMod
  <2>. QED  BY <1>9, <2>1
<1>. QED
  BY <1>4, <1>7, <1>9, <1>10

-----------------------------------------------------------------------------
(* The cluster pf_read and pf_write work out is that of the sector at the  *)
(* position, and exists.                                                   *)
LEMMA CurrentCluster ==
  ASSUME TypeOK, PositionKnown, fs.opened, pc # "seek", ~Eof(fs)
  PROVE  /\ fs.file \in File /\ fs.fptr \in Nat /\ fs.fptr < fsize[fs.file]
         /\ CurrClust(fs) = Place(fs.file, fs.fptr)
         /\ CurrClust(fs) \in Clusters
         /\ Sector(fs) = SectorOf(fs.file, fs.fptr)
<1> PICK f \in File, k \in Nat : f = fs.file /\ k = fs.fptr
  BY DEF TypeOK, PffTypeOK
<1>1. csize \in Nat \ {0} /\ fsize[f] \in Nat
  BY SizeAssumption, VolumeAssumption
<1>2. k < fsize[f]
  BY <1>1 DEF TypeOK, PffTypeOK, Eof
<1>3. k > 0 => fs.curr = Place(f, k - 1)
  BY DEF PositionKnown
<1>4. (k \div csize) + 1 \in 1 .. Len(chain[f]) /\ Place(f, k) \in Clusters
  BY <1>2, PlaceInChain
<1>5. CurrClust(fs) = Place(f, k)
  <2>1. CASE k % csize # 0
    <3>1. k # 0
      BY <2>1, <1>1
    <3>2. (k - 1) \div csize = k \div csize
      BY <2>1, <3>1, <1>1, Before
    <3>. QED
      BY <2>1, <3>1, <3>2, <1>3 DEF CurrClust, Place
  <2>2. CASE k % csize = 0 /\ k = 0
    <3>1. k \div csize = 0
      BY <2>2, <1>1
    <3>. QED
      BY <2>2, <3>1 DEF CurrClust, Place
  <2>3. CASE k % csize = 0 /\ k # 0
    <3> DEFINE q == k \div csize
    <3>a. k \in Nat \ {0}
      BY <2>3
    <3>b. q \in Nat
      BY <1>1, DivMod
    <3>1. q \in Nat /\ q > 0 /\ (k - 1) \div csize = q - 1
      BY <3>a, <3>b, <2>3, <1>1, Before
    <3>2. Len(chain[f]) \in Nat
      BY VolumeAssumption
    <3>3. q \in 1 .. Len(chain[f]) - 1
      BY <3>1, <3>2, <1>4
    <3>4. fat[chain[f][q]] = chain[f][q + 1]
      BY <3>3, VolumeAssumption
    <3>5. (q - 1) + 1 = q
      BY <3>1
    <3>6. fs.curr = chain[f][q]
      BY <2>3, <3>1, <3>5, <1>3 DEF Place
    <3>. QED
      BY <2>3, <3>4, <3>6 DEF CurrClust, Place
  <2>. QED
    BY <2>1, <2>2, <2>3
<1>6. Sector(fs) = SectorOf(f, k)
  BY <1>5 DEF Sector, SectorOf
<1>. QED
  BY <1>2, <1>4, <1>5, <1>6

(* pf_lseek on the disk starts at the cluster of a boundary no further     *)
(* than its target.                                                        *)
LEMMA SeekBegins ==
  ASSUME TypeOK, PositionKnown, fs.opened, pc # "seek", fs.file = BLK,
         NEW to \in 0 .. Capacity, SeekStart(to)
  PROVE  /\ UNCHANGED card
         /\ fs'.file = BLK /\ fs'.opened
         /\ fs' \in [file : File, opened : BOOLEAN, fptr : Nat, curr : Nat]
         /\ ofs' \in Nat
         /\ fs'.fptr + ofs' = to /\ fs'.fptr <= fsize[BLK]
         /\ \/ ofs' = 0 /\ fs'.fptr = 0
            \/ ofs' > 0 /\ fs'.fptr % csize = 0 /\ fs'.curr = Place(BLK, fs'.fptr)
<1> PICK k \in Nat, cl \in Nat : k = fs.fptr /\ cl = fs.curr
  BY DEF TypeOK, PffTypeOK
<1> DEFINE q == (k - 1) \div csize
           start == q * csize
<1>1. /\ csize \in Nat \ {0} /\ Capacity \in Nat /\ BLK \in File
      /\ fsize[BLK] \in Nat /\ Capacity <= fsize[BLK]
  BY SizeAssumption, VolumeAssumption, DeviceAssumption, WholeFileAssumption
<1>2. to \in Nat /\ to <= fsize[BLK] /\ Clip(BLK, to) = to
  BY <1>1 DEF Clip
<1>3. fs = [file |-> BLK, opened |-> TRUE, fptr |-> k, curr |-> cl]
  BY DEF TypeOK, PffTypeOK
<1>4. k > 0 => cl = Place(BLK, k - 1)
  BY DEF PositionKnown
<1>b. /\ fs' = IF to = 0
                THEN [fs EXCEPT !.fptr = 0]
                ELSE IF Ahead(k, to)
                THEN [fs EXCEPT !.fptr = start]
                ELSE [fs EXCEPT !.fptr = 0, !.curr = chain[BLK][1]]
      /\ ofs' = IF to > 0 /\ Ahead(k, to) THEN to - start ELSE to
      /\ UNCHANGED card
  <2>1. Clip(fs.file, to) = to
    BY <1>2
  <2>2. k = fs.fptr /\ fs.file = BLK
    OBVIOUS
  <2>. QED
    BY <2>1, <2>2, Zenon DEF SeekStart
<1>c. ASSUME NEW p \in Nat, NEW c \in Nat, NEW o \in Nat,
             fs' = [file |-> BLK, opened |-> TRUE, fptr |-> p, curr |-> c], ofs' = o,
             p + o = to,
             (o = 0 /\ p = 0) \/ (o > 0 /\ p % csize = 0 /\ c = Place(BLK, p))
      PROVE  /\ fs'.file = BLK /\ fs'.opened
             /\ fs' \in [file : File, opened : BOOLEAN, fptr : Nat, curr : Nat]
             /\ ofs' \in Nat
             /\ fs'.fptr + ofs' = to /\ fs'.fptr <= fsize[BLK]
             /\ \/ ofs' = 0 /\ fs'.fptr = 0
                \/ ofs' > 0 /\ fs'.fptr % csize = 0 /\ fs'.curr = Place(BLK, fs'.fptr)
  <2>1. fs'.file = BLK /\ fs'.opened /\ fs'.fptr = p /\ fs'.curr = c
    BY <1>c
  <2>2. fs' \in [file : File, opened : BOOLEAN, fptr : Nat, curr : Nat]
    BY <1>c, <1>1
  <2>3. p <= fsize[BLK]
    BY <1>c, <1>1, <1>2
  <2>. QED
    BY <1>c, <2>1, <2>2, <2>3
<1>5. CASE to = 0
  <2>1. fs' = [fs EXCEPT !.fptr = 0]
    BY <1>b, <1>5, Zenon
  <2>2. ofs' = 0
    <3> HIDE DEF start
    <3>. QED  BY <1>b, <1>5
  <2>3. fs' = [file |-> BLK, opened |-> TRUE, fptr |-> 0, curr |-> cl]
    BY <2>1, <1>3
  <2>. QED
    <3>1. 0 \in Nat /\ 0 + 0 = to
      BY <1>5
    <3>2. UNCHANGED card
      BY <1>b
    <3> HIDE DEF start, q
    <3>. QED  BY ONLY <1>c, <2>2, <2>3, <3>1, <3>2
<1>6. CASE to > 0 /\ Ahead(k, to)
  <2>1. k > 0 /\ (to - 1) \div csize >= q
    BY <1>6 DEF Ahead
  <2>a. k - 1 \in Nat
    BY <2>1
  <2>2. q \in Nat /\ 0 \in 0..(csize - 1) /\ k - 1 \in Nat
    BY <2>a, <1>1, DivMod
  <2>3. start \in Nat /\ start \div csize = q /\ start % csize = 0
    <3>1. start = q * csize + 0
      <4> HIDE DEF q
      <4>. QED  BY <1>1, <2>2
    <3>2. (q * csize + 0) \in Nat /\ (q * csize + 0) \div csize = q /\ (q * csize + 0) % csize = 0
      <4> HIDE DEF q
      <4>. QED  BY <1>1, <2>2, DivModUnique
    <3>. QED  BY <3>1, <3>2
  <2>4. start <= to - 1
    <3> DEFINE p == (to - 1) \div csize
               r == (to - 1) % csize
    <3>a. to - 1 \in Nat
      BY <1>2, <1>6
    <3>1. p \in Nat /\ r \in 0..(csize - 1) /\ to - 1 = p * csize + r
      BY <3>a, <1>1, DivMod
    <3>2. p >= q
      BY <2>1
    <3>3. p * csize >= q * csize
      <4> HIDE DEF p, q
      <4>. QED  BY <3>1, <3>2, <2>2, <1>1
    <3>4. p * csize \in Nat
      <4> HIDE DEF p
      <4>. QED  BY <3>1, <1>1
    <3> HIDE DEF p, r
    <3>. QED  BY <3>1, <3>3, <3>4, <2>3, <1>2
  <2>5. Place(BLK, start) = cl
    BY <2>1, <2>3, <1>4 DEF Place
  <2>6. fs' = [file |-> BLK, opened |-> TRUE, fptr |-> start, curr |-> cl] /\ ofs' = to - start
    <3> HIDE DEF start
    <3>1. to # 0
      BY <1>6
    <3>2. fs' = [fs EXCEPT !.fptr = start]
      BY <1>b, <1>6, <3>1, Zenon
    <3>3. ofs' = to - start
      BY <1>b, <1>6, Zenon
    <3>. QED
      BY <3>2, <3>3, <1>3
  <2> HIDE DEF start
  <2>7. to - start \in Nat /\ to - start > 0 /\ start + (to - start) = to
    BY <1>2, <2>3, <2>4
  <2>. QED
    BY <1>b, <1>c, <2>3, <2>5, <2>6, <2>7
<1>7. CASE to > 0 /\ ~Ahead(k, to)
  <2>1. fs' = [file |-> BLK, opened |-> TRUE, fptr |-> 0, curr |-> chain[BLK][1]] /\ ofs' = to
    <3> HIDE DEF start
    <3>1. to # 0
      BY <1>7
    <3>2. fs' = [fs EXCEPT !.fptr = 0, !.curr = chain[BLK][1]]
      BY <1>b, <1>7, <3>1, Zenon
    <3>3. ofs' = to
      BY <1>b, <1>7, Zenon
    <3>. QED
      BY <3>2, <3>3, <1>3
  <2>2. 0 \div csize = 0 /\ 0 % csize = 0
    BY <1>1
  <2>3. 0 < fsize[BLK]
    BY <1>1, <1>2, <1>7
  <2>4. Place(BLK, 0) = chain[BLK][1] /\ Place(BLK, 0) \in Nat
    BY <2>2, <2>3, <1>1, PlaceInChain DEF Place
  <2>. QED
    BY <1>2, <1>7, <1>b, <1>c, <2>1, <2>2, <2>4
<1>. QED
  BY <1>2, <1>5, <1>6, <1>7

(* One cluster on, the chain has one and the table names it.               *)
LEMMA NextPlace ==
  ASSUME NEW f \in File, NEW p \in Nat, p % csize = 0,
         NEW o \in Nat, o > csize, p + o <= fsize[f]
  PROVE  /\ fat[Place(f, p)] = Place(f, p + csize)
         /\ Place(f, p + csize) \in Nat
         /\ (p + csize) % csize = 0
         /\ p + csize <= fsize[f]
<1>1. csize \in Nat \ {0} /\ fsize[f] \in Nat /\ 0 \in 0..(csize - 1) /\ p + csize \in Nat
  BY SizeAssumption, VolumeAssumption
<1>2. p + csize < fsize[f]
  BY <1>1
<1>3. /\ (p + csize) \div csize = (p \div csize) + 1
      /\ (p + csize) % csize = 0
  BY <1>1, FromBoundary
<1>4. ((p + csize) \div csize) + 1 \in 1 .. Len(chain[f]) /\ Place(f, p + csize) \in Nat
  BY <1>1, <1>2, PlaceInChain
<1> DEFINE q == p \div csize
<1>5. q \in Nat
  BY <1>1, DivMod
<1>a. Len(chain[f]) \in Nat
  BY VolumeAssumption
<1>6. q + 1 \in 1 .. Len(chain[f]) - 1
  BY <1>3, <1>4, <1>5, <1>a
<1>7. fat[chain[f][q + 1]] = chain[f][(q + 1) + 1]
  BY <1>6, VolumeAssumption
<1>. QED
  BY <1>1, <1>2, <1>3, <1>4, <1>7 DEF Place

(* Within the cluster of a boundary, the sector before the target is in it. *)
LEMMA SamePlace ==
  ASSUME NEW f \in File, NEW p \in Nat, p % csize = 0,
         NEW o \in Nat \ {0}, o <= csize
  PROVE  Place(f, (p + o) - 1) = Place(f, p)
<1>1. csize \in Nat \ {0}
  BY SizeAssumption
<1>2. o - 1 \in 0..(csize - 1) /\ p + (o - 1) = (p + o) - 1
  BY <1>1
<1>3. (p + (o - 1)) \div csize = p \div csize
  BY <1>1, <1>2, FromBoundary
<1>. QED
  BY <1>2, <1>3 DEF Place
-----------------------------------------------------------------------------
(* A request is within the disk and the RAM.                               *)
LEMMA Requested ==
  ASSUME NEW r \in Segments
  PROVE  /\ r.op \in {"read", "write"}
         /\ r.pos \in 0 .. Capacity /\ r.len \in 1 .. MaxLen /\ r.buf \in Cell
         /\ r.pos \in Nat /\ r.len \in Nat /\ r.len > 0 /\ r.buf \in Nat
         /\ r # Nothing
  BY DeviceAssumption DEF Segments, Cell, Nothing

(* Before the firmware starts no file is open.                             *)
LEMMA InitIInv == Init => IInv
<1> SUFFICES ASSUME Init PROVE IInv
  OBVIOUS
<1>1. BLK \in File /\ (CHOOSE f \in File : TRUE) \in File
  BY DeviceAssumption
<1>2. fsize[CHOOSE f \in File : TRUE] \in Nat
  BY <1>1, VolumeAssumption
<1>3. TypeOK
  BY <1>1, <1>2, DeviceAssumption DEF Init, PffInit, TypeOK, PffTypeOK
<1>4. ~fs.opened /\ drv = "idle" /\ pc = "off"
  BY DEF Init, PffInit
<1>. QED
  BY <1>3, <1>4 DEF IInv, PositionKnown, DiskOpen, Running, Asked, Sought, Moving

LEMMA BootIInv == IInv /\ Boot => IInv'
  BY DEF IInv, TypeOK, PffTypeOK, PositionKnown, DiskOpen, Running, Asked, Sought, Moving,
         Boot, pffVars, csrVars, drvVars

LEMMA RebootIInv == IInv /\ Reboot => IInv'
  BY DEF IInv, TypeOK, PffTypeOK, PositionKnown, DiskOpen, Running, Asked, Sought, Moving,
         Reboot, Forget, pffVars, csrVars, drvVars

LEMMA HibernateIInv == IInv /\ Hibernate => IInv'
  BY DEF IInv, TypeOK, PffTypeOK, PositionKnown, DiskOpen, Running, Asked, Sought, Moving,
         Hibernate, pffVars, csrVars, drvVars

LEMMA FillIInv == IInv /\ Fill => IInv'
  BY DEF IInv, TypeOK, PffTypeOK, PositionKnown, DiskOpen, Running, Asked, Sought, Moving,
         Fill, pffVars, csrVars, drvVars

LEMMA StatusIInv == IInv /\ Status => IInv'
  BY DEF IInv, TypeOK, PffTypeOK, PositionKnown, DiskOpen, Running, Asked, Sought, Moving,
         Status, pffVars, csrVars, drvVars

LEMMA SetRamIInv == IInv /\ SetRam => IInv'
<1> SUFFICES ASSUME IInv, SetRam PROVE IInv'
  OBVIOUS
<1>1. req \in Segments
  BY DEF IInv, Asked, SetRam
<1>2. req.buf \in 0 .. Cells
  BY <1>1, Requested, DeviceAssumption DEF Cell
<1>. QED
  BY <1>2
  DEF IInv, TypeOK, PffTypeOK, PositionKnown, DiskOpen, Running, Asked, Sought, Moving,
      SetRam, pffVars, csrVars, drvVars

LEMMA SetSizeIInv == IInv /\ SetSize => IInv'
  BY Requested DEF IInv, TypeOK, PffTypeOK, PositionKnown, DiskOpen, Running, Asked, Sought, Moving,
         SetSize, pffVars, csrVars, drvVars

LEMMA GoIInv == IInv /\ Go => IInv'
  BY Requested DEF IInv, TypeOK, PffTypeOK, PositionKnown, DiskOpen, Running, Asked, Sought, Moving,
         Go, After, pffVars, csrVars, drvVars

LEMMA RequestIInv == IInv /\ Request => IInv'
<1> SUFFICES ASSUME IInv, Request PROVE IInv'
  OBVIOUS
<1>1. PICK r \in Segments :
        /\ r.buf + r.len <= Cells
        /\ IF r.pos + r.len > Capacity
           THEN answer' = "ioerr" /\ UNCHANGED <<drv, req>>
           ELSE answer' = "none" /\ drv' = "ram" /\ req' = r
  BY DEF Request
<1>2. pc = "run" /\ drv = "idle" /\ UNCHANGED <<pffVars, pc, csrVars, ram>>
  BY DEF Request
<1>3. CASE r.pos + r.len > Capacity
  <2>1. answer' = "ioerr" /\ UNCHANGED <<drv, req>>
    BY <1>1, <1>3
  <2>. QED
    BY <1>2, <2>1
    DEF IInv, TypeOK, PffTypeOK, PositionKnown, DiskOpen, Running, Asked, Sought, Moving,
        pffVars, csrVars
<1>4. CASE ~(r.pos + r.len > Capacity)
  <2>1. answer' = "none" /\ drv' = "ram" /\ req' = r
    BY <1>1, <1>4
  <2>2. r.pos + r.len <= Capacity
    BY <1>4, Requested, DeviceAssumption
  <2>. QED
    BY <1>1, <1>2, <2>1, <2>2
    DEF IInv, TypeOK, PffTypeOK, PositionKnown, DiskOpen, Running, Asked, Sought, Moving,
        pffVars, csrVars
<1>. QED
  BY <1>3, <1>4


(* The one file object, spelled out.                                       *)
LEMMA FileObject ==
  ASSUME TypeOK
  PROVE  \E f \in File, o \in BOOLEAN, k \in Nat, cl \in Nat :
           fs = [file |-> f, opened |-> o, fptr |-> k, curr |-> cl]
<1>1. fs = [file |-> fs.file, opened |-> fs.opened, fptr |-> fs.fptr, curr |-> fs.curr]
  BY DEF TypeOK, PffTypeOK
<1>2. fs.file \in File /\ fs.opened \in BOOLEAN /\ fs.fptr \in Nat /\ fs.curr \in Nat
  BY DEF TypeOK, PffTypeOK
<1>. QED
  BY <1>1, <1>2, Zenon

LEMMA SaveStateIInv == IInv /\ SaveState => IInv'
<1> SUFFICES ASSUME IInv, SaveState PROVE IInv'
  OBVIOUS
<1>1. /\ pc \in {"save", "halt"} /\ pc' \in {"open", "off"}
      /\ drv = "idle"
      /\ UNCHANGED <<ofs, csrVars, drvVars, ram>>
  BY DEF SaveState, IInv, TypeOK, Asked, Running
<1>2. STAT \in File /\ fsize[STAT] \in Nat /\ 0 < fsize[STAT]
  BY DeviceAssumption, VolumeAssumption
<1>3. Place(STAT, 0) \in Nat
  BY <1>2, PlaceInChain
<1>4. Place(STAT, 0) = chain[STAT][1]
  <2>1. 0 \div csize = 0
    BY SizeAssumption
  <2>. QED
    BY <2>1 DEF Place
<1>5. card' \in [Sectors -> Data]
  BY DEF SaveState, IInv, TypeOK, PffTypeOK
<1>6. /\ fs' \in [file : File, opened : BOOLEAN, fptr : Nat, curr : Nat]
      /\ fs'.fptr <= fsize[fs'.file]
      /\ fs'.opened => fs'.fptr = 1 /\ fs'.file = STAT /\ fs'.curr = Place(STAT, 0)
  <2>1. CASE fs' = [file |-> STAT, opened |-> TRUE, fptr |-> 1, curr |-> chain[STAT][1]]
    BY <2>1, <1>2, <1>3, <1>4
  <2>2. CASE fs' = [fs EXCEPT !.file = STAT, !.opened = FALSE, !.fptr = 0]
    <3> PICK f \in File, o \in BOOLEAN, k \in Nat, cl \in Nat :
               fs = [file |-> f, opened |-> o, fptr |-> k, curr |-> cl]
      BY FileObject, Zenon DEF IInv
    <3>1. fs' = [file |-> STAT, opened |-> FALSE, fptr |-> 0, curr |-> cl]
      BY <2>2
    <3>. QED
      BY <3>1, <1>2
  <2>. QED
    BY <2>1, <2>2 DEF SaveState
<1>7. TypeOK'
  BY <1>1, <1>5, <1>6 DEF IInv, TypeOK, PffTypeOK, csrVars, drvVars
<1>8. PositionKnown'
  BY <1>1, <1>6 DEF PositionKnown
<1>. QED
  BY <1>1, <1>7, <1>8 DEF IInv, DiskOpen, Running, Asked, Sought, Moving, drvVars

LEMMA OpenBlkIInv == IInv /\ OpenBlk => IInv'
<1> SUFFICES ASSUME IInv, OpenBlk PROVE IInv'
  OBVIOUS
<1>1. /\ pc = "open" /\ pc' \in {"run", "panic"} /\ drv = "idle"
      /\ UNCHANGED <<card, ofs, csrVars, drvVars, ram>>
  BY DEF OpenBlk, pf_open, IInv, Asked, Running
<1>2. BLK \in File /\ fsize[BLK] \in Nat
  BY DeviceAssumption, VolumeAssumption
<1>3. /\ fs' \in [file : File, opened : BOOLEAN, fptr : Nat, curr : Nat]
      /\ fs'.file = BLK /\ fs'.fptr = 0
  <2> PICK f \in File, o \in BOOLEAN, k \in Nat, cl \in Nat :
             fs = [file |-> f, opened |-> o, fptr |-> k, curr |-> cl]
    BY FileObject, Zenon DEF IInv
  <2>1. PICK ok \in BOOLEAN : fs' = [fs EXCEPT !.file = BLK, !.opened = ok, !.fptr = 0]
    BY Zenon DEF OpenBlk, pf_open
  <2>2. fs' = [file |-> BLK, opened |-> ok, fptr |-> 0, curr |-> cl]
    BY <2>1
  <2>. QED
    BY <2>2, <1>2
<1>4. TypeOK'
  BY <1>1, <1>2, <1>3 DEF IInv, TypeOK, PffTypeOK, csrVars, drvVars
<1>. QED
  BY <1>1, <1>3, <1>4
  DEF IInv, PositionKnown, DiskOpen, Running, Asked, Sought, Moving, drvVars

LEMMA PowerCutIInv == IInv /\ PowerCut => IInv'
<1> SUFFICES ASSUME IInv, PowerCut PROVE IInv'
  OBVIOUS
<1>1. /\ pc' = "off" /\ drv' = "idle" /\ req' \in Segments \cup {Nothing}
      /\ answer' \in {"none", "ok", "ioerr"}
  BY DEF PowerCut, Forget, drvVars, IInv, TypeOK, Asked, Running
<1>2. /\ fs' \in [file : File, opened : BOOLEAN, fptr : Nat, curr : Nat]
      /\ fs'.fptr = fs.fptr /\ fs'.file = fs.file /\ ~fs'.opened
  BY DEF PowerCut, Abort, IInv, TypeOK, PffTypeOK
<1>3. TypeOK'
  BY <1>1, <1>2, DeviceAssumption DEF PowerCut, IInv, TypeOK, PffTypeOK
<1>. QED
  BY <1>1, <1>2, <1>3
  DEF IInv, PositionKnown, DiskOpen, Running, Asked, Sought, Moving

(* pf_lseek, as SETOFFS calls it.                                          *)
LEMMA SetOffsIInv == IInv /\ SetOffs => IInv'
<1> SUFFICES ASSUME IInv, SetOffs PROVE IInv'
  OBVIOUS
<1>1. /\ pc = "run" /\ drv = "offs" /\ drv' = "size"
      /\ UNCHANGED <<blk_ram_ptr, blk_transfer_size, nblocks, req, answer, ram>>
  BY DEF SetOffs
<1>2. req \in Segments /\ req.pos \in 0 .. Capacity
  BY <1>1, Requested DEF IInv, Asked
<1>3. CASE ~fs.opened
  <2>1. blk_err' = "NOT_OPENED" /\ UNCHANGED <<card, fs, ofs, pc>>
    BY <1>3 DEF SetOffs, pffVars
  <2>. QED
    BY <1>1, <1>3, <2>1
    DEF IInv, TypeOK, PffTypeOK, PositionKnown, DiskOpen, Running, Asked, Sought, Moving
<1>4. CASE fs.opened
  <2>1. SeekStart(req.pos) /\ pc' = "seek" /\ UNCHANGED blk_err
    BY <1>4 DEF SetOffs
  <2>2. TypeOK /\ PositionKnown /\ fs.file = BLK
    BY <1>1, <1>4 DEF IInv, DiskOpen, Running
  <2>3. /\ UNCHANGED card
        /\ fs'.file = BLK /\ fs'.opened
        /\ fs' \in [file : File, opened : BOOLEAN, fptr : Nat, curr : Nat]
        /\ ofs' \in Nat
        /\ fs'.fptr + ofs' = req.pos /\ fs'.fptr <= fsize[BLK]
        /\ \/ ofs' = 0 /\ fs'.fptr = 0
           \/ ofs' > 0 /\ fs'.fptr % csize = 0 /\ fs'.curr = Place(BLK, fs'.fptr)
    <3> PICK to \in 0 .. Capacity : to = req.pos
      BY <1>2
    <3>1. pc # "seek" /\ SeekStart(to)
      BY <1>1, <2>1
    <3>. QED
      BY <3>1, <2>2, <1>4, SeekBegins
  <2>4. TypeOK'
    BY <1>1, <2>1, <2>3 DEF IInv, TypeOK, PffTypeOK
  <2>5. PositionKnown'
    BY <2>1, <2>3, Zenon DEF PositionKnown
  <2>6. DiskOpen' /\ Asked'
    BY <1>1, <2>1, <2>3 DEF IInv, DiskOpen, Asked, Running
  <2>7. Sought' /\ Moving'
    BY <1>1, <2>1, <2>3 DEF Sought, Moving
  <2>. QED
    BY <2>4, <2>5, <2>6, <2>7 DEF IInv
<1>. QED
  BY <1>3, <1>4

(* One step of the walk along the chain, or its end.                       *)
LEMMA SeekIInv == IInv /\ Seek => IInv'
<1> SUFFICES ASSUME IInv, Seek PROVE IInv'
  OBVIOUS
<1>1. /\ pc = "seek" /\ drv = "size" /\ fs.opened /\ fs.file = BLK
      /\ UNCHANGED <<blk_ram_ptr, blk_transfer_size, nblocks, drv, req, answer, ram>>
  BY DEF Seek, drvVars, IInv, Sought, DiskOpen, Running
<1>2. PICK p \in Nat, cl \in Nat, o \in Nat :
        p = fs.fptr /\ cl = fs.curr /\ o = ofs
  BY DEF IInv, TypeOK, PffTypeOK
<1>a. fs = [file |-> BLK, opened |-> TRUE, fptr |-> p, curr |-> cl]
  BY <1>1, <1>2 DEF IInv, TypeOK, PffTypeOK
<1>3. /\ BLK \in File /\ fsize[BLK] \in Nat /\ csize \in Nat \ {0}
      /\ Capacity \in Nat /\ Capacity <= fsize[BLK]
  BY DeviceAssumption, VolumeAssumption, SizeAssumption, WholeFileAssumption
<1>4. p + o = req.pos /\ req.pos \in 0 .. Capacity
  BY <1>1, <1>2, Requested DEF IInv, Asked, Sought
<1>5. p + o <= fsize[BLK]
  BY <1>3, <1>4
<1>6. \/ o = 0 /\ p = 0
      \/ o > 0 /\ p % csize = 0 /\ cl = Place(BLK, p)
  BY <1>1, <1>2, Zenon DEF IInv, PositionKnown
<1>7. SUFFICES
        /\ UNCHANGED card
        /\ fs' \in [file : File, opened : BOOLEAN, fptr : Nat, curr : Nat]
        /\ fs'.file = BLK /\ fs'.fptr <= fsize[BLK]
        /\ ofs' \in Nat /\ blk_err' \in {"OK", "DISK_ERR", "NOT_OPENED"}
        /\ pc' \in {"seek", "run"} /\ (pc' = "seek" => fs'.opened)
        /\ fs'.opened /\ pc' = "seek" =>
             /\ fs'.fptr + ofs' = req.pos
             /\ ofs' > 0 /\ fs'.fptr % csize = 0 /\ fs'.curr = Place(BLK, fs'.fptr)
        /\ fs'.opened /\ pc' = "run" =>
             /\ fs'.fptr = req.pos
             /\ fs'.fptr > 0 => fs'.curr = Place(BLK, fs'.fptr - 1)
  <2>1. TypeOK'
    BY <1>1, <1>7 DEF IInv, TypeOK, PffTypeOK
  <2>2. PositionKnown'
    BY <1>7, Zenon DEF PositionKnown
  <2>3. DiskOpen' /\ Asked'
    BY <1>1, <1>7 DEF IInv, DiskOpen, Asked, Running
  <2>4. Sought' /\ Moving'
    BY <1>1, <1>7 DEF Sought, Moving
  <2>. QED
    BY <2>1, <2>2, <2>3, <2>4 DEF IInv
<1>8. CASE SeekFollow /\ UNCHANGED <<pc, blk_err>>
  <2>1. /\ o > csize /\ ofs' = o - csize /\ UNCHANGED card
        /\ fs' = [file |-> BLK, opened |-> TRUE, fptr |-> p + csize, curr |-> fat[cl]]
    <3>1. fs' = [fs EXCEPT !.curr = fat[fs.curr], !.fptr = fs.fptr + csize]
      BY <1>8 DEF SeekFollow
    <3>2. fs' = [fs EXCEPT !.curr = fat[cl], !.fptr = p + csize]
      BY <3>1, <1>2, Zenon
    <3>3. o > csize /\ ofs' = o - csize /\ UNCHANGED card
      BY <1>2, <1>8 DEF SeekFollow
    <3>. QED
      BY <3>2, <3>3, <1>a
  <2>2. p % csize = 0 /\ cl = Place(BLK, p)
    BY <1>6, <2>1, <1>3
  <2>3. /\ fat[cl] = Place(BLK, p + csize) /\ Place(BLK, p + csize) \in Nat
        /\ (p + csize) % csize = 0 /\ p + csize <= fsize[BLK]
    BY <2>1, <2>2, <1>3, <1>5, NextPlace
  <2>4. p + csize \in Nat /\ o - csize \in Nat /\ o - csize > 0
        /\ (p + csize) + (o - csize) = req.pos
    BY <2>1, <1>3, <1>4
  <2>5. blk_err' \in {"OK", "DISK_ERR", "NOT_OPENED"} /\ pc' = "seek"
    BY <1>1, <1>8 DEF IInv, TypeOK
  <2>6. fs' \in [file : File, opened : BOOLEAN, fptr : Nat, curr : Nat]
    BY <2>1, <2>3, <2>4, <1>3
  <2>7. fs'.file = BLK /\ fs'.opened /\ fs'.fptr = p + csize /\ fs'.curr = fat[cl]
    BY <2>1
  <2>. QED
    BY <2>1, <2>3, <2>4, <2>5, <2>6, <2>7
<1>9. CASE SeekAbort /\ pc' = "run" /\ blk_err' = "DISK_ERR"
  <2>1. fs' = [fs EXCEPT !.opened = FALSE] /\ ofs' = 0 /\ UNCHANGED card
    BY <1>9 DEF SeekAbort, Abort
  <2>2. fs' = [file |-> BLK, opened |-> FALSE, fptr |-> p, curr |-> cl]
    BY <2>1, <1>a
  <2>3. p <= fsize[BLK]
    BY <1>3, <1>5
  <2>. QED
    <3>1. fs'.file = BLK /\ ~fs'.opened /\ fs'.fptr = p
      BY <2>2
    <3>2. fs' \in [file : File, opened : BOOLEAN, fptr : Nat, curr : Nat]
      BY <2>2, <1>3
    <3>. QED
      BY <2>1, <2>3, <3>1, <3>2, <1>9
<1>10. CASE SeekDone /\ pc' = "run" /\ blk_err' = "OK"
  <2>1. /\ o <= csize /\ ofs' = 0 /\ UNCHANGED card
        /\ fs' = [file |-> BLK, opened |-> TRUE, fptr |-> p + o, curr |-> cl]
    <3>1. fs' = [fs EXCEPT !.fptr = fs.fptr + ofs]
      BY <1>10 DEF SeekDone
    <3>2. fs' = [fs EXCEPT !.fptr = p + o]
      BY <3>1, <1>2, Zenon
    <3>3. o <= csize /\ ofs' = 0 /\ UNCHANGED card
      BY <1>2, <1>10 DEF SeekDone
    <3>. QED
      BY <3>2, <3>3, <1>a
  <2>2. p + o > 0 => cl = Place(BLK, (p + o) - 1)
    <3>1. SUFFICES ASSUME p + o > 0 PROVE cl = Place(BLK, (p + o) - 1)
      OBVIOUS
    <3>2. o > 0 /\ p % csize = 0 /\ cl = Place(BLK, p)
      BY <3>1, <1>6
    <3>3. o \in Nat \ {0} /\ o <= csize
      BY <3>2, <2>1
    <3>4. Place(BLK, (p + o) - 1) = Place(BLK, p)
      BY <3>2, <3>3, <1>3, SamePlace
    <3>. QED
      BY <3>2, <3>4
  <2>. QED
    BY <2>1, <2>2, <1>3, <1>4, <1>5, <1>10
<1>. QED
  BY <1>8, <1>9, <1>10 DEF Seek

(* What one round of the loop over the blocks can do: move block i of the  *)
(* request; lose the file over it; or, the file lost before, pass by.      *)
MovesIt(i) ==
  /\ fs.opened /\ blk_err' = "OK"
  /\ fs' = [file |-> BLK, opened |-> TRUE, fptr |-> (req.pos + i) + 1,
            curr |-> Place(BLK, req.pos + i)]
  /\ \/ /\ req.op = "write"
        /\ card' = [card EXCEPT ![SectorOf(BLK, req.pos + i)] = ram[req.buf + i]]
        /\ UNCHANGED ram
     \/ /\ req.op = "read"
        /\ ram' = [ram EXCEPT ![req.buf + i] = card[SectorOf(BLK, req.pos + i)]]
        /\ UNCHANGED card

LosesIt(i) ==
  /\ fs.opened /\ blk_err' = "DISK_ERR" /\ fs' = [fs EXCEPT !.opened = FALSE]
  /\ \/ /\ req.op = "write"
        /\ UNCHANGED ram
        /\ \/ UNCHANGED card
           \/ \E x \in Data : card' = [card EXCEPT ![SectorOf(BLK, req.pos + i)] = x]
     \/ /\ req.op = "read"
        /\ \E x \in Data : ram' = [ram EXCEPT ![req.buf + i] = x]
        /\ UNCHANGED card

PassesBy(i) ==
  /\ ~fs.opened /\ blk_err' = "NOT_OPENED" /\ UNCHANGED <<card, fs>>
  /\ \/ req.op = "write" /\ UNCHANGED ram
     \/ /\ req.op = "read"
        /\ \E x \in Data : ram' = [ram EXCEPT ![req.buf + i] = x]

LEMMA OneRound ==
  ASSUME IInv, MoveBlock, NEW i, i = req.len - nblocks
  PROVE  /\ pc = "move" /\ drv = "status" /\ req \in Segments
         /\ i \in 0 .. req.len - 1 /\ nblocks \in 1 .. MaxLen
         /\ req.buf + i \in Cell /\ req.pos + i \in Block
         /\ blk_ram_ptr' = (req.buf + i) + 1
         /\ nblocks' = nblocks - 1 /\ pc' = After(nblocks')
         /\ UNCHANGED <<ofs, blk_transfer_size, drvVars>>
         /\ MovesIt(i) \/ LosesIt(i) \/ PassesBy(i)
<1>1. /\ pc = "move" /\ drv = "status" /\ nblocks > 0 /\ nblocks \in 0 .. MaxLen
      /\ req \in Segments /\ req.pos + req.len <= Capacity /\ req.buf + req.len <= Cells
      /\ nblocks <= req.len /\ blk_ram_ptr = req.buf + i
      /\ fs.opened => fs.fptr = req.pos + i /\ fs.file = BLK
  BY DEF MoveBlock, IInv, TypeOK, Asked, Moving, DiskOpen, Running
<1>2. PICK p \in Nat, n \in Nat, b \in Nat : p = req.pos /\ n = req.len /\ b = req.buf
  BY <1>1, Requested
<1>3. i \in 0 .. n - 1 /\ nblocks \in 1 .. MaxLen
  BY <1>1, <1>2, DeviceAssumption
<1>4. b + i \in Cell /\ p + i \in Block /\ p + i \in Nat
  BY <1>1, <1>2, <1>3, DeviceAssumption DEF Cell, Block
<1>5. BLK \in File /\ fsize[BLK] \in Nat /\ p + i < fsize[BLK]
  BY <1>4, DeviceAssumption, VolumeAssumption, WholeFileAssumption DEF Block
<1>6. fs.opened => /\ ~Eof(fs)
                   /\ CurrClust(fs) = Place(BLK, p + i) /\ CurrClust(fs) \in Clusters
                   /\ Sector(fs) = SectorOf(BLK, p + i)
  <2> SUFFICES ASSUME fs.opened PROVE
        /\ ~Eof(fs)
        /\ CurrClust(fs) = Place(BLK, p + i) /\ CurrClust(fs) \in Clusters
        /\ Sector(fs) = SectorOf(BLK, p + i)
    OBVIOUS
  <2>1. fs.fptr = p + i /\ fs.file = BLK
    BY <1>1, <1>2
  <2>2. ~Eof(fs)
    BY <2>1, <1>4, <1>5 DEF Eof
  <2>3. TypeOK /\ PositionKnown /\ pc # "seek"
    BY <1>1 DEF IInv
  <2>4. /\ CurrClust(fs) = Place(fs.file, fs.fptr) /\ CurrClust(fs) \in Clusters
        /\ Sector(fs) = SectorOf(fs.file, fs.fptr)
    BY <2>2, <2>3, CurrentCluster
  <2>. QED
    BY <2>1, <2>2, <2>4, Zenon
<1>7. fs.opened => Advance(fs) = [file |-> BLK, opened |-> TRUE, fptr |-> (p + i) + 1,
                                  curr |-> Place(BLK, p + i)]
  <2> SUFFICES ASSUME fs.opened
               PROVE Advance(fs) = [file |-> BLK, opened |-> TRUE, fptr |-> (p + i) + 1,
                                    curr |-> Place(BLK, p + i)]
    OBVIOUS
  <2> PICK f \in File, o \in BOOLEAN, k \in Nat, cl \in Nat :
             fs = [file |-> f, opened |-> o, fptr |-> k, curr |-> cl]
    BY FileObject, Zenon DEF IInv
  <2>1. f = BLK /\ o = TRUE /\ k = p + i /\ fs.fptr = k
    BY <1>1, <1>2
  <2>2. Advance(fs) = [fs EXCEPT !.fptr = k + 1, !.curr = Place(BLK, p + i)]
    BY <2>1, <1>6, Zenon DEF Advance
  <2>. QED
    BY <2>1, <2>2
<1>8. PICK rc \in {"OK", "DISK_ERR", "NOT_OPENED"}, d \in Data :
        /\ \/ req.op = "write" /\ d = ram[blk_ram_ptr] /\ pf_write(rc, d) /\ UNCHANGED ram
           \/ req.op = "read" /\ pf_read(rc, d) /\ ram' = [ram EXCEPT ![blk_ram_ptr] = d]
        /\ blk_err' = rc
  BY Zenon DEF MoveBlock
<1>9. MovesIt(i) \/ LosesIt(i) \/ PassesBy(i)
  <2>1. CASE /\ req.op = "write" /\ d = ram[blk_ram_ptr] /\ pf_write(rc, d)
             /\ UNCHANGED ram
    <3>1. CASE ~fs.opened /\ rc = "NOT_OPENED" /\ UNCHANGED <<card, fs>>
      BY <2>1, <3>1, <1>8, Zenon DEF PassesBy
    <3>2. CASE /\ fs.opened /\ rc = "OK"
               /\ card' = [card EXCEPT ![Sector(fs)] = d] /\ fs' = Advance(fs)
      BY <2>1, <3>2, <1>1, <1>2, <1>6, <1>7, <1>8, Zenon DEF MovesIt
    <3>3. CASE /\ fs.opened /\ rc = "DISK_ERR" /\ fs' = Abort(fs)
               /\ \/ UNCHANGED card
                  \/ \E x \in Data : card' = [card EXCEPT ![Sector(fs)] = x]
      BY <2>1, <3>3, <1>2, <1>6, <1>8, Zenon DEF LosesIt, Abort
    <3>. QED
      BY <2>1, <3>1, <3>2, <3>3, <1>6, Zenon DEF pf_write
  <2>2. CASE req.op = "read" /\ pf_read(rc, d) /\ ram' = [ram EXCEPT ![blk_ram_ptr] = d]
    <3>1. CASE ~fs.opened /\ rc = "NOT_OPENED" /\ UNCHANGED <<card, fs>>
      BY <2>2, <3>1, <1>1, <1>8, Zenon DEF PassesBy
    <3>2. CASE /\ fs.opened /\ rc = "OK" /\ d = card[Sector(fs)]
               /\ UNCHANGED card /\ fs' = Advance(fs)
      BY <2>2, <3>2, <1>1, <1>2, <1>6, <1>7, <1>8, Zenon DEF MovesIt
    <3>3. CASE fs.opened /\ rc = "DISK_ERR" /\ fs' = Abort(fs) /\ UNCHANGED card
      BY <2>2, <3>3, <1>1, <1>2, <1>6, <1>8, Zenon DEF LosesIt, Abort
    <3>4. UNCHANGED card
      BY <2>2, Zenon DEF pf_read
    <3>. QED
      BY <2>2, <3>1, <3>2, <3>3, <3>4, <1>6, Zenon DEF pf_read
  <2>. QED
    BY <2>1, <2>2, <1>8, Zenon
<1>10. /\ blk_ram_ptr' = (req.buf + i) + 1 /\ nblocks' = nblocks - 1 /\ pc' = After(nblocks')
       /\ UNCHANGED <<blk_transfer_size, drvVars>>
  BY <1>1, Zenon DEF MoveBlock
<1>11. UNCHANGED ofs
  BY <1>8, Zenon DEF pf_read, pf_write
<1>. QED
  BY <1>1, <1>2, <1>3, <1>4, <1>9, <1>10, <1>11

LEMMA MoveBlockIInv == IInv /\ MoveBlock => IInv'
<1> SUFFICES ASSUME IInv, MoveBlock PROVE IInv'
  OBVIOUS
<1> PICK i : i = req.len - nblocks
  OBVIOUS
<1>1. /\ pc = "move" /\ drv = "status" /\ req \in Segments
      /\ i \in 0 .. req.len - 1 /\ nblocks \in 1 .. MaxLen
      /\ req.buf + i \in Cell /\ req.pos + i \in Block
      /\ blk_ram_ptr' = (req.buf + i) + 1
      /\ nblocks' = nblocks - 1 /\ pc' = After(nblocks')
      /\ UNCHANGED <<ofs, blk_transfer_size, drvVars>>
      /\ MovesIt(i) \/ LosesIt(i) \/ PassesBy(i)
  BY OneRound
<1>2. PICK p \in Nat, n \in Nat, b \in Nat : p = req.pos /\ n = req.len /\ b = req.buf
  BY <1>1, Requested
<1>3. /\ p + i \in Nat /\ (p + i) + 1 \in Nat
      /\ BLK \in File /\ fsize[BLK] \in Nat /\ p + i < fsize[BLK]
      /\ (p + i) + 1 <= fsize[BLK] /\ Place(BLK, p + i) \in Nat
  <2>1. p + i \in Nat /\ BLK \in File /\ fsize[BLK] \in Nat /\ p + i < fsize[BLK]
    BY <1>1, <1>2, DeviceAssumption, VolumeAssumption, WholeFileAssumption DEF Block
  <2>. QED
    BY <2>1, PlaceInChain
<1>4. /\ n - (nblocks - 1) = i + 1 /\ nblocks - 1 <= n
      /\ nblocks - 1 \in 0 .. MaxLen
      /\ (b + i) + 1 = b + (i + 1) /\ (p + i) + 1 = p + (i + 1)
      /\ (b + i) + 1 \in 0 .. Cells
  BY <1>1, <1>2, DeviceAssumption DEF Cell
<1>5. pc' \in {"move", "run"} /\ (pc' = "run" <=> nblocks' = 0)
  BY <1>1 DEF After
<1>6. /\ card' \in [Sectors -> Data] /\ ram' \in [Cell -> Data]
  <2>1. card \in [Sectors -> Data] /\ ram \in [Cell -> Data]
    BY DEF IInv, TypeOK, PffTypeOK
  <2>2. SectorOf(BLK, p + i) \in Sectors
    BY <1>3, SectorInCard
  <2>3. card[SectorOf(BLK, p + i)] \in Data /\ ram[b + i] \in Data
    BY <2>1, <2>2, <1>1, <1>2
  <2>. QED
    BY <2>1, <2>3, <1>1, <1>2 DEF MovesIt, LosesIt, PassesBy
<1>7. /\ blk_err' \in {"OK", "DISK_ERR", "NOT_OPENED"} /\ (blk_err' = "OK" <=> fs'.opened)
      /\ fs' \in [file : File, opened : BOOLEAN, fptr : Nat, curr : Nat]
      /\ fs'.fptr <= fsize[fs'.file]
      /\ fs'.opened => /\ fs'.file = BLK /\ fs'.fptr = (p + i) + 1
                       /\ fs'.curr = Place(BLK, p + i)
  <2>1. CASE MovesIt(i)
    <3>1. blk_err' = "OK" /\ fs' = [file |-> BLK, opened |-> TRUE, fptr |-> (p + i) + 1,
                                    curr |-> Place(BLK, p + i)]
      BY <2>1, <1>2, Zenon DEF MovesIt
    <3>. QED
      BY <3>1, <1>3
  <2>2. CASE LosesIt(i)
    <3> PICK f \in File, o \in BOOLEAN, k \in Nat, cl \in Nat :
               fs = [file |-> f, opened |-> o, fptr |-> k, curr |-> cl]
      BY FileObject, Zenon DEF IInv
    <3>1. blk_err' = "DISK_ERR" /\ fs' = [fs EXCEPT !.opened = FALSE]
      BY <2>2, Zenon DEF LosesIt
    <3>2. fs' = [file |-> f, opened |-> FALSE, fptr |-> k, curr |-> cl]
      BY <3>1
    <3>3. fs.fptr <= fsize[fs.file] /\ fs.fptr = k /\ fs.file = f
      BY DEF IInv, TypeOK, PffTypeOK
    <3>. QED
      BY <3>1, <3>2, <3>3
  <2>3. CASE PassesBy(i)
    BY <2>3 DEF PassesBy, IInv, TypeOK, PffTypeOK
  <2>. QED
    BY <2>1, <2>2, <2>3, <1>1
<1>8. TypeOK'
  <2>1. UNCHANGED <<ofs, blk_transfer_size, drv, req, answer>>
    BY <1>1 DEF drvVars
  <2>2. blk_ram_ptr' \in 0 .. Cells /\ nblocks' \in 0 .. MaxLen
    BY <1>1, <1>2, <1>4
  <2>3. PffTypeOK'
    BY <2>1, <1>6, <1>7 DEF IInv, TypeOK, PffTypeOK
  <2>. QED
    BY <2>1, <2>2, <2>3, <1>5, <1>6, <1>7 DEF IInv, TypeOK
<1>9. PositionKnown'
  <2>1. ((p + i) + 1) - 1 = p + i
    BY <1>3
  <2>. QED
    BY <1>5, <1>7, <2>1 DEF PositionKnown
<1>10. DiskOpen' /\ Asked' /\ Sought'
  BY <1>1, <1>5, <1>7 DEF IInv, DiskOpen, Asked, Sought, Running, drvVars
<1>11. Moving'
  BY <1>1, <1>2, <1>4, <1>5, <1>7 DEF Moving, drvVars
<1>. QED
  BY <1>8, <1>9, <1>10, <1>11 DEF IInv

LEMMA StutterIInv == IInv /\ UNCHANGED vars => IInv'
  BY DEF IInv, TypeOK, PffTypeOK, PositionKnown, DiskOpen, Running, Asked, Sought, Moving,
         vars, pffVars, csrVars, drvVars

LEMMA NextIInv == IInv /\ [Next]_vars => IInv'
  BY BootIInv, SaveStateIInv, OpenBlkIInv, RebootIInv, HibernateIInv, PowerCutIInv,
     FillIInv, RequestIInv, SetRamIInv, SetOffsIInv, SeekIInv, SetSizeIInv, GoIInv,
     MoveBlockIInv, StatusIInv, StutterIInv, Zenon
  DEF Next

(* Position and length stay within the file, the registers within their    *)
(* ranges, and whatever is written lands on a sector of the data area      *)
(* (emulator.c 425-494, pff.c 937-1095).                                   *)
THEOREM TypeCorrect == Spec => []TypeOK
<1>1. IInv => TypeOK
  BY DEF IInv
<1>. QED
  BY <1>1, InitIInv, NextIInv, PTL DEF Spec

(* pf_lseek and the transfers always go on from the cluster of the sector  *)
(* before the position, or, within a seek, of the position itself, however *)
(* long the cluster, the chain and the request, wherever the chain leads,  *)
(* and whichever read or write of the card fails (pff.c 1062-1084).        *)
THEOREM PositionIsKnown == Spec => []PositionKnown
<1>1. IInv => PositionKnown
  BY DEF IInv
<1>. QED
  BY <1>1, InitIInv, NextIInv, PTL DEF Spec
-----------------------------------------------------------------------------
(* The array of blocks and the request at work, as BlockDevice reads them  *)
(* off the state.                                                          *)
Disk == [b \in Block |-> card[SectorOf(BLK, b)]]

Io == IF drv = "idle" THEN [req |-> Nothing, done |-> 0]
      ELSE [req |-> req,
            done |-> IF ~fs.opened THEN -1
                     ELSE IF drv = "status" THEN req.len - nblocks ELSE 0]

(* Every block of the disk is a sector of the image.                       *)
LEMMA DiskSector ==
  ASSUME NEW b \in Block
  PROVE  BLK \in File /\ b \in Nat /\ b < fsize[BLK] /\ SectorOf(BLK, b) \in Sectors
<1>1. BLK \in File /\ b \in Nat /\ fsize[BLK] \in Nat /\ b < fsize[BLK]
  BY DeviceAssumption, VolumeAssumption, WholeFileAssumption DEF Block
<1>. QED
  BY <1>1, SectorInCard

(* Writing a sector of the image writes that block,                        *)
LEMMA DiskWritten ==
  ASSUME TypeOK, NEW b \in Block, NEW d,
         card' = [card EXCEPT ![SectorOf(BLK, b)] = d]
  PROVE  Disk' = [Disk EXCEPT ![b] = d]
<1>1. card \in [Sectors -> Data]
  BY DEF TypeOK, PffTypeOK
<1>2. \A a \in Block : card'[SectorOf(BLK, a)] = IF a = b THEN d ELSE card[SectorOf(BLK, a)]
  <2>1. ASSUME NEW a \in Block
        PROVE  card'[SectorOf(BLK, a)] = IF a = b THEN d ELSE card[SectorOf(BLK, a)]
    <3>1. SectorOf(BLK, a) \in Sectors /\ SectorOf(BLK, b) \in Sectors
      BY DiskSector
    <3>2. SectorOf(BLK, a) = SectorOf(BLK, b) => a = b
      BY DiskSector, SectorsApart
    <3>. QED
      BY <1>1, <3>1, <3>2
  <2>. QED
    BY <2>1
<1>. QED
  BY <1>2 DEF Disk

(* ... and writing the power state writes none.                            *)
LEMMA DiskKept ==
  ASSUME TypeOK, NEW d, card' = [card EXCEPT ![SectorOf(STAT, 0)] = d]
  PROVE  Disk' = Disk
<1>1. card \in [Sectors -> Data]
  BY DEF TypeOK, PffTypeOK
<1>2. STAT \in File /\ STAT # BLK /\ 0 < fsize[STAT]
  BY DeviceAssumption, VolumeAssumption
<1>3. \A a \in Block : card'[SectorOf(BLK, a)] = card[SectorOf(BLK, a)]
  <2>1. ASSUME NEW a \in Block
        PROVE  card'[SectorOf(BLK, a)] = card[SectorOf(BLK, a)]
    <3>1. SectorOf(BLK, a) \in Sectors /\ SectorOf(STAT, 0) \in Sectors
      BY <1>2, DiskSector, SectorInCard
    <3>2. SectorOf(BLK, a) # SectorOf(STAT, 0)
      BY <1>2, DiskSector, SectorsApart
    <3>. QED
      BY <1>1, <3>1, <3>2
  <2>. QED
    BY <2>1
<1>. QED
  BY <1>3 DEF Disk

LEMMA BlockInit == Init => BlockDevice!Init
<1> SUFFICES ASSUME Init PROVE BlockDevice!Init
  OBVIOUS
<1>1. \A b \in Block : card[SectorOf(BLK, b)] \in Data
  BY DiskSector DEF Init, PffInit
<1>. QED
  BY <1>1 DEF Init, Nothing, BlockDevice!Init, BlockDevice!Idle

(* When nothing the kernel sees changes, the abstract step is a stutter.   *)
LEMMA Unseen ==
  ASSUME Disk' = Disk, Io' = Io, UNCHANGED <<ram, answer>>
  PROVE  UNCHANGED BlockDevice!vars
  BY DEF Disk, Io, BlockDevice!vars

LEMMA QuietSteps ==
  ASSUME IInv, Boot \/ Hibernate \/ SetRam \/ SetSize \/ Go \/ UNCHANGED vars
  PROVE  UNCHANGED BlockDevice!vars
<1>1. UNCHANGED <<card, fs, ram, answer>>
  BY DEF Boot, Hibernate, SetRam, SetSize, Go, vars, pffVars, drvVars
<1>2. Disk' = Disk
  BY <1>1 DEF Disk
<1>3. Io' = Io
  <2>1. CASE Boot \/ Hibernate \/ UNCHANGED vars
    BY <2>1, <1>1 DEF Boot, Hibernate, vars, csrVars, drvVars, Io
  <2>2. CASE SetRam \/ SetSize
    BY <2>2, <1>1 DEF SetRam, SetSize, Io
  <2>3. CASE Go
    <3>1. drv = "go" /\ drv' = "status" /\ req' = req /\ nblocks' = req.len /\ req.len \in Nat
      BY <2>3, Requested DEF Go, IInv, Asked
    <3>2. req.len - nblocks' = 0
      BY <3>1
    <3>. QED
      BY <3>1, <3>2, <1>1 DEF Io
  <2>. QED
    BY <2>1, <2>2, <2>3
<1>. QED
  BY <1>1, <1>2, <1>3, Unseen

(* Outside the guest's run there is no request: the power state is saved,  *)
(* and the disk opened, unseen.                                            *)
LEMMA FirmwareSteps ==
  ASSUME IInv, SaveState \/ OpenBlk
  PROVE  UNCHANGED BlockDevice!vars
<1>1. drv = "idle" /\ UNCHANGED <<drvVars, ram>>
  BY DEF SaveState, OpenBlk, IInv, Asked, Running
<1>2. Io' = Io
  BY <1>1 DEF Io, drvVars
<1>3. Disk' = Disk
  <2>1. CASE UNCHANGED card
    BY <2>1 DEF Disk
  <2>2. CASE \E d \in Data : card' = [card EXCEPT ![SectorOf(STAT, 0)] = d]
    BY <2>2, DiskKept DEF IInv
  <2>. QED
    BY <2>1, <2>2 DEF SaveState, OpenBlk, pf_open
<1>. QED
  BY <1>1, <1>2, <1>3, Unseen DEF drvVars

LEMMA EndingSteps ==
  ASSUME IInv, Reboot \/ PowerCut
  PROVE  BlockDevice!Stop \/ UNCHANGED BlockDevice!vars
<1>1. UNCHANGED <<card, ram>>
  BY DEF Reboot, PowerCut, pffVars
<1>2. Disk' = Disk
  BY <1>1 DEF Disk
<1>3. CASE Forget
  <2>1. Io' = [req |-> Nothing, done |-> 0] /\ answer' = "none"
    BY <1>3 DEF Forget, Io
  <2>. QED
    BY <1>1, <1>2, <2>1 DEF BlockDevice!Stop, BlockDevice!Idle, Nothing, Disk, Io
<1>4. CASE PowerCut /\ pc = "off"
  <2>1. drv = "idle" /\ UNCHANGED drvVars
    BY <1>4 DEF PowerCut, IInv, Asked, Running
  <2>2. Io' = Io
    BY <2>1 DEF Io, drvVars
  <2>. QED
    BY <1>1, <1>2, <2>1, <2>2, Unseen DEF drvVars
<1>. QED
  BY <1>3, <1>4 DEF Reboot, PowerCut

LEMMA DriverSteps ==
  /\ IInv /\ Fill => BlockDevice!Compute
  /\ IInv /\ Request => BlockDevice!Start \/ BlockDevice!Compute
  /\ IInv /\ Status => BlockDevice!Answer
<1>1. IInv /\ Fill => BlockDevice!Compute
  <2> SUFFICES ASSUME IInv, Fill PROVE BlockDevice!Compute
    OBVIOUS
  <2>1. drv = "idle" /\ UNCHANGED <<pffVars, csrVars, drvVars>>
    BY DEF Fill
  <2>2. Disk' = Disk /\ Io' = Io /\ Io.req = Nothing
    BY <2>1 DEF Disk, Io, pffVars, csrVars, drvVars
  <2>3. UNCHANGED answer
    BY <2>1 DEF drvVars
  <2>4. \E c \in Cell, d \in Data : ram' = [ram EXCEPT ![c] = d]
    BY DEF Fill
  <2>. QED
    BY <2>2, <2>3, <2>4 DEF BlockDevice!Compute, BlockDevice!Idle, Nothing, Disk, Io
<1>2. IInv /\ Request => BlockDevice!Start \/ BlockDevice!Compute
  <2> SUFFICES ASSUME IInv, Request PROVE BlockDevice!Start \/ BlockDevice!Compute
    OBVIOUS
  <2>1. drv = "idle" /\ UNCHANGED <<card, fs, ram>>
    BY DEF Request, pffVars
  <2>2. Disk' = Disk /\ Io = [req |-> Nothing, done |-> 0]
    BY <2>1 DEF Disk, Io
  <2>3. PICK r \in Segments :
          IF r.pos + r.len > Capacity
          THEN answer' = "ioerr" /\ UNCHANGED <<drv, req>>
          ELSE answer' = "none" /\ drv' = "ram" /\ req' = r
    BY DEF Request
  <2>4. CASE r.pos + r.len > Capacity
    <3>1. Io' = Io /\ answer' = "ioerr"
      BY <2>1, <2>3, <2>4 DEF Io
    <3>2. BlockDevice!Compute
      BY <2>1, <2>2, <3>1 DEF BlockDevice!Compute, BlockDevice!Idle, Nothing, Disk, Io
    <3>. QED  BY <3>2
  <2>5. CASE ~(r.pos + r.len > Capacity)
    <3>1. answer' = "none" /\ Io' = [req |-> r, done |-> IF ~fs.opened THEN -1 ELSE 0]
      BY <2>1, <2>3, <2>5 DEF Io
    <3>2. r \in [op : {"read", "write"}, pos : Nat, len : Nat \ {0}, buf : Nat]
      BY Requested DEF Segments
    <3>3. BlockDevice!Start
      BY <2>1, <2>2, <3>1, <3>2
      DEF BlockDevice!Start, BlockDevice!Idle, BlockDevice!Requests, BlockDevice!Failing,
          Nothing, Disk, Io
    <3>. QED  BY <3>3
  <2>. QED
    BY <2>4, <2>5
<1>3. IInv /\ Status => BlockDevice!Answer
  <2> SUFFICES ASSUME IInv, Status PROVE BlockDevice!Answer
    OBVIOUS
  <2>1. /\ pc = "run" /\ drv = "status" /\ drv' = "idle" /\ UNCHANGED <<card, ram>>
        /\ req \in Segments /\ nblocks = 0 /\ (blk_err = "OK" <=> fs.opened)
        /\ answer' = IF blk_err = "OK" THEN "ok" ELSE "ioerr"
    BY DEF Status, pffVars, IInv, Asked, Moving
  <2>2. req.len - nblocks = req.len /\ req # Nothing
    BY <2>1, Requested
  <2>3. Io = [req |-> req, done |-> IF ~fs.opened THEN -1 ELSE req.len]
    BY <2>1, <2>2 DEF Io
  <2>4. Disk' = Disk /\ Io' = [req |-> Nothing, done |-> 0]
    BY <2>1 DEF Disk, Io
  <2>. QED
    BY <2>1, <2>2, <2>3, <2>4
    DEF BlockDevice!Answer, BlockDevice!Idle, BlockDevice!Failing, Nothing, Disk, Io
<1>. QED
  BY <1>1, <1>2, <1>3

(* The walk along the chain is unseen, unless the card fails in it.        *)
LEMMA SeekSteps ==
  ASSUME IInv, SetOffs \/ Seek
  PROVE  BlockDevice!Spoil \/ UNCHANGED BlockDevice!vars
<1>1. /\ drv \in {"offs", "size"} /\ drv' = "size" /\ req' = req /\ req \in Segments
      /\ UNCHANGED <<ram, answer>>
  BY DEF SetOffs, Seek, drvVars, IInv, Sought, Asked
<1>2. UNCHANGED card
  BY DEF SetOffs, Seek, pffVars, SeekStart, SeekFollow, SeekAbort, SeekDone
<1>3. Disk' = Disk
  BY <1>2 DEF Disk
<1>4. Io = [req |-> req, done |-> IF ~fs.opened THEN -1 ELSE 0]
  BY <1>1 DEF Io
<1>5. Io' = [req |-> req, done |-> IF ~fs'.opened THEN -1 ELSE 0]
  BY <1>1 DEF Io
<1>6. fs'.opened = fs.opened \/ SeekAbort
  <2> PICK f \in File, o \in BOOLEAN, k \in Nat, cl \in Nat :
             fs = [file |-> f, opened |-> o, fptr |-> k, curr |-> cl]
    BY FileObject, Zenon DEF IInv
  <2>1. CASE UNCHANGED fs
    BY <2>1
  <2>2. CASE \E x : fs' = [fs EXCEPT !.fptr = x]
    <3> PICK x : fs' = [fs EXCEPT !.fptr = x]
      BY <2>2
    <3>1. fs' = [file |-> f, opened |-> o, fptr |-> x, curr |-> cl]
      OBVIOUS
    <3>. QED  BY <3>1
  <2>3. CASE \E x, y : fs' = [fs EXCEPT !.fptr = x, !.curr = y]
    <3> PICK x, y : fs' = [fs EXCEPT !.fptr = x, !.curr = y]
      BY <2>3
    <3>1. fs' = [file |-> f, opened |-> o, fptr |-> x, curr |-> y]
      OBVIOUS
    <3>. QED  BY <3>1
  <2>4. CASE SetOffs
    <3>1. SeekStart(req.pos) \/ UNCHANGED fs
      BY <2>4 DEF SetOffs, pffVars
    <3>2. \/ UNCHANGED fs
          \/ \E x : fs' = [fs EXCEPT !.fptr = x]
          \/ \E x, y : fs' = [fs EXCEPT !.fptr = x, !.curr = y]
      BY <3>1, Zenon DEF SeekStart
    <3>. QED  BY <3>2, <2>1, <2>2, <2>3
  <2>5. CASE Seek
    <3>1. \/ SeekAbort
          \/ \E x : fs' = [fs EXCEPT !.fptr = x]
          \/ \E x, y : fs' = [fs EXCEPT !.fptr = x, !.curr = y]
      <4>1. CASE SeekFollow
        <5>1. fs' = [fs EXCEPT !.fptr = fs.fptr + csize, !.curr = fat[fs.curr]]
          BY <4>1 DEF SeekFollow
        <5>. QED  BY <5>1
      <4>2. CASE SeekDone
        <5>1. fs' = [fs EXCEPT !.fptr = fs.fptr + ofs]
          BY <4>2 DEF SeekDone
        <5>. QED  BY <5>1
      <4>. QED
        BY <2>5, <4>1, <4>2 DEF Seek
    <3>. QED  BY <3>1, <2>2, <2>3
  <2>. QED
    BY <2>4, <2>5
<1>7. CASE fs'.opened = fs.opened
  <2>1. Io' = Io
    BY <1>4, <1>5, <1>7
  <2>. QED
    BY <1>1, <1>3, <2>1, Unseen
<1>8. CASE SeekAbort
  <2>1. ~fs'.opened
    <3> PICK f \in File, o \in BOOLEAN, k \in Nat, cl \in Nat :
               fs = [file |-> f, opened |-> o, fptr |-> k, curr |-> cl]
      BY FileObject, Zenon DEF IInv
    <3>1. fs' = [file |-> f, opened |-> FALSE, fptr |-> k, curr |-> cl]
      BY <1>8 DEF SeekAbort, Abort
    <3>. QED  BY <3>1
  <2>2. Io' = [req |-> req, done |-> -1]
    BY <2>1, <1>5
  <2>3. 0 \in 0 .. req.len - 1 /\ req # Nothing
    BY <1>1, Requested
  <2>4. \E d : d \in Data
    BY SizeAssumption
  <2>5. BlockDevice!Spoil
    BY <1>1, <1>3, <1>4, <2>2, <2>3, <2>4
    DEF BlockDevice!Spoil, BlockDevice!Idle, BlockDevice!Failing, Nothing, Disk, Io
  <2>. QED  BY <2>5
<1>. QED
  BY <1>6, <1>7, <1>8

(* A round of the loop moves one block, or spoils at most that one.        *)
LEMMA MoveBlockSteps ==
  ASSUME IInv, MoveBlock
  PROVE  BlockDevice!Move \/ BlockDevice!Spoil
<1> PICK i : i = req.len - nblocks
  OBVIOUS
<1>1. /\ pc = "move" /\ drv = "status" /\ req \in Segments
      /\ i \in 0 .. req.len - 1 /\ nblocks \in 1 .. MaxLen
      /\ req.buf + i \in Cell /\ req.pos + i \in Block
      /\ nblocks' = nblocks - 1
      /\ UNCHANGED drvVars
      /\ MovesIt(i) \/ LosesIt(i) \/ PassesBy(i)
  BY OneRound
<1>2. drv' = "status" /\ req' = req /\ answer' = answer /\ req # Nothing
  BY <1>1, Requested DEF drvVars
<1>3. req.len - nblocks' = i + 1 /\ i # -1 /\ i < req.len
  BY <1>1, Requested, DeviceAssumption
<1>4. Io = [req |-> req, done |-> IF ~fs.opened THEN -1 ELSE i]
  BY <1>1, <1>3 DEF Io
<1>5. Io' = [req |-> req, done |-> IF ~fs'.opened THEN -1 ELSE i + 1]
  BY <1>2, <1>3 DEF Io
<1>6. TypeOK
  BY DEF IInv
<1>7. CASE MovesIt(i)
  <2>1. fs.opened /\ fs'.opened
    BY <1>7 DEF MovesIt
  <2>2. Io = [req |-> req, done |-> i] /\ Io' = [Io EXCEPT !.done = i + 1]
    BY <1>4, <1>5, <2>1
  <2>3. Disk[req.pos + i] = card[SectorOf(BLK, req.pos + i)]
    BY <1>1 DEF Disk
  <2>4. \/ /\ req.op = "write" /\ Disk' = [Disk EXCEPT ![req.pos + i] = ram[req.buf + i]]
           /\ UNCHANGED ram
        \/ /\ req.op = "read" /\ ram' = [ram EXCEPT ![req.buf + i] = Disk[req.pos + i]]
           /\ Disk' = Disk
    <3>1. CASE /\ req.op = "write" /\ UNCHANGED ram
               /\ card' = [card EXCEPT ![SectorOf(BLK, req.pos + i)] = ram[req.buf + i]]
      <4>1. Disk' = [Disk EXCEPT ![req.pos + i] = ram[req.buf + i]]
        BY <3>1, <1>1, <1>6, DiskWritten
      <4>. QED  BY <3>1, <4>1
    <3>2. CASE /\ req.op = "read" /\ UNCHANGED card
               /\ ram' = [ram EXCEPT ![req.buf + i] = card[SectorOf(BLK, req.pos + i)]]
      <4>1. Disk' = Disk
        BY <3>2 DEF Disk
      <4>. QED  BY <3>2, <2>3, <4>1, Zenon
    <3>. QED
      BY <3>1, <3>2, <1>7, Zenon DEF MovesIt
  <2>5. BlockDevice!Move
    BY <1>2, <1>3, <2>2, <2>4
    DEF BlockDevice!Move, BlockDevice!Idle, BlockDevice!Failing, Nothing, Disk, Io
  <2>. QED  BY <2>5
<1>8. CASE LosesIt(i) \/ PassesBy(i)
  <2>1. ~fs'.opened
    <3> PICK f \in File, o \in BOOLEAN, k \in Nat, cl \in Nat :
               fs = [file |-> f, opened |-> o, fptr |-> k, curr |-> cl]
      BY FileObject, Zenon DEF IInv
    <3>1. CASE fs' = [fs EXCEPT !.opened = FALSE]
      <4>1. fs' = [file |-> f, opened |-> FALSE, fptr |-> k, curr |-> cl]
        BY <3>1
      <4>. QED  BY <4>1
    <3>2. CASE ~fs.opened /\ UNCHANGED fs
      BY <3>2
    <3>. QED
      BY <3>1, <3>2, <1>8 DEF LosesIt, PassesBy
  <2>2. Io' = [Io EXCEPT !.done = -1] /\ Io.req = req
    BY <1>4, <1>5, <2>1
  <2>3. \/ /\ req.op = "write" /\ UNCHANGED ram
           /\ \/ Disk' = Disk
              \/ \E d \in Data : Disk' = [Disk EXCEPT ![req.pos + i] = d]
        \/ /\ req.op = "read" /\ Disk' = Disk
           /\ \E d \in Data : ram' = [ram EXCEPT ![req.buf + i] = d]
    <3>1. UNCHANGED card => Disk' = Disk
      BY DEF Disk
    <3>2. ASSUME NEW d \in Data, card' = [card EXCEPT ![SectorOf(BLK, req.pos + i)] = d]
          PROVE  Disk' = [Disk EXCEPT ![req.pos + i] = d]
      BY <3>2, <1>1, <1>6, DiskWritten
    <3>. QED
      BY <3>1, <3>2, <1>8, Zenon DEF LosesIt, PassesBy
  <2>4. \E d : d \in Data
    BY SizeAssumption
  <2>5. \E j \in 0 .. req.len - 1, d \in Data :
          IF req.op = "write"
          THEN /\ \/ Disk' = [Disk EXCEPT ![req.pos + j] = d]
                  \/ Disk' = Disk
               /\ UNCHANGED ram
          ELSE /\ \/ ram' = [ram EXCEPT ![req.buf + j] = d]
                  \/ UNCHANGED ram
               /\ Disk' = Disk
    <3>1. CASE /\ req.op = "write" /\ UNCHANGED ram
               /\ \/ Disk' = Disk
                  \/ \E d \in Data : Disk' = [Disk EXCEPT ![req.pos + i] = d]
      BY <3>1, <2>4, <1>1, Zenon
    <3>2. CASE /\ req.op = "read" /\ Disk' = Disk
               /\ \E d \in Data : ram' = [ram EXCEPT ![req.buf + i] = d]
      <4>1. req.op # "write"
        BY <3>2
      <4>. QED  BY <3>2, <4>1, <1>1, Zenon
    <3>. QED
      BY <2>3, <3>1, <3>2, Zenon
  <2>6. \E j \in 0 .. Io.req.len - 1, d \in Data :
          IF Io.req.op = "write"
          THEN /\ \/ Disk' = [Disk EXCEPT ![Io.req.pos + j] = d]
                  \/ Disk' = Disk
               /\ ram' = ram
          ELSE /\ \/ ram' = [ram EXCEPT ![Io.req.buf + j] = d]
                  \/ ram' = ram
               /\ Disk' = Disk
    BY <2>2, <2>5, Zenon
  <2>7. Io.req # Nothing /\ answer' = answer /\ Io' = [Io EXCEPT !.done = -1]
    BY <1>2, <2>2, Zenon
  <2>8. BlockDevice!Spoil
    BY <2>6, <2>7, Zenon
    DEF BlockDevice!Spoil, BlockDevice!Idle, BlockDevice!Failing, Nothing, Disk, Io
  <2>. QED  BY <2>8
<1>. QED
  BY <1>1, <1>7, <1>8

(* Every step is a step of an array of blocks, or none.                    *)
LEMMA BlockStep == IInv /\ [Next]_vars => [BlockDevice!Next]_(BlockDevice!vars)
<1> SUFFICES ASSUME IInv, [Next]_vars PROVE [BlockDevice!Next]_(BlockDevice!vars)
  OBVIOUS
<1>1. CASE Boot \/ Hibernate \/ SetRam \/ SetSize \/ Go \/ UNCHANGED vars
  BY <1>1, QuietSteps
<1>2. CASE SaveState \/ OpenBlk
  BY <1>2, FirmwareSteps
<1>3. CASE Reboot \/ PowerCut
  BY <1>3, EndingSteps DEF BlockDevice!Next
<1>4. CASE Fill \/ Request \/ Status
  BY <1>4, DriverSteps DEF BlockDevice!Next
<1>5. CASE SetOffs \/ Seek
  BY <1>5, SeekSteps DEF BlockDevice!Next
<1>6. CASE MoveBlock
  BY <1>6, MoveBlockSteps DEF BlockDevice!Next
<1>. QED
  BY <1>1, <1>2, <1>3, <1>4, <1>5, <1>6, Zenon DEF Next

(* The guest's disk is an array of blocks: a request answered "ok" has     *)
(* moved each of its blocks, one that lost the file anywhere on the way is *)
(* answered "ioerr" and touched no block outside itself, and neither       *)
(* booting, rebooting, hibernating nor saving the power state through the  *)
(* same file object changes a block (emulator.c 161-174, 425-494, pff.c    *)
(* 937-1095, and the driver in 0002-tiny-rv32ima-blk-driver.patch).        *)
THEOREM DiskIsAnArrayOfBlocks == Spec => ImplementsBlockDisk
  BY InitIInv, NextIInv, BlockInit, BlockStep, PTL
  DEF Spec, ImplementsBlockDisk, BlockDevice!Spec
=============================================================================
