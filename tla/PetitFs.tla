------------------------------ MODULE PetitFs ------------------------------
(***************************************************************************)
(* Petit FatFs as the firmware uses it: one file open at a time, whole     *)
(* sectors read and written where the position stands, pf_lseek following  *)
(* the cluster chain.  Positions count sectors: every caller starts at a   *)
(* sector boundary and stays within one sector, so the byte arithmetic of  *)
(* the source comes to the same ((512*k - 1) / (512*c) is (k - 1) \div c). *)
(* Any disk_readp or disk_writep may fail when Faults holds; ABORT then    *)
(* closes the file.                                                        *)
(***************************************************************************)
EXTENDS Integers, Sequences

CONSTANTS File,      \* names in the root directory
          Data,      \* what a sector can hold
          csize,     \* sectors per cluster
          n_fatent,  \* cluster numbers are 2 .. n_fatent - 1
          database,  \* first sector of cluster 2
          fat,       \* the allocation table
          chain,     \* the clusters of each file, in order
          fsize,     \* sectors of each file
          Faults     \* can the card fail

Clusters == 2 .. n_fatent - 1
Sectors == database .. database + (n_fatent - 2) * csize - 1

ASSUME SizeAssumption ==
  /\ csize \in Nat \ {0}
  /\ n_fatent \in Nat /\ n_fatent >= 2
  /\ database \in Nat \ {0}
  /\ Faults \in BOOLEAN
  /\ Data # {}

(* A sound volume: the chains follow the table, are long enough for their  *)
(* files, and no two places of any chains are the same cluster.            *)
ASSUME VolumeAssumption ==
  /\ fat \in [Clusters -> Nat]
  /\ chain \in [File -> Seq(Clusters)]
  /\ fsize \in [File -> Nat]
  /\ \A f \in File :
       /\ Len(chain[f]) >= 1
       /\ fsize[f] <= csize * Len(chain[f])
       /\ \A i \in 1 .. Len(chain[f]) - 1 : fat[chain[f][i]] = chain[f][i + 1]
  /\ \A f, g \in File : \A i \in 1 .. Len(chain[f]), j \in 1 .. Len(chain[g]) :
       chain[f][i] = chain[g][j] => f = g /\ i = j

VARIABLES card,   \* the sectors of the data area
          fs,     \* FatFs: which file, open or not, fptr, curr_clust
          ofs     \* what pf_lseek has still to go

pffVars == <<card, fs, ofs>>

clust2sect(c) == IF c \in Clusters THEN (c - 2) * csize + database ELSE 0

(* Where sector b of a file is.                                            *)
Place(f, b) == chain[f][b \div csize + 1]
SectorOf(f, b) == clust2sect(Place(f, b)) + (b % csize)

-----------------------------------------------------------------------------
(* What a slip would do: the error is returned but the file stays open.    *)
KeepOpen(s) == s

(* ABORT: the file is closed; the other members are not read again before  *)
(* pf_open sets them.                                                      *)
Abort(s) == [s EXCEPT !.opened = FALSE]

pf_open(f, ok) ==
  /\ fs' = [fs EXCEPT !.file = f, !.opened = ok, !.fptr = 0]
  /\ UNCHANGED <<card, ofs>>

Clip(f, to) == IF to > fsize[f] THEN fsize[f] ELSE to

(* What a slip would do: the boundary belongs to the next cluster.         *)
AheadByOne(from, to) == from > 0 /\ to \div csize >= from \div csize

(* Is the target in the cluster the position is in, or in a later one?  A  *)
(* position on a cluster boundary still belongs to the cluster before it.  *)
Ahead(from, to) == from > 0 /\ (to - 1) \div csize >= (from - 1) \div csize

(* pf_lseek up to the loop over the chain.                                 *)
SeekStart(to) ==
  LET target == Clip(fs.file, to)
      start == ((fs.fptr - 1) \div csize) * csize
  IN  /\ fs' = IF target = 0
               THEN [fs EXCEPT !.fptr = 0]
               ELSE IF Ahead(fs.fptr, target)
               THEN [fs EXCEPT !.fptr = start]
               ELSE [fs EXCEPT !.fptr = 0, !.curr = chain[fs.file][1]]
      /\ ofs' = IF target > 0 /\ Ahead(fs.fptr, target)
                THEN target - start ELSE target
      /\ UNCHANGED card

(* One cluster on.                                                         *)
SeekFollow ==
  /\ ofs > csize
  /\ fat[fs.curr] \in Clusters
  /\ fs' = [fs EXCEPT !.curr = fat[fs.curr], !.fptr = @ + csize]
  /\ ofs' = ofs - csize
  /\ UNCHANGED card

SeekAbort ==
  /\ ofs > csize
  /\ Faults \/ fat[fs.curr] \notin Clusters
  /\ fs' = Abort(fs)
  /\ ofs' = 0
  /\ UNCHANGED card

SeekDone ==
  /\ ofs <= csize
  /\ fs' = [fs EXCEPT !.fptr = @ + ofs]
  /\ ofs' = 0
  /\ UNCHANGED card

-----------------------------------------------------------------------------
(* The cluster of the sector at the position: a new one on each boundary.  *)
CurrClust(s) == IF s.fptr % csize # 0 THEN s.curr
                ELSE IF s.fptr = 0 THEN chain[s.file][1]
                ELSE fat[s.curr]

Sector(s) == clust2sect(CurrClust(s)) + (s.fptr % csize)
Eof(s) == s.fptr = fsize[s.file]
Advance(s) == [s EXCEPT !.fptr = @ + 1, !.curr = CurrClust(s)]
Broken(s) == Faults \/ CurrClust(s) \notin Clusters

(* pf_read of one sector.  The buffer keeps what it held (any data) when   *)
(* the read fails or the file has ended; the end of the file is no error.  *)
pf_read(rc, d) ==
  /\ UNCHANGED <<card, ofs>>
  /\ \/ ~fs.opened /\ rc = "NOT_OPENED" /\ d \in Data /\ UNCHANGED fs
     \/ fs.opened /\ Eof(fs) /\ rc = "OK" /\ d \in Data /\ UNCHANGED fs
     \/ fs.opened /\ ~Eof(fs) /\ CurrClust(fs) \in Clusters
        /\ rc = "OK" /\ d = card[Sector(fs)] /\ fs' = Advance(fs)
     \/ fs.opened /\ ~Eof(fs) /\ Broken(fs)
        /\ rc = "DISK_ERR" /\ d \in Data /\ fs' = Abort(fs)

(* pf_write of one sector and its end.  A write that fails on the card may *)
(* leave anything in that sector.                                          *)
pf_write(rc, d) ==
  /\ UNCHANGED ofs
  /\ \/ ~fs.opened /\ rc = "NOT_OPENED" /\ UNCHANGED <<card, fs>>
     \/ fs.opened /\ Eof(fs) /\ rc = "OK" /\ UNCHANGED <<card, fs>>
     \/ fs.opened /\ ~Eof(fs) /\ CurrClust(fs) \in Clusters
        /\ rc = "OK" /\ card' = [card EXCEPT ![Sector(fs)] = d] /\ fs' = Advance(fs)
     \/ fs.opened /\ ~Eof(fs) /\ Broken(fs)
        /\ rc = "DISK_ERR" /\ fs' = Abort(fs)
        /\ \/ UNCHANGED card
           \/ /\ CurrClust(fs) \in Clusters
              /\ \E x \in Data : card' = [card EXCEPT ![Sector(fs)] = x]

(* The state of the file system before anything is opened.                 *)
PffInit ==
  /\ card \in [Sectors -> Data]
  /\ fs = [file |-> CHOOSE f \in File : TRUE, opened |-> FALSE, fptr |-> 0, curr |-> 0]
  /\ ofs = 0

PffTypeOK ==
  /\ card \in [Sectors -> Data]
  /\ fs \in [file : File, opened : BOOLEAN, fptr : Nat, curr : Nat]
  /\ fs.fptr <= fsize[fs.file]
  /\ ofs \in Nat
=============================================================================
