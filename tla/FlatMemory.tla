----------------------------- MODULE FlatMemory -----------------------------
(***************************************************************************)
(* What the emulator promises the guest: a flat, byte-addressed RAM.       *)
(*                                                                         *)
(* MINIRV32_LOAD/STORE (emulator.c) see one array of bytes.  There is no   *)
(* way, dirty bit or second chip here: a read returns the last bytes       *)
(* written, a snapshot returns the bytes a read would have returned, and   *)
(* only a boot may change the contents behind the guest's back.  What is   *)
(* left of the lines is the block an access has to stay in: a read is good *)
(* up to the end of the block it starts in, and a write that leaves its    *)
(* block spoils the whole memory until the next boot.                      *)
(***************************************************************************)
EXTENDS Integers

CONSTANTS
  Addr,       \* the guest's RAM addresses
  Byte,       \* the values of a byte
  Block,      \* the size of an aligned block
  Spans       \* the <<address, count>> pairs an operation may cover

VARIABLES
  mem,        \* mem[a] is the byte the guest has at a
  phase,      \* where the machine is between two boots
  bus         \* the last operation and the bytes it returned

vars == <<mem, phase, bus>>

(* The bytes of a span, in order, and the memory after they are written.   *)
Bytes(m, a, n) == [k \in 0..(n-1) |-> m[a + k]]
Stored(m, a, n, d) ==
  [b \in Addr |-> IF b - a \in 0..(n-1) THEN d[b - a] ELSE m[b]]

(* How many bytes of an access at a stay in the block it starts in.        *)
Reach(a) == Block - (a % Block)

Idle == [op |-> "none", addr |-> 0, data |-> <<>>]

Init ==
  /\ mem \in [Addr -> Byte]
  /\ phase = "off"
  /\ bus = Idle

(* A boot promises nothing about RAM: the images are loaded next.          *)
Boot ==
  /\ phase \in {"off", "spoilt"}
  /\ phase' = "load"
  /\ mem' \in [Addr -> Byte]
  /\ bus' = Idle

Load(a, n, d) ==
  /\ phase = "load"
  /\ mem' = Stored(mem, a, n, d)
  /\ UNCHANGED <<phase, bus>>

Start ==
  /\ phase = "load"
  /\ phase' = "run"
  /\ UNCHANGED <<mem, bus>>

Read(a, n) ==
  /\ phase = "run"
  /\ \E d \in [0..(n-1) -> Byte] :
       /\ \A k \in 0..(n-1) : k < Reach(a) => d[k] = mem[a + k]
       /\ bus' = [op |-> "read", addr |-> a, data |-> d]
  /\ UNCHANGED <<mem, phase>>

Write(a, n, d) ==
  /\ phase = "run"
  /\ n <= Reach(a)
  /\ mem' = Stored(mem, a, n, d)
  /\ bus' = [op |-> "write", addr |-> a, data |-> <<>>]
  /\ UNCHANGED phase

Spoil(a, n) ==
  /\ phase = "run"
  /\ n > Reach(a)
  /\ phase' = "spoilt"
  /\ mem' \in [Addr -> Byte]
  /\ bus' = [op |-> "write", addr |-> a, data |-> <<>>]

Freeze ==
  /\ phase = "run"
  /\ phase' = "save"
  /\ UNCHANGED <<mem, bus>>

Save(a, n) ==
  /\ phase = "save"
  /\ bus' = [op |-> "save", addr |-> a, data |-> Bytes(mem, a, n)]
  /\ UNCHANGED <<mem, phase>>

Halt ==
  /\ phase \in {"run", "save"}
  /\ phase' = "off"
  /\ bus' = Idle
  /\ UNCHANGED mem

Next ==
  \/ Boot \/ Start \/ Freeze \/ Halt
  \/ \E s \in Spans :
        Read(s[1], s[2]) \/ Spoil(s[1], s[2]) \/ Save(s[1], s[2])
  \/ \E s \in Spans : \E d \in [0..(s[2]-1) -> Byte] :
        Load(s[1], s[2], d) \/ Write(s[1], s[2], d)

Spec == Init /\ [][Next]_vars
=============================================================================
