----------------------------- MODULE BlockDisk -----------------------------
(***************************************************************************)
(* What the guest's block driver promises the kernel above it: an array of *)
(* blocks.  A request moves its blocks in order; one that is answered "ok" *)
(* has moved them all, one that is answered "ioerr" may have left anything *)
(* in the blocks (or the buffers) it was about, and nothing elsewhere.     *)
(* When the machine stops, a request is forgotten without an answer.       *)
(***************************************************************************)
EXTENDS Integers

CONSTANTS Block,   \* the blocks of the device, 0 ..
          Cell,    \* block-sized buffers in the guest's RAM, 0 ..
          Data

VARIABLES disk, ram, io, answer

vars == <<disk, ram, io, answer>>

Idle == [op |-> "none", pos |-> 0, len |-> 0, buf |-> 0]
Failing == -1
Requests == [op : {"read", "write"}, pos : Nat, len : Nat \ {0}, buf : Nat]

(* io is the request at work and how many of its blocks have been moved.   *)
Init ==
  /\ disk \in [Block -> Data]
  /\ ram \in [Cell -> Data]
  /\ io = [req |-> Idle, done |-> 0]
  /\ answer = "none"

Start ==
  /\ io.req = Idle
  /\ io'.req \in Requests
  /\ io'.done \in {0, Failing}
  /\ io' = [req |-> io'.req, done |-> io'.done]
  /\ answer' = "none"
  /\ UNCHANGED <<disk, ram>>

Move ==
  LET r == io.req  i == io.done
  IN  /\ r # Idle /\ i # Failing /\ i < r.len
      /\ IF r.op = "write"
         THEN /\ disk' = [disk EXCEPT ![r.pos + i] = ram[r.buf + i]]
              /\ UNCHANGED ram
         ELSE /\ ram' = [ram EXCEPT ![r.buf + i] = disk[r.pos + i]]
              /\ UNCHANGED disk
      /\ io' = [io EXCEPT !.done = i + 1]
      /\ UNCHANGED answer

Spoil ==
  LET r == io.req
  IN  /\ r # Idle
      /\ \E i \in 0 .. r.len - 1, d \in Data :
           IF r.op = "write"
           THEN /\ \/ disk' = [disk EXCEPT ![r.pos + i] = d]
                   \/ UNCHANGED disk
                /\ UNCHANGED ram
           ELSE /\ \/ ram' = [ram EXCEPT ![r.buf + i] = d]
                   \/ UNCHANGED ram
                /\ UNCHANGED disk
      /\ io' = [io EXCEPT !.done = Failing]
      /\ UNCHANGED answer

Answer ==
  /\ io.req # Idle
  /\ \/ io.done = io.req.len /\ answer' = "ok"
     \/ io.done = Failing /\ answer' = "ioerr"
  /\ io' = [req |-> Idle, done |-> 0]
  /\ UNCHANGED <<disk, ram>>

(* The guest uses its buffers, or turns a request down itself.             *)
Compute ==
  /\ io.req = Idle
  /\ \/ \E c \in Cell, d \in Data : ram' = [ram EXCEPT ![c] = d]
     \/ UNCHANGED ram
  /\ answer' \in {answer, "ioerr"}
  /\ UNCHANGED <<disk, io>>

Stop ==
  /\ io' = [req |-> Idle, done |-> 0]
  /\ answer' = "none"
  /\ UNCHANGED <<disk, ram>>

Next == Start \/ Move \/ Spoil \/ Answer \/ Compute \/ Stop

Spec == Init /\ [][Next]_vars
=============================================================================
