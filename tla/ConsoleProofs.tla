---------------------------- MODULE ConsoleProofs ----------------------------
(***************************************************************************)
(* The console's queues, for any lengths and any number of keys: the       *)
(* guest's output comes to screen and port in order, a host that reads     *)
(* misses none of it, and who has seen a byte in a queue finds it there.   *)
(* The keyboard before them, for any keys and any length of its ring: what *)
(* is delivered is what was pressed, but around the two characters the     *)
(* decoder is wrong about, and a lost code does no lasting harm.           *)
(***************************************************************************)
EXTENDS ConsoleQueues, Ps2Keyboard, SequenceTheorems, TLAPS

-----------------------------------------------------------------------------
(* Positions modulo Wrap.                                                  *)

Position == 0..(Wrap - 1)

LEMMA Bounds ==
  /\ QueueLen \in Nat /\ QueueLen > 0 /\ BytesPerTask \in Nat /\ BytesPerTask > 0
  /\ MaxKeyLen \in Nat /\ MaxKeyLen > 0 /\ MaxKeys \in Nat
  /\ CdcLen \in Nat /\ CdcLen > 0
  /\ Wrap \in Nat /\ Wrap > 2 * QueueLen + 2
  BY ConsoleAssumption

LEMMA ModWrap ==
  ASSUME NEW x \in 0..(2 * Wrap - 1)
  PROVE  x % Wrap = (IF x < Wrap THEN x ELSE x - Wrap) /\ x % Wrap \in Position
<1>1. Wrap \in Nat /\ Wrap > 0
  BY Bounds
<1>2. x % Wrap = IF x < Wrap THEN x ELSE x - Wrap
  BY <1>1, Z3
<1> QED BY <1>1, <1>2 DEF Position

(* What a queue holds goes on from where the last byte went out.           *)
Holds(q, p, end) ==
  /\ q \in Seq(Position) /\ Len(q) <= QueueLen /\ p \in Position /\ end \in Position
  /\ Follows(q, p, end)

LEMMA AddHolds ==
  ASSUME NEW q, NEW p, NEW end, Holds(q, p, end), Len(q) < QueueLen
  PROVE  Holds(Append(q, end), p, (end + 1) % Wrap)
<1>1. PICK n \in Nat : n = Len(q)
  BY DEF Holds
<1>2. PICK r : r = Append(q, end)
  OBVIOUS
<1>3. /\ r \in Seq(Position) /\ Len(r) = n + 1 /\ r[n + 1] = end
      /\ \A k \in 1..n : r[k] = q[k]
  BY <1>1, <1>2 DEF Holds
<1>4. p \in 0..(Wrap - 1) /\ end \in 0..(Wrap - 1) /\ n < QueueLen
  BY <1>1 DEF Holds, Position
<1> DEFINE Ends == end = (p + n) % Wrap
           Goes == \A k \in 1..n : q[k] = (p + k - 1) % Wrap
<1>0. Ends /\ Goes
  BY <1>1 DEF Holds, Follows
<1> HIDE DEF Ends, Goes
<1>5. end = IF p + n < Wrap THEN p + n ELSE p + n - Wrap
  <2>1. PICK x \in 0..(2 * Wrap - 1) : x = p + n
    BY <1>4, Bounds
  <2>2. end = x % Wrap
    BY <1>0, <2>1, Zenon DEF Ends
  <2>3. x % Wrap = IF x < Wrap THEN x ELSE x - Wrap
    BY ModWrap
  <2> QED BY <1>4, <2>1, <2>2, <2>3, Bounds
<1>6. PICK y \in 0..(2 * Wrap - 1) : y = p + (n + 1)
  BY <1>4, Bounds
<1>7. PICK z \in 0..(2 * Wrap - 1) : z = end + 1
  BY <1>4, Bounds
<1>8. y % Wrap = z % Wrap /\ z % Wrap \in Position
  <2>1. /\ y % Wrap = (IF y < Wrap THEN y ELSE y - Wrap)
        /\ z % Wrap = (IF z < Wrap THEN z ELSE z - Wrap)
        /\ z % Wrap \in Position
    BY ModWrap
  <2> QED BY <1>4, <1>5, <1>6, <1>7, <2>1, Bounds
<1>9. (p + Len(r)) % Wrap = (end + 1) % Wrap /\ (end + 1) % Wrap \in Position
  BY <1>3, <1>6, <1>7, <1>8, Zenon
<1>10. \A k \in 1..Len(r) : r[k] = (p + k - 1) % Wrap
  <2> SUFFICES ASSUME NEW k \in 1..(n + 1) PROVE r[k] = (p + k - 1) % Wrap
    BY <1>3
  <2>1. CASE k = n + 1
    <3>1. p + k - 1 = p + n
      BY <1>4, <2>1
    <3> QED BY <1>0, <1>3, <2>1, <3>1, Zenon DEF Ends
  <2>2. CASE k # n + 1
    <3>1. k \in 1..n
      BY <2>2
    <3> QED BY <1>0, <1>3, <3>1 DEF Goes
  <2> QED BY <2>1, <2>2
<1>11. Len(r) <= QueueLen
  BY <1>3, <1>4, Bounds
<1> QED BY <1>2, <1>3, <1>4, <1>9, <1>10, <1>11 DEF Holds, Follows, Position

LEMMA RemoveHolds ==
  ASSUME NEW q, NEW p, NEW end, Holds(q, p, end), q # <<>>
  PROVE  Holds(Tail(q), (Head(q) + 1) % Wrap, end)
<1>1. PICK n \in Nat : n = Len(q)
  BY DEF Holds
<1>2. PICK r : r = Tail(q)
  OBVIOUS
<1>3. /\ n > 0 /\ r \in Seq(Position) /\ Len(r) = n - 1
      /\ \A k \in 1..(n - 1) : r[k] = q[k + 1]
      /\ Head(q) = q[1]
  BY <1>1, <1>2 DEF Holds
<1>4. p \in 0..(Wrap - 1) /\ end \in Position /\ n <= QueueLen
  BY <1>1 DEF Holds, Position
<1> DEFINE Ends == end = (p + n) % Wrap
           Goes == \A k \in 1..n : q[k] = (p + k - 1) % Wrap
<1>0. Ends /\ Goes
  BY <1>1 DEF Holds, Follows
<1> HIDE DEF Ends, Goes
<1>5. Head(q) = p
  <2>1. q[1] = (p + 1 - 1) % Wrap
    BY <1>0, <1>3 DEF Goes
  <2>2. p + 1 - 1 = p
    BY <1>4
  <2>3. PICK x \in 0..(2 * Wrap - 1) : x = p
    BY <1>4, Bounds
  <2>4. x % Wrap = IF x < Wrap THEN x ELSE x - Wrap
    BY ModWrap
  <2>5. x % Wrap = x
    BY <1>4, <2>3, <2>4, Bounds
  <2>6. q[1] = p % Wrap
    BY <2>1, <2>2, Zenon
  <2> QED BY <1>3, <2>3, <2>5, <2>6, Zenon
<1>6. PICK s : s = (Head(q) + 1) % Wrap
  OBVIOUS
<1>7. s \in Position /\ s = IF p + 1 < Wrap THEN p + 1 ELSE p + 1 - Wrap
  <2>1. PICK x \in 0..(2 * Wrap - 1) : x = p + 1
    BY <1>4, Bounds
  <2>2. s = (p + 1) % Wrap
    BY <1>5, <1>6, Zenon
  <2>3. s = x % Wrap
    BY <2>1, <2>2, Zenon
  <2>4. x % Wrap = (IF x < Wrap THEN x ELSE x - Wrap) /\ x % Wrap \in Position
    BY ModWrap
  <2> QED BY <1>4, <2>1, <2>3, <2>4, Bounds
<1>8. ASSUME NEW k \in 0..n PROVE k > 0 => (s + k - 1) % Wrap = (p + k) % Wrap
  <2> SUFFICES ASSUME k > 0 PROVE (s + k - 1) % Wrap = (p + k) % Wrap
    OBVIOUS
  <2>1. PICK x \in 0..(2 * Wrap - 1) : x = p + k
    BY <1>4, Bounds
  <2>2. PICK y \in 0..(2 * Wrap - 1) : y = s + k - 1
    BY <1>4, <1>7, Bounds DEF Position
  <2>3. /\ x % Wrap = (IF x < Wrap THEN x ELSE x - Wrap)
        /\ y % Wrap = (IF y < Wrap THEN y ELSE y - Wrap)
    BY ModWrap
  <2>4. x % Wrap = y % Wrap
    BY <1>4, <1>7, <2>1, <2>2, <2>3, Bounds DEF Position
  <2> QED BY <2>1, <2>2, <2>4, Zenon
<1>9. (s + Len(r)) % Wrap = end
  <2>1. s + Len(r) = s + n - 1 /\ n \in 0..n
    BY <1>3, <1>7, Bounds DEF Position
  <2>2. (s + n - 1) % Wrap = (p + n) % Wrap
    BY <1>3, <1>8, <2>1
  <2> QED BY <1>0, <2>1, <2>2, Zenon DEF Ends
<1>10. ASSUME NEW k \in 1..Len(r) PROVE r[k] = (s + k - 1) % Wrap
  <2>1. k \in 1..(n - 1) /\ k \in 0..n /\ k > 0 /\ k + 1 \in 1..n
    BY <1>3
  <2>2. r[k] = (p + (k + 1) - 1) % Wrap
    BY <1>0, <1>3, <2>1 DEF Goes
  <2>3. p + (k + 1) - 1 = p + k
    BY <1>4, <2>1
  <2>4. (s + k - 1) % Wrap = (p + k) % Wrap
    BY <1>8, <2>1
  <2>5. r[k] = (p + k) % Wrap
    BY <2>2, <2>3, Zenon
  <2> QED BY <2>4, <2>5, Zenon
<1>11. Len(r) <= QueueLen
  BY <1>3, <1>4, Bounds
<1>12. Follows(r, s, end)
  BY <1>9, <1>10 DEF Follows
<1>13. Holds(r, s, end)
  BY <1>3, <1>4, <1>7, <1>11, <1>12 DEF Holds
<1> QED BY <1>2, <1>6, <1>13, Zenon

-----------------------------------------------------------------------------
(* The invariant.                                                          *)

(* The next position to go out at the serial port.                         *)
SerialEnd == IF c1 = "term" THEN (sent + 1) % Wrap ELSE sent

Queues ==
  /\ Serial => Holds(ser, shown.serial, SerialEnd)
  /\ Vga => Holds(term, shown.screen, sent)
  /\ ~Serial => ser = <<>>
  /\ ~Vga => term = <<>>
  /\ kb \in Seq(Nat) /\ Len(kb) <= QueueLen

(* Where each core is, and what it has seen.                               *)
Places ==
  /\ c1 \in {"run", "ser", "term", "take"}
  /\ c0 \in {"tud", "ser", "remove", "usb", "send", "term", "vt", "ps2"}
  /\ back \in {"tud", "term", "vt", "ps2"}
  /\ c1 = "ser" => Serial
  /\ c1 = "term" => Vga
  /\ c0 = "remove" => Serial /\ ser # <<>>
  /\ c1 = "take" => kb # <<>>

Counts ==
  /\ budget \in 0..BytesPerTask
  /\ keys \in Nat /\ usb \in Nat /\ typed \in Nat
  /\ keys <= typed /\ usb <= typed /\ typed <= MaxKeys
  /\ sending \in 0..(MaxKeys + MaxKeyLen)
  /\ sent \in Position
  /\ shown \in [serial : Position, screen : Position]

PortTypes == cdc \in [connected : BOOLEAN, fill : 0..CdcLen] /\ reads \in BOOLEAN

IInv == Queues /\ Places /\ Counts

LEMMA ModPlace ==
  ASSUME NEW x \in Position
  PROVE  (x + 1) % Wrap \in Position
<1>1. PICK y \in 0..(2 * Wrap - 1) : y = x + 1
  BY Bounds DEF Position
<1>2. y % Wrap \in Position
  BY ModWrap
<1> QED BY <1>1, <1>2, Zenon

LEMMA EmptyHolds == 0 \in Position /\ Holds(<<>>, 0, 0)
<1>1. 0 \in Position /\ <<>> \in Seq(Position) /\ Len(<<>>) = 0 /\ 0 <= QueueLen
  BY Bounds DEF Position
<1>2. PICK z \in 0..(2 * Wrap - 1) : z = 0
  BY Bounds
<1>3. z % Wrap = IF z < Wrap THEN z ELSE z - Wrap
  BY ModWrap
<1>4. 0 % Wrap = 0
  BY <1>2, <1>3, Bounds
<1>5. (0 + Len(<<>>)) % Wrap = 0
  BY <1>1, <1>4
<1>6. Follows(<<>>, 0, 0)
  BY <1>1, <1>5 DEF Follows
<1> QED BY <1>1, <1>6 DEF Holds

LEMMA InitIInv == Init => IInv
<1> SUFFICES ASSUME Init PROVE IInv
  OBVIOUS
<1> USE DEF Init
<1>1. Queues
  BY EmptyHolds, Bounds DEF Queues, SerialEnd
<1>2. Places
  BY DEF Places
<1>3. Counts
  BY EmptyHolds, Bounds DEF Counts
<1> QED BY <1>1, <1>2, <1>3 DEF IInv

-----------------------------------------------------------------------------
(* Core 1.                                                                 *)

LEMMA Core1Keeps ==
  ASSUME IInv, Core1
  PROVE  IInv'
<1>1. CASE Put
  BY <1>1, ConsoleAssumption
     DEF IInv, Queues, Places, Counts, Put, core0, SerialEnd
<1>2. CASE AddSer
  <2>1. /\ c1 = "ser" /\ ser' = Append(ser, sent) /\ Serial
        /\ UNCHANGED <<term, kb, c0, budget, sending, back, keys, usb, shown, typed,
                     cdc, reads>>
    BY <1>2 DEF AddSer, core0, IInv, Places
  <2>2. Len(ser) < QueueLen
    <3>1. Len(ser) \in Nat /\ QueueLen - Len(ser) > 0
      BY <1>2, <2>1 DEF AddSer, Free, IInv, Queues, Holds
    <3> QED BY <3>1, Bounds
  <2>3. Holds(ser, shown.serial, sent)
    BY <2>1 DEF IInv, Queues, SerialEnd
  <2>4. Holds(ser', shown.serial, (sent + 1) % Wrap)
    BY <2>1, <2>2, <2>3, AddHolds
  <2>5. (sent + 1) % Wrap \in Position
    BY ModPlace DEF IInv, Counts
  <2>6. ser' # <<>>
    BY <2>1, <2>3 DEF Holds
  <2>7. CASE Vga
    BY <1>2, <2>1, <2>4, <2>6, <2>7
       DEF AddSer, IInv, Queues, Places, Counts, SerialEnd
  <2>8. CASE ~Vga
    BY <1>2, <2>1, <2>4, <2>5, <2>6, <2>8
       DEF AddSer, IInv, Queues, Places, Counts, SerialEnd
  <2> QED BY <2>7, <2>8
<1>3. CASE AddTerm
  <2>1. /\ c1 = "term" /\ term' = Append(term, sent) /\ Vga /\ c1' = "run"
        /\ sent' = (sent + 1) % Wrap
        /\ UNCHANGED <<ser, kb, c0, budget, sending, back, keys, usb, shown, typed,
                     cdc, reads>>
    BY <1>3 DEF AddTerm, core0, IInv, Places
  <2>2. Len(term) < QueueLen
    <3>1. Len(term) \in Nat /\ QueueLen - Len(term) > 0
      BY <1>3, <2>1 DEF AddTerm, Free, IInv, Queues, Holds
    <3> QED BY <3>1, Bounds
  <2>3. Holds(term, shown.screen, sent)
    BY <2>1 DEF IInv, Queues
  <2>4. Holds(term', shown.screen, (sent + 1) % Wrap)
    BY <2>1, <2>2, <2>3, AddHolds
  <2>5. (sent + 1) % Wrap \in Position
    BY ModPlace DEF IInv, Counts
  <2> QED BY <2>1, <2>4, <2>5 DEF IInv, Queues, Places, Counts, SerialEnd
<1>4. CASE PollKey
  BY <1>4 DEF IInv, Queues, Places, Counts, PollKey, core0, SerialEnd, Empty
<1>5. CASE TakeKey
  <2>1. kb' \in Seq(Nat) /\ Len(kb') <= QueueLen
    BY <1>5, Bounds DEF TakeKey, Empty, IInv, Queues
  <2> QED BY <1>5, <2>1 DEF IInv, Queues, Places, Counts, TakeKey, core0, SerialEnd
<1> QED BY <1>1, <1>2, <1>3, <1>4, <1>5 DEF Core1

-----------------------------------------------------------------------------
(* Core 0, the keyboard's interrupt and the host.                          *)

LEMMA Core0Keeps ==
  ASSUME IInv, Core0 \/ KeyPressed \/ HostTypes
  PROVE  IInv'
<1> USE DEF IInv, core1, port, Queue
<1>1. CASE TestSer
  BY <1>1 DEF Queues, Places, Counts, TestSer, SerialEnd, Empty
<1>2. CASE RemoveSer
  <2>1. /\ ser # <<>> /\ Serial /\ ser' = Tail(ser) /\ c0' = "ser"
        /\ shown' = [shown EXCEPT !.serial = (Head(ser) + 1) % Wrap]
        /\ UNCHANGED <<term, kb, c1, sent, budget, sending, back, keys, usb, typed,
                     reads>>
    BY <1>2 DEF RemoveSer, Empty, Places
  <2>2. Holds(ser, shown.serial, SerialEnd)
    BY <2>1 DEF Queues
  <2>3. Holds(ser', (Head(ser) + 1) % Wrap, SerialEnd)
    BY <2>1, <2>2, RemoveHolds
  <2>4. (Head(ser) + 1) % Wrap \in Position
    BY <2>3 DEF Holds
  <2>5. /\ shown'.serial = (Head(ser) + 1) % Wrap /\ shown'.screen = shown.screen
        /\ shown' \in [serial : Position, screen : Position]
    BY <2>1, <2>4 DEF Counts
  <2> QED BY <2>1, <2>3, <2>5 DEF Queues, Places, Counts, SerialEnd
<1>3. CASE ReadUsb
  BY <1>3, Bounds DEF Queues, Places, Counts, ReadUsb, SerialEnd
<1>4. CASE SendByte
  <2>1. kb' \in Seq(Nat) /\ Len(kb') <= QueueLen /\ (kb # <<>> => kb' # <<>>)
    BY <1>4, Bounds DEF SendByte, Free, Queues, Counts
  <2> QED BY <1>4, <2>1, Bounds DEF Queues, Places, Counts, SendByte, SerialEnd
<1>5. CASE Sent
  BY <1>5 DEF Queues, Places, Counts, Sent, SerialEnd
<1>6. CASE TestTerm
  BY <1>6, Bounds DEF Queues, Places, Counts, TestTerm, SerialEnd
<1>7. CASE Vt
  <2>1. /\ c0 = "vt" /\ term # <<>> /\ term' = Tail(term) /\ c0' \in {"vt", "send"}
        /\ shown' = [shown EXCEPT !.screen = (Head(term) + 1) % Wrap]
        /\ budget > 0 /\ budget' = budget - 1
        /\ (sending' = sending /\ back' = back) \/ (sending' = MaxKeyLen /\ back' = "vt")
        /\ UNCHANGED <<ser, kb, c1, sent, keys, usb, typed, cdc, reads>>
    BY <1>7 DEF Vt, Empty
  <2>2. Vga
    BY <2>1 DEF Queues
  <2>3. Holds(term', (Head(term) + 1) % Wrap, sent)
    BY <2>1, <2>2, RemoveHolds DEF Queues
  <2>4. (Head(term) + 1) % Wrap \in Position
    BY <2>3 DEF Holds
  <2>5. /\ shown'.screen = (Head(term) + 1) % Wrap /\ shown'.serial = shown.serial
        /\ shown' \in [serial : Position, screen : Position]
    BY <2>1, <2>4 DEF Counts
  <2>6. budget' \in 0..BytesPerTask /\ sending' \in 0..(MaxKeys + MaxKeyLen)
    BY <2>1, Bounds DEF Counts
  <2> QED BY <2>1, <2>2, <2>3, <2>5, <2>6 DEF Queues, Places, Counts, SerialEnd
<1>8. CASE EndVt
  <2>1. /\ c0' = "ps2" /\ budget' = 0
        /\ UNCHANGED <<ser, term, kb, c1, sent, sending, back, keys, usb, shown, typed>>
    BY <1>8 DEF EndVt
  <2>2. budget' \in 0..BytesPerTask
    BY <2>1, Bounds
  <2>3. Queues' /\ Places' /\ Counts'
    BY <2>1, <2>2 DEF Queues, Places, Counts, SerialEnd
  <2> QED BY <2>3
<1>9. CASE Ps2
  BY <1>9, Bounds DEF Queues, Places, Counts, Ps2, SerialEnd
<1>10. CASE KeyPressed
  BY <1>10, Bounds DEF Queues, Places, Counts, KeyPressed, SerialEnd
<1>11. CASE HostTypes
  BY <1>11, Bounds DEF Queues, Places, Counts, HostTypes, SerialEnd
<1>12. CASE UsbTask
  BY <1>12 DEF UsbTask, Queues, Places, Counts, SerialEnd
<1> QED BY <1>1, <1>2, <1>3, <1>4, <1>5, <1>6, <1>7, <1>8, <1>9, <1>10, <1>11, <1>12
        DEF Core0

LEMMA Invariant == Spec => []IInv
<1>1. IInv /\ UNCHANGED vars => IInv'
  BY DEF vars, IInv, Queues, Places, Counts, SerialEnd
<1>2. IInv /\ [Next]_vars => IInv'
  BY <1>1, Core1Keeps, Core0Keeps DEF Next
<1> QED BY InitIInv, <1>2, PTL DEF Spec

(* The port's buffer holds at most what it has room for.                   *)
LEMMA PortKept ==
  ASSUME PortTypes, [Next]_vars
  PROVE  PortTypes'
<1>1. CASE UsbTask
  <2>1. PICK there \in BOOLEAN, n \in 0..cdc.fill :
          cdc' = IF Serial THEN [connected |-> there, fill |-> n] ELSE cdc
    BY <1>1 DEF UsbTask
  <2>2. n \in 0..CdcLen
    BY <2>1, Bounds DEF PortTypes
  <2>3. cdc' \in [connected : BOOLEAN, fill : 0..CdcLen]
    BY <2>1, <2>2 DEF PortTypes
  <2>4. reads' = (cdc'.connected /\ cdc'.fill + Burst <= CdcLen)
    BY <1>1 DEF UsbTask
  <2>5. reads' \in BOOLEAN
    BY <2>4
  <2> QED BY <2>3, <2>5 DEF PortTypes
<1>2. CASE RemoveSer
  BY <1>2, Bounds DEF RemoveSer, Fits, PortTypes
<1>3. CASE ~UsbTask /\ ~RemoveSer
  <2>1. cdc' = cdc /\ (reads' = reads \/ reads' = FALSE)
    BY <1>3 DEF Next, Core0, Core1, Put, AddSer, AddTerm, PollKey, TakeKey, TestSer,
       ReadUsb, SendByte, Sent, TestTerm, Vt, EndVt, Ps2, KeyPressed, HostTypes, core0,
       port, vars
  <2> QED BY <2>1 DEF PortTypes
<1> QED BY <1>1, <1>2, <1>3

LEMMA PortInvariant == Spec => []PortTypes
<1>1. Init => PortTypes
  <2>1. 0 \in 0..CdcLen
    BY Bounds
  <2>2. Init => cdc = [connected |-> FALSE, fill |-> 0] /\ reads = FALSE
    BY DEF Init
  <2>3. [connected |-> FALSE, fill |-> 0] \in [connected : BOOLEAN, fill : 0..CdcLen]
    BY <2>1, SMT
  <2> QED BY <2>2, <2>3, Zenon DEF PortTypes
<1> QED BY <1>1, PortKept, PTL DEF Spec

-----------------------------------------------------------------------------
(* The room a reading host has left.  While core 0 drains ser_screen_queue *)
(* nothing leaves term_screen_queue; each byte core 1 adds to the first is *)
(* followed by one it adds to the second, before it can add another.  So   *)
(* what is in the transmit buffer and in ser_screen_queue together grows   *)
(* no faster than term_screen_queue, which has a limit.                    *)

Pending == IF c1 = "term" THEN 1 ELSE 0

Room ==
  Vga /\ reads =>
    /\ c0 \in {"ser", "remove"} /\ cdc.connected
    /\ cdc.fill + Len(ser) + QueueLen + 1 <= CdcLen + Len(term) + Pending

LEMMA Lengths ==
  ASSUME Queues
  PROVE  /\ Len(ser) \in 0..QueueLen /\ Len(term) \in 0..QueueLen
         /\ ser \in Seq(Position) /\ term \in Seq(Position)
<1>1. <<>> \in Seq(Position) /\ Len(<<>>) = 0
  OBVIOUS
<1>2. /\ ser \in Seq(Position) /\ Len(ser) <= QueueLen
      /\ term \in Seq(Position) /\ Len(term) <= QueueLen
  <2>1. ASSUME Serial  PROVE ser \in Seq(Position) /\ Len(ser) <= QueueLen
    BY <2>1 DEF Queues, Holds
  <2>2. ASSUME Vga  PROVE term \in Seq(Position) /\ Len(term) <= QueueLen
    BY <2>2 DEF Queues, Holds
  <2>3. Len(<<>>) <= QueueLen
    BY <1>1, Bounds
  <2> QED BY <1>1, <2>1, <2>2, <2>3 DEF Queues
<1> QED BY <1>2, Bounds

LEMMA RoomKept ==
  ASSUME IInv, PortTypes, Room, Next
  PROVE  Room'
<1> SUFFICES ASSUME Vga, reads' PROVE Room'
  BY DEF Room
<1>0. /\ Len(ser) \in 0..QueueLen /\ Len(term) \in 0..QueueLen /\ QueueLen \in Nat
      /\ ser \in Seq(Position) /\ term \in Seq(Position)
      /\ cdc.fill \in 0..CdcLen /\ CdcLen \in Nat /\ sent \in Position
  BY Lengths, Bounds DEF IInv, Counts, PortTypes
<1>1. CASE UsbTask
  <2>1. /\ UNCHANGED <<ser, term, c1>> /\ c0' = "ser"
        /\ reads' = (cdc'.connected /\ cdc'.fill + Burst <= CdcLen)
    BY <1>1 DEF UsbTask, core1
  <2>2. cdc'.fill \in Nat
    <3>1. PortTypes'
      BY PortKept
    <3> QED BY <3>1, Bounds DEF PortTypes
  <2>3. cdc'.connected /\ cdc'.fill + 2 * QueueLen + 1 <= CdcLen
    <3>1. reads'
      OBVIOUS
    <3>2. cdc'.connected /\ cdc'.fill + Burst <= CdcLen
      BY <2>1, <3>1, Zenon
    <3> QED BY <1>0, <2>2, <3>2 DEF Burst
  <2> QED BY <1>0, <2>1, <2>2, <2>3 DEF Room, Pending
<1>2. CASE ~UsbTask
  <2>1. reads
    BY <1>2 DEF Next, Core0, Core1, Put, AddSer, AddTerm, PollKey, TakeKey, TestSer,
       RemoveSer, ReadUsb, SendByte, Sent, TestTerm, Vt, EndVt, Ps2, KeyPressed,
       HostTypes, core0, port
  <2>2. /\ c0 \in {"ser", "remove"} /\ cdc.connected
        /\ cdc.fill + Len(ser) + QueueLen + 1 <= CdcLen + Len(term) + Pending
    BY <2>1 DEF Room
  <2>3. CASE AddSer
    <3>1. /\ ser' = Append(ser, sent) /\ c1 = "ser" /\ c1' = "term"
          /\ UNCHANGED <<term, c0, cdc>>
      BY <2>3 DEF AddSer, core0
    <3>2. Len(ser') = Len(ser) + 1
      BY <1>0, <3>1
    <3> QED BY <1>0, <2>2, <3>1, <3>2 DEF Room, Pending
  <2>4. CASE AddTerm
    <3>1. /\ term' = Append(term, sent) /\ c1 = "term" /\ c1' = "run"
          /\ UNCHANGED <<ser, c0, cdc>>
      BY <2>4 DEF AddTerm, core0
    <3>2. Len(term') = Len(term) + 1
      BY <1>0, <3>1
    <3> QED BY <1>0, <2>2, <3>1, <3>2 DEF Room, Pending
  <2>5. CASE RemoveSer
    <3>1. /\ ser # <<>> /\ ser' = Tail(ser) /\ c0' = "ser" /\ UNCHANGED <<term, c1>>
      BY <2>5 DEF RemoveSer, Empty, core1
    <3>2. /\ cdc'.connected
          /\ cdc'.fill = cdc.fill \/ cdc'.fill = cdc.fill + 1
      BY <2>2, <2>5 DEF RemoveSer, Fits, PortTypes
    <3>3. Len(ser') = Len(ser) - 1
      BY <1>0, <3>1
    <3> QED BY <1>0, <2>2, <3>1, <3>2, <3>3 DEF Room, Pending
  <2>6. CASE TestSer
    BY <2>2, <2>6 DEF TestSer, Room, Pending, core1
  <2>7. CASE Put
    <3>1. UNCHANGED <<ser, term, c0, cdc>> /\ c1 = "run"
      BY <2>7 DEF Put, core0
    <3> QED BY <1>0, <2>2, <3>1 DEF Room, Pending
  <2>8. CASE PollKey \/ TakeKey \/ KeyPressed \/ HostTypes
    <3>1. UNCHANGED <<ser, term, c0, cdc>> /\ Pending' = Pending
      BY <2>8 DEF PollKey, TakeKey, KeyPressed, HostTypes, core0, core1, port, Pending
    <3> QED BY <2>2, <3>1 DEF Room
  <2>9. ~(ReadUsb \/ SendByte \/ Sent \/ TestTerm \/ Vt \/ EndVt \/ Ps2)
    BY <2>2 DEF ReadUsb, SendByte, Sent, TestTerm, Vt, EndVt, Ps2
  <2> QED BY <1>2, <2>3, <2>4, <2>5, <2>6, <2>7, <2>8, <2>9 DEF Next, Core0, Core1
<1> QED BY <1>1, <1>2

LEMMA RoomInvariant == Spec => []Room
<1>1. Init => Room
  BY DEF Init, Room
<1>2. Room /\ UNCHANGED vars => Room'
  BY DEF vars, Room, Pending
<1>3. IInv /\ PortTypes /\ Room /\ [Next]_vars => Room'
  BY <1>2, RoomKept
<1> QED BY Invariant, PortInvariant, <1>1, <1>3, PTL DEF Spec

-----------------------------------------------------------------------------
(* Every variable has its type; the SDK's queues are never over-full.      *)
THEOREM TypeCorrect == Spec => []TypeOK
<1>1. IInv /\ PortTypes => TypeOK
  <2> SUFFICES ASSUME Queues, Places, Counts, PortTypes PROVE TypeOK
    BY DEF IInv
  <2>0. Position \subseteq Nat /\ <<>> \in Seq(Position) /\ Len(<<>>) <= QueueLen
    BY Bounds DEF Position
  <2>1. ser \in Seq(Nat) /\ Len(ser) <= QueueLen
    BY <2>0, SeqMonotonic DEF Queues, Holds
  <2>2. term \in Seq(Nat) /\ Len(term) <= QueueLen
    BY <2>0, SeqMonotonic DEF Queues, Holds
  <2>3. {sending, keys, usb, typed} \subseteq 0..(MaxKeys + MaxKeyLen)
    BY Bounds DEF Counts
  <2>4. {sent, shown.serial, shown.screen} \subseteq 0..(Wrap - 1)
    BY DEF Counts, Position
  <2>5. cdc \in [connected : BOOLEAN, fill : 0..CdcLen] /\ reads \in BOOLEAN
    BY DEF PortTypes
  <2> QED BY <2>1, <2>2, <2>3, <2>4, <2>5 DEF TypeOK, Queues, Places, Counts
<1> QED BY <1>1, Invariant, PortInvariant, PTL

(* Every byte console_putc takes comes to the screen and to the serial     *)
(* port's code, once and in order, whatever the lengths of the queues.     *)
(* What ser_console_task then does with it depends on the host.            *)
THEOREM OutputArrives == Spec => []OutputInOrder
<1>1. IInv => OutputInOrder
  BY DEF IInv, Queues, Holds, OutputInOrder, SerialEnd
<1> QED BY <1>1, Invariant, PTL

(* No host that leaves twice IO_QUEUE_LEN and one byte of room in the      *)
(* transmit buffer misses anything the guest prints, whatever the sizes.   *)
THEOREM NothingMissedByReaders == Spec => []ReadingHostMissesNothing
<1>1. IInv /\ PortTypes /\ Room => ReadingHostMissesNothing
  <2> SUFFICES ASSUME IInv, PortTypes, Room, Vga, c0 = "remove", reads PROVE Fits
    BY DEF ReadingHostMissesNothing
  <2>1. /\ Len(ser) \in 0..QueueLen /\ Len(term) \in 0..QueueLen /\ QueueLen \in Nat
        /\ ser \in Seq(Position) /\ cdc.fill \in 0..CdcLen /\ CdcLen \in Nat
    BY Lengths, Bounds DEF IInv, PortTypes
  <2>2. Len(ser) > 0
    BY <2>1 DEF IInv, Places
  <2>3. Pending \in 0..1
    BY DEF Pending
  <2>4. /\ cdc.connected
        /\ cdc.fill + Len(ser) + QueueLen + 1 <= CdcLen + Len(term) + Pending
    BY DEF Room
  <2> QED BY <2>1, <2>2, <2>3, <2>4 DEF Fits
<1> QED BY <1>1, Invariant, PortInvariant, RoomInvariant, PTL

(* Between console_available and console_read, and between the test and    *)
(* the removal in ser_console_task, nobody else takes the byte.            *)
THEOREM SeenStaysThere == Spec => []SeenIsThere
<1>1. IInv => SeenIsThere
  BY DEF IInv, Places, SeenIsThere, Empty
<1> QED BY <1>1, Invariant, PTL

-----------------------------------------------------------------------------
(* The keyboard.  What the decoder will make of the codes in the ring and  *)
(* on the wire is told by a run over the ring: the flags and the number of *)
(* characters before each code.  The flags it ends with and the characters *)
(* it delivers are compared with the keys that are held and were pressed.  *)

(* One code, as in Decode.                                                 *)
MarkOf(f, s) ==
  CASE s = "12" -> {"SHIFT_L"} [] s = "59" -> {"SHIFT_R"} [] s = "14" -> {"CTRL_L"}
    [] s = "11" /\ "MODIFIER" \in f -> {"ALTGR"}
    [] OTHER -> {}
After(f, s) ==
  CASE s = "F0" -> f \cup {"BREAK"}
    [] s = "E0" -> f \cup {"MODIFIER"}
    [] s \notin {"F0", "E0"} /\ "BREAK" \in f ->
         (f \ MarkOf(f, s)) \ {"BREAK", "MODIFIER"}
    [] s \in {"12", "59", "14"} /\ "BREAK" \notin f -> f \cup MarkOf(f, s)
    [] s \in {"11", "1C", "75"} /\ "BREAK" \notin f ->
         (f \cup MarkOf(f, s)) \ {"BREAK", "MODIFIER"}
CharAfter(f, s) ==
  IF "MODIFIER" \in f THEN (IF s = "75" THEN "up" ELSE "none")
  ELSE CASE s = "1C" -> (IF f \cap {"SHIFT_L", "SHIFT_R"} # {} THEN "A" ELSE "a")
         [] s = "75" -> "8"
         [] OTHER -> "none"
Types(f, s) ==
  s \in {"11", "1C", "75"} /\ "BREAK" \notin f /\ CharAfter(f, s) # "none"
Out(f, s) == [char |-> CharAfter(f, s), ctrl |-> "CTRL_L" \in f]

(* The run: r of the flags, d of the characters out of those due, c.       *)
Flags(q, r, f) ==
  /\ r \in [0 .. Len(q) -> SUBSET Flag] /\ r[0] = f
  /\ \A i \in 1 .. Len(q) : r[i] = After(r[i - 1], q[i])
Tally(q, r, d, c) ==
  /\ d \in [0 .. Len(q) -> Nat] /\ d[0] = 0
  /\ \A i, j \in 0 .. Len(q) : i <= j => d[i] <= d[j]
  /\ \A i \in 1 .. Len(q) :
       IF Types(r[i - 1], q[i])
       THEN d[i] = d[i - 1] + 1 /\ d[i] <= Len(c) /\ c[d[i]] = Out(r[i - 1], q[i])
       ELSE d[i] = d[i - 1]

(* What is left of an event on the wire; its last code does the work.      *)
Plain == ScanCode \ {"F0", "E0"}
Codes ==
  {<<>>} \cup {<<c>> : c \in Plain} \cup {<<p, c>> : p \in {"F0", "E0"}, c \in Plain}
  \cup {<<"E0", "F0", c>> : c \in Plain}
Before(f, t) ==
  CASE Len(t) = 1 -> f
    [] Len(t) = 2 -> After(f, t[1])
    [] OTHER -> After(After(f, t[1]), t[2])
Finish(f, t) == IF t = <<>> THEN f ELSE After(Before(f, t), t[Len(t)])
TypesLast(f, t) == t # <<>> /\ Types(Before(f, t), t[Len(t)])
OutLast(f, t) == Out(Before(f, t), t[Len(t)])

(* Without a loss the flags at the end are those of the keys held, but for *)
(* Ctrl when it is shared.                                                 *)
Exact(g) ==
  /\ "MODIFIER" \in g <=> stray
  /\ "SHIFT_L" \in g <=> "LShift" \in held
  /\ "SHIFT_R" \in g <=> "RShift" \in held
  /\ "CTRL_L" \in g <=> held \cap Ctrl # {} /\ ~shared

(* The flags at the end, g: in step again after one whole event, right for *)
(* the modifiers that were used since, and exact as long as nothing is     *)
(* lost.                                                                   *)
AtEnd(g) ==
  /\ whole >= 1 => "BREAK" \notin g
  /\ \A k \in sure : FlagIsRight(g, k)
  /\ losses = 0 => Exact(g)
Calm == losses = 0 /\ ~unsure
Promised(r, d) ==
  Calm =>
    /\ Tally(ring, r, d, due)
    /\ IF TypesLast(r[Len(ring)], toSend)
       THEN /\ Len(due) = d[Len(ring)] + 1
            /\ due[Len(due)] = OutLast(r[Len(ring)], toSend)
       ELSE Len(due) = d[Len(ring)]

Character == [char : KeyNames \cup {"A"}, ctrl : BOOLEAN]
KeyboardTypes ==
  /\ held \subseteq Keys /\ toSend \in Codes /\ bitcount \in 0 .. 10
  /\ ring \in Seq(ScanCode) /\ state \subseteq Flag /\ losses \in Nat
  /\ {stray, shared, unsure} \subseteq BOOLEAN /\ whole \in 0 .. 2 /\ sure \subseteq Modifiers \cap Keys
  /\ due \in Seq(Character)
Progress ==
  /\ whole = 0 => sure = {}
  /\ losses = 0 => whole = 2
  /\ ~Calm => due = <<>>
Decodes ==
  \E r, d : /\ Flags(ring, r, state)
            /\ AtEnd(Finish(r[Len(ring)], toSend))
            /\ Promised(r, d)

KeyboardInv == KeyboardTypes /\ Progress /\ Decodes

-----------------------------------------------------------------------------
LEMMA AfterFlags ==
  ASSUME NEW f \in SUBSET Flag, NEW s \in ScanCode
  PROVE  After(f, s) \in SUBSET Flag
  BY DEF After, MarkOf, Flag, ScanCode

LEMMA RunTail ==
  ASSUME NEW q \in Seq(ScanCode), q # <<>>, NEW r, NEW f, Flags(q, r, f)
  PROVE  \E u : /\ Flags(Tail(q), u, After(f, q[1]))
                /\ Len(Tail(q)) = Len(q) - 1 /\ u[Len(Tail(q))] = r[Len(q)]
                /\ \A i \in 0 .. Len(q) - 1 : u[i] = r[i + 1]
<1>1. PICK n \in Nat : n = Len(q) - 1
  OBVIOUS
<1>2. PICK t : t = Tail(q)
  OBVIOUS
<1>3. t \in Seq(ScanCode) /\ Len(t) = n /\ \A i \in 1 .. n : t[i] = q[i + 1]
  BY <1>1, <1>2
<1>4. PICK u : u = [i \in 0 .. n |-> r[i + 1]]
  OBVIOUS
<1>5. r \in [0 .. n + 1 -> SUBSET Flag] /\ r[0] = f
      /\ \A i \in 1 .. n + 1 : r[i] = After(r[i - 1], q[i])
  BY <1>1 DEF Flags
<1>6. u \in [0 .. n -> SUBSET Flag] /\ u[0] = r[1] /\ u[n] = r[n + 1]
  BY <1>4, <1>5
<1>7. r[1] = After(f, q[1])
  <2>1. 1 \in 1 .. n + 1 /\ 1 - 1 = 0
    OBVIOUS
  <2> QED BY <1>5, <2>1, Zenon
<1>8. ASSUME NEW i \in 1 .. n  PROVE u[i] = After(u[i - 1], t[i])
  <2>1. PICK j \in 1 .. n + 1 : j = i + 1
    OBVIOUS
  <2>2. u[i] = r[j] /\ u[i - 1] = r[j - 1] /\ t[i] = q[j]
    <3>1. i \in 0 .. n /\ i - 1 \in 0 .. n /\ (i - 1) + 1 = j - 1
      BY <2>1
    <3> QED BY <1>3, <1>4, <2>1, <3>1
  <2> QED BY <1>5, <2>2, Zenon
<1>9. Flags(t, u, After(f, q[1]))
  BY <1>3, <1>6, <1>7, <1>8 DEF Flags
<1>10. n + 1 = Len(q) /\ \A i \in 0 .. n : u[i] = r[i + 1]
  BY <1>1, <1>4
<1> QED BY <1>1, <1>2, <1>3, <1>6, <1>9, <1>10, Zenon

LEMMA RunAppend ==
  ASSUME NEW q \in Seq(ScanCode), NEW r, NEW f, Flags(q, r, f), NEW s \in ScanCode
  PROVE  \E u : /\ Flags(Append(q, s), u, f)
                /\ u[Len(Append(q, s))] = After(r[Len(q)], s)
                /\ \A i \in 0 .. Len(q) : u[i] = r[i]
<1>1. PICK n \in Nat : n = Len(q)
  OBVIOUS
<1>2. PICK t : t = Append(q, s)
  OBVIOUS
<1>3. /\ t \in Seq(ScanCode) /\ Len(t) = n + 1 /\ t[n + 1] = s
      /\ \A i \in 1 .. n : t[i] = q[i]
  BY <1>1, <1>2
<1>4. r \in [0 .. n -> SUBSET Flag] /\ r[0] = f
      /\ \A i \in 1 .. n : r[i] = After(r[i - 1], q[i])
  BY <1>1 DEF Flags
<1>5. PICK last \in SUBSET Flag : last = After(r[n], s)
  BY <1>4, AfterFlags
<1>6. PICK u : u = [i \in 0 .. n + 1 |-> IF i <= n THEN r[i] ELSE last]
  OBVIOUS
<1>7. /\ u \in [0 .. n + 1 -> SUBSET Flag] /\ u[0] = f /\ u[n + 1] = last
      /\ \A i \in 0 .. n : u[i] = r[i]
  BY <1>4, <1>5, <1>6
<1>8. ASSUME NEW i \in 1 .. n + 1  PROVE u[i] = After(u[i - 1], t[i])
  <2>1. CASE i = n + 1
    <3>1. n \in 0 .. n /\ i - 1 = n
      BY <2>1
    <3>2. u[i] = After(r[n], s) /\ u[i - 1] = r[n] /\ t[i] = s
      BY <1>3, <1>5, <1>7, <2>1, <3>1
    <3> QED BY <3>2, Zenon
  <2>2. CASE i # n + 1
    <3>1. i \in 1 .. n /\ i \in 0 .. n /\ i - 1 \in 0 .. n
      BY <2>2
    <3>2. u[i] = r[i] /\ u[i - 1] = r[i - 1] /\ t[i] = q[i]
      BY <1>3, <1>7, <3>1
    <3> QED BY <1>4, <3>1, <3>2, Zenon
  <2> QED BY <2>1, <2>2
<1>9. Flags(t, u, f)
  BY <1>3, <1>7, <1>8 DEF Flags
<1> QED BY <1>1, <1>2, <1>3, <1>5, <1>7, <1>9

LEMMA OneLess == \A k \in Nat : k # 0 => \E n \in Nat : n = k - 1 /\ n + 1 = k
<1> SUFFICES ASSUME NEW k \in Nat, k # 0
             PROVE  k - 1 \in Nat /\ (k - 1) + 1 = k
  BY Zenon
<1> QED OBVIOUS

(* The codes of ring t, with the flags u, deliver m of the characters c;   *)
(* code s delivers the first of them; u is the run r from the second code. *)
Reaches(t, u, c, m) == \E e : Tally(t, u, e, c) /\ e[Len(t)] = m
FirstIsOut(f, s, c) == Types(f, s) => Len(c) > 0 /\ c[1] = Out(f, s)
Shortens(q, r, u) == \A i \in 0 .. Len(q) - 1 : u[i] = r[i + 1]

(* The counts over the rest of the ring, after a first code that types     *)
(* nothing or the first of the characters due.                             *)
LEMMA TallyTail ==
  ASSUME NEW q \in Seq(ScanCode), q # <<>>, NEW r, NEW d, NEW c \in Seq(Character),
         Tally(q, r, d, c), NEW u, Shortens(q, r, u),
         NEW f, f = r[0], NEW s, s = q[1],
         NEW b, b = IF Types(f, s) THEN Tail(c) ELSE c,
         NEW one, one = IF Types(f, s) THEN 1 ELSE 0,
         NEW k, k = d[Len(q)]
  PROVE  Reaches(Tail(q), u, b, k - one) /\ FirstIsOut(f, s, c)
<1>1. Len(q) \in Nat /\ Len(q) # 0
  BY EmptySeq
<1>2. PICK n \in Nat : n = Len(q) - 1 /\ n + 1 = Len(q)
  BY <1>1, OneLess, Zenon
<1>3. PICK t : t = Tail(q)
  OBVIOUS
<1>4. t \in Seq(ScanCode) /\ Len(t) = n /\ \A i \in 1 .. n : t[i] = q[i + 1]
  BY <1>2, <1>3
<1>5. /\ d \in [0 .. n + 1 -> Nat] /\ d[0] = 0
      /\ \A i, j \in 0 .. n + 1 : i <= j => d[i] <= d[j]
      /\ \A i \in 1 .. n + 1 :
           IF Types(r[i - 1], q[i])
           THEN d[i] = d[i - 1] + 1 /\ d[i] <= Len(c) /\ c[d[i]] = Out(r[i - 1], q[i])
           ELSE d[i] = d[i - 1]
  BY <1>2, Zenon DEF Tally
<1>6. one \in {0, 1} /\ one = IF Types(r[0], q[1]) THEN 1 ELSE 0
  BY Zenon
<1>7. b = (IF Types(r[0], q[1]) THEN Tail(c) ELSE c) /\ \A i \in 0 .. n : u[i] = r[i + 1]
  BY <1>2, Zenon DEF Shortens
<1>8. d[1] = one /\ (Types(r[0], q[1]) => 1 <= Len(c) /\ c[1] = Out(r[0], q[1]))
  <2>1. 1 \in 1 .. n + 1 /\ 1 - 1 = 0
    OBVIOUS
  <2>2. IF Types(r[0], q[1])
        THEN d[1] = d[0] + 1 /\ d[1] <= Len(c) /\ c[d[1]] = Out(r[0], q[1])
        ELSE d[1] = d[0]
    BY <1>5, <2>1, Zenon
  <2> QED BY <1>5, <1>6, <2>2
<1>9. \A i \in 1 .. n + 1 : d[i] \in Nat /\ d[i] >= one
  <2> SUFFICES ASSUME NEW i \in 1 .. n + 1  PROVE d[i] \in Nat /\ d[i] >= one
    OBVIOUS
  <2>1. 1 \in 0 .. n + 1 /\ i \in 0 .. n + 1 /\ 1 <= i
    OBVIOUS
  <2> QED BY <1>5, <1>8, <2>1
<1>10. PICK e : e = [i \in 0 .. n |-> d[i + 1] - one]
  OBVIOUS
<1>11. ASSUME NEW i \in 0 .. n  PROVE e[i] = d[i + 1] - one /\ e[i] \in Nat
  <2>1. i + 1 \in 1 .. n + 1
    OBVIOUS
  <2> QED BY <1>6, <1>9, <1>10, <2>1
<1>12. e \in [0 .. n -> Nat] /\ e[0] = 0
  <2>1. 0 \in 0 .. n /\ 0 + 1 = 1
    OBVIOUS
  <2>2. e[0] = d[1] - one
    BY <1>11, <2>1
  <2> QED BY <1>6, <1>8, <1>10, <1>11, <2>2
<1>13. ASSUME NEW i \in 0 .. n, NEW j \in 0 .. n, i <= j  PROVE e[i] <= e[j]
  <2>1. i + 1 \in 0 .. n + 1 /\ j + 1 \in 0 .. n + 1 /\ i + 1 <= j + 1
    BY <1>13
  <2>2. d[i + 1] <= d[j + 1] /\ d[i + 1] \in Nat /\ d[j + 1] \in Nat
    BY <1>5, <2>1
  <2>3. e[i] = d[i + 1] - one /\ e[j] = d[j + 1] - one
    BY <1>11
  <2> QED BY <1>6, <2>2, <2>3
<1>14. b \in Seq(Character) /\ Len(b) >= Len(c) - one
       /\ \A x \in Nat \ {0} : x + one <= Len(c) => b[x] = c[x + one]
  <2>1. CASE Types(r[0], q[1])
    <3>1. one = 1 /\ b = Tail(c) /\ c # <<>>
      BY <1>6, <1>7, <1>8, <2>1
    <3> QED BY <3>1
  <2>2. CASE ~Types(r[0], q[1])
    BY <1>6, <1>7, <2>2
  <2> QED BY <2>1, <2>2
<1>15. ASSUME NEW i \in 1 .. n
       PROVE  IF Types(u[i - 1], t[i])
              THEN e[i] = e[i - 1] + 1 /\ e[i] <= Len(b) /\ b[e[i]] = Out(u[i - 1], t[i])
              ELSE e[i] = e[i - 1]
  <2>1. PICK j \in 1 .. n + 1 : j = i + 1
    OBVIOUS
  <2>2. i \in 0 .. n /\ i - 1 \in 0 .. n /\ (i - 1) + 1 = j - 1 /\ j - 1 \in 1 .. n + 1
    BY <2>1
  <2>3. u[i - 1] = r[j - 1] /\ t[i] = q[j]
    BY <1>4, <1>7, <2>1, <2>2, Zenon
  <2>4. e[i] = d[j] - one /\ e[i - 1] = d[j - 1] - one
    BY <1>11, <2>1, <2>2, Zenon
  <2>5. IF Types(r[j - 1], q[j])
        THEN d[j] = d[j - 1] + 1 /\ d[j] <= Len(c) /\ c[d[j]] = Out(r[j - 1], q[j])
        ELSE d[j] = d[j - 1]
    BY <1>5, Zenon
  <2>6. d[j] \in Nat /\ d[j - 1] \in Nat /\ d[j - 1] >= one
    BY <1>9, <2>2
  <2>7. CASE Types(r[j - 1], q[j])
    <3>1. d[j] = d[j - 1] + 1 /\ d[j] <= Len(c) /\ c[d[j]] = Out(r[j - 1], q[j])
      BY <2>5, <2>7, Zenon
    <3>2. PICK x \in Nat \ {0} : x = e[i]
      BY <1>6, <2>4, <2>6, <3>1
    <3>3. x + one = d[j] /\ x <= Len(b) /\ x = e[i - 1] + 1
      BY <1>6, <1>14, <2>4, <2>6, <3>1, <3>2
    <3>4. b[x] = c[d[j]]
      BY <1>14, <3>1, <3>3
    <3> QED BY <2>3, <2>7, <3>1, <3>2, <3>3, <3>4, Zenon
  <2>8. CASE ~Types(r[j - 1], q[j])
    <3>1. e[i] = e[i - 1]
      BY <2>4, <2>5, <2>8, Zenon
    <3> QED BY <2>3, <2>8, <3>1, Zenon
  <2> QED BY <2>7, <2>8
<1>16. Tally(t, u, e, b)
  BY <1>4, <1>12, <1>13, <1>15, Zenon DEF Tally
<1>17. e[n] = d[n + 1] - one /\ (Types(r[0], q[1]) => Len(c) > 0)
  BY <1>8, <1>11
<1>18. Reaches(Tail(q), u, b, k - one)
  BY <1>2, <1>3, <1>4, <1>16, <1>17, Zenon DEF Reaches
<1>19. FirstIsOut(f, s, c)
  BY <1>8, <1>17, Zenon DEF FirstIsOut
<1> QED BY <1>18, <1>19

(* The run u goes on where r ends; code s takes the count from k to m.     *)
Prolongs(q, r, u) == \A i \in 0 .. Len(q) : u[i] = r[i]
AddsTo(f, s, k, c, m) ==
  IF Types(f, s) THEN m = k + 1 /\ c[m] = Out(f, s) ELSE m = k

(* The counts over the ring with one more code, and with one more          *)
(* character due.                                                          *)
LEMMA TallyAppend ==
  ASSUME NEW q \in Seq(ScanCode), NEW r, NEW d, NEW c \in Seq(Character), Tally(q, r, d, c),
         NEW s \in ScanCode, NEW u, Prolongs(q, r, u),
         NEW f, f = r[Len(q)], NEW k, k = d[Len(q)],
         NEW m \in Nat, m <= Len(c), AddsTo(f, s, k, c, m)
  PROVE  Reaches(Append(q, s), u, c, m)
<1>1. PICK n \in Nat : n = Len(q)
  OBVIOUS
<1>2. PICK t : t = Append(q, s)
  OBVIOUS
<1>3. /\ t \in Seq(ScanCode) /\ Len(t) = n + 1 /\ t[n + 1] = s
      /\ \A i \in 1 .. n : t[i] = q[i]
  BY <1>1, <1>2
<1>4. /\ d \in [0 .. n -> Nat] /\ d[0] = 0
      /\ \A i, j \in 0 .. n : i <= j => d[i] <= d[j]
      /\ \A i \in 1 .. n :
           IF Types(r[i - 1], q[i])
           THEN d[i] = d[i - 1] + 1 /\ d[i] <= Len(c) /\ c[d[i]] = Out(r[i - 1], q[i])
           ELSE d[i] = d[i - 1]
  BY <1>1, Zenon DEF Tally
<1>5. m <= Len(c) /\ \A i \in 0 .. n : u[i] = r[i]
  BY <1>1, Zenon DEF Prolongs
<1>6. /\ d[n] \in Nat /\ d[n] <= m
      /\ IF Types(r[n], s) THEN m = d[n] + 1 /\ c[m] = Out(r[n], s) ELSE m = d[n]
  BY <1>1, <1>4, <1>5 DEF AddsTo
<1>7. PICK e : e = [i \in 0 .. n + 1 |-> IF i <= n THEN d[i] ELSE m]
  OBVIOUS
<1>8. /\ e \in [0 .. n + 1 -> Nat] /\ e[0] = 0 /\ e[n + 1] = m
      /\ \A i \in 0 .. n : e[i] = d[i]
  BY <1>4, <1>7
<1>9. ASSUME NEW i \in 0 .. n + 1, NEW j \in 0 .. n + 1, i <= j  PROVE e[i] <= e[j]
  <2>1. CASE j <= n
    <3>1. i \in 0 .. n /\ j \in 0 .. n
      BY <1>9, <2>1
    <3> QED BY <1>4, <1>8, <1>9, <3>1
  <2>2. CASE j = n + 1 /\ i <= n
    <3>1. i \in 0 .. n /\ n \in 0 .. n
      BY <2>2
    <3>2. d[i] <= d[n] /\ d[i] \in Nat
      BY <1>4, <3>1
    <3> QED BY <1>6, <1>8, <2>2, <3>1, <3>2
  <2>3. CASE i = n + 1
    BY <1>8, <1>9, <2>3
  <2> QED BY <2>1, <2>2, <2>3
<1>10. ASSUME NEW i \in 1 .. n + 1
       PROVE  IF Types(u[i - 1], t[i])
              THEN e[i] = e[i - 1] + 1 /\ e[i] <= Len(c) /\ c[e[i]] = Out(u[i - 1], t[i])
              ELSE e[i] = e[i - 1]
  <2>1. CASE i = n + 1
    <3>1. n \in 0 .. n /\ i - 1 = n
      BY <2>1
    <3>2. u[i - 1] = r[n] /\ t[i] = s /\ e[i] = m /\ e[i - 1] = d[n]
      BY <1>3, <1>5, <1>8, <2>1, <3>1, Zenon
    <3> QED BY <1>5, <1>6, <3>2
  <2>2. CASE i # n + 1
    <3>1. i \in 1 .. n /\ i \in 0 .. n /\ i - 1 \in 0 .. n
      BY <2>2
    <3>2. u[i - 1] = r[i - 1] /\ t[i] = q[i] /\ e[i] = d[i] /\ e[i - 1] = d[i - 1]
      BY <1>3, <1>5, <1>8, <3>1, Zenon
    <3> QED BY <1>4, <3>1, <3>2, Zenon
  <2> QED BY <2>1, <2>2
<1>11. Tally(t, u, e, c)
  BY <1>3, <1>8, <1>9, <1>10, Zenon DEF Tally
<1> QED BY <1>2, <1>3, <1>8, <1>11, Zenon DEF Reaches

LEMMA TallyMore ==
  ASSUME NEW q \in Seq(ScanCode), NEW r, NEW d, NEW c \in Seq(Character),
         Tally(q, r, d, c), NEW x \in Character
  PROVE  Tally(q, r, d, Append(c, x))
<1>1. PICK b : b = Append(c, x)
  OBVIOUS
<1>2. Len(b) = Len(c) + 1 /\ \A k \in 1 .. Len(c) : b[k] = c[k]
  BY <1>1
<1>3. ASSUME NEW i \in 1 .. Len(q), Types(r[i - 1], q[i])
      PROVE  d[i] <= Len(b) /\ b[d[i]] = Out(r[i - 1], q[i])
  <2>1. d[i] = d[i - 1] + 1 /\ d[i] <= Len(c) /\ c[d[i]] = Out(r[i - 1], q[i])
    BY <1>3 DEF Tally
  <2>2. d[i - 1] \in Nat
    <3>1. i - 1 \in 0 .. Len(q)
      OBVIOUS
    <3> QED BY <3>1 DEF Tally
  <2>3. d[i] \in 1 .. Len(c)
    BY <2>1, <2>2
  <2> QED BY <1>2, <2>1, <2>3
<1> QED BY <1>1, <1>3, Zenon DEF Tally

-----------------------------------------------------------------------------
(* What an event does to the flags and what it types.                      *)

(* The codes t, begun with the flags f, end as c does with the flags b.    *)
Works(f, t, b, c) ==
  /\ Finish(f, t) = After(b, c)
  /\ TypesLast(f, t) <=> Types(b, c)
  /\ OutLast(f, t) = Out(b, c)

LEMMA OneCode ==
  ASSUME NEW f, NEW c  PROVE Works(f, <<c>>, f, c)
<1>1. PICK t : t = <<c>>
  OBVIOUS
<1>2. Len(t) = 1 /\ t[1] = c /\ t # <<>>
  BY <1>1
<1>3. Before(f, t) = f /\ t[Len(t)] = c
  BY <1>2 DEF Before
<1>4. Works(f, t, f, c)
  BY <1>2, <1>3, Zenon DEF Works, Finish, TypesLast, OutLast
<1> QED BY <1>1, <1>4, Zenon

LEMMA TwoCodes ==
  ASSUME NEW f, NEW s, NEW c  PROVE Works(f, <<s, c>>, After(f, s), c)
<1>1. PICK t : t = <<s, c>>
  OBVIOUS
<1>2. Len(t) = 2 /\ t[1] = s /\ t[2] = c /\ t # <<>>
  BY <1>1
<1>3. Before(f, t) = After(f, s) /\ t[Len(t)] = c
  BY <1>2 DEF Before
<1>4. Works(f, t, After(f, s), c)
  BY <1>2, <1>3, Zenon DEF Works, Finish, TypesLast, OutLast
<1> QED BY <1>1, <1>4, Zenon

LEMMA ThreeCodes ==
  ASSUME NEW f, NEW p, NEW s, NEW c
  PROVE  Works(f, <<p, s, c>>, After(After(f, p), s), c)
<1>1. PICK t : t = <<p, s, c>>
  OBVIOUS
<1>2. Len(t) = 3 /\ t[1] = p /\ t[2] = s /\ t[3] = c /\ t # <<>>
  BY <1>1
<1>3. Before(f, t) = After(After(f, p), s) /\ t[Len(t)] = c
  BY <1>2 DEF Before
<1>4. Works(f, t, After(After(f, p), s), c)
  BY <1>2, <1>3, Zenon DEF Works, Finish, TypesLast, OutLast
<1> QED BY <1>1, <1>4, Zenon

(* Codes put together.                                                     *)
LEMMA GlueTwo ==
  ASSUME NEW p, NEW c
  PROVE  <<p>> \o <<c>> = <<p, c>>
<1> DEFINE S == {p, c}
<1>1. <<p>> \in Seq(S) /\ <<c>> \in Seq(S) /\ <<p, c>> \in Seq(S)
  OBVIOUS
<1> HIDE DEF S
<1>2. PICK u : u = <<p>> \o <<c>>
  OBVIOUS
<1>3. u \in Seq(S) /\ Len(u) = 2 /\ u[1] = p /\ u[2] = c
  BY <1>1, <1>2, ConcatProperties
<1>4. \A i \in 1 .. 2 : u[i] = <<p, c>>[i]
  BY <1>3
<1> QED BY <1>1, <1>2, <1>3, <1>4, SeqEqual

LEMMA GlueThree ==
  ASSUME NEW p, NEW s, NEW c
  PROVE  <<p>> \o <<s, c>> = <<p, s, c>>
<1> DEFINE S == {p, s, c}
<1>1. <<p>> \in Seq(S) /\ <<s, c>> \in Seq(S) /\ <<p, s, c>> \in Seq(S)
  OBVIOUS
<1> HIDE DEF S
<1>2. PICK u : u = <<p>> \o <<s, c>>
  OBVIOUS
<1>3. u \in Seq(S) /\ Len(u) = 3 /\ u[1] = p /\ u[2] = s /\ u[3] = c
  BY <1>1, <1>2, ConcatProperties
<1>4. \A i \in 1 .. 3 : u[i] = <<p, s, c>>[i]
  BY <1>3
<1> QED BY <1>1, <1>2, <1>3, <1>4, SeqEqual

LEMMA GlueNone ==
  ASSUME NEW s, NEW c
  PROVE  <<>> \o <<c>> = <<c>> /\ <<>> \o <<s, c>> = <<s, c>>
  OBVIOUS

LEMMA PressCodes ==
  ASSUME NEW k \in KeyNames
  PROVE  Prefix(k) \o <<CodeOf[k]>> =
           IF k \in Extended THEN <<"E0", CodeOf[k]>> ELSE <<CodeOf[k]>>
  BY GlueNone, GlueTwo, Zenon DEF Prefix

LEMMA ReleaseCodes ==
  ASSUME NEW k \in KeyNames
  PROVE  Prefix(k) \o <<"F0", CodeOf[k]>> =
           IF k \in Extended THEN <<"E0", "F0", CodeOf[k]>> ELSE <<"F0", CodeOf[k]>>
<1>1. PICK c : c = CodeOf[k]
  OBVIOUS
<1>2. <<>> \o <<"F0", c>> = <<"F0", c>>
  BY GlueNone, Zenon
<1>3. <<"E0">> \o <<"F0", c>> = <<"E0", "F0", c>>
  BY GlueThree, Zenon
<1> QED BY <1>1, <1>2, <1>3, Zenon DEF Prefix

LEMMA KeyCodes ==
  /\ CodeOf["LShift"] = "12" /\ CodeOf["RShift"] = "59" /\ CodeOf["LCtrl"] = "14"
  /\ CodeOf["RCtrl"] = "14" /\ CodeOf["AltGr"] = "11" /\ CodeOf["a"] = "1C"
  /\ CodeOf["up"] = "75"
  /\ FlagOf["LShift"] = "SHIFT_L" /\ FlagOf["RShift"] = "SHIFT_R"
  /\ FlagOf["LCtrl"] = "CTRL_L" /\ FlagOf["RCtrl"] = "CTRL_L" /\ FlagOf["AltGr"] = "ALTGR"
  BY DEF CodeOf, FlagOf, KeyNames, Modifiers

(* From f to g the flag of k goes up or down; those of the other modifiers *)
(* stay.                                                                   *)
Moves(f, g, k, down) ==
  \A m \in Modifiers :
    FlagOf[m] \in g <=> IF k \in Modifiers /\ FlagOf[m] = FlagOf[k] THEN down
                        ELSE FlagOf[m] \in f

LEMMA Known ==
  ASSUME NEW c \in Plain
  PROVE  /\ <<c>> \in Codes /\ <<"E0", c>> \in Codes /\ <<"F0", c>> \in Codes
         /\ <<"E0", "F0", c>> \in Codes
<1>1. <<c>> \in Codes
  BY DEF Codes
<1>2. <<"E0", "F0", c>> \in Codes
  BY DEF Codes
<1>3. ASSUME NEW p \in {"F0", "E0"}
      PROVE  <<p, c>> \in Codes
  <2>1. <<p, c>> \in {<<q, x>> : q \in {"F0", "E0"}, x \in Plain}
    OBVIOUS
  <2> QED BY <2>1 DEF Codes
<1> QED BY <1>1, <1>2, <1>3

(* What pressing k, with the codes t, makes of the flags f.                *)
Pressed(f, g, k, t) ==
  /\ t \in Codes /\ "BREAK" \notin g
  /\ "BREAK" \notin f =>
       /\ Moves(f, g, k, TRUE)
       /\ "MODIFIER" \in g <=>
            k = "RCtrl" \/ ("MODIFIER" \in f /\ k \in {"LShift", "RShift", "LCtrl"})
       /\ TypesLast(f, t) <=>
            k \notin Modifiers /\ ("MODIFIER" \notin f \/ k \in Extended)
       /\ TypesLast(f, t) =>
            OutLast(f, t) = [char |-> IF k = "a" /\ f \cap {"SHIFT_L", "SHIFT_R"} # {}
                                      THEN "A" ELSE k,
                             ctrl |-> "CTRL_L" \in f]

LEMMA PressEnds ==
  ASSUME NEW f \in SUBSET Flag, NEW k \in KeyNames,
         NEW t, t = Prefix(k) \o <<CodeOf[k]>>, NEW g, g = Finish(f, t)
  PROVE  Pressed(f, g, k, t)
<1>1. PICK c : c = CodeOf[k]
  OBVIOUS
<1>2. t = IF k \in Extended THEN <<"E0", c>> ELSE <<c>>
  BY <1>1, PressCodes, Zenon
<1>3. c \in Plain
  BY <1>1, KeyCodes DEF KeyNames, Plain, ScanCode
<1>4. t \in Codes
  BY <1>2, <1>3, Known, Zenon
<1>5. g = Finish(f, t)
  OBVIOUS
<1>6. PICK b : b = IF k \in Extended THEN After(f, "E0") ELSE f
  OBVIOUS
<1>7. /\ g = After(b, c)
      /\ TypesLast(f, t) <=> Types(b, c)
      /\ OutLast(f, t) = Out(b, c)
  <2>1. CASE k \in Extended
    <3>1. t = <<"E0", c>> /\ b = After(f, "E0")
      BY <1>2, <1>6, <2>1
    <3>2. Works(f, <<"E0", c>>, After(f, "E0"), c)
      BY TwoCodes, Zenon
    <3> QED BY <1>5, <3>1, <3>2, Zenon DEF Works
  <2>2. CASE k \notin Extended
    BY <1>2, <1>5, <1>6, <2>2, OneCode, Zenon DEF Works
  <2> QED BY <2>1, <2>2
<1>8. After(f, "E0") = f \cup {"MODIFIER"}
  BY DEF After
<1>9. b = IF k \in Extended THEN f \cup {"MODIFIER"} ELSE f
  BY <1>6, <1>8
<1>10. "BREAK" \notin g
  BY <1>3, <1>7 DEF After, Plain, ScanCode, MarkOf
<1>11. ASSUME "BREAK" \notin f
       PROVE  /\ Moves(f, g, k, TRUE)
              /\ "MODIFIER" \in g <=>
                   k = "RCtrl" \/ ("MODIFIER" \in f /\ k \in {"LShift", "RShift", "LCtrl"})
  <2>1. "BREAK" \notin b
    BY <1>9, <1>11
  <2>2. CASE k = "LShift"
    <3>1. c = "12" /\ b = f /\ g = f \cup {"SHIFT_L"}
      BY <1>1, <1>7, <1>9, <2>1, <2>2, KeyCodes DEF After, MarkOf, Extended
    <3> QED BY <2>2, <3>1, KeyCodes DEF Moves, Modifiers, KeyNames
  <2>3. CASE k = "RShift"
    <3>1. c = "59" /\ b = f /\ g = f \cup {"SHIFT_R"}
      BY <1>1, <1>7, <1>9, <2>1, <2>3, KeyCodes DEF After, MarkOf, Extended
    <3> QED BY <2>3, <3>1, KeyCodes DEF Moves, Modifiers, KeyNames
  <2>4. CASE k = "LCtrl"
    <3>1. c = "14" /\ b = f /\ g = f \cup {"CTRL_L"}
      BY <1>1, <1>7, <1>9, <2>1, <2>4, KeyCodes DEF After, MarkOf, Extended
    <3> QED BY <2>4, <3>1, KeyCodes DEF Moves, Modifiers, KeyNames
  <2>5. CASE k = "RCtrl"
    <3>1. c = "14" /\ b = f \cup {"MODIFIER"} /\ g = b \cup {"CTRL_L"}
      BY <1>1, <1>7, <1>9, <2>1, <2>5, KeyCodes DEF After, MarkOf, Extended
    <3> QED BY <2>5, <3>1, KeyCodes DEF Moves, Modifiers, KeyNames
  <2>6. CASE k = "AltGr"
    <3>1. c = "11" /\ b = f \cup {"MODIFIER"} /\ g = (b \cup {"ALTGR"}) \ {"BREAK", "MODIFIER"}
      BY <1>1, <1>7, <1>9, <2>1, <2>6, KeyCodes DEF After, MarkOf, Extended
    <3> QED BY <2>6, <3>1, KeyCodes DEF Moves, Modifiers, KeyNames
  <2>7. CASE k \in {"a", "up"}
    <3>1. c \in {"1C", "75"} /\ g = b \ {"BREAK", "MODIFIER"}
      BY <1>1, <1>7, <2>1, <2>7, KeyCodes DEF After, MarkOf
    <3>2. b = f \/ b = f \cup {"MODIFIER"}
      BY <1>9
    <3> QED BY <2>7, <3>1, <3>2, KeyCodes DEF Moves, Modifiers, KeyNames
  <2> QED BY <2>2, <2>3, <2>4, <2>5, <2>6, <2>7 DEF KeyNames
<1>12. ASSUME "BREAK" \notin f
       PROVE  /\ Types(b, c) <=> k \notin Modifiers /\ ("MODIFIER" \notin f \/ k \in Extended)
              /\ Types(b, c) =>
                   Out(b, c) = [char |-> IF k = "a" /\ f \cap {"SHIFT_L", "SHIFT_R"} # {}
                                         THEN "A" ELSE k,
                                ctrl |-> "CTRL_L" \in f]
  <2>1. "BREAK" \notin b /\ ("CTRL_L" \in b <=> "CTRL_L" \in f)
    BY <1>9, <1>12
  <2>2. CASE k \in Modifiers
    BY <1>1, <1>9, <2>1, <2>2, KeyCodes
    DEF Modifiers, KeyNames, Types, CharAfter, Extended
  <2>3. CASE k = "a"
    <3>1. c = "1C" /\ b = f
      BY <1>1, <1>9, <2>3, KeyCodes DEF Extended
    <3>2. Types(f, c) <=> "MODIFIER" \notin f
      BY <1>12, <3>1 DEF Types, CharAfter
    <3>3. "MODIFIER" \notin f =>
            CharAfter(f, c) = IF f \cap {"SHIFT_L", "SHIFT_R"} # {} THEN "A" ELSE "a"
      BY <3>1 DEF CharAfter
    <3> QED BY <2>3, <3>1, <3>2, <3>3 DEF Modifiers, KeyNames, Extended, Out
  <2>4. CASE k = "up"
    <3>1. c = "75" /\ "MODIFIER" \in b
      BY <1>1, <1>9, <2>4, KeyCodes DEF Extended
    <3>2. Types(b, c) /\ CharAfter(b, c) = "up"
      BY <2>1, <3>1 DEF Types, CharAfter
    <3>3. Out(b, c) = [char |-> "up", ctrl |-> "CTRL_L" \in f]
      BY <2>1, <3>2 DEF Out
    <3> QED BY <2>4, <3>2, <3>3 DEF Modifiers, KeyNames, Extended
  <2> QED BY <2>2, <2>3, <2>4 DEF Modifiers, KeyNames
<1> QED BY <1>4, <1>5, <1>7, <1>10, <1>11, <1>12, Zenon DEF Pressed

(* A release also puts the decoder in step, wherever it was.               *)
Released(f, g, k, t) ==
  /\ t \in Codes /\ ~TypesLast(f, t)
  /\ "BREAK" \notin g /\ "MODIFIER" \notin g /\ Moves(f, g, k, FALSE)

LEMMA ReleaseEnds ==
  ASSUME NEW f \in SUBSET Flag, NEW k \in KeyNames,
         NEW w, w = <<"F0", CodeOf[k]>>, NEW t, t = Prefix(k) \o w,
         NEW g, g = Finish(f, t)
  PROVE  Released(f, g, k, t)
<1>1. PICK c : c = CodeOf[k]
  OBVIOUS
<1>2. t = IF k \in Extended THEN <<"E0", "F0", c>> ELSE <<"F0", c>>
  BY <1>1, ReleaseCodes, Zenon
<1>3. c \in Plain
  BY <1>1, KeyCodes DEF KeyNames, Plain, ScanCode
<1>4. t \in Codes
  BY <1>2, <1>3, Known, Zenon
<1>5. g = Finish(f, t)
  OBVIOUS
<1>6. PICK b : b = IF k \in Extended THEN After(After(f, "E0"), "F0") ELSE After(f, "F0")
  OBVIOUS
<1>7. g = After(b, c) /\ (TypesLast(f, t) <=> Types(b, c))
  <2>1. CASE k \in Extended
    <3>1. t = <<"E0", "F0", c>> /\ b = After(After(f, "E0"), "F0")
      BY <1>2, <1>6, <2>1
    <3>2. Works(f, <<"E0", "F0", c>>, After(After(f, "E0"), "F0"), c)
      BY ThreeCodes, Zenon
    <3> QED BY <1>5, <3>1, <3>2, Zenon DEF Works
  <2>2. CASE k \notin Extended
    <3>1. t = <<"F0", c>> /\ b = After(f, "F0")
      BY <1>2, <1>6, <2>2
    <3>2. Works(f, <<"F0", c>>, After(f, "F0"), c)
      BY TwoCodes, Zenon
    <3> QED BY <1>5, <3>1, <3>2, Zenon DEF Works
  <2> QED BY <2>1, <2>2
<1>8. b = IF k \in Extended THEN f \cup {"MODIFIER", "BREAK"} ELSE f \cup {"BREAK"}
  BY <1>6 DEF After
<1>9. g = (b \ MarkOf(b, c)) \ {"BREAK", "MODIFIER"}
  BY <1>3, <1>7, <1>8 DEF After, Plain
<1>10. ~Types(b, c)
  BY <1>8 DEF Types
<1>11. Moves(f, g, k, FALSE)
  <2>1. MarkOf(b, c) = IF k \in Modifiers THEN {FlagOf[k]} ELSE {}
    BY <1>1, <1>8, KeyCodes DEF MarkOf, Modifiers, KeyNames, Extended
  <2>2. \A m \in Modifiers : FlagOf[m] \notin {"BREAK", "MODIFIER"}
    BY KeyCodes DEF Modifiers, KeyNames
  <2>3. \A m \in Modifiers : FlagOf[m] \in b <=> FlagOf[m] \in f
    BY <1>8, <2>2
  <2> QED BY <1>9, <2>1, <2>2, <2>3 DEF Moves
<1> QED BY <1>4, <1>7, <1>9, <1>10, <1>11 DEF Released

(* One code of the event has gone out.                                     *)
Shifted(f, g, t, s, u) ==
  /\ s \in ScanCode /\ u \in Codes /\ Finish(f, t) = Finish(g, u)
  /\ IF u = <<>>
     THEN (TypesLast(f, t) <=> Types(f, s)) /\ OutLast(f, t) = Out(f, s)
     ELSE /\ ~Types(f, s) /\ (TypesLast(f, t) <=> TypesLast(g, u))
          /\ OutLast(f, t) = OutLast(g, u)

LEMMA OneOut ==
  ASSUME NEW f, NEW c \in Plain
  PROVE  Shifted(f, After(f, c), <<c>>, c, <<>>)
<1>1. <<>> \in Codes /\ c \in ScanCode
  BY DEF Codes, Plain
<1>2. Finish(After(f, c), <<>>) = After(f, c)
  BY DEF Finish
<1>3. Works(f, <<c>>, f, c)
  BY OneCode, Zenon
<1> QED BY <1>1, <1>2, <1>3, Zenon DEF Shifted, Works

LEMMA TwoOut ==
  ASSUME NEW f, NEW p \in {"F0", "E0"}, NEW c \in Plain
  PROVE  Shifted(f, After(f, p), <<p, c>>, p, <<c>>)
<1>1. <<c>> \in Codes /\ p \in ScanCode /\ <<c>> # <<>>
  <2>1. <<c>> # <<>> /\ p \in ScanCode
    BY DEF ScanCode
  <2> QED BY <2>1, Known, Zenon
<1>2. PICK g : g = After(f, p)
  OBVIOUS
<1>3. Works(g, <<c>>, g, c)
  BY OneCode, Zenon
<1>4. Works(f, <<p, c>>, g, c)
  BY <1>2, TwoCodes, Zenon
<1>5. ~Types(f, p)
  BY DEF Types
<1> QED BY <1>1, <1>2, <1>3, <1>4, <1>5, Zenon DEF Shifted, Works

LEMMA ThreeOut ==
  ASSUME NEW f, NEW c \in Plain
  PROVE  Shifted(f, After(f, "E0"), <<"E0", "F0", c>>, "E0", <<"F0", c>>)
<1>1. <<"F0", c>> \in Codes /\ "E0" \in ScanCode /\ <<"F0", c>> # <<>>
  <2>1. <<"F0", c>> # <<>> /\ "E0" \in ScanCode
    BY DEF ScanCode
  <2> QED BY <2>1, Known, Zenon
<1>2. PICK g : g = After(f, "E0")
  OBVIOUS
<1>3. Works(g, <<"F0", c>>, After(g, "F0"), c)
  BY TwoCodes, Zenon
<1>4. Works(f, <<"E0", "F0", c>>, After(g, "F0"), c)
  BY <1>2, ThreeCodes, Zenon
<1>5. ~Types(f, "E0")
  BY DEF Types
<1> QED BY <1>1, <1>2, <1>3, <1>4, <1>5, Zenon DEF Shifted, Works

LEMMA CodeOut ==
  ASSUME NEW f, NEW t \in Codes, t # <<>>, NEW s, s = Head(t), NEW u, u = Tail(t),
         NEW g, g = After(f, s)
  PROVE  Shifted(f, g, t, s, u)
<1>1. CASE \E c \in Plain : t = <<c>>
  <2>1. PICK c \in Plain : t = <<c>>
    BY <1>1
  <2>2. s = c /\ u = <<>>
    BY <2>1
  <2> QED BY <2>1, <2>2, OneOut, Zenon
<1>2. CASE \E p \in {"F0", "E0"}, c \in Plain : t = <<p, c>>
  <2>1. PICK p \in {"F0", "E0"}, c \in Plain : t = <<p, c>>
    BY <1>2
  <2>2. s = p /\ u = <<c>>
    BY <2>1
  <2> QED BY <2>1, <2>2, TwoOut, Zenon
<1>3. CASE \E c \in Plain : t = <<"E0", "F0", c>>
  <2>1. PICK c \in Plain : t = <<"E0", "F0", c>>
    BY <1>3
  <2>2. s = "E0" /\ u = <<"F0", c>>
    BY <2>1
  <2> QED BY <2>1, <2>2, ThreeOut, Zenon
<1> QED BY <1>1, <1>2, <1>3 DEF Codes

-----------------------------------------------------------------------------
(* The invariant, step by step.                                            *)
LEMMA KeyboardStart == Ps2Init => KeyboardInv
<1> SUFFICES ASSUME Ps2Init  PROVE KeyboardInv
  OBVIOUS
<1>1. KeyboardTypes /\ Progress
  <2>1. <<>> \in Codes
    BY DEF Codes
  <2>2. <<>> \in Seq(ScanCode) /\ <<>> \in Seq(Character)
    OBVIOUS
  <2>3. /\ held = {} /\ toSend = <<>> /\ bitcount = 0 /\ ring = <<>> /\ state = {}
        /\ losses = 0 /\ stray = FALSE /\ shared = FALSE /\ unsure = FALSE
        /\ due = <<>> /\ whole = 2
        /\ sure = Modifiers \cap Keys
    BY DEF Ps2Init
  <2>4. Modifiers \cap Keys \subseteq Modifiers \cap Keys /\ {} \subseteq Keys /\ {} \subseteq Flag
    OBVIOUS
  <2>5. 0 \in 0 .. 10 /\ 2 \in 0 .. 2 /\ 0 \in Nat /\ FALSE \in BOOLEAN
    OBVIOUS
  <2>6. held \subseteq Keys /\ state \subseteq Flag /\ losses \in Nat
        /\ {stray, shared, unsure} \subseteq BOOLEAN
        /\ bitcount \in 0 .. 10 /\ whole \in 0 .. 2 /\ sure \subseteq Modifiers \cap Keys
    BY <2>3, <2>4, <2>5, Zenon
  <2>7. KeyboardTypes
    BY <2>1, <2>2, <2>3, <2>6, Zenon DEF KeyboardTypes
  <2>8. Progress
    BY <2>3 DEF Progress
  <2> QED BY <2>7, <2>8
<1>2. PICK r : r = [i \in 0 .. 0 |-> {}]
  OBVIOUS
<1>3. PICK d : d = [i \in 0 .. 0 |-> 0]
  OBVIOUS
<1>4. ring = <<>> /\ toSend = <<>> /\ due = <<>> /\ state = {} /\ Len(ring) = 0
      /\ r[0] = {} /\ d[0] = 0 /\ Len(due) = 0
  BY <1>2, <1>3 DEF Ps2Init
<1>5. Flags(ring, r, state)
  BY <1>2, <1>4 DEF Flags
<1>6. Tally(ring, r, d, due)
  BY <1>3, <1>4 DEF Tally
<1>7. Finish(r[Len(ring)], toSend) = {} /\ ~TypesLast(r[Len(ring)], toSend)
  BY <1>4 DEF Finish, TypesLast
<1>8. AtEnd({})
  BY DEF AtEnd, Exact, Ps2Init, FlagIsRight, Down
<1>9. Promised(r, d)
  BY <1>4, <1>6, <1>7 DEF Promised
<1> QED BY <1>1, <1>5, <1>7, <1>8, <1>9, Zenon DEF KeyboardInv, Decodes

(* What the invariant says of the flags at the end of the ring.            *)
LEMMA EndFlags ==
  ASSUME NEW q \in Seq(ScanCode), NEW r, NEW f, Flags(q, r, f)
  PROVE  r[Len(q)] \in SUBSET Flag
  BY DEF Flags

(* Two modifiers share a flag only if they are one, or both Ctrl.          *)
LEMMA OneFlag ==
  ASSUME NEW k \in Modifiers, NEW m \in Modifiers
  PROVE  /\ FlagOf[k] = FlagOf[m] => k = m \/ (k \in Ctrl /\ m \in Ctrl)
         /\ k \in Ctrl /\ m \in Ctrl => FlagOf[k] = FlagOf[m]
  BY KeyCodes DEF Modifiers, KeyNames, Ctrl

LEMMA PressStep ==
  ASSUME KeyboardInv, NEW k \in Keys, Press(k)
  PROVE  /\ KeyboardInv' /\ got' = got
         /\ losses' = 0 /\ ~unsure' => Len(due') >= Len(due)
<1>1. /\ toSend = <<>> /\ held' = held \cup {k} /\ due' = Due(k)
      /\ toSend' = Prefix(k) \o <<CodeOf[k]>>
      /\ unsure' = (losses = 0 /\ (Astray(k) \/ (unsure /\ ~AllRead)))
      /\ shared' = (shared /\ k \notin Ctrl)
      /\ stray' = (losses = 0 /\ (\/ k = "RCtrl"
                                  \/ stray /\ k \in {"LShift", "RShift", "LCtrl"}))
      /\ whole' = (IF whole < 2 THEN whole + 1 ELSE 2)
      /\ sure' = (IF whole >= 1 /\ k \in Modifiers THEN sure \cup {k} ELSE sure)
      /\ UNCHANGED <<bitcount, ring, state, losses, got>>
  BY DEF Press
<1>2. KeyboardTypes /\ Progress /\ k \in KeyNames
  BY KeyboardAssumption DEF KeyboardInv
<1>3. PICK r, d : /\ Flags(ring, r, state) /\ AtEnd(Finish(r[Len(ring)], toSend))
                  /\ Promised(r, d)
  BY DEF KeyboardInv, Decodes
<1>4. PICK f \in SUBSET Flag : f = r[Len(ring)]
  BY <1>2, <1>3, EndFlags DEF KeyboardTypes
<1>5. AtEnd(f) /\ ~TypesLast(f, toSend)
  BY <1>1, <1>3, <1>4 DEF Finish, TypesLast
<1>6. PICK t : t = toSend'
  OBVIOUS
<1>7. PICK g : g = Finish(f, t)
  OBVIOUS
<1>8. Pressed(f, g, k, t)
  <2>1. t = Prefix(k) \o <<CodeOf[k]>>
    BY <1>1, <1>6, Zenon
  <2> QED BY <1>2, <1>7, <2>1, PressEnds, Zenon
<1>9. Typed(k) \in Character
  BY <1>2 DEF Typed, Character
<1>10. /\ due' = due \/ due' = Append(due, Typed(k)) \/ due' = <<>>
       /\ losses = 0 /\ ~unsure' =>
            due' = IF k \in Modifiers THEN due ELSE Append(due, Typed(k))
       /\ ~(losses = 0 /\ ~unsure') => due' = <<>>
  BY <1>1, <1>2 DEF Due, KeyboardTypes
<1>11. due' \in Seq(Character) /\ (losses = 0 /\ ~unsure' => Len(due') >= Len(due))
  <2>1. due \in Seq(Character)
    BY <1>2 DEF KeyboardTypes
  <2>2. Append(due, Typed(k)) \in Seq(Character) /\ Len(Append(due, Typed(k))) = Len(due) + 1
    BY <1>9, <2>1
  <2>3. <<>> \in Seq(Character)
    OBVIOUS
  <2>4. due' \in Seq(Character)
    BY <1>10, <2>1, <2>2, <2>3, Zenon
  <2>5. Len(due) \in Nat
    BY <2>1
  <2> QED BY <1>10, <2>2, <2>4, <2>5
<1>12. KeyboardTypes' /\ Progress'
  <2>1. KeyboardTypes'
    <3>1. {stray', shared', unsure'} \subseteq BOOLEAN
      BY <1>1
    <3>2. toSend' \in Codes
      BY <1>6, <1>8, Zenon DEF Pressed
    <3>3. held' \subseteq Keys /\ whole' \in 0 .. 2 /\ sure' \subseteq Modifiers \cap Keys
      BY <1>1, <1>2 DEF KeyboardTypes, Modifiers
    <3> QED BY <1>1, <1>2, <1>11, <3>1, <3>2, <3>3 DEF KeyboardTypes
  <2>2. (whole' = 0 => sure' = {}) /\ (losses' = 0 => whole' = 2)
    BY <1>1, <1>2 DEF Progress, KeyboardTypes
  <2>3. ~Calm' => due' = <<>>
    BY <1>1, <1>10 DEF Calm
  <2> QED BY <2>1, <2>2, <2>3 DEF Progress
<1>13. ASSUME NEW m \in sure'  PROVE FlagIsRight(g, m)'
  <2>1. whole >= 1 /\ m \in Modifiers \cap Keys
    BY <1>1, <1>2, <1>13 DEF Progress, KeyboardTypes
  <2>2. "BREAK" \notin f
    BY <1>5, <2>1 DEF AtEnd
  <2>3. FlagOf[m] \in g <=> IF k \in Modifiers /\ FlagOf[m] = FlagOf[k] THEN TRUE
                            ELSE FlagOf[m] \in f
    BY <1>8, <2>1, <2>2 DEF Moves, Pressed
  <2>4. CASE k \in Modifiers /\ FlagOf[m] = FlagOf[k]
    <3>1. Down(FlagOf[m])'
      BY <1>1, <2>4 DEF Down
    <3> QED BY <2>3, <2>4, <3>1 DEF FlagIsRight
  <2>5. CASE ~(k \in Modifiers /\ FlagOf[m] = FlagOf[k])
    <3>1. m \in sure /\ FlagIsRight(f, m)
      BY <1>1, <1>5, <1>13, <2>1, <2>5 DEF AtEnd
    <3>2. Down(FlagOf[m])' <=> Down(FlagOf[m])
      BY <1>1, <2>5 DEF Down
    <3>3. shared' /\ m \in Ctrl <=> shared /\ m \in Ctrl
      <4>1. m \in Ctrl /\ k \in Ctrl => k \in Modifiers
        BY DEF Ctrl, Modifiers, KeyNames
      <4>2. ~(m \in Ctrl /\ k \in Ctrl)
        BY <2>1, <2>5, <4>1, OneFlag
      <4> QED BY <1>1, <4>2
    <3>4. FlagOf[m] \in g <=> FlagOf[m] \in f
      BY <2>3, <2>5
    <3> QED BY <3>1, <3>2, <3>3, <3>4 DEF FlagIsRight
  <2> QED BY <2>4, <2>5
<1>14. ASSUME losses = 0  PROVE "BREAK" \notin f /\ Exact(f)
  BY <1>2, <1>5, <1>14 DEF AtEnd, Progress
<1>15. ASSUME losses = 0  PROVE Exact(g)'
  <2>1. Moves(f, g, k, TRUE)
    BY <1>8, <1>14, <1>15 DEF Pressed
  <2>2. "MODIFIER" \in g <=> stray'
    BY <1>1, <1>8, <1>14, <1>15 DEF Exact, Pressed
  <2>3. /\ "SHIFT_L" \in g <=> k = "LShift" \/ "SHIFT_L" \in f
        /\ "SHIFT_R" \in g <=> k = "RShift" \/ "SHIFT_R" \in f
        /\ "CTRL_L" \in g <=> k \in Ctrl \/ "CTRL_L" \in f
    BY <1>2, <2>1, KeyCodes DEF Moves, Modifiers, KeyNames, Ctrl
  <2>4. /\ "SHIFT_L" \in g <=> "LShift" \in held'
        /\ "SHIFT_R" \in g <=> "RShift" \in held'
        /\ "CTRL_L" \in g <=> held' \cap Ctrl # {} /\ ~shared'
    BY <1>1, <1>14, <1>15, <2>3 DEF Exact
  <2> QED BY <2>2, <2>4 DEF Exact
<1>16. AtEnd(g)'
  BY <1>1, <1>8, <1>13, <1>15 DEF AtEnd, Pressed
<1>17. ASSUME losses = 0, ~unsure'
       PROVE  \E e : /\ Tally(ring, r, e, due')
                     /\ IF TypesLast(f, t)
                        THEN /\ Len(due') = e[Len(ring)] + 1
                             /\ due'[Len(due')] = OutLast(f, t)
                        ELSE Len(due') = e[Len(ring)]
  <2>1. ~Astray(k) /\ (~unsure \/ AllRead)
    BY <1>1, <1>17
  <2>2. PICK e : Tally(ring, r, e, due) /\ Len(due) = e[Len(ring)]
    <3>1. CASE ~unsure
      BY <1>3, <1>4, <1>5, <1>17, <3>1 DEF Promised, Calm
    <3>2. CASE unsure /\ AllRead
      <4>1. ring = <<>> /\ due = <<>>
        BY <1>2, <3>2 DEF AllRead, Progress, Calm
      <4>2. PICK e : e = [i \in 0 .. 0 |-> 0]
        OBVIOUS
      <4>3. e \in [0 .. 0 -> Nat] /\ e[0] = 0 /\ Len(ring) = 0 /\ Len(due) = 0
        BY <4>1, <4>2
      <4>4. Tally(ring, r, e, due)
        BY <4>3 DEF Tally
      <4> QED BY <4>3, <4>4, Zenon
    <3> QED BY <2>1, <3>1, <3>2
  <2>3. TypesLast(f, t) <=> k \notin Modifiers
    BY <1>8, <1>14, <1>17, <2>1 DEF Exact, Pressed, Astray
  <2>4. due' = IF k \in Modifiers THEN due ELSE Append(due, Typed(k))
    BY <1>10, <1>17
  <2>5. CASE k \notin Modifiers
    <3>1. due' = Append(due, Typed(k))
      BY <2>4, <2>5
    <3>2. OutLast(f, t) = Typed(k)
      <4>1. /\ f \cap {"SHIFT_L", "SHIFT_R"} # {} <=> held \cap {"LShift", "RShift"} # {}
            /\ "CTRL_L" \in f <=> held \cap Ctrl # {}
        BY <1>14, <1>17, <2>1, <2>5 DEF Exact, Astray
      <4> QED BY <1>8, <1>14, <1>17, <2>3, <2>5, <4>1 DEF Typed, Pressed
    <3>3. Tally(ring, r, e, due')
      BY <1>2, <1>9, <2>2, <3>1, TallyMore DEF KeyboardTypes
    <3>4. Len(due') = e[Len(ring)] + 1 /\ due'[Len(due')] = Typed(k)
      BY <1>2, <1>9, <2>2, <3>1 DEF KeyboardTypes
    <3> QED BY <2>3, <2>5, <3>2, <3>3, <3>4
  <2>6. CASE k \in Modifiers
    BY <2>2, <2>3, <2>4, <2>6
  <2> QED BY <2>5, <2>6
<1>18. Decodes'
  <2>1. Flags(ring, r, state)' /\ r[Len(ring')] = f
    BY <1>1, <1>3, <1>4
  <2>2. AtEnd(Finish(r[Len(ring)], toSend))'
    BY <1>6, <1>7, <1>16, <2>1
  <2>3. \E e : Promised(r, e)'
    <3>1. CASE losses = 0 /\ ~unsure'
      BY <1>1, <1>4, <1>6, <1>17, <3>1 DEF Promised
    <3>2. CASE ~(losses = 0 /\ ~unsure')
      BY <1>1, <3>2 DEF Promised, Calm
    <3> QED BY <3>1, <3>2
  <2> QED BY <2>1, <2>2, <2>3, Zenon DEF Decodes
<1> QED BY <1>1, <1>11, <1>12, <1>18 DEF KeyboardInv

LEMMA ReleaseStep ==
  ASSUME KeyboardInv, NEW k \in Keys, Release(k)
  PROVE  KeyboardInv' /\ got' = got /\ due' = due
<1>1. /\ toSend = <<>> /\ held' = held \ {k} /\ stray' = FALSE
      /\ toSend' = Prefix(k) \o <<"F0", CodeOf[k]>>
      /\ whole' = (IF whole < 2 THEN whole + 1 ELSE 2)
      /\ sure' = (IF whole >= 1 /\ k \in Modifiers THEN sure \cup {k} ELSE sure)
      /\ shared' = (IF k \in Ctrl THEN held' \cap Ctrl # {} ELSE shared)
      /\ UNCHANGED <<bitcount, ring, state, losses, unsure, due, got>>
  BY DEF Release
<1>2. KeyboardTypes /\ Progress /\ k \in KeyNames
  BY KeyboardAssumption DEF KeyboardInv
<1>3. PICK r, d : /\ Flags(ring, r, state) /\ AtEnd(Finish(r[Len(ring)], toSend))
                  /\ Promised(r, d)
  BY DEF KeyboardInv, Decodes
<1>4. PICK f \in SUBSET Flag : f = r[Len(ring)]
  BY <1>2, <1>3, EndFlags DEF KeyboardTypes
<1>5. AtEnd(f) /\ ~TypesLast(f, toSend)
  BY <1>1, <1>3, <1>4 DEF Finish, TypesLast
<1>6. PICK t : t = toSend'
  OBVIOUS
<1>7. PICK g : g = Finish(f, t)
  OBVIOUS
<1>8. Released(f, g, k, t)
  <2>1. PICK w : w = <<"F0", CodeOf[k]>>
    OBVIOUS
  <2>2. t = Prefix(k) \o w
    BY <1>1, <1>6, <2>1, Zenon
  <2> QED BY <1>2, <1>7, <2>1, <2>2, ReleaseEnds, Zenon
<1>9. KeyboardTypes' /\ Progress'
  <2>1. toSend' \in Codes
    BY <1>6, <1>8, Zenon DEF Released
  <2>2. held' \subseteq Keys /\ whole' \in 0 .. 2 /\ sure' \subseteq Modifiers \cap Keys
    BY <1>1, <1>2 DEF KeyboardTypes, Modifiers
  <2>3. {stray', shared', unsure'} \subseteq BOOLEAN
    BY <1>1, <1>2 DEF KeyboardTypes
  <2>4. KeyboardTypes'
    BY <1>1, <1>2, <2>1, <2>2, <2>3 DEF KeyboardTypes
  <2>5. Progress'
    BY <1>1, <1>2 DEF Progress, KeyboardTypes, Calm
  <2> QED BY <2>4, <2>5
<1>10. ASSUME NEW m \in sure'  PROVE FlagIsRight(g, m)'
  <2>1. m \in Modifiers \cap Keys
    BY <1>2, <1>9, <1>10 DEF KeyboardTypes
  <2>2. FlagOf[m] \in g <=> IF k \in Modifiers /\ FlagOf[m] = FlagOf[k] THEN FALSE
                            ELSE FlagOf[m] \in f
    BY <1>8, <2>1 DEF Moves, Released
  <2>3. CASE k \in Modifiers /\ FlagOf[m] = FlagOf[k]
    <3>1. ASSUME Down(FlagOf[m])'  PROVE shared' /\ m \in Ctrl
      <4>1. PICK n \in held' \cap Modifiers : FlagOf[n] = FlagOf[k]
        BY <2>3, <3>1 DEF Down
      <4>2. n # k
        BY <1>1, <4>1
      <4>3. n \in Ctrl /\ k \in Ctrl
        BY <2>3, <4>1, <4>2, OneFlag
      <4>4. m \in Ctrl
        BY <2>1, <2>3, <4>3, OneFlag
      <4> QED BY <1>1, <4>1, <4>3, <4>4
    <3> QED BY <2>2, <2>3, <3>1 DEF FlagIsRight
  <2>4. CASE ~(k \in Modifiers /\ FlagOf[m] = FlagOf[k])
    <3>1. m \in sure /\ FlagIsRight(f, m)
      BY <1>1, <1>5, <1>10, <2>1, <2>4 DEF AtEnd
    <3>2. Down(FlagOf[m])' <=> Down(FlagOf[m])
      BY <1>1, <2>4 DEF Down
    <3>3. shared' /\ m \in Ctrl <=> shared /\ m \in Ctrl
      <4>1. m \in Ctrl /\ k \in Ctrl => k \in Modifiers
        BY DEF Ctrl, Modifiers, KeyNames
      <4>2. ~(m \in Ctrl /\ k \in Ctrl)
        BY <2>1, <2>4, <4>1, OneFlag
      <4> QED BY <1>1, <4>2
    <3>4. FlagOf[m] \in g <=> FlagOf[m] \in f
      BY <2>2, <2>4
    <3> QED BY <3>1, <3>2, <3>3, <3>4 DEF FlagIsRight
  <2> QED BY <2>3, <2>4
<1>11. ASSUME losses = 0  PROVE Exact(g)'
  <2>1. Exact(f)
    BY <1>5, <1>11 DEF AtEnd
  <2>2. /\ "SHIFT_L" \in g <=> k # "LShift" /\ "SHIFT_L" \in f
        /\ "SHIFT_R" \in g <=> k # "RShift" /\ "SHIFT_R" \in f
        /\ "CTRL_L" \in g <=> k \notin Ctrl /\ "CTRL_L" \in f
    BY <1>2, <1>8, KeyCodes DEF Moves, Modifiers, KeyNames, Released, Ctrl
  <2>4. /\ "SHIFT_L" \in g <=> "LShift" \in held'
        /\ "SHIFT_R" \in g <=> "RShift" \in held'
    BY <1>1, <2>1, <2>2 DEF Exact
  <2>5. "CTRL_L" \in g <=> held' \cap Ctrl # {} /\ ~shared'
    <3>1. CASE k \in Ctrl
      BY <1>1, <2>2, <3>1
    <3>2. CASE k \notin Ctrl
      BY <1>1, <2>1, <2>2, <3>2 DEF Exact
    <3> QED BY <3>1, <3>2
  <2> QED BY <1>1, <1>8, <2>4, <2>5 DEF Exact, Released
<1>12. AtEnd(g)'
  BY <1>1, <1>8, <1>10, <1>11 DEF AtEnd, Released
<1>13. Decodes'
  <2>1. Flags(ring, r, state)' /\ r[Len(ring')] = f
    BY <1>1, <1>3, <1>4
  <2>2. AtEnd(Finish(r[Len(ring)], toSend))'
    BY <1>6, <1>7, <1>12, <2>1
  <2>3. Promised(r, d)'
    BY <1>1, <1>3, <1>4, <1>5, <1>6, <1>8 DEF Promised, Released, Calm
  <2> QED BY <2>1, <2>2, <2>3, Zenon DEF Decodes
<1> QED BY <1>1, <1>9, <1>13 DEF KeyboardInv

(* A frame that is lost, or read as another code, promises nothing; the    *)
(* run only has to go on over the ring.                                    *)
LEMMA LostStep ==
  ASSUME KeyboardTypes, Lost, toSend' \in Codes, bitcount' \in 0 .. 10,
         ring' = ring \/ \E c \in ScanCode : ring' = Append(ring, c),
         UNCHANGED <<held, state, shared>>, Decodes
  PROVE  KeyboardInv'
<1>1. /\ losses' = losses + 1 /\ due' = <<>> /\ whole' = 0 /\ sure' = {}
      /\ stray' = FALSE /\ unsure' = FALSE
  BY DEF Lost
<1>2. losses' \in Nat /\ losses' # 0
  BY <1>1 DEF KeyboardTypes
<1>3. ring' \in Seq(ScanCode) /\ due' \in Seq(Character)
  BY <1>1 DEF KeyboardTypes
<1>4. /\ held' \subseteq Keys /\ state' \subseteq Flag /\ shared' \in BOOLEAN
      /\ stray' \in BOOLEAN /\ unsure' \in BOOLEAN
      /\ whole' \in 0 .. 2 /\ sure' \subseteq Modifiers \cap Keys
  <2>1. held \subseteq Keys /\ state \subseteq Flag /\ shared \in BOOLEAN
    BY DEF KeyboardTypes
  <2>2. held' = held /\ state' = state /\ shared' = shared
    OBVIOUS
  <2>3. {} \subseteq Modifiers \cap Keys /\ 0 \in 0 .. 2 /\ FALSE \in BOOLEAN
    OBVIOUS
  <2> QED BY <1>1, <2>1, <2>2, <2>3, Zenon
<1>5. KeyboardTypes' /\ Progress'
  BY <1>1, <1>2, <1>3, <1>4 DEF KeyboardTypes, Progress, Calm
<1>6. \A g : AtEnd(g)'
  BY <1>1, <1>2 DEF AtEnd
<1>7. PICK r : Flags(ring, r, state)
  BY DEF Decodes
<1>8. \E u : Flags(ring', u, state')
  <2>1. PICK q, f : q = ring /\ f = state
    OBVIOUS
  <2>2. q \in Seq(ScanCode) /\ Flags(q, r, f)
    BY <1>7, <2>1 DEF KeyboardTypes
  <2>3. ASSUME NEW c \in ScanCode  PROVE \E u : Flags(Append(q, c), u, f)
    BY <2>2, RunAppend, Zenon
  <2> QED BY <2>1, <2>2, <2>3, Zenon
<1>9. PICK u : Flags(ring', u, state')
  BY <1>8
<1>10. Promised(u, u)'
  BY <1>2 DEF Promised, Calm
<1>11. Decodes'
  BY <1>6, <1>9, <1>10, Zenon DEF Decodes
<1> QED BY <1>5, <1>11 DEF KeyboardInv

(* A frame that arrives moves its code from the wire to the ring.          *)
LEMMA ArriveStep ==
  ASSUME KeyboardInv, toSend # <<>>, toSend' = Tail(toSend), bitcount' \in 0 .. 10,
         ring' = Append(ring, Head(toSend)),
         UNCHANGED <<held, state, stray, shared, unsure, losses, due, whole, sure>>
  PROVE  KeyboardInv'
<1>1. KeyboardTypes /\ Progress
  BY DEF KeyboardInv
<1>2. PICK q, t, s, u, c : q = ring /\ t = toSend /\ s = Head(toSend) /\ u = Tail(toSend) /\ c = due
  OBVIOUS
<1>3. q \in Seq(ScanCode) /\ c \in Seq(Character)
  BY <1>1, <1>2 DEF KeyboardTypes
<1>4. PICK r, d : Flags(q, r, state) /\ AtEnd(Finish(r[Len(q)], t)) /\ Promised(r, d)
  BY <1>2 DEF KeyboardInv, Decodes
<1>5. PICK f \in SUBSET Flag : f = r[Len(q)]
  BY <1>3, <1>4, EndFlags
<1>6. PICK g : g = After(f, s)
  OBVIOUS
<1>7. Shifted(f, g, t, s, u)
  BY <1>1, <1>2, <1>6, CodeOut DEF KeyboardTypes
<1>8. s \in ScanCode /\ u \in Codes /\ Finish(f, t) = Finish(g, u)
  BY <1>7 DEF Shifted
<1>9. ring' = Append(q, s) /\ toSend' = u /\ ring' \in Seq(ScanCode)
  BY <1>2, <1>3, <1>8
<1>10. KeyboardTypes' /\ Progress'
  BY <1>1, <1>8, <1>9 DEF KeyboardTypes, Progress, Calm
<1>11. \E v : /\ Flags(ring', v, state) /\ v[Len(ring')] = g
              /\ \A i \in 0 .. Len(q) : v[i] = r[i]
  <2>1. PICK y : y = state
    OBVIOUS
  <2>2. Flags(q, r, y)
    BY <1>4, <2>1
  <2>3. PICK v : /\ Flags(Append(q, s), v, y)
                 /\ v[Len(Append(q, s))] = After(r[Len(q)], s)
                 /\ \A i \in 0 .. Len(q) : v[i] = r[i]
    BY <1>3, <1>8, <2>2, RunAppend
  <2> QED BY <1>5, <1>6, <1>9, <2>1, <2>3, Zenon
<1>12. PICK v : /\ Flags(ring', v, state) /\ v[Len(ring')] = g
                /\ \A i \in 0 .. Len(q) : v[i] = r[i]
  BY <1>11
<1>13. AtEnd(Finish(g, u))'
  BY <1>2, <1>4, <1>5, <1>8 DEF AtEnd, Exact, FlagIsRight, Down
<1>14. ASSUME Calm
       PROVE  \E e : /\ Tally(ring', v, e, c)
                     /\ IF TypesLast(g, u)
                        THEN Len(c) = e[Len(ring')] + 1 /\ c[Len(c)] = OutLast(g, u)
                        ELSE Len(c) = e[Len(ring')]
  <2>1. /\ Tally(q, r, d, c)
        /\ IF TypesLast(f, t) THEN Len(c) = d[Len(q)] + 1 /\ c[Len(c)] = OutLast(f, t)
           ELSE Len(c) = d[Len(q)]
    BY <1>2, <1>4, <1>5, <1>14 DEF Promised
  <2>2. PICK k \in Nat : k = d[Len(q)]
    <3>1. Len(q) \in 0 .. Len(q)
      BY <1>3
    <3> QED BY <2>1, <3>1 DEF Tally
  <2>3. PICK l \in Nat : l = Len(c)
    BY <1>3
  <2>4. ASSUME NEW m \in Nat, m <= Len(c), AddsTo(f, s, k, c, m)
        PROVE  Reaches(Append(q, s), v, c, m)
    <3>1. Tally(q, r, d, c) /\ Prolongs(q, r, v)
      BY <1>12, <2>1 DEF Prolongs
    <3> QED BY <1>3, <1>5, <1>8, <2>2, <2>4, <3>1, TallyAppend, Zenon
  <2>5. CASE u = <<>>
    <3>1. AddsTo(f, s, k, c, l)
      BY <1>7, <2>1, <2>2, <2>3, <2>5, Zenon DEF Shifted, AddsTo
    <3>2. l <= Len(c)
      BY <2>3
    <3>3. Reaches(Append(q, s), v, c, l)
      BY <2>4, <3>1, <3>2, Zenon
    <3>4. ~TypesLast(g, u)
      BY <2>5 DEF TypesLast
    <3> QED BY <1>9, <2>3, <3>3, <3>4, Zenon DEF Reaches
  <2>6. CASE u # <<>>
    <3>1. /\ ~Types(f, s) /\ (TypesLast(f, t) <=> TypesLast(g, u))
          /\ OutLast(f, t) = OutLast(g, u)
      BY <1>7, <2>6 DEF Shifted
    <3>2. AddsTo(f, s, k, c, k)
      BY <3>1, Zenon DEF AddsTo
    <3>3. k <= Len(c)
      BY <2>1, <2>2, <2>3
    <3>4. Reaches(Append(q, s), v, c, k)
      BY <2>4, <3>2, <3>3, Zenon
    <3> QED BY <1>9, <2>1, <2>2, <3>1, <3>4, Zenon DEF Reaches
  <2> QED BY <2>5, <2>6
<1>15. \E e : Promised(v, e)'
  <2>1. CASE Calm
    BY <1>2, <1>9, <1>12, <1>14, <2>1, Zenon DEF Promised
  <2>2. CASE ~Calm
    BY <2>2 DEF Promised, Calm
  <2> QED BY <2>1, <2>2
<1>16. PICK e : Promised(v, e)'
  BY <1>15
<1>17. Decodes'
  <2>1. Flags(ring, v, state)'
    BY <1>12
  <2>2. AtEnd(Finish(v[Len(ring)], toSend))'
    BY <1>9, <1>12, <1>13
  <2> QED BY <1>16, <2>1, <2>2, Zenon DEF Decodes
<1> QED BY <1>10, <1>17 DEF KeyboardInv

LEMMA FrameStep ==
  ASSUME KeyboardInv, NEW missed \in {0, 1, 11}, NEW pause \in BOOLEAN, Frame(missed, pause)
  PROVE  KeyboardInv' /\ (losses' = 0 => got' = got /\ due' = due)
<1>1. KeyboardTypes /\ Decodes
  BY DEF KeyboardInv
<1>2. PICK b \in 0 .. 10 : b = Counted(pause)
  BY <1>1 DEF Counted, KeyboardTypes
<1>3. PICK n \in Nat : n = b + 11 - missed
  OBVIOUS
<1>4. n % 11 \in 0 .. 10 /\ (b = 0 /\ missed = 0 => n = 11)
  BY <1>3
<1>5. /\ toSend # <<>> /\ toSend' = Tail(toSend) /\ bitcount' = n % 11
      /\ IF n < 11 THEN ring' = ring
         ELSE \E c \in IF b = 0 /\ missed = 0 THEN {Head(toSend)} ELSE Garbled : PutCode(c)
      /\ IF b = 0 /\ missed = 0 /\ Len(ring) + 1 < BUFFER_SIZE
         THEN UNCHANGED <<losses, stray, unsure, due, got, whole, sure>> ELSE Lost
      /\ UNCHANGED <<held, state, shared>>
  BY <1>2, <1>3 DEF Frame
<1>6. bitcount' \in 0 .. 10
  BY <1>4, <1>5
<1>7. Shifted(state, After(state, Head(toSend)), toSend, Head(toSend), Tail(toSend))
  <2>1. PICK f, g, t, s, u : /\ f = state /\ t = toSend /\ s = Head(toSend) /\ u = Tail(toSend)
                             /\ g = After(f, s)
    OBVIOUS
  <2>2. t \in Codes /\ t # <<>> /\ s = Head(t) /\ u = Tail(t)
    BY <1>1, <1>5, <2>1 DEF KeyboardTypes
  <2>3. Shifted(f, g, t, s, u)
    BY <2>1, <2>2, CodeOut, Zenon
  <2> QED BY <2>1, <2>3, Zenon
<1>8. Head(toSend) \in ScanCode /\ toSend' \in Codes
  BY <1>5, <1>7 DEF Shifted
<1>9. CASE b = 0 /\ missed = 0 /\ Len(ring) + 1 < BUFFER_SIZE
  <2>1. ring' = Append(ring, Head(toSend))
    BY <1>4, <1>5, <1>9 DEF PutCode
  <2> QED BY <1>5, <1>6, <1>9, <2>1, ArriveStep
<1>10. CASE ~(b = 0 /\ missed = 0 /\ Len(ring) + 1 < BUFFER_SIZE)
  <2>1. Lost
    BY <1>5, <1>10
  <2>2. ring' = ring \/ \E c \in ScanCode : ring' = Append(ring, c)
    BY <1>5, <1>8, KeyboardAssumption, GarbledAssumption DEF PutCode
  <2>3. KeyboardInv'
    BY <1>1, <1>5, <1>6, <1>8, <2>1, <2>2, LostStep
  <2>4. losses' # 0
    BY <1>1, <2>1 DEF Lost, KeyboardTypes
  <2> QED BY <1>5, <2>3, <2>4
<1> QED BY <1>9, <1>10

(* The decoder's step is the run's first.                                  *)
LEMMA DecodeIsAfter ==
  ASSUME KeyboardTypes, Decode
  PROVE  /\ ring # <<>> /\ ring' = Tail(ring) /\ state' = After(state, Head(ring))
         /\ IF Types(state, Head(ring))
            THEN /\ losses = 0 => got' = Out(state, Head(ring))
                 /\ due' = IF due = <<>> THEN due ELSE Tail(due)
            ELSE UNCHANGED <<got, due>>
         /\ UNCHANGED <<held, toSend, bitcount, losses, stray, shared, unsure, whole, sure>>
<1>1. ring # <<>> /\ ring' = Tail(ring)
      /\ UNCHANGED <<held, toSend, bitcount, losses, stray, shared, unsure, whole, sure>>
  BY DEF Decode
<1>2. PICK s \in ScanCode : s = Head(ring)
  BY <1>1 DEF KeyboardTypes
<1>3. FlagByCode(s) = MarkOf(state, s) /\ CharOf(s) = CharAfter(state, s)
  BY Zenon DEF FlagByCode, MarkOf, CharOf, CharAfter
<1>4. CASE s \in {"F0", "E0"} \/ "BREAK" \in state
  <2>1. ~Types(state, s) /\ UNCHANGED <<got, due>>
    BY <1>2, <1>4 DEF Decode, Types
  <2>2. state' = After(state, s)
    BY <1>2, <1>3, <1>4 DEF Decode, After, Broken, Clear
  <2> QED BY <1>1, <1>2, <2>1, <2>2
<1>5. CASE s \notin {"F0", "E0"} /\ "BREAK" \notin state
  <2>1. CASE s \in {"12", "59", "14"}
    <3>1. ~Types(state, s) /\ UNCHANGED <<got, due>> /\ state' = state \cup FlagByCode(s)
      BY <1>2, <1>5, <2>1 DEF Decode, Types
    <3>2. state' = After(state, s)
      BY <1>3, <1>5, <2>1, <3>1 DEF After
    <3> QED BY <1>1, <1>2, <3>1, <3>2
  <2>2. CASE s \in {"11", "1C", "75"}
    <3>1. /\ Deliver(CharAfter(state, s))
          /\ state' = (state \cup FlagByCode(s)) \ {"BREAK", "MODIFIER"}
      BY <1>2, <1>3, <1>5, <2>2 DEF Decode
    <3>2. Types(state, s) <=> CharAfter(state, s) # "none"
      BY <1>5, <2>2 DEF Types
    <3>3. state' = After(state, s)
      BY <1>3, <1>5, <2>2, <3>1 DEF After
    <3> QED BY <1>1, <1>2, <3>1, <3>2, <3>3 DEF Deliver, Out, KeyboardTypes
  <2> QED BY <1>2, <1>5, <2>1, <2>2 DEF ScanCode
<1> QED BY <1>4, <1>5

LEMMA DecodeStep ==
  ASSUME KeyboardInv, Decode
  PROVE  /\ KeyboardInv'
         /\ losses' = 0 /\ ~unsure' /\ (Len(due') < Len(due) \/ got' # got)
            => due # <<>> /\ got' = Head(due)
<1>1. KeyboardTypes /\ Progress
  BY DEF KeyboardInv
<1>2. PICK q, f, s, c, t : q = ring /\ f = state /\ s = Head(ring) /\ c = due /\ t = toSend
  OBVIOUS
<1>3. PICK one \in {0, 1} : one = IF Types(f, s) THEN 1 ELSE 0
  OBVIOUS
<1>4. PICK b : b = IF Types(f, s) THEN Tail(c) ELSE c
  OBVIOUS
<1>5. /\ q # <<>> /\ ring' = Tail(q) /\ state' = After(f, s) /\ q[1] = s
      /\ IF Types(f, s) THEN /\ losses = 0 => got' = Out(f, s)
                            /\ due' = (IF c = <<>> THEN c ELSE Tail(c))
         ELSE got' = got /\ due' = c
      /\ UNCHANGED <<held, toSend, bitcount, losses, stray, shared, unsure, whole, sure>>
  BY <1>1, <1>2, DecodeIsAfter
<1>6. /\ q \in Seq(ScanCode) /\ c \in Seq(Character) /\ f \in SUBSET Flag /\ s \in ScanCode
      /\ t \in Codes
  BY <1>1, <1>2, <1>5 DEF KeyboardTypes
<1>7. ring' \in Seq(ScanCode) /\ due' \in Seq(Character) /\ state' \subseteq Flag
  <2>1. After(f, s) \in SUBSET Flag
    BY <1>6, AfterFlags
  <2>2. Tail(q) \in Seq(ScanCode) /\ (c # <<>> => Tail(c) \in Seq(Character))
    BY <1>5, <1>6
  <2> QED BY <1>5, <1>6, <2>1, <2>2, Zenon
<1>8. KeyboardTypes' /\ Progress'
  BY <1>1, <1>2, <1>5, <1>7 DEF KeyboardTypes, Progress, Calm
<1>9. PICK r, d : Flags(q, r, f) /\ AtEnd(Finish(r[Len(q)], t)) /\ Promised(r, d)
  BY <1>2 DEF KeyboardInv, Decodes
<1>10. r[0] = f
  BY <1>9 DEF Flags
<1>11. PICK u : /\ Flags(Tail(q), u, After(f, s)) /\ u[Len(Tail(q))] = r[Len(q)]
                /\ \A i \in 0 .. Len(q) - 1 : u[i] = r[i + 1]
  BY <1>5, <1>6, <1>9, RunTail
<1>12. Flags(ring, u, state)' /\ u[Len(ring')] = r[Len(q)]
  BY <1>5, <1>11
<1>13. AtEnd(Finish(u[Len(ring)], toSend))'
  BY <1>2, <1>5, <1>9, <1>12 DEF AtEnd, Exact, FlagIsRight, Down
<1>14. ASSUME Calm
       PROVE  /\ FirstIsOut(f, s, c)
              /\ \E e : Promised(u, e)'
  <2>1. /\ Tally(q, r, d, c)
        /\ IF TypesLast(r[Len(q)], t)
           THEN Len(c) = d[Len(q)] + 1 /\ c[Len(c)] = OutLast(r[Len(q)], t)
           ELSE Len(c) = d[Len(q)]
    BY <1>2, <1>9, <1>14 DEF Promised
  <2>2. PICK k \in Nat : k = d[Len(q)]
    <3>1. Len(q) \in 0 .. Len(q)
      BY <1>6
    <3> QED BY <2>1, <3>1 DEF Tally
  <2>3. Reaches(Tail(q), u, b, k - one) /\ FirstIsOut(f, s, c)
    <3>1. Shortens(q, r, u) /\ f = r[0] /\ s = q[1]
      BY <1>5, <1>10, <1>11 DEF Shortens
    <3> QED BY <1>3, <1>4, <1>5, <1>6, <2>1, <2>2, <3>1, TallyTail, Zenon
  <2>4. FirstIsOut(f, s, c)
    BY <2>3
  <2>5. PICK e : Tally(Tail(q), u, e, b) /\ e[Len(Tail(q))] = k - one
    BY <2>3 DEF Reaches
  <2>6. due' = b
    BY <1>4, <1>5, <2>4 DEF FirstIsOut
  <2>7. PICK l \in Nat : l = k - one /\ l = e[Len(ring')]
    <3>1. Len(Tail(q)) \in 0 .. Len(Tail(q))
      BY <1>5, <1>6
    <3> QED BY <1>5, <2>5, <3>1 DEF Tally
  <2>8. Len(b) = Len(c) - one /\ (Len(b) > 0 => b[Len(b)] = c[Len(c)])
    BY <1>3, <1>4, <1>6, <2>4 DEF FirstIsOut
  <2>9. IF TypesLast(r[Len(q)], t) THEN Len(b) = l + 1 /\ b[Len(b)] = OutLast(r[Len(q)], t)
        ELSE Len(b) = l
    BY <1>3, <1>6, <2>1, <2>2, <2>7, <2>8
  <2>10. Promised(u, e)'
    BY <1>2, <1>5, <1>12, <2>5, <2>6, <2>7, <2>9, Zenon DEF Promised
  <2> QED BY <2>4, <2>10
<1>15. \E e : Promised(u, e)'
  <2>1. CASE Calm
    BY <1>14, <2>1
  <2>2. CASE ~Calm
    BY <1>5, <2>2 DEF Promised, Calm
  <2> QED BY <2>1, <2>2
<1>16. Decodes'
  BY <1>12, <1>13, <1>15, Zenon DEF Decodes
<1>17. ASSUME losses' = 0, ~unsure', Len(due') < Len(due) \/ got' # got
       PROVE  due # <<>> /\ got' = Head(due)
  <2>1. FirstIsOut(f, s, c)
    BY <1>5, <1>14, <1>17 DEF Calm
  <2>2. Types(f, s)
    BY <1>2, <1>5, <1>6, <1>17
  <2>3. got' = Out(f, s)
    BY <1>5, <1>17, <2>2
  <2> QED BY <1>2, <1>5, <1>6, <2>1, <2>2, <2>3 DEF FirstIsOut
<1> QED BY <1>8, <1>16, <1>17 DEF KeyboardInv

(* A step of the keyboard, the line or the decoder, and what it delivers.  *)
LEMMA KeyboardStep ==
  ASSUME KeyboardInv, [Ps2Next]_ps2Vars
  PROVE  /\ KeyboardInv'
         /\ losses' = 0 /\ ~unsure' /\ (Len(due') < Len(due) \/ got' # got)
            => due # <<>> /\ got' = Head(due)
<1>1. Len(due) \in Nat
  BY DEF KeyboardInv, KeyboardTypes
<1>2. ASSUME NEW k \in Keys, Press(k)
      PROVE  KeyboardInv' /\ got' = got /\ (losses' = 0 /\ ~unsure' => ~(Len(due') < Len(due)))
  <2>1. due' \in Seq(Character)
    BY <1>2, PressStep DEF KeyboardInv, KeyboardTypes
  <2> QED BY <1>1, <1>2, <2>1, PressStep
<1>3. ASSUME NEW k \in Keys, Release(k)
      PROVE  KeyboardInv' /\ got' = got /\ due' = due
  BY <1>3, ReleaseStep
<1>4. ASSUME NEW missed \in {0, 1, 11}, NEW pause \in BOOLEAN, Frame(missed, pause)
      PROVE  KeyboardInv' /\ (losses' = 0 => got' = got /\ due' = due)
  BY <1>4, FrameStep
<1>5. ASSUME UNCHANGED ps2Vars
      PROVE  KeyboardInv' /\ got' = got /\ due' = due
  <2>1. /\ held' = held /\ toSend' = toSend /\ bitcount' = bitcount /\ ring' = ring
        /\ state' = state /\ losses' = losses /\ stray' = stray /\ shared' = shared
        /\ unsure' = unsure /\ due' = due /\ got' = got
        /\ whole' = whole /\ sure' = sure
    BY <1>5 DEF ps2Vars
  <2>2. KeyboardTypes' /\ Progress'
    BY <2>1 DEF KeyboardInv, KeyboardTypes, Progress, Calm
  <2>3. PICK r, d : /\ Flags(ring, r, state) /\ AtEnd(Finish(r[Len(ring)], toSend))
                    /\ Promised(r, d)
    BY DEF KeyboardInv, Decodes
  <2>4. Flags(ring, r, state)' /\ Promised(r, d)'
    BY <2>1, <2>3 DEF Promised, Calm
  <2>5. AtEnd(Finish(r[Len(ring)], toSend))'
    BY <2>1, <2>3 DEF AtEnd, Exact, FlagIsRight, Down
  <2> QED BY <2>1, <2>2, <2>4, <2>5, Zenon DEF KeyboardInv, Decodes
<1>6. CASE Decode
  BY <1>6, DecodeStep
<1>7. CASE \E k \in Keys : Press(k)
  BY <1>2, <1>7
<1>8. CASE \E k \in Keys : Release(k)
  BY <1>1, <1>3, <1>8
<1>9. CASE \E missed \in {0, 1, 11}, pause \in BOOLEAN : Frame(missed, pause)
  BY <1>1, <1>4, <1>9
<1>10. CASE UNCHANGED ps2Vars
  BY <1>1, <1>5, <1>10
<1> QED BY <1>6, <1>7, <1>8, <1>9, <1>10, Zenon DEF Ps2Next

(* With nothing on the wire and nothing in the ring, the end of the run is *)
(* the decoder's own state.                                                *)
LEMMA AllReadEnd ==
  ASSUME KeyboardInv, AllRead
  PROVE  AtEnd(state) /\ (losses = 0 => due = <<>>)
<1>1. PICK r, d : /\ Flags(ring, r, state) /\ AtEnd(Finish(r[Len(ring)], toSend))
                  /\ Promised(r, d)
  BY DEF KeyboardInv, Decodes
<1>2. ring = <<>> /\ toSend = <<>> /\ Len(ring) = 0
  BY DEF AllRead
<1>3. r[0] = state
  BY <1>1 DEF Flags
<1>4. Finish(r[Len(ring)], toSend) = state /\ ~TypesLast(r[Len(ring)], toSend)
  BY <1>2, <1>3 DEF Finish, TypesLast
<1>5. ASSUME losses = 0  PROVE due = <<>>
  <2>1. CASE Calm
    <3>1. Len(due) = d[Len(ring)] /\ d[0] = 0
      BY <1>1, <1>4, <2>1, Zenon DEF Promised, Tally
    <3> QED BY <1>2, <3>1 DEF KeyboardInv, KeyboardTypes
  <2>2. CASE ~Calm
    BY <2>2 DEF KeyboardInv, Progress
  <2> QED BY <2>1, <2>2
<1> QED BY <1>1, <1>4, <1>5

(* What the decoder will make of the codes in the ring and on the wire is  *)
(* what the keys on the keyboard say (get_iso8859_code).                   *)
THEOREM KeyboardInvariant == Ps2Spec => []KeyboardInv
<1>1. KeyboardInv /\ [Ps2Next]_ps2Vars => KeyboardInv'
  BY KeyboardStep
<1> QED BY KeyboardStart, <1>1, PTL DEF Ps2Spec

(* As long as nothing is lost, what get_iso8859_code delivers is what was  *)
(* pressed, in order, with the shift and Ctrl of that moment.  Nothing is  *)
(* promised around a plain key that follows right Ctrl, nor around one     *)
(* typed when one of two Ctrl keys has come up.                            *)
THEOREM KeysComeAsPressed == Ps2Spec => TypedAsPressed
<1>1. KeyboardInv /\ [Ps2Next]_ps2Vars =>
        [ losses' = 0 /\ ~unsure' /\ (Len(due') < Len(due) \/ got' # got)
          => due # <<>> /\ got' = Head(due) ]_ps2Vars
  BY KeyboardStep
<1> QED BY KeyboardInvariant, <1>1, PTL DEF Ps2Spec, TypedAsPressed

(* Nothing that was pressed is missing once every code is decoded, with    *)
(* the same two exceptions.                                                *)
THEOREM NoKeyIsSwallowed == Ps2Spec => []NothingSwallowed
<1>1. KeyboardInv => NothingSwallowed
  BY AllReadEnd DEF NothingSwallowed
<1> QED BY KeyboardInvariant, <1>1, PTL

(* A modifier stuck by a lost code is put right by the next whole event of *)
(* the key that is not the first after the loss.                           *)
THEOREM ModifiersAreRecovered == Ps2Spec => []ModifiersRecover
<1>1. KeyboardInv => ModifiersRecover
  BY AllReadEnd DEF ModifiersRecover, AtEnd
<1> QED BY KeyboardInvariant, <1>1, PTL
=============================================================================
