---------------------------- MODULE ConsoleQueues ----------------------------
(***************************************************************************)
(* The console between the two cores: core 1 prints and reads keys for the *)
(* guest (console_putc, console_read), core 0 runs console_task for ever.  *)
(* Three queues of the SDK join them: ser_screen_queue, term_screen_queue  *)
(* and kb_queue.  A queue operation is one step (the SDK takes its lock);  *)
(* everything between two of them interleaves.                             *)
(*                                                                         *)
(* A printed byte is its position in the output, modulo Wrap; a key is a   *)
(* sequence of 1..MaxKeyLen bytes.  Which printed bytes make the terminal  *)
(* reply, which keys are pressed and what the USB host does is free.       *)
(*                                                                         *)
(* The serial port is USB's (CONSOLE_UART is 0).  It drops what is printed *)
(* while no host is connected, and what finds its transmit buffer full.    *)
(***************************************************************************)
EXTENDS Naturals, Sequences

CONSTANTS
  QueueLen,      \* IO_QUEUE_LEN
  BytesPerTask,  \* TERM_BYTES_PER_TASK
  Wrap,          \* output positions told apart
  MaxKeyLen,     \* bytes of the longest key or reply
  MaxKeys,       \* keys pressed and bytes typed at the USB host, in all
  CdcLen,        \* CFG_TUD_CDC_TX_BUFSIZE
  Serial,        \* CONSOLE_CDC
  Vga            \* CONSOLE_VGA

ASSUME ConsoleAssumption ==
  /\ {QueueLen, BytesPerTask, MaxKeyLen, CdcLen} \subseteq Nat \ {0}
  /\ Wrap \in Nat /\ Wrap > 2 * QueueLen + 2
  /\ MaxKeys \in Nat
  /\ {Serial, Vga} \subseteq BOOLEAN /\ (Serial \/ Vga)

VARIABLES
  ser, term, kb,  \* the queues
  c1,             \* core 1: "run", "ser", "term" (in console_putc), "take"
  c0,             \* core 0: where it is in console_task
  budget,         \* bytes terminal_task may still take
  sending,        \* bytes of the sequence core 0 still has to queue
  back,           \* where core 0 goes on after it
  keys, usb,      \* PS/2 keys and USB bytes waiting
  cdc,            \* the USB port: is a host connected, bytes to transmit
  \* history
  sent,           \* next output position
  shown,          \* next position at the serial port and on the screen
  typed,          \* keys and bytes so far
  reads           \* the host had left Burst bytes of room when this round
                  \* of ser_console_task began

vars == <<ser, term, kb, c1, c0, budget, sending, back, keys, usb, cdc,
          sent, shown, typed, reads>>

Empty(q) == q = <<>>
Free(q) == QueueLen - Len(q)

Init ==
  /\ ser = <<>> /\ term = <<>> /\ kb = <<>>
  /\ c1 = "run" /\ c0 = "tud"
  /\ budget = 0
  /\ sending = 0 /\ back = "tud"
  /\ keys = 0 /\ usb = 0
  /\ cdc = [connected |-> FALSE, fill |-> 0]
  /\ sent = 0
  /\ shown = [serial |-> 0, screen |-> 0]
  /\ typed = 0 /\ reads = FALSE

core0 == <<c0, budget, sending, back, keys, usb, cdc, shown, typed, reads>>

-----------------------------------------------------------------------------
(* Core 1: console_putc adds to both queues and waits at a full one.       *)

Put ==
  /\ c1 = "run"
  /\ c1' = IF Serial THEN "ser" ELSE "term"
  /\ UNCHANGED <<ser, term, kb, sent, core0>>

(* (Plausible slips stand before what they would replace: OverfillSer,     *)
(* DropTerm, PollBlindly, WaitForRoom.)                                    *)
OverfillSer ==
  /\ c1 = "ser" /\ Len(ser) <= QueueLen
  /\ ser' = Append(ser, sent)
  /\ IF Vga THEN c1' = "term" /\ UNCHANGED sent
     ELSE c1' = "run" /\ sent' = (sent + 1) % Wrap
  /\ UNCHANGED <<term, kb, core0>>

AddSer ==
  /\ c1 = "ser" /\ Free(ser) > 0
  /\ ser' = Append(ser, sent)
  /\ IF Vga THEN c1' = "term" /\ UNCHANGED sent
     ELSE c1' = "run" /\ sent' = (sent + 1) % Wrap
  /\ UNCHANGED <<term, kb, core0>>

DropTerm ==
  /\ c1 = "term"
  /\ term' = IF Free(term) > 0 THEN Append(term, sent) ELSE term
  /\ c1' = "run"
  /\ sent' = (sent + 1) % Wrap
  /\ UNCHANGED <<ser, kb, core0>>

AddTerm ==
  /\ c1 = "term" /\ Free(term) > 0
  /\ term' = Append(term, sent)
  /\ c1' = "run"
  /\ sent' = (sent + 1) % Wrap
  /\ UNCHANGED <<ser, kb, core0>>

PollBlindly ==
  /\ c1 = "run"
  /\ c1' = "take"
  /\ UNCHANGED <<ser, term, kb, sent, core0>>

(* console_available, then console_read, which does not look whether there *)
(* was a byte to take.                                                     *)
PollKey ==
  /\ c1 = "run" /\ ~Empty(kb)
  /\ c1' = "take"
  /\ UNCHANGED <<ser, term, kb, sent, core0>>

TakeKey ==
  /\ c1 = "take"
  /\ kb' = IF Empty(kb) THEN kb ELSE Tail(kb)
  /\ c1' = "run"
  /\ UNCHANGED <<ser, term, sent, core0>>

-----------------------------------------------------------------------------
(* Core 0: tud_task; only here does the port learn what the host has taken *)
(* and whether it is there at all.                                         *)

core1 == <<c1, sent>>
port == <<cdc, reads>>

Burst == 2 * QueueLen + 1

UsbTask ==
  /\ c0 = "tud" /\ c0' = "ser"
  /\ \E there \in BOOLEAN, n \in 0..cdc.fill :
       cdc' = IF Serial THEN [connected |-> there, fill |-> n] ELSE cdc
  /\ reads' = (cdc'.connected /\ cdc'.fill + Burst <= CdcLen)
  /\ UNCHANGED <<ser, term, kb, core1, budget, sending, back, keys, usb, shown,
                 typed>>

(* ser_console_task drains its queue, however long that takes.             *)
TestSer ==
  /\ c0 = "ser"
  /\ IF Serial /\ ~Empty(ser) THEN c0' = "remove" /\ UNCHANGED reads
     ELSE c0' = "usb" /\ reads' = FALSE
  /\ UNCHANGED <<ser, term, kb, core1, budget, sending, back, keys, usb, shown,
                 typed, cdc>>

(* tud_cdc_write_char, which nobody asks whether there was room.           *)
Fits == cdc.connected /\ cdc.fill < CdcLen

(* queue_remove_blocking: it would wait on an empty queue.  The byte goes  *)
(* to the host, or nowhere.                                                *)
RemoveSer ==
  /\ c0 = "remove" /\ ~Empty(ser)
  /\ ser' = Tail(ser)
  /\ shown' = [shown EXCEPT !.serial = (Head(ser) + 1) % Wrap]
  /\ cdc' = IF Fits THEN [cdc EXCEPT !.fill = @ + 1] ELSE cdc
  /\ c0' = "ser"
  /\ UNCHANGED <<term, kb, core1, budget, sending, back, keys, usb, typed, reads>>

(* A sequence of n bytes is about to be queued for the guest.              *)
Queue(n, whence) ==
  /\ c0' = "send"
  /\ sending' = n
  /\ back' = whence

(* What the host has sent, as much of it as cdc_buf holds, is read at once *)
(* and queued byte by byte.                                                *)
ReadUsb ==
  /\ c0 = "usb"
  /\ LET n == IF usb > QueueLen THEN QueueLen ELSE usb
     IN  IF cdc.connected /\ usb > 0
         THEN Queue(n, "term") /\ usb' = usb - n
         ELSE c0' = "term" /\ UNCHANGED <<sending, back, usb>>
  /\ UNCHANGED <<ser, term, kb, core1, budget, keys, shown, typed, port>>

WaitForRoom ==
  /\ c0 = "send" /\ sending > 0 /\ Free(kb) > 0
  /\ sending' = sending - 1
  /\ kb' = Append(kb, sending)
  /\ UNCHANGED <<ser, term, core1, c0, budget, back, keys, usb, shown, typed,
                 port>>

(* One byte of send_keys: queue_try_add drops it if the queue is full.     *)
SendByte ==
  /\ c0 = "send" /\ sending > 0
  /\ sending' = sending - 1
  /\ kb' = IF Free(kb) > 0 THEN Append(kb, sending) ELSE kb
  /\ UNCHANGED <<ser, term, core1, c0, budget, back, keys, usb, shown, typed,
                 port>>

Sent ==
  /\ c0 = "send" /\ sending = 0
  /\ c0' = back /\ back' = "tud"
  /\ UNCHANGED <<ser, term, kb, core1, budget, sending, keys, usb, shown, typed,
                 port>>

(* terminal_task: a bounded number of bytes, some of which are answered.   *)
TestTerm ==
  /\ c0 = "term"
  /\ IF Vga /\ ~Empty(term) THEN c0' = "vt" /\ budget' = BytesPerTask
     ELSE c0' = "ps2" /\ UNCHANGED budget
  /\ UNCHANGED <<ser, term, kb, core1, sending, back, keys, usb, shown, typed,
                 port>>

Vt ==
  /\ c0 = "vt" /\ budget > 0 /\ ~Empty(term)
  /\ term' = Tail(term)
  /\ shown' = [shown EXCEPT !.screen = (Head(term) + 1) % Wrap]
  /\ budget' = budget - 1
  /\ \/ UNCHANGED <<c0, sending, back>>
     \/ Queue(MaxKeyLen, "vt")
  /\ UNCHANGED <<ser, kb, core1, keys, usb, typed, port>>

EndVt ==
  /\ c0 = "vt" /\ (budget = 0 \/ Empty(term))
  /\ c0' = "ps2" /\ budget' = 0
  /\ UNCHANGED <<ser, term, kb, core1, sending, back, keys, usb, shown, typed,
                 port>>

(* handlePs2Keyboard: key after key; then console_task is over and begins  *)
(* anew.                                                                   *)
Ps2 ==
  /\ c0 = "ps2"
  /\ IF Vga /\ keys > 0
     THEN /\ \E n \in {1, MaxKeyLen} : Queue(n, "ps2")
          /\ keys' = keys - 1
     ELSE c0' = "tud" /\ UNCHANGED <<sending, back, keys>>
  /\ UNCHANGED <<ser, term, kb, core1, budget, usb, shown, typed, port>>

-----------------------------------------------------------------------------
(* The PS/2 interrupt and the USB host.                                    *)
KeyPressed ==
  /\ Vga /\ typed < MaxKeys
  /\ keys' = keys + 1 /\ typed' = typed + 1
  /\ UNCHANGED <<ser, term, kb, core1, c0, budget, sending, back, usb, shown,
                 port>>

HostTypes ==
  /\ Serial /\ typed < MaxKeys
  /\ usb' = usb + 1 /\ typed' = typed + 1
  /\ UNCHANGED <<ser, term, kb, core1, c0, budget, sending, back, keys, shown,
                 port>>

Core1 == Put \/ AddSer \/ AddTerm \/ PollKey \/ TakeKey
Core0 == UsbTask \/ TestSer \/ RemoveSer \/ ReadUsb \/ SendByte \/ Sent
           \/ TestTerm \/ Vt \/ EndVt \/ Ps2

Next == Core1 \/ Core0 \/ KeyPressed \/ HostTypes

Spec == Init /\ [][Next]_vars

(* Both cores keep running, each at its own speed.  Core 1 is owed the end *)
(* of a console_putc it has begun and not that the guest prints or reads.  *)
FairSpec == Spec /\ WF_vars(Core0) /\ WF_vars(AddSer \/ AddTerm \/ TakeKey)

-----------------------------------------------------------------------------
(* Every variable has its type; no queue is over-full.                     *)
TypeOK ==
  /\ \A q \in {ser, term, kb} : q \in Seq(Nat) /\ Len(q) <= QueueLen
  /\ c1 \in {"run", "ser", "term", "take"}
  /\ {c0, back} \subseteq {"tud", "ser", "remove", "usb", "send", "term", "vt", "ps2"}
  /\ budget \in 0..BytesPerTask
  /\ cdc \in [connected : BOOLEAN, fill : 0..CdcLen] /\ reads \in BOOLEAN
  /\ {sending, keys, usb, typed} \subseteq 0..(MaxKeys + MaxKeyLen)
  /\ {sent, shown.serial, shown.screen} \subseteq 0..(Wrap - 1)

(* Positions from p on, as many as q holds, up to what has been added.     *)
Follows(q, p, end) ==
  /\ \A k \in 1..Len(q) : q[k] = (p + k - 1) % Wrap
  /\ (p + Len(q)) % Wrap = end

(* Screen and serial port each come to every byte the guest prints, once   *)
(* and in order; they differ by what still waits in the queues.  What the  *)
(* port does with it then is the next property's.                          *)
OutputInOrder ==
  /\ Serial => Follows(ser, shown.serial, IF c1 = "term" THEN (sent + 1) % Wrap ELSE sent)
  /\ Vga => Follows(term, shown.screen, sent)

(* The port drops bytes for a host that is not there ("easy to miss if     *)
(* nothing was connected", console.c:142) or that does not read.  It never *)
(* drops one for a host that leaves Burst bytes of room, although the loop *)
(* that fills the buffer has no limit and nothing is transmitted while it  *)
(* runs: core 1, which feeds it, has to wait for term_screen_queue.        *)
ReadingHostMissesNothing ==
  Vga /\ c0 = "remove" /\ reads => Fits

(* A core that has seen a byte in a queue finds it there: core 0 never     *)
(* waits in queue_remove_blocking, and console_read, which returns an      *)
(* unset variable from an empty queue, never meets one.                    *)
SeenIsThere ==
  /\ c0 = "remove" => ~Empty(ser)
  /\ c1 = "take" => ~Empty(kb)

(* A guest that prints gets on, whatever the terminal has to reply: core 0 *)
(* drops what does not fit and never waits for core 1.                     *)
PutReturns == c1 \in {"ser", "term"} ~> c1 = "run"

(* A guest that prints without end starves neither the keyboard nor the    *)
(* USB host: the unbounded loop of ser_console_task ends because core 1    *)
(* has to wait for term_screen_queue, the terminal's loop because it       *)
(* counts ("so a big redraw can't starve the keyboard", terminal.c:17).    *)
EveryTaskRuns == []<>(c0 = "usb") /\ []<>(c0 = "ps2")
=============================================================================
