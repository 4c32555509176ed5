------------------------------ MODULE MmcDisk ------------------------------
(***************************************************************************)
(* The card driver below Petit FatFs (mmcbbp.c): commands, answers, tokens *)
(* and blocks over SPI, byte by byte, with its counted waits, against a    *)
(* card that may answer late, never, or with an error.  The microcontroller*)
(* can restart at any time while the card stays as it is.                  *)
(***************************************************************************)
EXTENDS Integers, Sequences

CONSTANTS Kinds,     \* of cards: "MMC", "SD1", "SD2", "HC"
          LastSector,
          Size,      \* bytes of a sector
          Cell,      \* values of a byte on the card
          Answers,   \* polls for the response to a command (10)
          Polls,     \* polls for a token, or for the end of a write (900000)
          Tries      \* of the command that ends the idle state (1000)

Sector == 0 .. LastSector
Byte == Cell \cup {"00", "01", "05", "FE", "FF"}

ASSUME CardAssumption ==
  /\ Kinds \subseteq {"MMC", "SD1", "SD2", "HC"}
  /\ LastSector \in Nat /\ Size \in Nat \ {0}
  /\ {Answers, Polls, Tries} \subseteq Nat \ {0}
  /\ "00" \in Cell

VARIABLES
  (* The card: its kind, its contents, whether it is in its idle state,    *)
  (* whether CMD55 was its last command, and what it is doing.             *)
  kind, sectors, idle, app, doing,
  (* The driver.                                                           *)
  CardType,  \* "none", "byte" or "block": how the card is addressed
  pc, cmd, arg, then, res, tmr, tries,
  ty,        \* the type disk_initialize is trying
  ask,       \* the caller's request: sector, offset and count
  buff,      \* what disk_readp has received
  wc, sent,  \* bytes still to come, and those sent, of the block
  (* The caller: what the last call returned.                              *)
  last

cardVars == <<kind, sectors, idle, app, doing>>
initVars == <<CardType, then, tries, ty>>
waitVars == <<cmd, arg, res, tmr>>
dataVars == <<ask, buff, wc, sent>>
vars == <<cardVars, initVars, waitVars, dataVars, pc, last>>

Listening == [st |-> "listen", cmd |-> "none", at |-> 0, blk |-> <<>>]
Doing(st, c, at, blk) == [st |-> st, cmd |-> c, at |-> at, blk |-> blk]

Nowhere == [sector |-> 0, offset |-> 0, count |-> 0]

Init ==
  /\ kind \in Kinds /\ sectors \in [Sector -> [1 .. Size -> Cell]]
  /\ idle = TRUE /\ app = FALSE /\ doing = Listening
  /\ CardType = "none" /\ then = "none" /\ tries = 0 /\ ty = "none"
  /\ cmd = "none" /\ arg = 0 /\ res = "FF" /\ tmr = 0
  /\ ask = Nowhere /\ buff = <<>> /\ wc = 0 /\ sent = <<>>
  /\ pc = "idle" /\ last = "none"

-----------------------------------------------------------------------------
(* The card.  A command reaches it only when it is not programming; chip   *)
(* select going up, as it does before every command, ends all but that.    *)
Deselected == IF doing.st = "busy" THEN doing ELSE Listening

Takes(c, a) ==
  /\ doing' = IF doing.st = "busy" THEN doing ELSE Doing("answer", c, a, <<>>)
  /\ UNCHANGED <<kind, sectors, idle, app>>

Status == IF idle THEN "01" ELSE "00"
BlockAt(a) == IF kind = "HC" THEN a ELSE a \div Size
Valid(a) == BlockAt(a) \in Sector /\ (kind = "HC" \/ a % Size = 0)

(* Its answer to the command it has taken.                                 *)
Answer(b) ==
  LET c == doing.cmd
      a == doing.at
      to(st) == doing' = Doing(st, c, a, <<>>)
      legal == /\ c = "CMD8" => kind \in {"SD2", "HC"}
               /\ c = "CMD55" => kind # "MMC"
               /\ c = "ACMD41" => kind # "MMC" /\ app
               /\ c = "CMD1" => kind = "MMC"
               /\ c \in {"CMD17", "CMD24"} => ~idle /\ Valid(a)
  IN  /\ app' = (c = "CMD55" /\ legal)
      /\ \/ b = "05" /\ doing' = Listening /\ UNCHANGED idle
         \/ c = "CMD0" /\ b = "01" /\ idle' = TRUE /\ doing' = Listening
         \/ /\ legal /\ c \in {"ACMD41", "CMD1"}
            /\ idle' \in {idle, FALSE}
            /\ kind = "HC" /\ a = 0 => idle' = idle
            /\ b = (IF idle' THEN "01" ELSE "00") /\ doing' = Listening
         \/ /\ legal /\ b = Status /\ UNCHANGED idle
            /\ \/ c \in {"CMD8", "CMD58"} /\ to("extra")
               \/ c \in {"CMD55", "CMD16"} /\ doing' = Listening
               \/ c = "CMD17" /\ to("token")
               \/ c = "CMD24" /\ to("await")

(* One byte in, one byte out.                                              *)
Exchange(in, out) ==
  LET stay == out = "FF" /\ UNCHANGED <<idle, app, doing>>
      go(d) == doing' = d /\ UNCHANGED <<idle, app>>
      data == doing.blk
  IN  /\ UNCHANGED <<kind, sectors>>
      /\ \/ doing.st \in {"listen", "answer", "token", "extra"} /\ stay
         \/ doing.st = "busy" /\ out = "00" /\ UNCHANGED <<idle, app, doing>>
         \/ doing.st = "answer" /\ Answer(out)
         \/ doing.st = "token" /\ out = "FE"
            /\ go(Doing("data", "CMD17", doing.at,
                        [i \in 1 .. Size |-> sectors[BlockAt(doing.at)][i]]
                          \o <<"FF", "FF">>))
         \/ doing.st = "token" /\ out = "05" /\ go(Listening)
         \/ doing.st = "data" /\ out = Head(data)
            /\ go(IF Len(data) = 1 THEN Listening ELSE [doing EXCEPT !.blk = Tail(@)])
         \/ doing.st = "await" /\ out = "FF"
            /\ go(IF in = "FE" THEN [doing EXCEPT !.st = "take"] ELSE doing)
         \/ doing.st = "take" /\ out = "FF"
            /\ go([doing EXCEPT !.blk = Append(@, in),
                                !.st = IF Len(data) + 1 = Size + 2 THEN "said" ELSE "take"])
         \/ doing.st = "said" /\ out = "05" /\ go([doing EXCEPT !.st = "busy"])
         \/ doing.st = "said" /\ out = "0B" /\ go(Listening)

(* It has programmed the block.                                            *)
Program ==
  /\ doing.st = "busy" /\ doing' = Listening
  /\ sectors' = [sectors EXCEPT ![BlockAt(doing.at)] = SubSeq(doing.blk, 1, Size)]
  /\ UNCHANGED <<kind, idle, app, initVars, waitVars, dataVars, pc, last>>

-----------------------------------------------------------------------------
(* send_cmd: the packet, and up to ten polls for an answer.                *)
Send(c, a) ==
  /\ pc' = "answer" /\ cmd' = c /\ arg' = a /\ tmr' = Answers
  /\ Takes(c, a)
  /\ UNCHANGED res

(* ACMD<n> is CMD55 and then CMD<n>.                                       *)
SendApp(a) == Send("CMD55", a) /\ then' = "ACMD41"

Poll ==
  /\ pc = "answer"
  /\ \E b \in Byte :
       /\ Exchange("FF", b)
       /\ IF b = "FF" /\ tmr > 1 THEN tmr' = tmr - 1 /\ UNCHANGED <<res, pc>>
          ELSE res' = b /\ pc' = "result" /\ UNCHANGED tmr
  /\ UNCHANGED <<initVars, cmd, arg, dataVars, last>>

Result(c) == pc = "result" /\ cmd = c
Ok == res = "00"
AtMostIdle == res \in {"00", "01"}

(* The locals of a call end with it.                                       *)
NoLocals ==
  /\ cmd' = "none" /\ arg' = 0 /\ res' = "FF" /\ tmr' = 0
  /\ ask' = Nowhere /\ buff' = <<>> /\ wc' = 0 /\ sent' = <<>>
  /\ then' = "none" /\ tries' = 0 /\ ty' = "none"

(* release_spi, and what the call returns.                                 *)
Return(rc) ==
  /\ pc' = "idle" /\ last' = rc
  /\ doing' = Deselected
  /\ NoLocals
  /\ UNCHANGED <<kind, sectors, idle, app>>

-----------------------------------------------------------------------------
(* disk_initialize.  ty is "SD2", "SD1" or "MMC" once it is decided.       *)
disk_initialize ==
  /\ pc = "idle" /\ last # "wip"
  /\ Send("CMD0", 0)
  /\ tries' = Tries /\ ty' = "none" /\ then' = "none"
  /\ UNCHANGED <<CardType, dataVars, last>>

Finish(t) ==
  /\ CardType' = t
  /\ Return(IF t = "none" THEN "NOINIT" ELSE "INIT")

AfterCmd0 ==
  /\ Result("CMD0")
  /\ \/ res = "01" /\ Send("CMD8", 0) /\ UNCHANGED <<initVars, dataVars, last>>
     \/ res # "01" /\ Finish("none")

(* The four bytes behind the answer to CMD8 echo its argument or not; a    *)
(* card that refuses CMD8 is an old one.                                   *)
AfterCmd8 ==
  /\ Result("CMD8")
  /\ \/ /\ res = "01" /\ \E echo \in BOOLEAN :
             IF echo THEN /\ SendApp(1) /\ ty' = "SD2"
                          /\ UNCHANGED <<CardType, tries, dataVars, last>>
             ELSE Finish("none")
     \/ /\ res # "01" /\ SendApp(0)
        /\ UNCHANGED <<CardType, tries, ty, dataVars, last>>

(* CMD55 refused: the answer counts as that of ACMD41.                     *)
AfterCmd55 ==
  /\ Result("CMD55")
  /\ IF AtMostIdle THEN Send("ACMD41", arg) ELSE cmd' = "ACMD41" /\ UNCHANGED <<cardVars, pc, arg, res, tmr>>
  /\ UNCHANGED <<initVars, dataVars, last>>

(* The first answer of an old card tells SD from MMC and is not counted.   *)
Classify ==
  /\ Result("ACMD41") /\ ty = "none"
  /\ \/ AtMostIdle /\ ty' = "SD1" /\ SendApp(0)
     \/ ~AtMostIdle /\ ty' = "MMC" /\ Send("CMD1", 0) /\ UNCHANGED then
  /\ UNCHANGED <<CardType, tries, dataVars, last>>

LeaveIdle ==
  /\ pc = "result" /\ cmd \in {"ACMD41", "CMD1"} /\ ty # "none"
  /\ \/ /\ Ok /\ Send(IF ty = "SD2" THEN "CMD58" ELSE "CMD16", 0)
        /\ UNCHANGED <<initVars, dataVars, last>>
     \/ /\ ~Ok /\ tries > 1 /\ tries' = tries - 1
        /\ IF ty = "MMC" THEN Send("CMD1", 0) /\ UNCHANGED then
           ELSE SendApp(IF ty = "SD2" THEN 1 ELSE 0)
        /\ UNCHANGED <<CardType, ty, dataVars, last>>
     \/ ~Ok /\ tries = 1 /\ Finish("none")

(* What a slip would do: every card of the second version is addressed by  *)
(* blocks.                                                                 *)
AlwaysBlocks(ccs) == "block"
Addressing(ccs) == IF ccs THEN "block" ELSE "byte"

(* The OCR behind the answer has the CCS bit.                              *)
AfterCmd58 ==
  /\ Result("CMD58")
  /\ Finish(IF Ok THEN Addressing(kind = "HC") ELSE "none")

AfterCmd16 == Result("CMD16") /\ Finish(IF Ok THEN "byte" ELSE "none")

-----------------------------------------------------------------------------
Address(sc) == IF CardType = "block" THEN sc ELSE sc * Size

disk_readp ==
  /\ pc = "idle" /\ last # "wip" /\ CardType # "none"
  /\ \E sc \in Sector, o \in 0 .. Size - 1 : \E n \in 1 .. Size - o :
       /\ ask' = [sector |-> sc, offset |-> o, count |-> n]
       /\ Send("CMD17", Address(sc))
  /\ buff' = <<>>
  /\ UNCHANGED <<initVars, wc, sent, last>>

AfterCmd17 ==
  /\ Result("CMD17")
  /\ \/ Ok /\ pc' = "token" /\ tmr' = Polls
        /\ UNCHANGED <<cardVars, initVars, cmd, arg, res, dataVars, last>>
     \/ ~Ok /\ Return("ERROR") /\ UNCHANGED CardType

(* A counted wait for the data token; any other byte ends it too.          *)
Token ==
  /\ pc = "token"
  /\ \E b \in Byte :
       /\ Exchange("FF", b)
       /\ res' = b
       /\ IF b = "FF" /\ tmr > 1 THEN tmr' = tmr - 1 /\ UNCHANGED pc
          ELSE pc' = (IF b = "FE" THEN "data" ELSE "failed") /\ UNCHANGED tmr
  /\ UNCHANGED <<initVars, cmd, arg, dataVars, last>>

Failed == pc = "failed" /\ Return("ERROR") /\ UNCHANGED CardType

(* What a slip would do: the leading bytes are not skipped.                *)
Unskipped(n) == n <= ask.count
Wanted(n) == n > ask.offset /\ n <= ask.offset + ask.count

(* The n-th byte of the sector and its CRC; all of the transfer's bytes    *)
(* are clocked, those asked for are kept.                                  *)
Receive ==
  /\ pc = "data" /\ doing.st = "data"
  /\ LET n == Size + 3 - Len(doing.blk)
     IN  \E b \in Byte :
           /\ Exchange("FF", b)
           /\ buff' = IF Wanted(n) THEN Append(buff, b) ELSE buff
           /\ pc' = IF n = Size + 2 THEN "done" ELSE "data"
  /\ UNCHANGED <<initVars, waitVars, ask, wc, sent, last>>

Done == pc = "done" /\ Return("READ") /\ UNCHANGED CardType

-----------------------------------------------------------------------------
(* disk_writep(0, sector).  Petit FatFs writes only with a file open, and  *)
(* an error closes it: opening one reads the card first.  The sector is    *)
(* one of the data area, never 0.                                          *)
Initiate ==
  /\ pc = "idle" /\ last \in {"READ", "WRITTEN"}
  /\ \E sc \in Sector \ {0} :
       /\ ask' = [sector |-> sc, offset |-> 0, count |-> 0]
       /\ Send("CMD24", Address(sc))
  /\ UNCHANGED <<initVars, buff, wc, sent, last>>

(* What a slip would do: any answer will do.                               *)
AnyAnswer(r) == r # "FF"
Accepted(r) == r = "00"

(* The chip stays selected when the command fails.                         *)
AfterCmd24 ==
  /\ Result("CMD24")
  /\ \/ Accepted(res) /\ pc' = "head" /\ UNCHANGED <<initVars, waitVars, dataVars, last>>
     \/ ~Accepted(res) /\ pc' = "idle" /\ last' = "ERROR" /\ NoLocals /\ UNCHANGED CardType
  /\ UNCHANGED cardVars

Header ==
  /\ pc = "head" /\ Exchange("FE", "FF")
  /\ wc' = Size /\ sent' = <<>> /\ pc' = "idle" /\ last' = "wip"
  /\ UNCHANGED <<initVars, waitVars, ask, buff>>

(* disk_writep(buff, n), a byte at a time.                                 *)
SendByte ==
  /\ pc = "idle" /\ last = "wip" /\ wc > 0
  /\ \E b \in Cell : Exchange(b, "FF") /\ sent' = Append(sent, b)
  /\ wc' = wc - 1
  /\ UNCHANGED <<initVars, waitVars, ask, buff, pc, last>>

(* disk_writep(0, 0): the rest of the block is filled with zeros, the CRC  *)
(* is two more.                                                            *)
Finalize ==
  /\ pc = "idle" /\ last = "wip"
  /\ pc' = "fill" /\ wc' = wc + 2
  /\ UNCHANGED <<cardVars, initVars, waitVars, ask, buff, sent, last>>

Fill ==
  /\ pc = "fill" /\ Exchange("00", "FF")
  /\ wc' = wc - 1 /\ pc' = IF wc = 1 THEN "response" ELSE "fill"
  /\ UNCHANGED <<initVars, waitVars, ask, buff, sent, last>>

Response ==
  /\ pc = "response"
  /\ \E b \in Byte \cup {"0B"} :
       /\ Exchange("FF", b)
       /\ pc' = IF b = "05" THEN "ready" ELSE "failed"
  /\ tmr' = Polls
  /\ UNCHANGED <<initVars, cmd, arg, res, dataVars, last>>

(* What slips would do: the block is taken for stored once it is accepted; *)
(* the wait is not counted.                                                *)
NoWait(b) == IF TRUE THEN "stored" ELSE b
NoCount(b) == IF b = "FF" THEN "stored" ELSE "ready"

(* for (tmr = ...; rcvr_mmc() != 0xFF && tmr; tmr--): in time only if some *)
(* count is left.                                                          *)
Waited(b) == CASE b = "FF" /\ tmr > 0 -> "stored"
               [] b # "FF" /\ tmr > 0 -> "ready"
               [] tmr = 0 -> "failed"

Ready ==
  /\ pc = "ready"
  /\ \E b \in Byte : Exchange("FF", b) /\ pc' = Waited(b)
  /\ tmr' = IF tmr > 0 THEN tmr - 1 ELSE 0
  /\ UNCHANGED <<initVars, cmd, arg, res, dataVars, last>>

Stored == pc = "stored" /\ Return("WRITTEN") /\ UNCHANGED CardType

-----------------------------------------------------------------------------
(* The microcontroller starts anew; the card keeps its power.              *)
Restart ==
  /\ CardType' = "none" /\ NoLocals
  /\ pc' = "idle" /\ last' = "none"
  /\ doing' = Deselected
  /\ UNCHANGED <<kind, sectors, idle, app>>

Driver ==
  \/ Poll \/ AfterCmd0 \/ AfterCmd8 \/ AfterCmd55 \/ Classify \/ LeaveIdle
  \/ AfterCmd58 \/ AfterCmd16 \/ AfterCmd17 \/ Token \/ Failed \/ Receive \/ Done
  \/ AfterCmd24 \/ Header \/ Fill \/ Response \/ Ready \/ Stored

Caller == disk_initialize \/ disk_readp \/ Initiate \/ SendByte \/ Finalize

Next == Driver \/ Caller \/ Program \/ Restart

(* Core 1 goes on with a call it is in.  The card owes it nothing.         *)
FairSpec == Init /\ [][Next]_vars /\ WF_vars(Driver)

-----------------------------------------------------------------------------
(* disk_initialize settles on block addressing exactly for the cards that  *)
(* are addressed so, whatever answers came late or not at all: otherwise   *)
(* every read and write would go to sector * 512.                          *)
TypeFits == CardType # "none" => (CardType = "block" <=> kind = "HC")

(* A call that returns RES_OK has done what it was asked: disk_readp has   *)
(* the bytes of that sector, a finished disk_writep has stored what was    *)
(* sent and zeros behind it, also after calls that failed or ran out of    *)
(* time and left the card busy.                                            *)
OkMeansDone ==
  /\ pc = "done" => buff = SubSeq(sectors[ask.sector], ask.offset + 1, ask.offset + ask.count)
  /\ pc = "stored" => \A i \in 1 .. Size :
       sectors[ask.sector][i] = IF i <= Len(sent) THEN sent[i] ELSE "00"

(* The bytes of a block go to a card that waits for a block; one that does *)
(* not would take them for commands.                                       *)
BlockIsAwaited ==
  /\ pc = "head" => doing.st = "await"
  /\ last = "wip" /\ pc \in {"idle", "fill"} => doing.st = "take"

(* No card, slow or dead, keeps core 1 in a call.                          *)
CallsReturn == pc # "idle" ~> pc = "idle"
=============================================================================
