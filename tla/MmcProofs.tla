----------------------------- MODULE MmcProofs -----------------------------
(***************************************************************************)
(* Proofs about MmcDisk: the addressing that disk_initialize settles on is *)
(* the card's own; a read that succeeds has the bytes of that sector, and  *)
(* a write that succeeds has stored what was sent; no byte of a block goes *)
(* to a card that does not wait for it.  For every number of polls, tries  *)
(* and failures, every sector size and every set of kinds of cards.        *)
(***************************************************************************)
EXTENDS MmcDisk, SequenceTheorems, TLAPS

Spec == Init /\ [][Next]_vars

(* The commands of disk_initialize behind CMD0.                            *)
Later == {"CMD8", "CMD55", "ACMD41", "CMD1", "CMD58", "CMD16"}
Trying == pc \in {"answer", "result"} /\ cmd \in Later

(* What the card does when it was given CMD0, which it may still be too    *)
(* busy to hear.  Only it can answer 01 then.                              *)
Reset ==
  /\ pc = "answer" /\ cmd = "CMD0" =>
       /\ doing.st \in {"listen", "answer", "busy"}
       /\ doing.st = "answer" => doing.cmd = "CMD0"
  /\ pc = "result" /\ cmd = "CMD0" /\ res = "01" => idle /\ doing.st = "listen"

(* From then on it is not busy, and answers the command it was given.      *)
Heard ==
  Trying =>
    /\ doing.st \in {"listen", "answer", "extra"}
    /\ pc = "answer" /\ doing.st = "answer" => doing.cmd = cmd /\ doing.at = arg

(* The path of the driver: what it knows of the card's kind.               *)
Path ==
  /\ pc \in {"answer", "result"} /\ cmd \in {"CMD0", "CMD8"} => ty = "none"
  /\ Trying /\ cmd = "CMD16" => ty # "SD2"

(* A card of high capacity that is not taken for one of the second version *)
(* is never asked to leave its idle state in the way it would heed, so     *)
(* none of the other paths reaches its end.                                *)
Unmoved ==
  Trying /\ kind = "HC" /\ ty # "SD2" =>
    /\ idle
    /\ cmd \in {"CMD8", "CMD55", "ACMD41", "CMD1"}
    /\ cmd \in {"CMD55", "ACMD41", "CMD1"} => arg = 0
    /\ pc = "result" /\ cmd \in {"ACMD41", "CMD1"} => res # "00"

(* TypeFits alone says nothing of the steps before the decision; these do. *)
IInv == tmr \in Nat /\ Reset /\ Heard /\ Path /\ Unmoved /\ TypeFits

-----------------------------------------------------------------------------
LEMMA Start == Init => IInv
  BY DEF Init, IInv, Reset, Heard, Path, Unmoved, TypeFits, Trying, Later, Listening

(* The card's answers.  One that is not programming sends nothing but the  *)
(* answer to its command.                                                  *)
LEMMA Polled ==
  ASSUME NEW b \in Byte, Exchange("FF", b), doing.st \in {"listen", "answer", "extra"}
  PROVE  \/ b = "FF" /\ UNCHANGED <<idle, doing>>
         \/ doing.st = "answer" /\ Answer(b)
  BY DEF Exchange

LEMMA Leads ==
  ASSUME NEW b \in Byte, Answer(b)
  PROVE  \/ doing' = Listening
         \/ doing.cmd \in {"CMD8", "CMD58"} /\ doing' = Doing("extra", doing.cmd, doing.at, <<>>)
         \/ doing.cmd \in {"CMD17", "CMD24"}
  BY DEF Answer

LEMMA ListensThen == Listening.st = "listen"
  BY DEF Listening

LEMMA AnsweredAtAll ==
  ASSUME NEW b \in Byte, Answer(b), doing.cmd \in Later
  PROVE  doing'.st \in {"listen", "extra"}
<1>1. doing.cmd \notin {"CMD17", "CMD24"}  BY DEF Later
<1>2. CASE doing' = Listening  BY <1>2, ListensThen
<1>3. CASE doing' = Doing("extra", doing.cmd, doing.at, <<>>)
  BY <1>3 DEF Doing
<1> QED  BY <1>1, <1>2, <1>3, Leads

(* In its idle state, a card of high capacity stays there unless ACMD41    *)
(* tells it that the host knows such cards.                                *)
LEMMA StaysIdle ==
  ASSUME NEW b \in Byte, Answer(b), kind = "HC", idle,
         doing.cmd \in {"CMD8", "CMD55", "ACMD41", "CMD1"},
         doing.cmd # "CMD8" => doing.at = 0
  PROVE  /\ idle'
         /\ doing.cmd \in {"ACMD41", "CMD1"} => b # "00"
  BY DEF Answer

LEMMA ResetAnswer ==
  ASSUME NEW b \in Byte, Exchange("FF", b), doing.st \in {"listen", "answer", "busy"},
         doing.st = "answer" => doing.cmd = "CMD0"
  PROVE  /\ doing'.st \in {"listen", "answer", "busy"}
         /\ doing'.st = "answer" => doing'.cmd = "CMD0"
         /\ b = "01" => idle' /\ doing'.st = "listen"
<1>1. CASE doing.st = "answer"
  <2>1. \/ b = "FF" /\ UNCHANGED <<idle, doing>>
        \/ Answer(b)
    BY <1>1, Polled
  <2>2. CASE b = "FF" /\ UNCHANGED <<idle, doing>>  BY <2>2
  <2>3. CASE Answer(b)
    <3>1. doing' = Listening  BY <1>1, <2>3, Leads
    <3>2. b = "01" => idle'  BY <1>1, <2>3 DEF Answer
    <3> QED  BY <3>1, <3>2, ListensThen
  <2> QED  BY <2>1, <2>2, <2>3
<1>2. CASE doing.st # "answer"
  BY <1>2 DEF Exchange
<1> QED  BY <1>1, <1>2

(* Away from disk_initialize nothing is known and nothing asked.           *)
LEMMA Elsewhere ==
  ASSUME IInv, pc' \notin {"answer", "result"}, tmr' \in Nat,
         UNCHANGED kind, CardType' \in {CardType, "none"}
  PROVE  IInv'
  BY DEF IInv, Reset, Heard, Path, Unmoved, TypeFits, Trying

LEMMA NotAnInit ==
  ASSUME IInv, cmd' \in {"CMD17", "CMD24"}, tmr' \in Nat, UNCHANGED <<kind, CardType>>
  PROVE  IInv'
  BY DEF IInv, Reset, Heard, Path, Unmoved, TypeFits, Trying, Later

(* What a call leaves when it has decided the addressing.                  *)
LEMMA Finished ==
  ASSUME IInv, NEW t, Finish(t), t # "none" => (t = "block" <=> kind = "HC")
  PROVE  IInv'
  BY DEF Finish, Return, NoLocals, IInv, Reset, Heard, Path, Unmoved, TypeFits, Trying

(* A command of disk_initialize reaches a card that is not programming.    *)
LEMMA Sent ==
  ASSUME NEW c \in Later, NEW a, Send(c, a), IInv, UNCHANGED CardType,
         doing.st # "busy",
         c = "CMD8" => ty' = "none",
         c = "CMD16" => ty' # "SD2",
         kind = "HC" /\ ty' # "SD2" =>
           idle /\ c \in {"CMD8", "CMD55", "ACMD41", "CMD1"} /\ (c # "CMD8" => a = 0)
  PROVE  IInv'
<1>1. /\ pc' = "answer" /\ cmd' = c /\ arg' = a /\ UNCHANGED <<idle, kind>>
      /\ doing'.st = "answer" /\ doing'.cmd = c /\ doing'.at = a
  BY DEF Send, Takes, Doing
<1>2. tmr' \in Nat  BY CardAssumption DEF Send
<1>3. Reset'  BY <1>1 DEF Reset, Later
<1>4. Heard'  BY <1>1 DEF Heard, Trying
<1>5. Path'  BY <1>1 DEF Path, Trying, Later
<1>6. Unmoved'  BY <1>1 DEF Unmoved, Trying
<1>7. TypeFits'  BY <1>1 DEF IInv, TypeFits
<1> QED  BY <1>2, <1>3, <1>4, <1>5, <1>6, <1>7 DEF IInv

-----------------------------------------------------------------------------
(* The steps.                                                              *)
LEMMA PollStep == IInv /\ Poll => IInv'
<1> SUFFICES ASSUME IInv, Poll  PROVE IInv'
  OBVIOUS
<1>1. PICK b \in Byte :
        /\ Exchange("FF", b)
        /\ IF b = "FF" /\ tmr > 1 THEN tmr' = tmr - 1 /\ UNCHANGED <<res, pc>>
           ELSE res' = b /\ pc' = "result" /\ UNCHANGED tmr
  BY DEF Poll
<1>2. /\ UNCHANGED <<kind, CardType, ty, cmd, arg>> /\ pc = "answer"
      /\ pc' \in {"answer", "result"} /\ tmr' \in Nat
      /\ pc' = "result" => res' = b
  BY <1>1 DEF Poll, IInv, Exchange, initVars
<1>3. TypeFits'  BY <1>2 DEF IInv, TypeFits
<1>4. Reset'
  <2>1. CASE cmd = "CMD0"  BY <2>1, <1>1, <1>2, ResetAnswer DEF IInv, Reset
  <2>2. CASE cmd # "CMD0"  BY <2>2, <1>2 DEF Reset
  <2> QED  BY <2>1, <2>2
<1>5. CASE cmd \notin Later
  BY <1>2, <1>3, <1>4, <1>5 DEF IInv, Heard, Path, Unmoved, Trying
<1>6. CASE cmd \in Later
  <2>1. doing.st \in {"listen", "answer", "extra"} /\ (doing.st = "answer" => doing.cmd = cmd /\ doing.at = arg)
    BY <1>2, <1>6 DEF IInv, Heard, Trying
  <2>2. \/ b = "FF" /\ UNCHANGED <<idle, doing>>
        \/ doing.st = "answer" /\ Answer(b)
    BY <1>1, <2>1, Polled
  <2>3. Heard'
    <3>1. CASE b = "FF" /\ UNCHANGED <<idle, doing>>
      BY <3>1, <1>2, <2>1 DEF Heard, Trying
    <3>2. CASE doing.st = "answer" /\ Answer(b)
      BY <3>2, <1>6, <2>1, AnsweredAtAll DEF Heard
    <3> QED  BY <2>2, <3>1, <3>2
  <2>4. Path'  BY <1>2 DEF IInv, Path, Trying
  <2>5. Unmoved'
    <3> SUFFICES ASSUME kind = "HC", ty # "SD2"  PROVE Unmoved'
      BY <1>2 DEF Unmoved
    <3>1. /\ idle /\ cmd \in {"CMD8", "CMD55", "ACMD41", "CMD1"}
          /\ cmd # "CMD8" => arg = 0
      BY <1>2, <1>6 DEF IInv, Unmoved, Trying
    <3>2. idle' /\ (cmd \in {"ACMD41", "CMD1"} => b # "00")
      <4>1. CASE b = "FF" /\ UNCHANGED <<idle, doing>>  BY <4>1, <3>1
      <4>2. CASE doing.st = "answer" /\ Answer(b)
        BY <4>2, <2>1, <3>1, StaysIdle
      <4> QED  BY <2>2, <4>1, <4>2
    <3> QED  BY <1>2, <3>1, <3>2 DEF Unmoved
  <2> QED  BY <1>2, <1>3, <1>4, <2>3, <2>4, <2>5 DEF IInv
<1> QED  BY <1>5, <1>6

LEMMA InitializeStep == IInv /\ disk_initialize => IInv'
<1> SUFFICES ASSUME IInv, disk_initialize  PROVE IInv'
  OBVIOUS
<1>1. /\ pc' = "answer" /\ cmd' = "CMD0" /\ UNCHANGED <<kind, CardType>>
      /\ doing'.st \in {"answer", "busy"} /\ ty' = "none"
      /\ doing'.st = "answer" => doing'.cmd = "CMD0"
  BY DEF disk_initialize, Send, Takes, Doing
<1>2. tmr' \in Nat  BY CardAssumption DEF disk_initialize, Send
<1> QED
  BY <1>1, <1>2 DEF IInv, Reset, Heard, Path, Unmoved, TypeFits, Trying, Later

LEMMA AfterCmd0Step == IInv /\ AfterCmd0 => IInv'
<1> SUFFICES ASSUME IInv, AfterCmd0  PROVE IInv'
  OBVIOUS
<1>1. CASE res # "01" /\ Finish("none")  BY <1>1, Finished
<1>2. CASE res = "01" /\ Send("CMD8", 0) /\ UNCHANGED initVars
  <2>1. idle /\ doing.st = "listen"  BY <1>2 DEF AfterCmd0, Result, IInv, Reset
  <2>2. "CMD8" \in Later  BY DEF Later
  <2>3. ty' = "none" /\ UNCHANGED CardType
    BY <1>2 DEF AfterCmd0, Result, IInv, Path, initVars
  <2> QED  BY <1>2, <2>1, <2>2, <2>3, Sent
<1> QED  BY <1>1, <1>2 DEF AfterCmd0

LEMMA AfterCmd8Step == IInv /\ AfterCmd8 => IInv'
<1> SUFFICES ASSUME IInv, AfterCmd8  PROVE IInv'
  OBVIOUS
<1>1. Trying /\ doing.st # "busy" /\ ty = "none" /\ "CMD55" \in Later
  BY DEF AfterCmd8, Result, IInv, Heard, Path, Trying, Later
<1>2. CASE Finish("none")  BY <1>2, Finished
<1>3. CASE SendApp(1) /\ ty' = "SD2" /\ UNCHANGED CardType
  BY <1>1, <1>3, Sent DEF SendApp
<1>4. CASE SendApp(0) /\ UNCHANGED <<CardType, ty>>
  <2>1. kind = "HC" => idle
    BY <1>1 DEF IInv, Unmoved
  <2> QED  BY <1>1, <1>4, <2>1, Sent DEF SendApp
<1> QED  BY <1>2, <1>3, <1>4 DEF AfterCmd8

LEMMA AfterCmd55Step == IInv /\ AfterCmd55 => IInv'
<1> SUFFICES ASSUME IInv, AfterCmd55  PROVE IInv'
  OBVIOUS
<1>1. /\ Trying /\ doing.st # "busy" /\ "ACMD41" \in Later
      /\ kind = "HC" /\ ty # "SD2" => idle /\ arg = 0
      /\ UNCHANGED <<CardType, ty>>
  BY DEF AfterCmd55, Result, IInv, Heard, Unmoved, Trying, Later, initVars
<1>2. CASE Send("ACMD41", arg)
  BY <1>1, <1>2, Sent
<1>3. CASE ~AtMostIdle /\ cmd' = "ACMD41" /\ UNCHANGED <<cardVars, pc, arg, res, tmr>>
  <2>1. pc = "result"  BY DEF AfterCmd55, Result
  <2> QED
    BY <1>1, <1>3, <2>1
    DEF AtMostIdle, cardVars, IInv, Reset, Heard, Path, Unmoved, TypeFits, Trying
<1> QED  BY <1>2, <1>3 DEF AfterCmd55

LEMMA ClassifyStep == IInv /\ Classify => IInv'
<1> SUFFICES ASSUME IInv, Classify  PROVE IInv'
  OBVIOUS
<1>1. /\ Trying /\ doing.st # "busy" /\ {"CMD55", "CMD1"} \subseteq Later
      /\ kind = "HC" => idle
      /\ UNCHANGED CardType
  BY DEF Classify, Result, IInv, Heard, Unmoved, Trying, Later
<1>2. CASE ty' = "SD1" /\ SendApp(0)
  BY <1>1, <1>2, Sent DEF SendApp
<1>3. CASE ty' = "MMC" /\ Send("CMD1", 0)
  BY <1>1, <1>3, Sent
<1> QED  BY <1>2, <1>3 DEF Classify

LEMMA LeaveIdleStep == IInv /\ LeaveIdle => IInv'
<1> SUFFICES ASSUME IInv, LeaveIdle  PROVE IInv'
  OBVIOUS
<1>1. /\ Trying /\ pc = "result" /\ doing.st # "busy"
      /\ {"CMD55", "CMD1", "CMD58", "CMD16"} \subseteq Later
      /\ kind = "HC" /\ ty # "SD2" => idle /\ ~Ok
  BY DEF LeaveIdle, IInv, Heard, Unmoved, Trying, Later, Ok
<1>2. CASE Ok /\ Send(IF ty = "SD2" THEN "CMD58" ELSE "CMD16", 0) /\ UNCHANGED initVars
  <2>1. UNCHANGED <<CardType, ty>>  BY <1>2 DEF initVars
  <2>2. CASE ty = "SD2"  BY <1>1, <1>2, <2>1, <2>2, Sent
  <2>3. CASE ty # "SD2"  BY <1>1, <1>2, <2>1, <2>3, Sent
  <2> QED  BY <2>2, <2>3
<1>3. CASE Finish("none")  BY <1>3, Finished
<1>4. CASE Send("CMD1", 0) /\ UNCHANGED <<CardType, ty>>
  BY <1>1, <1>4, Sent
<1>5. CASE SendApp(IF ty = "SD2" THEN 1 ELSE 0) /\ UNCHANGED <<CardType, ty>>
  <2>1. CASE ty = "SD2"  BY <1>1, <1>5, <2>1, Sent DEF SendApp
  <2>2. CASE ty # "SD2"  BY <1>1, <1>5, <2>2, Sent DEF SendApp
  <2> QED  BY <2>1, <2>2
<1> QED  BY <1>2, <1>3, <1>4, <1>5 DEF LeaveIdle

(* The two ends that decide the addressing.                                *)
LEMMA DecideStep == IInv /\ (AfterCmd58 \/ AfterCmd16) => IInv'
<1> SUFFICES ASSUME IInv, AfterCmd58 \/ AfterCmd16  PROVE IInv'
  OBVIOUS
<1>1. CASE AfterCmd58
  <2> DEFINE t == IF Ok THEN Addressing(kind = "HC") ELSE "none"
  <2>1. t # "none" => (t = "block" <=> kind = "HC")  BY DEF Addressing
  <2> QED  BY <1>1, <2>1, Finished DEF AfterCmd58
<1>2. CASE AfterCmd16
  <2>1. kind # "HC"
    BY <1>2 DEF AfterCmd16, Result, IInv, Path, Unmoved, Trying, Later
  <2> DEFINE t == IF Ok THEN "byte" ELSE "none"
  <2>2. t # "none" => (t = "block" <=> kind = "HC")  BY <2>1
  <2> QED  BY <1>2, <2>2, Finished DEF AfterCmd16
<1> QED  BY <1>1, <1>2

-----------------------------------------------------------------------------
(* Reading and writing blocks touch neither CardType nor what is known of  *)
(* the card's kind.                                                        *)
LEMMA ReadStep ==
  IInv /\ (disk_readp \/ AfterCmd17 \/ Token \/ Failed \/ Receive \/ Done) => IInv'
<1> SUFFICES ASSUME IInv, disk_readp \/ AfterCmd17 \/ Token \/ Failed \/ Receive \/ Done
    PROVE IInv'
  OBVIOUS
<1>1. {Polls, Answers} \subseteq Nat /\ tmr \in Nat  BY CardAssumption DEF IInv
<1>2. CASE disk_readp
  BY <1>1, <1>2, NotAnInit DEF disk_readp, Send, Takes, initVars
<1>3. CASE AfterCmd17
  <2>1. CASE Ok /\ pc' = "token" /\ tmr' = Polls /\ UNCHANGED <<cardVars, initVars>>
    BY <1>1, <2>1, Elsewhere DEF cardVars, initVars
  <2>2. CASE Return("ERROR") /\ UNCHANGED CardType
    BY <2>2, Elsewhere DEF Return, NoLocals
  <2> QED  BY <1>3, <2>1, <2>2 DEF AfterCmd17
<1>4. CASE Token
  BY <1>1, <1>4, Elsewhere DEF Token, Exchange, initVars
<1>5. CASE Failed \/ Done
  BY <1>5, Elsewhere DEF Failed, Done, Return, NoLocals
<1>6. CASE Receive
  BY <1>1, <1>6, Elsewhere DEF Receive, Exchange, initVars, waitVars
<1> QED  BY <1>2, <1>3, <1>4, <1>5, <1>6

LEMMA WriteStep ==
  IInv /\ (Initiate \/ AfterCmd24 \/ Header \/ SendByte \/ Finalize \/ Fill
             \/ Response \/ Ready \/ Stored) => IInv'
<1> SUFFICES ASSUME IInv, Initiate \/ AfterCmd24 \/ Header \/ SendByte \/ Finalize \/ Fill
                            \/ Response \/ Ready \/ Stored
    PROVE IInv'
  OBVIOUS
<1>1. {Polls, Answers} \subseteq Nat /\ tmr \in Nat  BY CardAssumption DEF IInv
<1>2. CASE Initiate
  BY <1>1, <1>2, NotAnInit DEF Initiate, Send, Takes, initVars
<1>3. CASE AfterCmd24
  BY <1>1, <1>3, Elsewhere DEF AfterCmd24, cardVars, initVars, waitVars, NoLocals
<1>4. CASE Header
  BY <1>1, <1>4, Elsewhere DEF Header, Exchange, initVars, waitVars
<1>5. CASE SendByte
  BY <1>1, <1>5, Elsewhere DEF SendByte, Exchange, initVars, waitVars
<1>6. CASE Finalize
  BY <1>1, <1>6, Elsewhere DEF Finalize, cardVars, initVars, waitVars
<1>7. CASE Fill
  BY <1>1, <1>7, Elsewhere DEF Fill, Exchange, initVars, waitVars
<1>8. CASE Response
  BY <1>1, <1>8, Elsewhere DEF Response, Exchange, initVars
<1>9. CASE Ready
  <2>1. PICK b \in Byte : Exchange("FF", b) /\ pc' = Waited(b)  BY <1>9 DEF Ready
  <2>2. Waited(b) \in {"stored", "ready", "failed"}  BY <1>1 DEF Waited
  <2>3. tmr' \in Nat /\ UNCHANGED CardType  BY <1>1, <1>9 DEF Ready, initVars
  <2>4. UNCHANGED kind  BY <2>1 DEF Exchange
  <2> QED  BY <2>1, <2>2, <2>3, <2>4, Elsewhere
<1>10. CASE Stored
  BY <1>10, Elsewhere DEF Stored, Return, NoLocals
<1> QED  BY <1>2, <1>3, <1>4, <1>5, <1>6, <1>7, <1>8, <1>9, <1>10

(* The end of a block's programming, which may fall into a later call.     *)
LEMMA ProgramStep == IInv /\ Program => IInv'
<1> SUFFICES ASSUME IInv, Program  PROVE IInv'
  OBVIOUS
<1>1. doing.st = "busy" /\ doing' = Listening
      /\ UNCHANGED <<kind, idle, CardType, ty, pc, cmd, arg, res, tmr>>
  BY DEF Program, initVars, waitVars
<1> QED
  BY <1>1, ListensThen DEF IInv, Reset, Heard, Path, Unmoved, TypeFits, Trying, Later

LEMMA RestartStep == IInv /\ Restart => IInv'
  BY Elsewhere DEF Restart, NoLocals

LEMMA Step == IInv /\ [Next]_vars => IInv'
<1> SUFFICES ASSUME IInv, [Next]_vars  PROVE IInv'
  OBVIOUS
<1>1. CASE UNCHANGED vars
  BY <1>1 DEF vars, cardVars, initVars, waitVars, dataVars,
              IInv, Reset, Heard, Path, Unmoved, TypeFits, Trying
<1>2. CASE Driver
  BY <1>2, PollStep, AfterCmd0Step, AfterCmd8Step, AfterCmd55Step, ClassifyStep,
     LeaveIdleStep, DecideStep, ReadStep, WriteStep DEF Driver
<1>3. CASE Caller
  BY <1>3, InitializeStep, ReadStep, WriteStep DEF Caller
<1> QED  BY <1>1, <1>2, <1>3, ProgramStep, RestartStep DEF Next

(* Whatever a card answers to disk_initialize, and however late, the type  *)
(* that stays in CardType addresses it as it is addressed: block numbers   *)
(* for high capacity, bytes for all others.                                *)
THEOREM AddressingFits == Spec => []TypeFits
<1>1. IInv => TypeFits  BY DEF IInv
<1> QED  BY Start, Step, <1>1, PTL DEF Spec
-----------------------------------------------------------------------------
(* The transfers.  What disk_readp and disk_writep are about is within the *)
(* card and one sector, and the card has been initialized.                 *)
Asked ==
  /\ CardType # "none"
  /\ ask \in [sector : Sector, offset : 0 .. Size, count : 0 .. Size]
  /\ ask.offset + ask.count <= Size

(* The card is at the sector of the call.                                  *)
Here == BlockAt(doing.at) = ask.sector

(* A card that programs has been given a whole block and a place for it.   *)
Busy ==
  doing.st = "busy" =>
    /\ BlockAt(doing.at) \in Sector
    /\ doing.blk \in Seq(Cell) /\ Len(doing.blk) = Size + 2

Card ==
  /\ sectors \in [Sector -> [1 .. Size -> Cell]]
  /\ doing = Doing(doing.st, doing.cmd, doing.at, doing.blk)
  /\ Busy

(* While the driver polls for an answer, the card owes none but that, and  *)
(* a block it still programs comes from an earlier call.                   *)
Awaiting ==
  pc = "answer" =>
    /\ doing.st \in {"busy", "listen", "answer"}
    /\ doing.st = "answer" => doing.cmd = cmd /\ doing.at = arg

(* A token, when it comes, announces the sector of the call; a busy card   *)
(* may have answered in CMD17's place, but has no token.                   *)
Announced ==
  /\ doing.st \in {"token", "busy", "listen"}
  /\ doing.st = "token" => Here

(* Of m bytes of the sector those asked for are in the buffer.             *)
Received(m) ==
  /\ buff \in Seq(Byte)
  /\ Len(buff) = IF m <= ask.offset THEN 0
                 ELSE IF m <= ask.offset + ask.count THEN m - ask.offset ELSE ask.count
  /\ \A j \in 1 .. Len(buff) : buff[j] = sectors[ask.sector][ask.offset + j]

Left == Len(doing.blk)

Reading ==
  /\ pc \in {"answer", "result"} /\ cmd = "CMD17" =>
       /\ Asked /\ buff = <<>>
       /\ pc = "answer" => BlockAt(arg) = ask.sector
       /\ pc = "result" /\ res = "00" => Announced
  /\ pc = "token" => Asked /\ buff = <<>> /\ Announced
  /\ pc = "data" =>
       /\ Asked /\ doing.st = "data"
       /\ doing.blk \in Seq(Byte) /\ Left \in 1 .. Size + 2
       /\ \A j \in 1 .. Left : (Size + 2 - Left) + j <= Size =>
            doing.blk[j] = sectors[ask.sector][(Size + 2 - Left) + j]
       /\ Received(Size + 2 - Left)
  /\ pc = "done" => Asked /\ doing.st = "listen" /\ Received(Size + 2)

(* Of the block n bytes have gone out: what the caller sent, then zeros.   *)
Given(n) ==
  /\ Asked /\ Here
  /\ doing.blk \in Seq(Cell) /\ Left = n
  /\ sent \in Seq(Cell) /\ Len(sent) <= Size /\ Len(sent) <= n
  /\ \A i \in 1 .. n : doing.blk[i] = IF i <= Len(sent) THEN sent[i] ELSE "00"

OnCard ==
  /\ Asked /\ sent \in Seq(Cell)
  /\ \A i \in 1 .. Size :
       sectors[ask.sector][i] = IF i <= Len(sent) THEN sent[i] ELSE "00"

(* Only a caller whose last call went well writes, so no card is busy with *)
(* an earlier block when it does.                                          *)
Writing ==
  /\ last \in {"READ", "WRITTEN", "wip"} => CardType # "none"
  /\ pc = "idle" /\ last \in {"READ", "WRITTEN"} => doing.st # "busy"
  /\ pc \in {"answer", "result"} /\ cmd = "CMD24" =>
       /\ Asked
       /\ pc = "answer" => doing.st # "busy" /\ BlockAt(arg) = ask.sector
       /\ pc = "result" /\ res = "00" => doing.st = "await" /\ doing.blk = <<>> /\ Here
  /\ pc = "head" => Asked /\ doing.st = "await" /\ doing.blk = <<>> /\ Here
  /\ pc = "idle" /\ last = "wip" =>
       /\ doing.st = "take" /\ wc \in 0 .. Size
       /\ Given(Size - wc) /\ Len(sent) = Size - wc
  /\ pc = "fill" => doing.st = "take" /\ wc \in 1 .. Size + 2 /\ Given(Size + 2 - wc)
  /\ pc = "response" => doing.st = "said" /\ Given(Size + 2)
  /\ pc = "ready" => \/ doing.st = "busy" /\ Given(Size + 2)
                     \/ doing.st = "listen" /\ OnCard
  /\ pc = "stored" => doing.st = "listen" /\ OnCard

TInv == Card /\ Awaiting /\ Reading /\ Writing

-----------------------------------------------------------------------------
(* Quotients, for the addresses of a card that counts bytes.               *)
LEMMA Quotient ==
  ASSUME NEW q \in Nat, NEW b \in Nat \ {0}
  PROVE  (q * b) \div b = q
  OBVIOUS

(* An address sent is that of the sector asked for.                        *)
LEMMA AddressIsOf ==
  ASSUME IInv, CardType # "none", NEW sc \in Sector
  PROVE  BlockAt(Address(sc)) = sc
<1>1. sc \in Nat /\ Size \in Nat \ {0}  BY CardAssumption DEF Sector
<1>2. CardType = "block" <=> kind = "HC"  BY DEF IInv, TypeFits
<1>3. (sc * Size) \div Size = sc  BY <1>1, Quotient
<1> QED  BY <1>2, <1>3 DEF BlockAt, Address

LEMMA Shape ==
  ASSUME NEW s, NEW c, NEW a, NEW b
  PROVE  /\ Doing(s, c, a, b).st = s /\ Doing(s, c, a, b).cmd = c
         /\ Doing(s, c, a, b).at = a /\ Doing(s, c, a, b).blk = b
  BY DEF Doing

LEMMA ListeningShape == Listening = Doing("listen", "none", 0, <<>>)
  BY DEF Listening, Doing

-----------------------------------------------------------------------------
(* What leaves the card in order.                                          *)
LEMMA CardDoes ==
  ASSUME Card, UNCHANGED <<kind, sectors>>,
         NEW s, NEW c, NEW a, NEW b, doing' = Doing(s, c, a, b), s # "busy"
  PROVE  Card'
  BY Shape DEF Card, Busy

LEMMA CardStays ==
  ASSUME Card, UNCHANGED <<kind, sectors, doing>>
  PROVE  Card'
  BY DEF Card, Busy, BlockAt

LEMMA CardTakes ==
  ASSUME Card, NEW c, NEW a, Takes(c, a)
  PROVE  /\ Card' /\ UNCHANGED <<kind, sectors>>
         /\ doing.st # "busy" => doing'.st = "answer"
         /\ doing'.st \in {"busy", "answer"}
         /\ doing'.st = "answer" => doing'.cmd = c /\ doing'.at = a
<1>1. CASE doing.st = "busy"
  BY <1>1, CardStays DEF Takes
<1>2. CASE doing.st # "busy"
  <2>1. doing' = Doing("answer", c, a, <<>>) /\ UNCHANGED <<kind, sectors>>
    BY <1>2 DEF Takes
  <2> QED  BY <1>2, <2>1, CardDoes, Shape
<1> QED  BY <1>1, <1>2

LEMMA CardDeselected ==
  ASSUME Card, UNCHANGED <<kind, sectors>>, doing' = Deselected
  PROVE  Card' /\ (doing.st # "busy" => doing'.st = "listen")
<1>1. CASE doing.st = "busy"
  BY <1>1, CardStays DEF Deselected
<1>2. CASE doing.st # "busy"
  BY <1>2, ListeningShape, CardDoes, Shape DEF Deselected
<1> QED  BY <1>1, <1>2

(* Steps away from a read, and away from a write, owe their part nothing.  *)
LEMMA NotReading ==
  ASSUME pc' \notin {"token", "data", "done"},
         pc' \in {"answer", "result"} => cmd' # "CMD17"
  PROVE  Reading'
  BY DEF Reading

LEMMA NotWriting ==
  ASSUME pc' \notin {"head", "fill", "response", "ready", "stored"},
         pc' \in {"answer", "result"} => cmd' # "CMD24",
         pc' = "idle" => last' \notin {"READ", "WRITTEN", "wip"},
         last' \in {"READ", "WRITTEN", "wip"} => CardType' # "none"
  PROVE  Writing'
  BY DEF Writing

LEMMA NotPolling == ASSUME pc' # "answer" PROVE Awaiting'
  BY DEF Awaiting

(* A call ends without a result.                                           *)
LEMMA Ended ==
  ASSUME TInv, NEW rc, rc \notin {"READ", "WRITTEN", "wip"}, Return(rc)
  PROVE  TInv'
<1>1. /\ pc' = "idle" /\ last' = rc /\ doing' = Deselected
      /\ UNCHANGED <<kind, sectors>>
  BY DEF Return
<1>2. Card'  BY <1>1, CardDeselected DEF TInv
<1> QED  BY <1>1, <1>2, NotReading, NotWriting, NotPolling DEF TInv

(* A command that moves no block.                                          *)
LEMMA Ordered ==
  ASSUME TInv, NEW c, c \notin {"CMD17", "CMD24"}, NEW a, Send(c, a),
         UNCHANGED <<CardType, last>>
  PROVE  TInv'
<1>1. pc' = "answer" /\ cmd' = c /\ arg' = a /\ Takes(c, a)
  BY DEF Send
<1>2. /\ Card' /\ doing'.st \in {"busy", "answer"}
      /\ doing'.st = "answer" => doing'.cmd = c /\ doing'.at = a
  BY <1>1, CardTakes DEF TInv
<1>3. Awaiting'  BY <1>1, <1>2 DEF Awaiting
<1>4. last' \in {"READ", "WRITTEN", "wip"} => CardType' # "none"
  BY DEF TInv, Writing
<1> QED  BY <1>1, <1>2, <1>3, <1>4, NotReading, NotWriting DEF TInv

LEMMA TransferStart == Init => TInv
<1> SUFFICES ASSUME Init PROVE TInv
  OBVIOUS
<1>1. /\ pc = "idle" /\ last = "none" /\ doing = Listening
      /\ sectors \in [Sector -> [1 .. Size -> Cell]]
  BY DEF Init
<1>2. Card
  BY <1>1, ListeningShape, Shape DEF Card, Busy
<1> QED
  BY <1>1, <1>2 DEF TInv, Awaiting, Reading, Writing

(* disk_initialize and its commands leave the blocks alone.                *)
LEMMA InitializeTransfers ==
  TInv /\ (disk_initialize \/ AfterCmd0 \/ AfterCmd8 \/ AfterCmd55 \/ Classify \/ LeaveIdle
             \/ AfterCmd58 \/ AfterCmd16) => TInv'
<1> SUFFICES ASSUME TInv, disk_initialize \/ AfterCmd0 \/ AfterCmd8 \/ AfterCmd55 \/ Classify
                            \/ LeaveIdle \/ AfterCmd58 \/ AfterCmd16
    PROVE TInv'
  OBVIOUS
<1>1. ASSUME NEW t, Finish(t) PROVE TInv'
  BY <1>1, Ended DEF Finish
<1>2. CASE disk_initialize
  BY <1>2, Ordered DEF disk_initialize
<1>3. CASE AfterCmd0
  BY <1>1, <1>3, Ordered DEF AfterCmd0, initVars
<1>4. CASE AfterCmd8
  BY <1>1, <1>4, Ordered DEF AfterCmd8, SendApp
<1>5. CASE AfterCmd55
  <2>1. CASE Send("ACMD41", arg) /\ UNCHANGED <<initVars, last>>
    BY <2>1, Ordered DEF initVars
  <2>2. CASE cmd' = "ACMD41" /\ UNCHANGED <<cardVars, pc, arg, res, tmr, initVars, dataVars, last>>
    <3>1. pc = "result" /\ pc' = "result" /\ UNCHANGED <<kind, sectors, doing, last, CardType>>
      BY <1>5, <2>2 DEF AfterCmd55, Result, cardVars, initVars
    <3>2. Card'  BY <3>1, CardStays DEF TInv
    <3>3. last' \in {"READ", "WRITTEN", "wip"} => CardType' # "none"
      BY <3>1 DEF TInv, Writing
    <3> QED  BY <2>2, <3>1, <3>2, <3>3, NotReading, NotWriting, NotPolling DEF TInv
  <2> QED  BY <1>5, <2>1, <2>2 DEF AfterCmd55
<1>6. CASE Classify
  BY <1>6, Ordered DEF Classify, SendApp
<1>7. CASE LeaveIdle
  <2>1. CASE Ok /\ Send(IF ty = "SD2" THEN "CMD58" ELSE "CMD16", 0) /\ UNCHANGED <<initVars, last>>
    <3>1. UNCHANGED <<CardType, last>>  BY <2>1 DEF initVars
    <3>2. CASE ty = "SD2"  BY <2>1, <3>1, <3>2, Ordered
    <3>3. CASE ty # "SD2"  BY <2>1, <3>1, <3>3, Ordered
    <3> QED  BY <3>2, <3>3
  <2>2. CASE Send("CMD1", 0) /\ UNCHANGED <<CardType, last>>
    BY <2>2, Ordered
  <2>3. CASE SendApp(IF ty = "SD2" THEN 1 ELSE 0) /\ UNCHANGED <<CardType, last>>
    BY <2>3, Ordered DEF SendApp
  <2>4. CASE Finish("none")  BY <1>1, <2>4
  <2> QED  BY <1>7, <2>1, <2>2, <2>3, <2>4 DEF LeaveIdle
<1>8. CASE AfterCmd58 \/ AfterCmd16
  BY <1>1, <1>8 DEF AfterCmd58, AfterCmd16
<1> QED  BY <1>2, <1>3, <1>4, <1>5, <1>6, <1>7, <1>8

(* Between two calls, and across them: a call fails, the controller        *)
(* restarts, a block begun earlier is stored.                              *)
LEMMA FailedTransfer == TInv /\ (Failed \/ Restart) => TInv'
<1>1. TInv /\ Failed => TInv'
  BY Ended DEF Failed
<1>2. TInv /\ Restart => TInv'
  <2> SUFFICES ASSUME TInv, Restart PROVE TInv'
    OBVIOUS
  <2>1. pc' = "idle" /\ last' = "none" /\ doing' = Deselected /\ UNCHANGED <<kind, sectors>>
    BY DEF Restart
  <2>2. Card'  BY <2>1, CardDeselected DEF TInv
  <2> QED  BY <2>1, <2>2, NotReading, NotWriting, NotPolling DEF TInv
<1> QED  BY <1>1, <1>2

LEMMA StutterTransfer == TInv /\ UNCHANGED vars => TInv'
  BY DEF vars, cardVars, initVars, waitVars, dataVars, TInv, Card, Busy, Awaiting, Reading,
         Writing, Announced, Received, Given, OnCard, Left, Here, Asked, BlockAt

-----------------------------------------------------------------------------
(* What a card that was given a command, or is busy, answers to a poll.    *)
LEMMA AnswerTo ==
  ASSUME NEW b \in Byte, Answer(b), Card, UNCHANGED <<kind, sectors>>
  PROVE  /\ Card' /\ doing'.st # "busy"
         /\ b = "00" /\ doing.cmd = "CMD17" =>
              doing'.st = "token" /\ doing'.at = doing.at
         /\ b = "00" /\ doing.cmd = "CMD24" =>
              doing'.st = "await" /\ doing'.at = doing.at /\ doing'.blk = <<>>
<1>1. CASE doing' = Listening /\ ~(b = "00" /\ doing.cmd \in {"CMD17", "CMD24"})
  BY <1>1, ListeningShape, Shape, CardDoes
<1>2. CASE \E s \in {"extra", "token", "await"} :
             /\ doing' = Doing(s, doing.cmd, doing.at, <<>>)
             /\ doing.cmd = "CMD17" => s = "token"
             /\ doing.cmd = "CMD24" => s = "await"
  BY <1>2, Shape, CardDoes
<1> QED  BY <1>1, <1>2 DEF Answer

LEMMA AnswerByte == ASSUME NEW b, Answer(b) PROVE b # "FF"
  BY DEF Answer, Status

LEMMA PolledTransfer ==
  ASSUME Card, Awaiting, pc = "answer", NEW b \in Byte, Exchange("FF", b)
  PROVE  /\ UNCHANGED <<kind, sectors>>
         /\ \/ b = "FF" /\ doing' = doing /\ doing.st # "busy"
            \/ doing.st = "busy" /\ b = "00" /\ doing' = doing
            \/ doing.st = "answer" /\ Answer(b)
  BY DEF Awaiting, Exchange

LEMMA PollTransfer == TInv /\ Poll => TInv'
<1> SUFFICES ASSUME TInv, Poll  PROVE TInv'
  OBVIOUS
<1>1. PICK b \in Byte :
        /\ Exchange("FF", b)
        /\ IF b = "FF" /\ tmr > 1 THEN tmr' = tmr - 1 /\ UNCHANGED <<res, pc>>
           ELSE res' = b /\ pc' = "result" /\ UNCHANGED tmr
  BY DEF Poll
<1>2. /\ pc = "answer" /\ pc' \in {"answer", "result"} /\ UNCHANGED <<kind, sectors>>
      /\ UNCHANGED <<CardType, cmd, arg, ask, buff, last>>
  BY <1>1 DEF Poll, Exchange, initVars, dataVars
<1>3. \/ b = "FF" /\ doing' = doing /\ doing.st # "busy"
      \/ doing.st = "busy" /\ b = "00" /\ doing' = doing
      \/ doing.st = "answer" /\ Answer(b)
  BY <1>1, <1>2, PolledTransfer DEF TInv
<1>4. Card'
  BY <1>2, <1>3, CardStays, AnswerTo DEF TInv
<1>5. pc' = "answer" => b = "FF" /\ doing' = doing
  BY <1>1, <1>2, <1>3, AnswerByte
<1>6. pc' = "result" => res' = b
  BY <1>1, <1>2
<1>7. Awaiting'
  BY <1>2, <1>5 DEF TInv, Awaiting
<1>8. Reading'
  <2>1. CASE cmd # "CMD17"
    BY <2>1, <1>2, NotReading
  <2>2. CASE cmd = "CMD17"
    <3>1. Asked /\ buff = <<>> /\ BlockAt(arg) = ask.sector
      BY <2>2, <1>2 DEF TInv, Reading
    <3>2. Asked' /\ buff' = <<>> /\ BlockAt(arg)' = ask.sector'
      BY <3>1, <1>2 DEF Asked, BlockAt
    <3>3. pc' = "result" /\ res' = "00" => Announced'
      <4> SUFFICES ASSUME pc' = "result", b = "00"  PROVE Announced'
        BY <1>6
      <4>1. CASE doing.st = "busy" /\ doing' = doing
        BY <4>1 DEF Announced
      <4>2. CASE doing.st = "answer" /\ Answer(b)
        <5>1. doing'.st = "token" /\ doing'.at = arg
          BY <4>2, <2>2, <1>2, AnswerTo DEF TInv, Awaiting
        <5> QED  BY <5>1, <3>1, <1>2 DEF Announced, Here, BlockAt
      <4> QED  BY <1>3, <4>1, <4>2
    <3> QED  BY <1>2, <3>2, <3>3 DEF Reading
  <2> QED  BY <2>1, <2>2
<1>9. Writing'
  <2>0. last' \in {"READ", "WRITTEN", "wip"} => CardType' # "none"
    BY <1>2 DEF TInv, Writing
  <2>1. CASE cmd # "CMD24"
    BY <2>0, <2>1, <1>2, NotWriting
  <2>2. CASE cmd = "CMD24"
    <3>1. Asked /\ doing.st # "busy" /\ BlockAt(arg) = ask.sector
      BY <2>2, <1>2 DEF TInv, Writing
    <3>2. Asked' /\ BlockAt(arg)' = ask.sector'
      BY <3>1, <1>2 DEF Asked, BlockAt
    <3>3. pc' = "answer" => doing'.st # "busy"
      BY <3>1, <1>5
    <3>4. pc' = "result" /\ res' = "00" => doing'.st = "await" /\ doing'.blk = <<>> /\ Here'
      <4> SUFFICES ASSUME pc' = "result", b = "00"
                   PROVE  doing'.st = "await" /\ doing'.blk = <<>> /\ Here'
        BY <1>6
      <4>1. doing.st = "answer" /\ Answer(b) /\ doing.cmd = "CMD24" /\ doing.at = arg
        BY <3>1, <2>2, <1>2, <1>3 DEF TInv, Awaiting
      <4>2. doing'.st = "await" /\ doing'.blk = <<>> /\ doing'.at = arg
        BY <4>1, <1>2, AnswerTo DEF TInv
      <4> QED  BY <4>2, <3>1, <1>2 DEF Here, BlockAt
    <3> QED  BY <2>0, <1>2, <3>2, <3>3, <3>4 DEF Writing
  <2> QED  BY <2>1, <2>2
<1> QED  BY <1>4, <1>7, <1>8, <1>9 DEF TInv

-----------------------------------------------------------------------------
(* Reading a block.                                                        *)
LEMMA ReadpTransfer == IInv /\ TInv /\ disk_readp => TInv'
<1> SUFFICES ASSUME IInv, TInv, disk_readp  PROVE TInv'
  OBVIOUS
<1>1. PICK sc \in Sector, o \in 0 .. Size - 1 : \E n \in 1 .. Size - o :
        /\ ask' = [sector |-> sc, offset |-> o, count |-> n]
        /\ Send("CMD17", Address(sc))
  BY DEF disk_readp
<1>2. PICK n \in 1 .. Size - o : /\ ask' = [sector |-> sc, offset |-> o, count |-> n]
                                 /\ Send("CMD17", Address(sc))
  BY <1>1
<1>3. /\ pc' = "answer" /\ cmd' = "CMD17" /\ arg' = Address(sc) /\ Takes("CMD17", Address(sc))
      /\ buff' = <<>> /\ CardType # "none" /\ UNCHANGED <<CardType, last>>
  BY <1>2 DEF disk_readp, Send, initVars
<1>4. /\ Card' /\ UNCHANGED kind /\ doing'.st \in {"busy", "answer"}
      /\ doing'.st = "answer" => doing'.cmd = "CMD17" /\ doing'.at = Address(sc)
  BY <1>3, CardTakes DEF TInv
<1>5. Awaiting'  BY <1>3, <1>4 DEF Awaiting
<1>6. Asked'
  BY <1>2, <1>3, CardAssumption DEF Asked
<1>7. BlockAt(arg)' = ask'.sector
  <2>1. BlockAt(Address(sc)) = sc  BY <1>3, AddressIsOf
  <2> QED  BY <2>1, <1>2, <1>3, <1>4 DEF BlockAt
<1>8. Reading'  BY <1>3, <1>6, <1>7 DEF Reading
<1>9. Writing'  BY <1>3, NotWriting
<1> QED  BY <1>4, <1>5, <1>8, <1>9 DEF TInv

LEMMA AfterCmd17Transfer == TInv /\ AfterCmd17 => TInv'
<1> SUFFICES ASSUME TInv, AfterCmd17  PROVE TInv'
  OBVIOUS
<1>1. CASE Ok /\ pc' = "token" /\ UNCHANGED <<cardVars, initVars, dataVars, last>>
  <2>1. Asked /\ buff = <<>> /\ Announced
    BY <1>1 DEF AfterCmd17, Result, Ok, TInv, Reading
  <2>2. UNCHANGED <<kind, sectors, doing, CardType, ask, buff, last>>
    BY <1>1 DEF cardVars, initVars, dataVars
  <2>3. Card'  BY <2>2, CardStays DEF TInv
  <2>4. Asked' /\ buff' = <<>> /\ Announced'
    BY <2>1, <2>2 DEF Asked, Announced, Here, BlockAt
  <2>5. Reading'  BY <1>1, <2>4 DEF Reading
  <2>6. Writing'
    <3>1. last' \in {"READ", "WRITTEN", "wip"} => CardType' # "none"
      BY <2>2 DEF TInv, Writing
    <3> QED  BY <1>1, <3>1, NotWriting
  <2> QED  BY <1>1, <2>3, <2>5, <2>6, NotPolling DEF TInv
<1>2. CASE Return("ERROR")  BY <1>2, Ended
<1> QED  BY <1>1, <1>2 DEF AfterCmd17

(* The block the card sends once it has announced it.                      *)
LEMMA Payload ==
  ASSUME Card, NEW sc \in Sector, NEW blk,
         blk = [i \in 1 .. Size |-> sectors[sc][i]] \o <<"FF", "FF">>
  PROVE  /\ blk \in Seq(Byte) /\ Len(blk) = Size + 2
         /\ \A j \in 1 .. Size : blk[j] = sectors[sc][j]
<1>1. Size \in Nat \ {0}  BY CardAssumption
<1> DEFINE s == [i \in 1 .. Size |-> sectors[sc][i]]
           t == <<"FF", "FF">>
<1>2. s \in Seq(Byte) /\ Len(s) = Size /\ \A j \in 1 .. Size : s[j] = sectors[sc][j]
  BY <1>1 DEF Card, Byte
<1>3. t \in Seq(Byte) /\ Len(t) = 2
  BY DEF Byte
<1> HIDE DEF s, t
<1>4. s \o t \in Seq(Byte) /\ Len(s \o t) = Size + 2
      /\ \A j \in 1 .. Size : (s \o t)[j] = s[j]
  <2>1. /\ s \o t \in Seq(Byte) /\ Len(s \o t) = Len(s) + Len(t)
        /\ \A i \in 1 .. Len(s) + Len(t) :
             (s \o t)[i] = IF i <= Len(s) THEN s[i] ELSE t[i - Len(s)]
    BY <1>2, <1>3, ConcatProperties
  <2>2. \A j \in 1 .. Size : j \in 1 .. Size + 2 /\ j <= Size
    BY <1>1
  <2> QED  BY <2>1, <2>2, <1>2, <1>3
<1> QED  BY <1>2, <1>4 DEF s, t

LEMMA TokenExchange ==
  ASSUME Card, Asked, Announced, NEW b \in Byte, Exchange("FF", b)
  PROVE  /\ UNCHANGED <<kind, sectors>> /\ Card'
         /\ b = "FF" => doing' = doing
         /\ b = "FE" => /\ doing'.st = "data" /\ doing'.blk \in Seq(Byte)
                        /\ Len(doing'.blk) = Size + 2
                        /\ \A j \in 1 .. Size : doing'.blk[j] = sectors[ask.sector][j]
<1>1. UNCHANGED <<kind, sectors>>  BY DEF Exchange
<1>2. CASE doing' = doing /\ b # "FE"
  BY <1>1, <1>2, CardStays
<1>3. CASE doing' = Listening /\ b = "05"
  BY <1>1, <1>3, ListeningShape, CardDoes
<1>4. CASE /\ doing.st = "token" /\ b = "FE"
           /\ doing' = Doing("data", "CMD17", doing.at,
                        [i \in 1 .. Size |-> sectors[BlockAt(doing.at)][i]] \o <<"FF", "FF">>)
  <2>1. BlockAt(doing.at) = ask.sector /\ ask.sector \in Sector
    BY <1>4 DEF Announced, Here, Asked
  <2>2. PICK blk : blk = [i \in 1 .. Size |-> sectors[ask.sector][i]] \o <<"FF", "FF">>
    OBVIOUS
  <2>3. doing' = Doing("data", "CMD17", doing.at, blk)
    BY <1>4, <2>1, <2>2, Zenon
  <2>4. /\ blk \in Seq(Byte) /\ Len(blk) = Size + 2
        /\ \A j \in 1 .. Size : blk[j] = sectors[ask.sector][j]
    BY <2>1, <2>2, Payload
  <2>5. Card'  BY <1>1, <2>3, CardDoes
  <2>6. doing'.st = "data" /\ doing'.blk = blk  BY <2>3, Shape
  <2> QED  BY <1>1, <1>4, <2>4, <2>5, <2>6
<1> QED  BY <1>2, <1>3, <1>4 DEF Exchange, Announced

LEMMA TokenTransfer == TInv /\ Token => TInv'
<1> SUFFICES ASSUME TInv, Token  PROVE TInv'
  OBVIOUS
<1>1. PICK b \in Byte :
        /\ Exchange("FF", b)
        /\ IF b = "FF" /\ tmr > 1 THEN tmr' = tmr - 1 /\ UNCHANGED pc
           ELSE pc' = (IF b = "FE" THEN "data" ELSE "failed") /\ UNCHANGED tmr
  BY DEF Token
<1>2. /\ pc = "token" /\ Asked /\ buff = <<>> /\ Announced /\ Card
      /\ UNCHANGED <<CardType, ask, buff, last>>
  BY DEF Token, TInv, Reading, initVars, dataVars
<1>3. /\ UNCHANGED <<kind, sectors>> /\ Card'
      /\ b = "FF" => doing' = doing
      /\ b = "FE" => /\ doing'.st = "data" /\ doing'.blk \in Seq(Byte)
                     /\ Len(doing'.blk) = Size + 2
                     /\ \A j \in 1 .. Size : doing'.blk[j] = sectors[ask.sector][j]
  BY <1>1, <1>2, TokenExchange
<1>4. \/ b = "FF" /\ pc' = "token"
      \/ b = "FE" /\ pc' = "data"
      \/ pc' = "failed"
  BY <1>1, <1>2
<1>5. Asked'  BY <1>2 DEF Asked
<1>6. ASSUME b = "FF", pc' = "token"  PROVE Reading'
  <2>1. Announced'  BY <1>2, <1>3, <1>6 DEF Announced, Here, BlockAt
  <2> QED  BY <1>2, <1>5, <1>6, <2>1 DEF Reading, TInv
<1>7. ASSUME b = "FE", pc' = "data"  PROVE Reading'
  <2> DEFINE n == Size + 2
  <2>1. Size \in Nat \ {0} /\ Size + 2 - (Size + 2) = 0 /\ \A j \in Nat : 0 + j = j
    BY CardAssumption
  <2>2. Left' = Size + 2 /\ Left' \in 1 .. Size + 2
    BY <1>3, <1>7, <2>1 DEF Left
  <2>3. Received(0)'
    BY <1>2, <1>5 DEF Received, Asked
  <2>4. Received(Size + 2 - Left)'
    BY <2>1, <2>2, <2>3
  <2>5. \A j \in 1 .. Left' : (Size + 2 - Left') + j <= Size =>
            doing'.blk[j] = sectors'[ask'.sector][(Size + 2 - Left') + j]
    <3> SUFFICES ASSUME NEW j \in 1 .. Size + 2, 0 + j <= Size
                 PROVE  doing'.blk[j] = sectors[ask.sector][0 + j]
      BY <1>2, <1>3, <2>1, <2>2
    <3>1. j \in 1 .. Size /\ 0 + j = j  BY <2>1
    <3> QED  BY <3>1, <1>3, <1>7
  <2> QED  BY <1>3, <1>5, <1>7, <2>2, <2>4, <2>5 DEF Reading
<1>8. Reading'
  BY <1>4, <1>6, <1>7, NotReading
<1>9. Writing'
  <2>1. last' \in {"READ", "WRITTEN", "wip"} => CardType' # "none"
    BY <1>2 DEF TInv, Writing
  <2> QED  BY <1>4, <2>1, NotWriting
<1> QED  BY <1>3, <1>4, <1>8, <1>9, NotPolling DEF TInv

(* A byte of the block the card sends.                                     *)
LEMMA DataExchange ==
  ASSUME Card, NEW blk \in Seq(Byte), blk = doing.blk, Len(blk) >= 1, doing.st = "data",
         NEW b \in Byte, Exchange("FF", b)
  PROVE  /\ UNCHANGED <<kind, sectors>> /\ Card' /\ b = blk[1]
         /\ Len(blk) = 1 => doing'.st = "listen"
         /\ Len(blk) # 1 => /\ doing'.st = "data" /\ doing'.blk \in Seq(Byte)
                            /\ Len(doing'.blk) = Len(blk) - 1
                            /\ \A j \in 1 .. Len(blk) - 1 : doing'.blk[j] = blk[j + 1]
<1>1. UNCHANGED <<kind, sectors>>  BY DEF Exchange
<1>2. /\ b = Head(blk)
      /\ doing' = IF Len(blk) = 1 THEN Listening ELSE [doing EXCEPT !.blk = Tail(blk)]
  BY DEF Exchange
<1>3. blk # <<>>  BY EmptySeq
<1>4. Head(blk) = blk[1]  BY <1>3
<1>5. CASE Len(blk) = 1
  <2>1. doing' = Listening  BY <1>2, <1>5
  <2> QED  BY <1>1, <1>2, <1>4, <1>5, <2>1, ListeningShape, Shape, CardDoes
<1>6. CASE Len(blk) # 1
  <2>1. PICK c, a : doing = Doing("data", c, a, blk)  BY DEF Card
  <2>2. PICK t : t = Tail(blk)  OBVIOUS
  <2>3. /\ t \in Seq(Byte) /\ Len(t) = Len(blk) - 1
        /\ \A j \in 1 .. Len(blk) - 1 : t[j] = blk[j + 1]
    BY <1>3, <2>2, HeadTailProperties
  <2>4. doing' = [doing EXCEPT !.blk = t]  BY <1>2, <1>6, <2>2
  <2>5. doing' = Doing("data", c, a, t)  BY <2>1, <2>4 DEF Doing
  <2>6. Card'  BY <1>1, <2>5, CardDoes
  <2> QED  BY <1>1, <1>2, <1>4, <1>6, <2>3, <2>5, <2>6, Shape
<1> QED  BY <1>5, <1>6

(* With the next byte of the sector, one more has been received.           *)
LEMMA OneMore ==
  ASSUME Asked, NEW m \in 0 .. Size + 1, Received(m), NEW b \in Byte,
         m + 1 <= Size => b = sectors[ask.sector][m + 1],
         buff' = IF Wanted(m + 1) THEN Append(buff, b) ELSE buff,
         UNCHANGED <<sectors, ask>>
  PROVE  Received(m + 1)'
<1> PICK o \in 0 .. Size, n \in 0 .. Size : o = ask.offset /\ n = ask.count /\ o + n <= Size
  BY DEF Asked
<1>1. Size \in Nat \ {0} /\ m \in Nat  BY CardAssumption
<1>2. /\ buff \in Seq(Byte)
      /\ Len(buff) = IF m <= o THEN 0 ELSE IF m <= o + n THEN m - o ELSE n
      /\ \A j \in 1 .. Len(buff) : buff[j] = sectors[ask.sector][o + j]
  BY DEF Received
<1>3. SUFFICES /\ buff' \in Seq(Byte)
               /\ Len(buff') = IF m + 1 <= o THEN 0
                               ELSE IF m + 1 <= o + n THEN (m + 1) - o ELSE n
               /\ \A j \in 1 .. Len(buff') : buff'[j] = sectors[ask.sector][o + j]
  BY DEF Received
<1>4. CASE ~Wanted(m + 1)
  <2>1. buff' = buff  BY <1>4
  <2>2. m + 1 <= o \/ ~(m + 1 <= o + n)  BY <1>1, <1>4 DEF Wanted
  <2> QED  BY <1>1, <1>2, <2>1, <2>2
<1>5. CASE Wanted(m + 1)
  <2>1. m >= o /\ m + 1 <= o + n /\ m + 1 <= Size  BY <1>1, <1>5 DEF Wanted
  <2>2. Len(buff) = m - o /\ Len(buff) \in Nat /\ o + ((m - o) + 1) = m + 1
    BY <1>1, <1>2, <2>1
  <2>3. buff' = Append(buff, b)  BY <1>5
  <2>4. /\ buff' \in Seq(Byte) /\ Len(buff') = Len(buff) + 1
        /\ \A j \in 1 .. Len(buff) : buff'[j] = buff[j]
        /\ buff'[Len(buff) + 1] = b
    <3>1. buff \in Seq(Byte)  BY <1>2
    <3>2. /\ Append(buff, b) \in Seq(Byte) /\ Len(Append(buff, b)) = Len(buff) + 1
          /\ \A j \in 1 .. Len(buff) : Append(buff, b)[j] = buff[j]
          /\ Append(buff, b)[Len(buff) + 1] = b
      BY <3>1, AppendProperties
    <3> QED  BY <3>2, <2>3, Zenon
  <2>5. Len(buff') = (m + 1) - o  BY <1>1, <2>2, <2>4
  <2>6. ASSUME NEW j \in 1 .. Len(buff')  PROVE buff'[j] = sectors[ask.sector][o + j]
    <3>1. CASE j \in 1 .. Len(buff)  BY <3>1, <1>2, <2>4
    <3>2. CASE j = Len(buff) + 1  BY <3>2, <2>1, <2>2, <2>4
    <3>3. j \in 1 .. Len(buff) \/ j = Len(buff) + 1
      <4> PICK k \in Nat : k = Len(buff)  BY <2>2
      <4>1. j \in 1 .. k + 1  BY <2>4
      <4> QED  BY <4>1
    <3> QED  BY <3>1, <3>2, <3>3
  <2> QED  BY <1>1, <2>1, <2>4, <2>5, <2>6
<1> QED  BY <1>4, <1>5

LEMMA ReceiveTransfer == TInv /\ Receive => TInv'
<1> SUFFICES ASSUME TInv, Receive  PROVE TInv'
  OBVIOUS
<1>1. /\ pc = "data" /\ Asked /\ Card /\ doing.st = "data"
      /\ doing.blk \in Seq(Byte) /\ Left \in 1 .. Size + 2
      /\ \A j \in 1 .. Left : (Size + 2 - Left) + j <= Size =>
            doing.blk[j] = sectors[ask.sector][(Size + 2 - Left) + j]
      /\ Received(Size + 2 - Left)
      /\ UNCHANGED <<CardType, ask, last>>
  BY DEF Receive, TInv, Reading, initVars
<1>2. PICK L \in 1 .. Size + 2, m \in 0 .. Size + 1 : L = Left /\ m = Size + 2 - Left
  BY <1>1, CardAssumption
<1>3. /\ Size \in Nat \ {0} /\ L \in Nat /\ m \in Nat /\ m + L = Size + 2
      /\ Size + 3 - L = m + 1 /\ m + 1 \in Nat
  BY <1>2, CardAssumption
<1>4. PICK b \in Byte :
        /\ Exchange("FF", b)
        /\ buff' = IF Wanted(m + 1) THEN Append(buff, b) ELSE buff
        /\ pc' = IF m + 1 = Size + 2 THEN "done" ELSE "data"
  <2>1. Size + 3 - Len(doing.blk) = m + 1  BY <1>2, <1>3 DEF Left
  <2> QED  BY <2>1, Zenon DEF Receive
<1>5. PICK blk \in Seq(Byte) : blk = doing.blk /\ Len(blk) = L
  BY <1>1, <1>2 DEF Left
<1>6. /\ UNCHANGED <<kind, sectors>> /\ Card' /\ b = blk[1]
      /\ Len(blk) = 1 => doing'.st = "listen"
      /\ Len(blk) # 1 => /\ doing'.st = "data" /\ doing'.blk \in Seq(Byte)
                         /\ Len(doing'.blk) = Len(blk) - 1
                         /\ \A j \in 1 .. Len(blk) - 1 : doing'.blk[j] = blk[j + 1]
  <2>1. Len(blk) >= 1  BY <1>3, <1>5
  <2> QED  BY <2>1, <1>1, <1>4, <1>5, DataExchange
<1>7. Received(m + 1)'
  <2>1. Received(m)  BY <1>1, <1>2
  <2>2. m + 1 <= Size => b = sectors[ask.sector][m + 1]
    <3>1. 1 \in 1 .. L  BY <1>3
    <3>2. m + 1 <= Size => blk[1] = sectors[ask.sector][m + 1]
      BY <3>1, <1>1, <1>2, <1>5
    <3> QED  BY <3>2, <1>6
  <2> QED  BY <2>1, <2>2, <1>1, <1>4, <1>6, OneMore
<1>8. Asked'  BY <1>1 DEF Asked
<1>9. Reading'
  <2>1. CASE L = 1
    <3>1. m + 1 = Size + 2 /\ pc' = "done"  BY <2>1, <1>3, <1>4
    <3>2. doing'.st = "listen"  BY <2>1, <1>5, <1>6
    <3>3. Received(Size + 2)'  BY <3>1, <1>7
    <3> QED  BY <3>1, <3>2, <3>3, <1>8 DEF Reading
  <2>2. CASE L # 1
    <3>1. m + 1 # Size + 2 /\ pc' = "data"  BY <2>2, <1>3, <1>4
    <3>2. /\ doing'.st = "data" /\ doing'.blk \in Seq(Byte) /\ Left' = L - 1
          /\ \A j \in 1 .. L - 1 : doing'.blk[j] = blk[j + 1]
      BY <2>2, <1>5, <1>6 DEF Left
    <3>3. L - 1 \in 1 .. Size + 2 /\ Size + 2 - (L - 1) = m + 1
      BY <2>2, <1>3
    <3>4. \A j \in 1 .. L - 1 : (m + 1) + j <= Size =>
            doing'.blk[j] = sectors'[ask'.sector][(m + 1) + j]
      <4> SUFFICES ASSUME NEW j \in 1 .. L - 1, (m + 1) + j <= Size
                   PROVE  blk[j + 1] = sectors[ask.sector][(m + 1) + j]
        BY <3>2, <1>1, <1>6
      <4>1. j + 1 \in 1 .. L /\ m + (j + 1) = (m + 1) + j  BY <1>3
      <4>2. blk[j + 1] = sectors[ask.sector][m + (j + 1)]
        BY <4>1, <1>1, <1>2, <1>5
      <4> QED  BY <4>1, <4>2
    <3>5. Size + 2 - Left' = m + 1 /\ Left' \in 1 .. Size + 2  BY <3>2, <3>3
    <3>6. Received(Size + 2 - Left)'  BY <3>5, <1>7
    <3>7. \A j \in 1 .. Left' : (Size + 2 - Left') + j <= Size =>
            doing'.blk[j] = sectors'[ask'.sector][(Size + 2 - Left') + j]
      BY <3>2, <3>4, <3>5
    <3> QED  BY <3>1, <3>2, <3>5, <3>6, <3>7, <1>8 DEF Reading
  <2> QED  BY <2>1, <2>2
<1>10. pc' \in {"done", "data"}  BY <1>4
<1>11. Writing'
  <2>1. last' \in {"READ", "WRITTEN", "wip"} => CardType' # "none"
    BY <1>1 DEF TInv, Writing
  <2> QED  BY <1>10, <2>1, NotWriting
<1> QED  BY <1>6, <1>9, <1>10, <1>11, NotPolling DEF TInv

LEMMA DoneTransfer == IInv /\ TInv /\ Done => TInv'
<1> SUFFICES ASSUME TInv, Done  PROVE TInv'
  OBVIOUS
<1>1. /\ pc' = "idle" /\ last' = "READ" /\ doing' = Deselected /\ doing.st # "busy"
      /\ CardType # "none" /\ UNCHANGED <<kind, sectors, CardType>>
  BY DEF Done, Return, TInv, Reading, Asked
<1>2. Card' /\ doing'.st # "busy"  BY <1>1, CardDeselected DEF TInv
<1> QED
  BY <1>1, <1>2, NotReading, NotPolling DEF TInv, Writing

-----------------------------------------------------------------------------
(* Writing a block.                                                        *)
LEMMA InitiateTransfer == IInv /\ TInv /\ Initiate => TInv'
<1> SUFFICES ASSUME IInv, TInv, Initiate  PROVE TInv'
  OBVIOUS
<1>1. PICK sc \in Sector \ {0} :
        /\ ask' = [sector |-> sc, offset |-> 0, count |-> 0]
        /\ Send("CMD24", Address(sc))
  BY DEF Initiate
<1>2. /\ pc = "idle" /\ last \in {"READ", "WRITTEN"}
      /\ pc' = "answer" /\ cmd' = "CMD24" /\ arg' = Address(sc) /\ Takes("CMD24", Address(sc))
      /\ UNCHANGED <<CardType, last>>
  BY <1>1 DEF Initiate, Send, initVars
<1>3. doing.st # "busy" /\ CardType # "none"  BY <1>2 DEF TInv, Writing
<1>4. /\ Card' /\ UNCHANGED kind /\ doing'.st = "answer"
      /\ doing'.cmd = "CMD24" /\ doing'.at = Address(sc)
  BY <1>2, <1>3, CardTakes DEF TInv
<1>5. Awaiting'  BY <1>2, <1>4 DEF Awaiting
<1>6. Asked'  BY <1>1, <1>2, <1>3, CardAssumption DEF Asked
<1>7. BlockAt(arg)' = ask'.sector
  <2>1. BlockAt(Address(sc)) = sc  BY <1>3, AddressIsOf
  <2> QED  BY <2>1, <1>1, <1>2, <1>4 DEF BlockAt
<1>8. Writing'  BY <1>2, <1>3, <1>4, <1>6, <1>7 DEF Writing
<1>9. Reading'  BY <1>2, NotReading
<1> QED  BY <1>4, <1>5, <1>8, <1>9 DEF TInv

LEMMA AfterCmd24Transfer == TInv /\ AfterCmd24 => TInv'
<1> SUFFICES ASSUME TInv, AfterCmd24  PROVE TInv'
  OBVIOUS
<1>1. pc = "result" /\ cmd = "CMD24" /\ Asked /\ UNCHANGED <<kind, sectors, doing>>
  BY DEF AfterCmd24, Result, TInv, Writing, cardVars
<1>2. Card'  BY <1>1, CardStays DEF TInv
<1>3. CASE Accepted(res) /\ pc' = "head" /\ UNCHANGED <<initVars, waitVars, dataVars, last>>
  <2>1. doing.st = "await" /\ doing.blk = <<>> /\ Here
    BY <1>1, <1>3 DEF Accepted, TInv, Writing
  <2>2. UNCHANGED <<CardType, ask>>  BY <1>3 DEF initVars, dataVars
  <2>3. Asked' /\ Here'  BY <1>1, <2>1, <2>2 DEF Asked, Here, BlockAt
  <2>4. Writing'  BY <1>1, <1>3, <2>1, <2>3 DEF Writing, Asked
  <2> QED  BY <1>2, <1>3, <2>4, NotReading, NotPolling DEF TInv
<1>4. CASE pc' = "idle" /\ last' = "ERROR"
  BY <1>2, <1>4, NotReading, NotWriting, NotPolling DEF TInv
<1> QED  BY <1>3, <1>4 DEF AfterCmd24

LEMMA HeaderTransfer == TInv /\ Header => TInv'
<1> SUFFICES ASSUME TInv, Header  PROVE TInv'
  OBVIOUS
<1>1. /\ Asked /\ doing.st = "await" /\ doing.blk = <<>> /\ Here /\ Exchange("FE", "FF")
      /\ wc' = Size /\ sent' = <<>> /\ pc' = "idle" /\ last' = "wip"
      /\ UNCHANGED <<CardType, ask>>
  BY DEF Header, TInv, Writing, initVars
<1>2. PICK c, a : doing = Doing("await", c, a, <<>>)
  BY <1>1 DEF TInv, Card
<1>3. UNCHANGED <<kind, sectors>> /\ doing' = [doing EXCEPT !.st = "take"]
  BY <1>1 DEF Exchange
<1>4. doing' = Doing("take", c, a, <<>>)  BY <1>2, <1>3 DEF Doing
<1>5. doing'.st = "take" /\ doing'.at = doing.at /\ doing'.blk = <<>>
  BY <1>2, <1>4, Shape
<1>6. Card'  BY <1>3, <1>4, CardDoes DEF TInv
<1>7. Asked' /\ Here'  BY <1>1, <1>3, <1>5 DEF Asked, Here, BlockAt
<1>8. Size \in Nat \ {0} /\ Size - Size = 0  BY CardAssumption
<1>9. Given(Size - wc)' /\ Len(sent') = Size - wc'
  <2>1. sent' \in Seq(Cell) /\ Len(sent') = 0 /\ doing'.blk \in Seq(Cell) /\ Len(doing'.blk) = 0
    BY <1>1, <1>5
  <2>2. Size - wc' = 0  BY <1>1, <1>8
  <2> QED  BY <1>7, <1>8, <2>1, <2>2 DEF Given, Left
<1>10. Writing'
  BY <1>1, <1>5, <1>7, <1>8, <1>9 DEF Writing, Asked
<1> QED  BY <1>1, <1>6, <1>10, NotReading, NotPolling DEF TInv

(* A byte of the block goes to the card.                                   *)
LEMMA TakeExchange ==
  ASSUME Card, NEW blk \in Seq(Cell), blk = doing.blk, doing.st = "take",
         NEW b \in Cell, Exchange(b, "FF")
  PROVE  /\ UNCHANGED <<kind, sectors>> /\ Card'
         /\ doing'.st = IF Len(blk) + 1 = Size + 2 THEN "said" ELSE "take"
         /\ doing'.at = doing.at /\ doing'.blk \in Seq(Cell)
         /\ Len(doing'.blk) = Len(blk) + 1
         /\ \A i \in 1 .. Len(blk) : doing'.blk[i] = blk[i]
         /\ doing'.blk[Len(blk) + 1] = b
<1>1. UNCHANGED <<kind, sectors>>  BY DEF Exchange
<1> DEFINE s == IF Len(blk) + 1 = Size + 2 THEN "said" ELSE "take"
<1>2. PICK c, a : doing = Doing("take", c, a, blk)  BY DEF Card
<1>3. PICK t : t = Append(blk, b)  OBVIOUS
<1>4. doing' = [doing EXCEPT !.blk = t, !.st = s]
  <2>1. doing' = [doing EXCEPT !.blk = Append(doing.blk, b),
                               !.st = IF Len(doing.blk) + 1 = Size + 2 THEN "said" ELSE "take"]
    BY DEF Exchange
  <2> QED  BY <2>1, <1>3, Zenon
<1>5. doing' = Doing(s, c, a, t)
  <2> PICK u : u = s  OBVIOUS
  <2>1. doing' = [doing EXCEPT !.blk = t, !.st = u]  BY <1>4
  <2>2. doing = [st |-> "take", cmd |-> c, at |-> a, blk |-> blk]  BY <1>2 DEF Doing
  <2>3. doing' = [st |-> u, cmd |-> c, at |-> a, blk |-> t]
    <3> HIDE DEF s
    <3> QED  BY ONLY <2>1, <2>2
  <2> QED  BY <2>3 DEF Doing
<1>6. /\ t \in Seq(Cell) /\ Len(t) = Len(blk) + 1
      /\ \A i \in 1 .. Len(blk) : t[i] = blk[i]
      /\ t[Len(blk) + 1] = b
  BY <1>3, AppendProperties
<1>7. Card'  BY <1>1, <1>5, CardDoes
<1>8. doing'.st = s /\ doing'.at = doing.at /\ doing'.blk = t
  BY <1>2, <1>5, Shape
<1> QED  BY <1>1, <1>6, <1>7, <1>8

LEMMA SendByteTransfer == TInv /\ SendByte => TInv'
<1> SUFFICES ASSUME TInv, SendByte  PROVE TInv'
  OBVIOUS
<1>1. /\ pc = "idle" /\ last = "wip" /\ pc' = "idle" /\ last' = "wip"
      /\ wc > 0 /\ wc' = wc - 1 /\ doing.st = "take" /\ wc \in 0 .. Size
      /\ Given(Size - wc) /\ Len(sent) = Size - wc
      /\ UNCHANGED <<CardType, ask>>
  BY DEF SendByte, TInv, Writing, initVars
<1>2. PICK b \in Cell : Exchange(b, "FF") /\ sent' = Append(sent, b)
  BY DEF SendByte
<1>3. PICK n \in Nat, blk \in Seq(Cell) : n = Size - wc /\ blk = doing.blk
  BY <1>1, CardAssumption DEF Given
<1>4. /\ Size \in Nat \ {0} /\ n + 1 <= Size /\ n + 1 # Size + 2
      /\ Size - wc' = n + 1 /\ wc' \in 0 .. Size
  BY <1>1, <1>3, CardAssumption
<1>5. /\ Asked /\ Here /\ Len(blk) = n /\ sent \in Seq(Cell) /\ Len(sent) = n
      /\ \A i \in 1 .. n : blk[i] = sent[i]
  BY <1>1, <1>3 DEF Given, Left
<1>6. /\ UNCHANGED <<kind, sectors>> /\ Card'
      /\ doing'.st = "take"
      /\ doing'.at = doing.at /\ doing'.blk \in Seq(Cell)
      /\ Len(doing'.blk) = n + 1
      /\ \A i \in 1 .. n : doing'.blk[i] = blk[i]
      /\ doing'.blk[n + 1] = b
  <2>1. Card  BY DEF TInv
  <2>2. /\ UNCHANGED <<kind, sectors>> /\ Card'
        /\ doing'.st = IF Len(blk) + 1 = Size + 2 THEN "said" ELSE "take"
        /\ doing'.at = doing.at /\ doing'.blk \in Seq(Cell)
        /\ Len(doing'.blk) = Len(blk) + 1
        /\ \A i \in 1 .. Len(blk) : doing'.blk[i] = blk[i]
        /\ doing'.blk[Len(blk) + 1] = b
    BY <2>1, <1>1, <1>2, <1>3, TakeExchange
  <2> QED  BY <2>2, <1>4, <1>5
<1>7. /\ sent' \in Seq(Cell) /\ Len(sent') = n + 1
      /\ \A i \in 1 .. n : sent'[i] = sent[i]
      /\ sent'[n + 1] = b
  <2>1. /\ Append(sent, b) \in Seq(Cell) /\ Len(Append(sent, b)) = Len(sent) + 1
        /\ \A i \in 1 .. Len(sent) : Append(sent, b)[i] = sent[i]
        /\ Append(sent, b)[Len(sent) + 1] = b
    BY <1>5, AppendProperties
  <2> QED  BY <2>1, <1>2, <1>5, Zenon
<1>8. Asked' /\ Here'  BY <1>1, <1>5, <1>6 DEF Asked, Here, BlockAt
<1>9. \A i \in 1 .. n + 1 : doing'.blk[i] = sent'[i]
  <2>1. \A i \in 1 .. n + 1 : i \in 1 .. n \/ i = n + 1  OBVIOUS
  <2> QED  BY <2>1, <1>5, <1>6, <1>7
<1>10. Given(n + 1)'
  BY <1>4, <1>6, <1>7, <1>8, <1>9 DEF Given, Left
<1>11. Given(Size - wc)'  BY <1>4, <1>10
<1>12. Writing'
  <2>1. CardType' # "none"  BY <1>8 DEF Asked
  <2> QED  BY <2>1, <1>1, <1>4, <1>6, <1>7, <1>11 DEF Writing
<1> QED  BY <1>1, <1>6, <1>12, NotReading, NotPolling DEF TInv

LEMMA FinalizeTransfer == TInv /\ Finalize => TInv'
<1> SUFFICES ASSUME TInv, Finalize  PROVE TInv'
  OBVIOUS
<1>1. /\ pc' = "fill" /\ last' = "wip" /\ wc' = wc + 2
      /\ doing.st = "take" /\ wc \in 0 .. Size /\ Given(Size - wc)
      /\ UNCHANGED <<kind, sectors, doing, CardType, ask, sent>>
  BY DEF Finalize, TInv, Writing, cardVars, initVars
<1>2. Card'  BY <1>1, CardStays DEF TInv
<1>3. Size \in Nat \ {0} /\ Size + 2 - wc' = Size - wc /\ wc' \in 1 .. Size + 2
  BY <1>1, CardAssumption
<1>4. Given(Size + 2 - wc)'
  <2> PICK n : n = Size - wc  OBVIOUS
  <2>1. Given(n)'  BY <1>1 DEF Given, Asked, Here, BlockAt, Left
  <2> QED  BY <2>1, <1>3
<1>5. Writing'
  <2>1. CardType' # "none"  BY <1>4 DEF Given, Asked
  <2> QED  BY <2>1, <1>1, <1>3, <1>4 DEF Writing
<1> QED  BY <1>1, <1>2, <1>5, NotReading, NotPolling DEF TInv

(* The rest of the block: zeros, and two bytes more.                       *)
LEMMA FillTransfer == TInv /\ Fill => TInv'
<1> SUFFICES ASSUME TInv, Fill  PROVE TInv'
  OBVIOUS
<1>1. /\ Exchange("00", "FF") /\ wc' = wc - 1 /\ pc' = IF wc = 1 THEN "response" ELSE "fill"
      /\ doing.st = "take" /\ wc \in 1 .. Size + 2 /\ Given(Size + 2 - wc)
      /\ UNCHANGED <<CardType, ask, sent, last>>
  BY DEF Fill, TInv, Writing, initVars
<1>2. PICK n \in Nat, blk \in Seq(Cell) : n = Size + 2 - wc /\ blk = doing.blk
  BY <1>1, CardAssumption DEF Given
<1>3. /\ Size \in Nat \ {0} /\ n + 1 <= Size + 2 /\ (wc = 1 <=> n + 1 = Size + 2)
      /\ Size + 2 - wc' = n + 1 /\ (wc # 1 => wc' \in 1 .. Size + 2)
  BY <1>1, <1>2, CardAssumption
<1>4. /\ Asked /\ Here /\ Len(blk) = n /\ sent \in Seq(Cell) /\ Len(sent) <= Size /\ Len(sent) <= n
      /\ \A i \in 1 .. n : blk[i] = IF i <= Len(sent) THEN sent[i] ELSE "00"
  BY <1>1, <1>2 DEF Given, Left
<1>5. "00" \in Cell  BY CardAssumption
<1>6. /\ UNCHANGED <<kind, sectors>> /\ Card'
      /\ doing'.st = IF n + 1 = Size + 2 THEN "said" ELSE "take"
      /\ doing'.at = doing.at /\ doing'.blk \in Seq(Cell)
      /\ Len(doing'.blk) = n + 1
      /\ \A i \in 1 .. n : doing'.blk[i] = blk[i]
      /\ doing'.blk[n + 1] = "00"
  <2>1. Card  BY DEF TInv
  <2> QED  BY <2>1, <1>1, <1>2, <1>4, <1>5, TakeExchange
<1>7. Asked' /\ Here'  BY <1>1, <1>4, <1>6 DEF Asked, Here, BlockAt
<1>8. PICK k \in Nat : k = Len(sent) /\ k <= n /\ k <= Size
  BY <1>4
<1>9. \A i \in 1 .. n + 1 : doing'.blk[i] = IF i <= k THEN sent[i] ELSE "00"
  <2>1. \A i \in 1 .. n + 1 : i \in 1 .. n \/ (i = n + 1 /\ ~(i <= k))
    BY <1>8
  <2> QED  BY <2>1, <1>4, <1>6, <1>8
<1>10. Given(n + 1)'
  BY <1>1, <1>4, <1>6, <1>7, <1>8, <1>9 DEF Given, Left
<1>11. CardType' # "none"  BY <1>7 DEF Asked
<1>12. Writing'
  <2>1. CASE wc = 1
    <3>1. n + 1 = Size + 2  BY <2>1, <1>3
    <3>2. Given(Size + 2)'  BY <3>1, <1>10
    <3>3. pc' = "response" /\ doing'.st = "said"  BY <2>1, <3>1, <1>1, <1>6
    <3> QED  BY <3>2, <3>3, <1>11 DEF Writing
  <2>2. CASE wc # 1
    <3>1. Given(Size + 2 - wc)'  BY <1>3, <1>10
    <3> QED  BY <2>2, <3>1, <1>1, <1>3, <1>6, <1>11 DEF Writing
  <2> QED  BY <2>1, <2>2
<1>13. pc' \in {"response", "fill"}  BY <1>1
<1> QED  BY <1>6, <1>12, <1>13, NotReading, NotPolling DEF TInv

LEMMA ResponseTransfer == TInv /\ Response => TInv'
<1> SUFFICES ASSUME TInv, Response  PROVE TInv'
  OBVIOUS
<1>1. /\ doing.st = "said" /\ Given(Size + 2) /\ Card
      /\ UNCHANGED <<CardType, ask, sent, last>>
  BY DEF Response, TInv, Writing, initVars, dataVars
<1>2. PICK b \in Byte \cup {"0B"} : /\ Exchange("FF", b)
                                    /\ pc' = IF b = "05" THEN "ready" ELSE "failed"
  BY DEF Response
<1>3. PICK c, a, blk : doing = Doing("said", c, a, blk) /\ blk = doing.blk
  BY <1>1 DEF Card
<1>4. /\ UNCHANGED <<kind, sectors>>
      /\ \/ b = "05" /\ doing' = [doing EXCEPT !.st = "busy"]
         \/ b = "0B" /\ doing' = Listening
  BY <1>1, <1>2 DEF Exchange
<1>5. Asked /\ Here /\ blk \in Seq(Cell) /\ Len(blk) = Size + 2
  BY <1>1, <1>3 DEF Given, Left
<1>6. CardType' # "none"  BY <1>1, <1>5 DEF Asked
<1>7. CASE b = "05" /\ doing' = [doing EXCEPT !.st = "busy"]
  <2>1. doing' = Doing("busy", c, a, blk)  BY <1>3, <1>7 DEF Doing
  <2>2. doing'.st = "busy" /\ doing'.at = doing.at /\ doing'.blk = doing.blk
    BY <1>3, <2>1, Shape
  <2>3. BlockAt(doing.at)' \in Sector
    BY <1>4, <1>5, <2>2 DEF Asked, Here, BlockAt
  <2>4. Busy'
    <3>1. doing'.blk = blk  BY <1>3, <2>2
    <3> QED  BY <3>1, <2>3, <1>5 DEF Busy
  <2>a. Card'
    <3>1. sectors' \in [Sector -> [1 .. Size -> Cell]]  BY <1>1, <1>4 DEF Card
    <3>2. doing' = Doing(doing'.st, doing'.cmd, doing'.at, doing'.blk)
      BY <2>1, Shape
    <3> QED  BY <3>1, <3>2, <2>4 DEF Card
  <2>5. Given(Size + 2)'
    BY <1>1, <1>4, <2>2 DEF Given, Left, Asked, Here, BlockAt
  <2>6. pc' = "ready"  BY <1>2, <1>7
  <2>7. Writing'  BY <1>6, <2>2, <2>5, <2>6 DEF Writing
  <2> QED  BY <2>a, <2>6, <2>7, NotReading, NotPolling DEF TInv
<1>8. CASE b = "0B" /\ doing' = Listening
  <2>1. pc' = "failed"  BY <1>2, <1>8
  <2>2. Card'  BY <1>1, <1>4, <1>8, ListeningShape, CardDoes
  <2> QED  BY <1>6, <2>1, <2>2, NotReading, NotWriting, NotPolling DEF TInv
<1> QED  BY <1>4, <1>7, <1>8

(* The wait for the end of the programming.                                *)
LEMMA ReadyTransfer == IInv /\ TInv /\ Ready => TInv'
<1> SUFFICES ASSUME IInv, TInv, Ready  PROVE TInv'
  OBVIOUS
<1>1. /\ pc = "ready" /\ Card /\ tmr \in Nat
      /\ \/ doing.st = "busy" /\ Given(Size + 2)
         \/ doing.st = "listen" /\ OnCard
      /\ UNCHANGED <<CardType, ask, sent, last>>
  BY DEF Ready, TInv, IInv, Writing, initVars, dataVars
<1>2. PICK b \in Byte : Exchange("FF", b) /\ pc' = Waited(b)
  BY DEF Ready
<1>3. /\ UNCHANGED <<kind, sectors, doing>>
      /\ doing.st = "busy" => b # "FF"
  BY <1>1, <1>2 DEF Exchange
<1>4. /\ pc' \in {"stored", "ready", "failed"}
      /\ pc' = "stored" => b = "FF"
  BY <1>1, <1>2 DEF Waited
<1>5. Card'  BY <1>1, <1>3, CardStays
<1>6. /\ doing.st = "busy" => Given(Size + 2)'
      /\ doing.st = "listen" => OnCard'
  BY <1>1, <1>3 DEF Given, OnCard, Left, Asked, Here, BlockAt
<1>7. CardType' # "none"  BY <1>1 DEF Given, OnCard, Asked
<1>8. Writing'
  BY <1>1, <1>3, <1>4, <1>6, <1>7 DEF Writing
<1> QED  BY <1>4, <1>5, <1>8, NotReading, NotPolling DEF TInv

LEMMA StoredTransfer == TInv /\ Stored => TInv'
<1> SUFFICES ASSUME TInv, Stored  PROVE TInv'
  OBVIOUS
<1>1. /\ pc' = "idle" /\ last' = "WRITTEN" /\ doing' = Deselected /\ doing.st # "busy"
      /\ CardType # "none" /\ UNCHANGED <<kind, sectors, CardType>>
  BY DEF Stored, Return, TInv, Writing, OnCard, Asked
<1>2. Card' /\ doing'.st # "busy"  BY <1>1, CardDeselected DEF TInv
<1> QED
  BY <1>1, <1>2, NotReading, NotPolling DEF TInv, Writing

(* The card has programmed a block: the one the driver waits for, or one   *)
(* begun before a restart or a failed call.                                *)
LEMMA ProgramTransfer == TInv /\ Program => TInv'
<1> SUFFICES ASSUME TInv, Program  PROVE TInv'
  OBVIOUS
<1>1. /\ doing.st = "busy" /\ doing' = Listening /\ doing'.st = "listen"
      /\ UNCHANGED <<kind, CardType, pc, cmd, arg, res, ask, buff, wc, sent, last>>
  BY ListensThen DEF Program, initVars, waitVars, dataVars
<1>2. PICK sc \in Sector, blk \in Seq(Cell) :
        sc = BlockAt(doing.at) /\ blk = doing.blk /\ Len(blk) = Size + 2
  BY <1>1 DEF TInv, Card, Busy
<1>3. PICK data : data = SubSeq(blk, 1, Size)  OBVIOUS
<1>4. sectors' = [sectors EXCEPT ![sc] = data]
  BY <1>2, <1>3, Zenon DEF Program
<1>5. /\ data \in [1 .. Size -> Cell]
      /\ \A i \in 1 .. Size : data[i] = blk[i]
  <2>1. Size \in Nat \ {0} /\ 1 \in Int /\ Size \in Int  BY CardAssumption
  <2>2. \A i \in 1 .. Size : blk[i] \in Cell
    BY <1>2, <2>1
  <2>3. /\ data \in Seq(Cell) /\ Len(data) = IF 1 <= Size THEN Size - 1 + 1 ELSE 0
        /\ \A i \in 1 .. Size - 1 + 1 : data[i] = blk[1 + i - 1]
    BY <1>3, <2>1, <2>2, SubSeqProperties
  <2>4. Len(data) = Size /\ Size - 1 + 1 = Size /\ \A i \in 1 .. Size : 1 + i - 1 = i
    BY <2>1, <2>3
  <2> QED  BY <2>3, <2>4
<1>6. sectors \in [Sector -> [1 .. Size -> Cell]]  BY DEF TInv, Card
<1>7. sectors' \in [Sector -> [1 .. Size -> Cell]]  BY <1>4, <1>5, <1>6
<1>8. Card'
  BY <1>1, <1>7, ListeningShape, Shape DEF Card, Busy
<1>9. Awaiting'
  BY <1>1 DEF TInv, Awaiting
<1>10. Reading'
  BY <1>1 DEF TInv, Reading, Announced, Asked, BlockAt
<1>11. Writing'
  <2>1. pc = "ready" => OnCard'
    <3> SUFFICES ASSUME pc = "ready"  PROVE OnCard'
      OBVIOUS
    <3>1. Given(Size + 2)  BY <1>1 DEF TInv, Writing
    <3>2. /\ Asked /\ ask.sector = sc /\ sent \in Seq(Cell)
          /\ \A i \in 1 .. Size + 2 : blk[i] = IF i <= Len(sent) THEN sent[i] ELSE "00"
      BY <3>1, <1>2 DEF Given, Here
    <3>3. sectors'[sc] = data  BY <1>4, <1>6
    <3>4. \A i \in 1 .. Size : i \in 1 .. Size + 2  BY CardAssumption
    <3>5. \A i \in 1 .. Size : sectors'[sc][i] = IF i <= Len(sent) THEN sent[i] ELSE "00"
      BY <3>2, <3>3, <3>4, <1>5
    <3> QED  BY <3>2, <3>5, <1>1 DEF OnCard, Asked
  <2>2. pc \notin {"head", "fill", "response", "stored"} /\ ~(pc = "idle" /\ last = "wip")
    BY <1>1 DEF TInv, Writing
  <2>3. pc \in {"answer", "result"} /\ cmd = "CMD24" => pc = "result" /\ res # "00" /\ Asked
    BY <1>1 DEF TInv, Writing
  <2>4. Asked => Asked'  BY <1>1 DEF Asked
  <2>5. last \in {"READ", "WRITTEN", "wip"} => CardType # "none"
    BY DEF TInv, Writing
  <2> QED  BY <1>1, <2>1, <2>2, <2>3, <2>4, <2>5 DEF Writing
<1> QED  BY <1>8, <1>9, <1>10, <1>11 DEF TInv

LEMMA TransferStep == IInv /\ TInv /\ [Next]_vars => TInv'
<1> SUFFICES ASSUME IInv, TInv, [Next]_vars  PROVE TInv'
  OBVIOUS
<1>1. CASE Driver
  BY <1>1, PollTransfer, InitializeTransfers, AfterCmd17Transfer, TokenTransfer, FailedTransfer,
     ReceiveTransfer, DoneTransfer, AfterCmd24Transfer, HeaderTransfer, FillTransfer,
     ResponseTransfer, ReadyTransfer, StoredTransfer DEF Driver
<1>2. CASE Caller
  BY <1>2, InitializeTransfers, ReadpTransfer, InitiateTransfer, SendByteTransfer,
     FinalizeTransfer DEF Caller
<1> QED
  BY <1>1, <1>2, ProgramTransfer, FailedTransfer, StutterTransfer DEF Next

LEMMA Transfers == Spec => [](IInv /\ TInv)
<1>1. Init => IInv /\ TInv  BY Start, TransferStart
<1>2. (IInv /\ TInv) /\ [Next]_vars => (IInv /\ TInv)'  BY Step, TransferStep
<1> QED  BY <1>1, <1>2, PTL DEF Spec

(* What a slice of a sector is, for any bounds within it.                   *)
LEMMA SliceOf ==
  ASSUME NEW S, NEW s, NEW l \in Int, NEW r \in Int, NEW n \in Nat, r = l + n - 1,
         \A i \in l .. r : s[i] \in S
  PROVE  /\ SubSeq(s, l, r) \in Seq(S)
         /\ Len(SubSeq(s, l, r)) = n
         /\ \A i \in 1 .. n : SubSeq(s, l, r)[i] = s[l + i - 1]
<1> DEFINE t == SubSeq(s, l, r)
<1>1. /\ t \in Seq(S)
      /\ Len(t) = IF l <= r THEN r - l + 1 ELSE 0
      /\ \A i \in 1 .. r - l + 1 : t[i] = s[l + i - 1]
  BY SubSeqProperties
<1> HIDE DEF t
<1>2. r - l + 1 = n /\ (n # 0 => l <= r) /\ (n = 0 => ~(l <= r))  OBVIOUS
<1>3. Len(t) = n  BY <1>1, <1>2
<1>4. \A i \in 1 .. n : t[i] = s[l + i - 1]  BY <1>1, <1>2, Zenon
<1> QED  BY <1>1, <1>3, <1>4 DEF t

(* A read that returns RES_OK has the bytes that were asked for, of that   *)
(* sector; a finished write has left on the card what was sent, and zeros  *)
(* behind it: for every sector size and every number of polls, also after  *)
(* calls that failed, a busy card and restarts (mmcbbp.c 345-472).         *)
THEOREM OkIsDone == Spec => []OkMeansDone
<1>1. TInv => OkMeansDone
  <2> SUFFICES ASSUME TInv  PROVE OkMeansDone
    OBVIOUS
  <2>1. ASSUME pc = "done"
        PROVE  buff = SubSeq(sectors[ask.sector], ask.offset + 1, ask.offset + ask.count)
    <3>1. Asked /\ Received(Size + 2)  BY <2>1 DEF TInv, Reading
    <3> PICK o \in 0 .. Size, n \in 0 .. Size, sc \in Sector :
               o = ask.offset /\ n = ask.count /\ sc = ask.sector /\ o + n <= Size
      BY <3>1 DEF Asked
    <3>2. Size \in Nat \ {0} /\ o \in Nat /\ n \in Nat  BY CardAssumption
    <3>3. /\ buff \in Seq(Byte) /\ Len(buff) = n
          /\ \A j \in 1 .. n : buff[j] = sectors[sc][o + j]
      BY <3>1, <3>2 DEF Received
    <3>4. PICK s : s = sectors[sc] /\ s \in [1 .. Size -> Cell]
      BY DEF TInv, Card
    <3>a. o \in Int /\ n \in Int /\ o + 1 \in Int /\ o + n \in Int
      BY <3>2
    <3> PICK l \in Int, r \in Int : l = o + 1 /\ r = o + n
      BY <3>a
    <3>5. \A i \in l .. r : s[i] \in Byte
      <4> SUFFICES ASSUME NEW i \in l .. r  PROVE s[i] \in Byte
        OBVIOUS
      <4>1. i \in 1 .. Size  BY <3>2
      <4> QED  BY <4>1, <3>4 DEF Byte
    <3>b. r = l + n - 1 /\ \A i \in 1 .. n : l + i - 1 = o + i
      BY <3>2
    <3>6. PICK t : t = SubSeq(s, l, r)  OBVIOUS
    <3>c. /\ SubSeq(s, l, r) \in Seq(Byte)
          /\ Len(SubSeq(s, l, r)) = n
          /\ \A i \in 1 .. n : SubSeq(s, l, r)[i] = s[l + i - 1]
      BY <3>5, <3>b, <3>2, SliceOf
    <3>7. t \in Seq(Byte) /\ Len(t) = n /\ \A i \in 1 .. n : t[i] = s[l + i - 1]
      BY <3>6, <3>c, Zenon
    <3>8. \A i \in 1 .. n : t[i] = s[o + i]
      BY <3>7, <3>b, Zenon
    <3>9. \A i \in 1 .. n : buff[i] = t[i]
      BY <3>3, <3>4, <3>7, <3>8
    <3>10. buff = t  BY <3>3, <3>7, <3>8, <3>9, SeqEqual
    <3> QED  BY <3>4, <3>6, <3>10, Zenon
  <2>2. ASSUME pc = "stored"
        PROVE  \A i \in 1 .. Size :
                 sectors[ask.sector][i] = IF i <= Len(sent) THEN sent[i] ELSE "00"
    BY <2>2 DEF TInv, Writing, OnCard
  <2> QED  BY <2>1, <2>2 DEF OkMeansDone
<1> QED  BY <1>1, Transfers, PTL

(* No byte of a block ever reaches a card that would take it for a         *)
(* command, nor one that is still busy with an earlier block: only a       *)
(* caller whose last call went well gets to write (pff.c 1023-1053,        *)
(* mmcbbp.c 421-472).                                                      *)
THEOREM BlocksAreAwaited == Spec => []BlockIsAwaited
<1>1. TInv => BlockIsAwaited
  BY DEF TInv, Writing, BlockIsAwaited
<1> QED  BY <1>1, Transfers, PTL
=============================================================================
