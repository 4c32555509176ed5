---------------------------- MODULE Ps2Keyboard ----------------------------
(***************************************************************************)
(* The PS/2 keyboard: keys pressed and released, frames of 11 clocks taken *)
(* by the interrupt, a ring of scan codes, and the decoder that            *)
(* terminal_task polls.  Clocks can be missed, codes find the ring full.   *)
(***************************************************************************)
EXTENDS Integers, Sequences

CONSTANTS Keys,         \* the keys of this keyboard, of those below
          BUFFER_SIZE,  \* of the ring; one place stays empty
          Garbled,      \* codes a frame out of step may read as
          MaxLosses     \* bound: how often something goes wrong

KeyNames == {"LShift", "RShift", "LCtrl", "RCtrl", "AltGr", "a", "up"}

ASSUME KeyboardAssumption ==
  /\ Keys \subseteq KeyNames
  /\ BUFFER_SIZE \in Nat \ {0, 1}
  /\ MaxLosses \in Nat

ScanCode == {"F0", "E0", "12", "59", "14", "11", "1C", "75"}
ASSUME GarbledAssumption == Garbled \subseteq ScanCode

(* What a key sends, less its release prefix.                              *)
Extended == {"RCtrl", "AltGr", "up"}
CodeOf == [k \in KeyNames |->
  CASE k = "LShift" -> "12" [] k = "RShift" -> "59" [] k \in {"LCtrl", "RCtrl"} -> "14"
    [] k = "AltGr" -> "11" [] k = "a" -> "1C" [] k = "up" -> "75"]
Modifiers == KeyNames \ {"a", "up"}
Ctrl == {"LCtrl", "RCtrl"}

VARIABLES
  held,      \* keys that are down
  toSend,    \* codes of the last event still to be clocked out
  bitcount,  \* of the frame being assembled
  ring,      \* the codes between tail and head
  state,     \* the decoder's flags
  losses,
  (* Observation, read by the properties only; of the characters, as long  *)
  (* as nothing is lost.                                                   *)
  stray,     \* right Ctrl came down, and no release and no other extended
             \* or plain key since
  shared,    \* one Ctrl key came up while the other stayed down, and none
             \* came down since
  unsure,    \* a character was typed after right Ctrl, or while the Ctrl
             \* keys were shared, and a later key has not yet found
             \* everything read
  due,       \* the characters pressed that have not been delivered
  got,       \* the last one delivered
  whole,     \* complete events since something was lost; 2 means many
  sure       \* modifiers that have sent a complete event in that time,
             \* with another one before it

ps2Vars == <<held, toSend, bitcount, ring, state, losses, stray, shared, unsure,
             due, got, whole, sure>>

Flag == {"BREAK", "MODIFIER", "SHIFT_L", "SHIFT_R", "ALTGR", "CTRL_L"}
FlagOf == [k \in Modifiers |->
  CASE k = "LShift" -> "SHIFT_L" [] k = "RShift" -> "SHIFT_R"
    [] k \in {"LCtrl", "RCtrl"} -> "CTRL_L" [] k = "AltGr" -> "ALTGR"]

None == [char |-> "none", ctrl |-> FALSE]

Ps2Init ==
  /\ held = {} /\ toSend = <<>> /\ bitcount = 0 /\ ring = <<>> /\ state = {}
  /\ losses = 0 /\ stray = FALSE /\ shared = FALSE /\ unsure = FALSE
  /\ due = <<>> /\ got = None /\ whole = 2 /\ sure = Modifiers \cap Keys

-----------------------------------------------------------------------------
(* The keyboard.  What a key should type depends on what is held.          *)
Typed(k) ==
  [char |-> IF k = "a" /\ held \cap {"LShift", "RShift"} # {} THEN "A" ELSE k,
   ctrl |-> held \cap Ctrl # {}]

Prefix(k) == IF k \in Extended THEN <<"E0">> ELSE <<>>

AllRead == toSend = <<>> /\ ring = <<>>

(* The decoder is wrong about two characters: a plain key after right      *)
(* Ctrl, whose prefix is left standing, and any key when one of two Ctrl   *)
(* keys has come up, because they share a flag.  No promise is made        *)
(* around them.                                                            *)
Astray(k) == k \notin Modifiers /\ (shared \/ (stray /\ k \notin Extended))

Due(k) ==
  IF losses > 0 \/ unsure' THEN <<>>
  ELSE IF k \in Modifiers THEN due
  ELSE Append(due, Typed(k))

(* Held keys repeat.                                                       *)
Press(k) ==
  /\ toSend = <<>>
  /\ held' = held \cup {k}
  /\ toSend' = Prefix(k) \o <<CodeOf[k]>>
  /\ unsure' = (losses = 0 /\ (Astray(k) \/ (unsure /\ ~AllRead)))
  /\ due' = Due(k)
  /\ shared' = (shared /\ k \notin Ctrl)
  /\ stray' = (losses = 0 /\ (\/ k = "RCtrl"
                              \/ stray /\ k \in {"LShift", "RShift", "LCtrl"}))
  /\ whole' = IF whole < 2 THEN whole + 1 ELSE 2
  /\ sure' = IF whole >= 1 /\ k \in Modifiers THEN sure \cup {k} ELSE sure
  /\ UNCHANGED <<bitcount, ring, state, losses, got>>

Release(k) ==
  /\ toSend = <<>> /\ k \in held
  /\ held' = held \ {k}
  /\ toSend' = Prefix(k) \o <<"F0", CodeOf[k]>>
  /\ stray' = FALSE
  /\ shared' = IF k \in Ctrl THEN held' \cap Ctrl # {} ELSE shared
  /\ whole' = IF whole < 2 THEN whole + 1 ELSE 2
  /\ sure' = IF whole >= 1 /\ k \in Modifiers THEN sure \cup {k} ELSE sure
  /\ UNCHANGED <<bitcount, ring, state, losses, unsure, due, got>>

-----------------------------------------------------------------------------
(* ps2_gpio_callback.                                                      *)

(* What a slip would do: the ring counts as full a place too early.        *)
PutCodeShort(c) == ring' = IF Len(ring) + 2 < BUFFER_SIZE THEN Append(ring, c) ELSE ring
PutCode(c) == ring' = IF Len(ring) + 1 < BUFFER_SIZE THEN Append(ring, c) ELSE ring

Counted(pause) == IF pause THEN 0 ELSE bitcount

Lost ==
  /\ losses < MaxLosses /\ losses' = losses + 1
  /\ due' = <<>> /\ got' = None /\ stray' = FALSE /\ unsure' = FALSE
  /\ whole' = 0 /\ sure' = {}

(* The clocks of one frame, of which some may be missed, after a pause of  *)
(* more than 250 ms or without one.  A code is complete at 11 clocks; one  *)
(* that is put together from two frames can be any.                        *)
Frame(missed, pause) ==
  LET n == Counted(pause) + 11 - missed
      good == Counted(pause) = 0 /\ missed = 0
  IN  /\ toSend # <<>>
      /\ toSend' = Tail(toSend)
      /\ bitcount' = n % 11
      /\ IF n < 11 THEN UNCHANGED ring
         ELSE \E c \in IF good THEN {Head(toSend)} ELSE Garbled : PutCode(c)
      /\ IF good /\ Len(ring) + 1 < BUFFER_SIZE
         THEN UNCHANGED <<losses, stray, unsure, due, got, whole, sure>>
         ELSE Lost
      /\ UNCHANGED <<held, state, shared>>

-----------------------------------------------------------------------------
(* get_iso8859_code, a scan code at a time.                                *)
Clear(flags) == state \ flags

(* The make and break codes of the shift keys and of Ctrl are told by the  *)
(* code alone, whatever came before them.                                  *)
FlagByCode(s) ==
  CASE s = "12" -> {"SHIFT_L"} [] s = "59" -> {"SHIFT_R"} [] s = "14" -> {"CTRL_L"}
    [] s = "11" /\ "MODIFIER" \in state -> {"ALTGR"}
    [] OTHER -> {}

CharOf(s) ==
  IF "MODIFIER" \in state THEN (IF s = "75" THEN "up" ELSE "none")
  ELSE CASE s = "1C" -> (IF state \cap {"SHIFT_L", "SHIFT_R"} # {} THEN "A" ELSE "a")
         [] s = "75" -> "8"
         [] OTHER -> "none"

(* What slips would do: the prefixes of a release stay; the flag does.     *)
KeepPrefix(s) == Clear(FlagByCode(s))
StayDown(s) == Clear({"BREAK", "MODIFIER"})
Broken(s) == Clear(FlagByCode(s)) \ {"BREAK", "MODIFIER"}

Deliver(char) ==
  IF char = "none" THEN UNCHANGED <<got, due>>
  ELSE /\ got' = IF losses > 0 THEN None
                 ELSE [char |-> char, ctrl |-> "CTRL_L" \in state]
       /\ due' = IF due = <<>> THEN due ELSE Tail(due)

(* "E0 14" leaves the prefix standing; "E0 11" takes it away.              *)
Decode ==
  /\ ring # <<>> /\ ring' = Tail(ring)
  /\ LET s == Head(ring)
     IN  \/ s = "F0" /\ state' = state \cup {"BREAK"} /\ UNCHANGED <<got, due>>
         \/ s = "E0" /\ state' = state \cup {"MODIFIER"} /\ UNCHANGED <<got, due>>
         \/ /\ s \notin {"F0", "E0"} /\ "BREAK" \in state
            /\ state' = Broken(s) /\ UNCHANGED <<got, due>>
         \/ /\ s \in {"12", "59", "14"} /\ "BREAK" \notin state
            /\ state' = state \cup FlagByCode(s) /\ UNCHANGED <<got, due>>
         \/ /\ s \in {"11", "1C", "75"} /\ "BREAK" \notin state
            /\ state' = (state \cup FlagByCode(s)) \ {"BREAK", "MODIFIER"}
            /\ Deliver(CharOf(s))
  /\ UNCHANGED <<held, toSend, bitcount, losses, stray, shared, unsure, whole, sure>>

Ps2Next ==
  \/ \E k \in Keys : Press(k) \/ Release(k)
  \/ \E missed \in {0, 1, 11}, pause \in BOOLEAN : Frame(missed, pause)
  \/ Decode

Ps2Spec == Ps2Init /\ [][Ps2Next]_ps2Vars

-----------------------------------------------------------------------------
(* As long as nothing is lost, what get_iso8859_code delivers is what was  *)
(* pressed, in order, with the shift and Ctrl of that moment, but for what *)
(* is typed around a character the decoder is wrong about.                 *)
TypedAsPressed ==
  [][ losses' = 0 /\ ~unsure' /\ (Len(due') < Len(due) \/ got' # got)
        => due # <<>> /\ got' = Head(due) ]_ps2Vars

(* ... and once everything is decoded nothing that was pressed is missing. *)
NothingSwallowed == losses = 0 /\ AllRead => due = <<>>

(* A modifier stuck by a lost code does not stay stuck: once the frames    *)
(* are in step again (a pause of 250 ms) and one complete event has gone   *)
(* by, the next press or release of the key puts its flag right.           *)
Down(flag) == \E k \in held \cap Modifiers : FlagOf[k] = flag
FlagIsRight(flags, k) ==
  /\ FlagOf[k] \in flags => Down(FlagOf[k])
  /\ Down(FlagOf[k]) /\ ~(shared /\ k \in Ctrl) => FlagOf[k] \in flags
ModifiersRecover == AllRead => \A k \in sure : FlagIsRight(state, k)

(* "Ctrl+letter and Ctrl+[ \ ] ^ _ are the control codes 1-31" (terminal.c *)
(* 122): a letter decoded while a Ctrl key is down, and nothing else is on *)
(* its way, is delivered with the Ctrl.                                    *)
CtrlLettersArrive ==
  [][ (losses = 0 /\ held \cap Ctrl # {} /\ toSend = <<>>
         /\ ring = <<CodeOf["a"]>> /\ ring' = <<>> /\ "BREAK" \notin state)
        => got'.char \in {"a", "A"} /\ got'.ctrl ]_ps2Vars
=============================================================================
