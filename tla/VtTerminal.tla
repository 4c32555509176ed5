---------------------------- MODULE VtTerminal ----------------------------
(***************************************************************************)
(* The VT102 emulator (vt.c) and the cursor terminal.c paints over it.     *)
(* One step is one byte of the guest's output, or one step of              *)
(* terminal_task.  The digits of a CSI sequence change nothing but its     *)
(* parameters, which are chosen when its final byte arrives (0 stands for  *)
(* a missing one); a list of modes is as many sequences of one.  Of a cell *)
(* we keep whether it has the cursor's colours; the guest's colours, the   *)
(* glyphs, SGR and the replies change nothing else.                        *)
(***************************************************************************)
EXTENDS Integers

CONSTANTS W, H,       \* TERM_WIDTH, TERM_HEIGHT
          MaxParam    \* bound: parameters are 0 .. MaxParam

ASSUME ScreenAssumption ==
  /\ W \in Nat \ {0} /\ H \in Nat \ {0, 1}
  /\ MaxParam \in Nat

Cols == 0 .. W - 1
Rows == 0 .. H - 1
Blank == -1

VARIABLES
  vt,      \* cursor, margins, modes, saved cursor; marked: the cells in the
           \* cursor's colours; from: where each row was before the last byte
  state,   \* the parser's; a CSI sequence carries its two flags in it
  task,    \* terminal_task: "idle", or "batch" while it feeds vt_putc
  cursor   \* the painted cursor: shown, and where

vars == <<vt, state, task, cursor>>

Least(a, b) == IF a < b THEN a ELSE b
Most(a, b) == IF a > b THEN a ELSE b

Still == [y \in Rows |-> y]

-----------------------------------------------------------------------------
(* Cells and rows.  Each operator takes the terminal and gives the         *)
(* terminal after it, so that they compose as the calls do.                *)

clear_cells(v, y, x0, x1) == [v EXCEPT !.marked = @ \ ({y} \X (x0 .. x1 - 1))]

clear_rows(v, y0, y1) == [v EXCEPT !.marked = @ \ ((y0 .. y1) \X Cols)]

(* Rows of the region take over the rows "by" below them (above them when  *)
(* it is negative); those without one are blank.                           *)
Shift(v, top, bot, by) ==
  LET inside(y) == y \in top .. bot
  IN  [v EXCEPT
        !.marked = {p \in @ : ~inside(p[1])}
                   \cup {p \in Rows \X Cols : inside(p[1]) /\ inside(p[1] + by)
                                              /\ <<p[1] + by, p[2]>> \in @},
        !.from = [y \in Rows |-> IF ~inside(y) THEN @[y]
                                 ELSE IF inside(y + by) THEN @[y + by] ELSE Blank]]

(* What a slip would do: blank as many rows as asked for.                  *)
ScrollPast(v, top, bot, n) ==
  [Shift(v, top, bot, n) EXCEPT
     !.from = [y \in Rows |-> IF y \in bot - n + 1 .. bot THEN Blank ELSE @[y]]]
scroll_up(v, top, bot, n) == Shift(v, top, bot, Least(n, bot - top + 1))
scroll_down(v, top, bot, n) == Shift(v, top, bot, -Least(n, bot - top + 1))

(* The cells of a row from x on move by "by" columns, what comes in is     *)
(* blank: insert (by > 0) and delete (by < 0) characters.                  *)
Slide(v, y, x, by) ==
  [v EXCEPT !.marked =
     {p \in @ : p[1] # y \/ p[2] < x}
     \cup {p \in {y} \X (x .. W - 1) : p[2] - by >= x /\ <<y, p[2] - by>> \in @}]

-----------------------------------------------------------------------------
(* The cursor.                                                             *)

(* What a slip would do: positions are absolute, the limits are not.         *)
SetAbsolute(v, x, y) ==
  LET lo == IF v.origin_mode THEN v.top ELSE 0
  IN  [v EXCEPT !.cr_x = Most(0, Least(x, W - 1)), !.cr_y = Most(lo, Least(y + lo, H - 1)),
                !.wrap_pending = FALSE]
set_cursor(v, x, y) ==
  LET lo == IF v.origin_mode THEN v.top ELSE 0
      hi == IF v.origin_mode THEN v.bot ELSE H - 1
  IN  [v EXCEPT !.cr_x = Most(0, Least(x, W - 1)), !.cr_y = Most(lo, Least(y + lo, hi)),
                !.wrap_pending = FALSE]

Settled(v) == [v EXCEPT !.wrap_pending = FALSE]
Column(v, x) == [v EXCEPT !.cr_x = x]

linefeed(v) ==
  IF v.cr_y = v.bot THEN scroll_up(v, v.top, v.bot, 1)
  ELSE [v EXCEPT !.cr_y = Least(@ + 1, H - 1)]

reverse_index(v) ==
  IF v.cr_y = v.top THEN scroll_down(v, v.top, v.bot, 1)
  ELSE [v EXCEPT !.cr_y = Most(@ - 1, 0)]

put_glyph(v) ==
  LET a == IF v.wrap_pending /\ v.autowrap THEN linefeed(Column(v, 0)) ELSE v
      b == IF a.insert_mode THEN Slide(a, a.cr_y, a.cr_x, 1) ELSE a
      c == clear_cells(b, b.cr_y, b.cr_x, b.cr_x + 1)
  IN  IF c.cr_x < W - 1
      THEN [c EXCEPT !.cr_x = @ + 1, !.wrap_pending = FALSE]
      ELSE [c EXCEPT !.wrap_pending = c.autowrap]

save_cursor(v) ==
  [v EXCEPT !.save_x = v.cr_x, !.save_y = v.cr_y, !.save_origin = v.origin_mode]

restore_cursor(v) ==
  [v EXCEPT !.cr_x = v.save_x, !.cr_y = v.save_y, !.origin_mode = v.save_origin,
            !.wrap_pending = FALSE]

(* The cursor saved is the one before the reset, not the home position.    *)
full_reset(v) ==
  save_cursor([v EXCEPT !.insert_mode = FALSE, !.autowrap = TRUE, !.origin_mode = FALSE,
                        !.cursor_visible = TRUE, !.top = 0, !.bot = H - 1,
                        !.wrap_pending = FALSE])

set_mode(v, private_mode, p, on) ==
  CASE private_mode /\ p = 6 -> set_cursor([v EXCEPT !.origin_mode = on], 0, 0)
    [] private_mode /\ p = 7 -> [v EXCEPT !.autowrap = on]
    [] private_mode /\ p = 25 -> [v EXCEPT !.cursor_visible = on]
    [] ~private_mode /\ p = 4 -> [v EXCEPT !.insert_mode = on]
    [] OTHER -> v

-----------------------------------------------------------------------------
(* CSI sequences by their final byte, with parameters p and q.             *)
Or(p, def) == IF p = 0 THEN def ELSE p

Up(v, n) ==
  LET limit == IF v.cr_y >= v.top THEN v.top ELSE 0
  IN  Settled([v EXCEPT !.cr_y = Most(@ - n, limit)])

Down(v, n) ==
  LET limit == IF v.cr_y <= v.bot THEN v.bot ELSE H - 1
  IN  Settled([v EXCEPT !.cr_y = Least(@ + n, limit)])

EraseDisplay(v, p) ==
  CASE p = 0 -> clear_rows(clear_cells(v, v.cr_y, v.cr_x, W), v.cr_y + 1, H - 1)
    [] p = 1 -> clear_cells(clear_rows(v, 0, v.cr_y - 1), v.cr_y, 0, v.cr_x + 1)
    [] p \in {2, 3} -> clear_rows(v, 0, H - 1)
    [] OTHER -> v

EraseLine(v, p) ==
  CASE p = 0 -> clear_cells(v, v.cr_y, v.cr_x, W)
    [] p = 1 -> clear_cells(v, v.cr_y, 0, v.cr_x + 1)
    [] p = 2 -> clear_cells(v, v.cr_y, 0, W)
    [] OTHER -> v

InsertLines(v, n) ==
  Settled(IF v.cr_y \in v.top .. v.bot
          THEN Column(scroll_down(v, v.cr_y, v.bot, n), 0) ELSE v)

DeleteLines(v, n) ==
  Settled(IF v.cr_y \in v.top .. v.bot
          THEN Column(scroll_up(v, v.cr_y, v.bot, n), 0) ELSE v)

(* What a slip would do: a region of one row is taken.                     *)
MarginsOfOne(v, p, q) ==
  LET t == Or(p, 1) - 1
      b == Least(Or(q, H) - 1, H - 1)
  IN  IF t <= b THEN set_cursor([v EXCEPT !.top = t, !.bot = b], 0, 0) ELSE v
SetMargins(v, p, q) ==
  LET t == Or(p, 1) - 1
      b == Least(Or(q, H) - 1, H - 1)
  IN  IF t < b THEN set_cursor([v EXCEPT !.top = t, !.bot = b], 0, 0) ELSE v

OneParam == {"A", "B", "C", "D", "E", "F", "G", "d", "J", "K", "L", "M",
             "P", "@", "X", "S", "T", "s", "u", "other"}
TwoParams == {"H", "r"}

run_csi(v, final, p, q) ==
  LET n == Or(p, 1)
      room == Least(n, W - v.cr_x)
  IN  CASE final = "A" -> Up(v, n)
        [] final = "B" -> Down(v, n)
        [] final = "C" -> Settled(Column(v, Least(v.cr_x + n, W - 1)))
        [] final = "D" -> Settled(Column(v, Most(v.cr_x - n, 0)))
        [] final = "E" -> Down(Column(v, 0), n)
        [] final = "F" -> Up(Column(v, 0), n)
        [] final = "G" -> Settled(Column(v, Least(n - 1, W - 1)))
        [] final = "d" -> set_cursor(v, v.cr_x, n - 1)
        [] final = "H" -> set_cursor(v, Or(q, 1) - 1, n - 1)
        [] final = "J" -> Settled(EraseDisplay(v, p))
        [] final = "K" -> Settled(EraseLine(v, p))
        [] final = "L" -> InsertLines(v, n)
        [] final = "M" -> DeleteLines(v, n)
        [] final = "P" -> Settled(Slide(v, v.cr_y, v.cr_x, -room))
        [] final = "@" -> Settled(Slide(v, v.cr_y, v.cr_x, room))
        [] final = "X" -> Settled(clear_cells(v, v.cr_y, v.cr_x, v.cr_x + room))
        [] final = "S" -> scroll_up(v, v.top, v.bot, n)
        [] final = "T" -> scroll_down(v, v.top, v.bot, n)
        [] final = "r" -> SetMargins(v, p, q)
        [] final = "s" -> save_cursor(v)
        [] final = "u" -> restore_cursor(v)
        [] OTHER -> v

(* ESC and one more byte, for the bytes that act at once.                  *)
EscFinals == {"7", "8", "D", "E", "M", "c", "other"}

esc_final(v, c) ==
  CASE c = "7" -> save_cursor(v)
    [] c = "8" -> restore_cursor(v)
    [] c = "D" -> linefeed(v)
    [] c = "E" -> linefeed(Column(v, 0))
    [] c = "M" -> Settled(reverse_index(v))
    [] c = "c" -> set_cursor(clear_rows(full_reset(v), 0, H - 1), 0, 0)
    [] OTHER -> v

-----------------------------------------------------------------------------
(* vt_putc: a byte by what it is and the state it meets.                   *)
InCsi == {"csi", "csi_private", "csi_ignored"}
Feeding == task = "batch"
Outside == <<task, cursor>>
Fresh == [vt EXCEPT !.from = Still]

(* CAN and SUB.                                                            *)
Abort ==
  /\ Feeding /\ vt' = Fresh /\ state' = "ground" /\ UNCHANGED Outside

Escape ==
  /\ Feeding /\ vt' = Fresh
  /\ state' = IF state = "string" THEN "string_esc" ELSE "esc"
  /\ UNCHANGED Outside

(* OSC, DCS and their kind run to BEL or ESC \.                            *)
InString ==
  /\ Feeding /\ state \in {"string", "string_esc"}
  /\ vt' = Fresh
  /\ state' \in {"ground", "string"}
  /\ UNCHANGED Outside

AfterEscape ==
  /\ Feeding /\ state = "esc"
  /\ \/ vt' = Fresh /\ state' \in {"csi", "string", "esc_skip"}
     \/ \E c \in EscFinals : vt' = esc_final(Fresh, c) /\ state' = "ground"
  /\ UNCHANGED Outside

Skip == Feeding /\ state = "esc_skip" /\ vt' = Fresh /\ state' = "ground" /\ UNCHANGED Outside

(* C0 controls act in the middle of a CSI sequence too.                    *)
Control ==
  /\ Feeding /\ state \in {"ground"} \cup InCsi
  /\ \/ vt' = Settled(Column(Fresh, 0))
     \/ vt' = linefeed(Fresh)
     \/ vt' = Settled(Column(Fresh, Most(vt.cr_x - 1, 0)))
     \/ vt' = Column(Fresh, Least((vt.cr_x \div 8 + 1) * 8, W - 1))
  /\ UNCHANGED <<state, Outside>>

(* A "?" makes the sequence private, ">", "=", "<" and the intermediate    *)
(* bytes make it one to be ignored, a byte that does not belong ends it.   *)
CsiPrefix ==
  /\ Feeding /\ state \in InCsi /\ vt' = Fresh
  /\ \/ state' = IF state = "csi" THEN "csi_private" ELSE state
     \/ state' = "csi_ignored"
     \/ state' = "ground"
  /\ UNCHANGED Outside

(* Only the modes ask whether the sequence is private.                     *)
CsiFinal ==
  /\ Feeding /\ state \in InCsi /\ state' = "ground"
  /\ IF state = "csi_ignored" THEN vt' = Fresh
     ELSE \/ \E f \in OneParam, p \in 0 .. MaxParam : vt' = run_csi(Fresh, f, p, 0)
          \/ \E f \in TwoParams, p, q \in 0 .. MaxParam : vt' = run_csi(Fresh, f, p, q)
          \/ \E p \in {4, 6, 7, 25}, on \in BOOLEAN :
               vt' = set_mode(Fresh, state = "csi_private", p, on)
  /\ UNCHANGED Outside

Printable ==
  /\ Feeding /\ state = "ground"
  /\ vt' = put_glyph(Fresh)
  /\ UNCHANGED <<state, Outside>>

vt_putc ==
  \/ Abort \/ Escape \/ InString \/ AfterEscape \/ Skip
  \/ Control \/ CsiPrefix \/ CsiFinal \/ Printable

-----------------------------------------------------------------------------
(* terminal.c: the painted cursor.  Where it was is kept while shown.      *)
NotShown == [shown |-> FALSE, x |-> 0, y |-> 0]

Unpaint(v) == [v EXCEPT !.marked = @ \ {<<cursor.y, cursor.x>>}]

cursor_hide ==
  IF cursor.shown
  THEN vt' = Unpaint(vt) /\ cursor' = NotShown
  ELSE UNCHANGED <<vt, cursor>>

cursor_show ==
  IF cursor.shown \/ ~vt.cursor_visible
  THEN UNCHANGED <<vt, cursor>>
  ELSE /\ cursor' = [shown |-> TRUE, x |-> vt.cr_x, y |-> vt.cr_y]
       /\ vt' = [vt EXCEPT !.marked = @ \cup {<<vt.cr_y, vt.cr_x>>}]

(* What a slip would do: the cursor stays painted while bytes are handled. *)
BeginPainted == task = "idle" /\ task' = "batch" /\ UNCHANGED <<vt, cursor, state>>
(* terminal_task finds bytes in its queue.                                 *)
BeginBatch == task = "idle" /\ task' = "batch" /\ cursor_hide /\ UNCHANGED state
EndBatch == task = "batch" /\ task' = "idle" /\ cursor_show /\ UNCHANGED state

(* 400 ms later: on or off in turn, however it was left.                   *)
Blink == task = "idle" /\ (cursor_show \/ cursor_hide) /\ UNCHANGED <<state, task>>

(* vt_init, after the greeting has moved the cursor anywhere.              *)
Init ==
  /\ \E x \in Cols, y \in Rows :
       vt = [cr_x |-> x, cr_y |-> y, wrap_pending |-> FALSE, top |-> 0, bot |-> H - 1,
             insert_mode |-> FALSE, autowrap |-> TRUE, origin_mode |-> FALSE,
             cursor_visible |-> TRUE, save_x |-> x, save_y |-> y, save_origin |-> FALSE,
             marked |-> {}, from |-> Still]
  /\ state = "ground"
  /\ task = "idle"
  /\ cursor = NotShown

Next == vt_putc \/ BeginBatch \/ EndBatch \/ Blink

Spec == Init /\ [][Next]_vars

-----------------------------------------------------------------------------
TypeOK ==
  /\ vt.cr_x \in Cols /\ vt.cr_y \in Rows
  /\ vt.save_x \in Cols /\ vt.save_y \in Rows
  /\ vt.top \in Rows /\ vt.bot \in Rows /\ vt.top < vt.bot
  /\ \A b \in {vt.wrap_pending, vt.insert_mode, vt.autowrap, vt.origin_mode,
               vt.cursor_visible, vt.save_origin} : b \in BOOLEAN
  /\ vt.marked \subseteq Rows \X Cols
  /\ vt.from \in [Rows -> Rows \cup {Blank}]
  /\ state \in {"ground", "esc", "esc_skip", "string", "string_esc"} \cup InCsi
  /\ task \in {"idle", "batch"}
  /\ cursor \in [shown : BOOLEAN, x : Cols, y : Rows]

(* "That way a cell never keeps the cursor's colours" (terminal.c 37-38):  *)
(* whatever the bytes scroll, slide and erase, the cells in the cursor's   *)
(* colours are the one the cursor is painted on, and none when it is off.  *)
CursorColours ==
  vt.marked = IF cursor.shown THEN {<<cursor.y, cursor.x>>} ELSE {}

(* "Rows outside the region don't move" (vt.c 74): whatever scrolls, also  *)
(* by more rows than there are and from a line inserted in the middle.     *)
OutsideStays == \A y \in Rows : y \notin vt.top .. vt.bot => vt.from[y] = y

(* In origin mode the cursor lives within the margins: no movement, line   *)
(* feed, wrap or change of margins takes it out; only restoring a cursor   *)
(* saved under other margins does (restore_cursor does not clamp).         *)
InMargins(v) == v.cr_y \in v.top .. v.bot
Restored == vt'.cr_x = vt.save_x /\ vt'.cr_y = vt.save_y /\ vt'.origin_mode = vt.save_origin
OriginHolds ==
  [][ vt'.origin_mode /\ (vt.origin_mode => InMargins(vt)) => InMargins(vt') \/ Restored ]_vars
=============================================================================
