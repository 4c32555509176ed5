------------------------------ MODULE VtProofs ------------------------------
(***************************************************************************)
(* The terminal, for every screen of at least two rows and every bound on  *)
(* the parameters: the cursor and the margins stay on the screen, no cell  *)
(* keeps the cursor's colours, rows outside the margins do not move, and   *)
(* origin mode keeps the cursor within the margins.                        *)
(***************************************************************************)
EXTENDS VtTerminal, TLAPS

-----------------------------------------------------------------------------
(* What every byte keeps of the terminal.                                  *)

Terminal ==
  [cr_x : Cols, cr_y : Rows, wrap_pending : BOOLEAN, top : Rows, bot : Rows,
   insert_mode : BOOLEAN, autowrap : BOOLEAN, origin_mode : BOOLEAN,
   cursor_visible : BOOLEAN, save_x : Cols, save_y : Rows, save_origin : BOOLEAN,
   marked : SUBSET (Rows \X Cols), from : [Rows -> Rows \cup {Blank}]]

OutsideFixed(v) == \A y \in Rows : y \notin v.top..v.bot => v.from[y] = y

(* While bytes are fed no cell has the cursor's colours.                   *)
Sound(v) == v \in Terminal /\ v.top < v.bot /\ v.marked = {} /\ OutsideFixed(v)

LEMMA Bounds == W \in Nat /\ W > 0 /\ H \in Nat /\ H > 1 /\ MaxParam \in Nat
  BY ScreenAssumption

(* A step that leaves cells, rows and margins alone.                       *)
Same(v, w) ==
  /\ w \in Terminal
  /\ w.top = v.top /\ w.bot = v.bot /\ w.marked = v.marked /\ w.from = v.from

LEMMA SameSound ==
  ASSUME NEW v, Sound(v), NEW w, Same(v, w)
  PROVE  Sound(w)
  BY DEF Sound, Same, OutsideFixed

LEMMA ClearSound ==
  ASSUME NEW v, Sound(v), NEW y, NEW x0, NEW x1
  PROVE  clear_cells(v, y, x0, x1) = v /\ clear_rows(v, x0, x1) = v
<1>1. v \in Terminal /\ v.marked = {}
  BY DEF Sound
<1>2. {} \ ({y} \X (x0 .. x1 - 1)) = {} /\ {} \ ((x0 .. x1) \X Cols) = {}
  OBVIOUS
<1>3. [v EXCEPT !.marked = {}] = v
  BY <1>1 DEF Terminal
<1> QED BY <1>1, <1>2, <1>3, Zenon DEF clear_cells, clear_rows

LEMMA SlideSound ==
  ASSUME NEW v, Sound(v), NEW y, NEW x, NEW by
  PROVE  Slide(v, y, x, by) = v
<1>1. v \in Terminal /\ v.marked = {}
  BY DEF Sound
<1>2. {p \in {} : p[1] # y \/ p[2] < x}
        \cup {p \in {y} \X (x .. W - 1) : p[2] - by >= x /\ <<y, p[2] - by>> \in {}} = {}
  OBVIOUS
<1>3. [v EXCEPT !.marked = {}] = v
  BY <1>1 DEF Terminal
<1> QED BY <1>1, <1>2, <1>3, Zenon DEF Slide

LEMMA ShiftSound ==
  ASSUME NEW v, Sound(v), NEW top \in v.top..v.bot, NEW bot \in v.top..v.bot, NEW by \in Int
  PROVE  Sound(Shift(v, top, bot, by))
<1>1. v \in Terminal /\ v.marked = {} /\ v.top \in Rows /\ v.bot \in Rows
  BY DEF Sound, Terminal
<1> DEFINE inside(y) == y \in top..bot
           from == [y \in Rows |-> IF ~inside(y) THEN v.from[y]
                                   ELSE IF inside(y + by) THEN v.from[y + by] ELSE Blank]
<1>2. Shift(v, top, bot, by) = [v EXCEPT !.marked = {}, !.from = from]
  <2>1. {p \in {} : ~inside(p[1])}
          \cup {p \in Rows \X Cols : inside(p[1]) /\ inside(p[1] + by)
                                     /\ <<p[1] + by, p[2]>> \in {}} = {}
    OBVIOUS
  <2> QED BY <1>1, <2>1, Zenon DEF Shift
<1>3. from \in [Rows -> Rows \cup {Blank}]
  <2> SUFFICES ASSUME NEW y \in Rows PROVE from[y] \in Rows \cup {Blank}
    OBVIOUS
  <2>1. ASSUME inside(y + by) PROVE y + by \in Rows
    BY <1>1, <2>1, Bounds DEF Rows
  <2>2. v.from \in [Rows -> Rows \cup {Blank}]
    BY <1>1 DEF Terminal
  <2> QED BY <2>1, <2>2
<1>4. \A y \in Rows : y \notin v.top..v.bot => from[y] = y
  <2> SUFFICES ASSUME NEW y \in Rows, y \notin v.top..v.bot PROVE from[y] = y
    OBVIOUS
  <2>1. ~inside(y)
    BY <1>1, Bounds DEF Rows
  <2>2. v.from[y] = y
    BY DEF Sound, OutsideFixed
  <2> QED BY <2>1, <2>2
<1> HIDE DEF from
<1>5. PICK w : w = [v EXCEPT !.marked = {}, !.from = from]
  OBVIOUS
<1>6. /\ w \in Terminal /\ w.marked = {} /\ w.from = from
      /\ w.top = v.top /\ w.bot = v.bot
  BY <1>1, <1>3, <1>5 DEF Terminal
<1>7. Sound(w)
  BY <1>4, <1>6 DEF Sound, OutsideFixed
<1> QED BY <1>2, <1>5, <1>7, Zenon

LEMMA ScrollSound ==
  ASSUME NEW v, Sound(v), NEW top \in v.top..v.bot, NEW n \in Nat
  PROVE  Sound(scroll_up(v, top, v.bot, n)) /\ Sound(scroll_down(v, top, v.bot, n))
<1>1. v.top \in Rows /\ v.bot \in Rows /\ v.bot \in v.top..v.bot
  BY Bounds DEF Sound, Terminal, Rows
<1>2. PICK k \in Int : k = Least(n, v.bot - top + 1)
  BY <1>1, Bounds DEF Least, Rows
<1>3. Sound(Shift(v, top, v.bot, k)) /\ Sound(Shift(v, top, v.bot, -k))
  BY <1>1, <1>2, ShiftSound
<1> QED BY <1>2, <1>3, Zenon DEF scroll_up, scroll_down

-----------------------------------------------------------------------------
(* The cursor.                                                             *)

LEMMA SetCursorSound ==
  ASSUME NEW v, Sound(v), NEW x \in Int, NEW y \in Int
  PROVE  Sound(set_cursor(v, x, y))
<1>1. v \in Terminal /\ v.top \in Rows /\ v.bot \in Rows
  BY DEF Sound, Terminal
<1>2. PICK lo \in Rows : lo = IF v.origin_mode THEN v.top ELSE 0
  BY <1>1, Bounds DEF Rows
<1>3. PICK hi \in Rows : hi = IF v.origin_mode THEN v.bot ELSE H - 1
  BY <1>1, Bounds DEF Rows
<1>4. lo <= hi
  BY <1>1, <1>2, <1>3, Bounds DEF Sound, Rows
<1>5. PICK cx \in Cols : cx = Most(0, Least(x, W - 1))
  BY Bounds DEF Most, Least, Cols
<1>6. PICK cy \in Rows : cy = Most(lo, Least(y + lo, hi))
  BY <1>2, <1>3, <1>4, Bounds DEF Most, Least, Rows
<1>7. PICK w : w = [v EXCEPT !.cr_x = cx, !.cr_y = cy, !.wrap_pending = FALSE]
  OBVIOUS
<1>8. Same(v, w)
  BY <1>1, <1>7 DEF Same, Terminal
<1>9. set_cursor(v, x, y) = w
  BY <1>2, <1>3, <1>5, <1>6, <1>7, Zenon DEF set_cursor
<1> QED BY <1>8, <1>9, SameSound, Zenon

LEMMA SettledSound == ASSUME NEW v, Sound(v) PROVE Sound(Settled(v))
<1>1. Same(v, Settled(v))
  BY DEF Same, Sound, Settled, Terminal
<1> QED BY <1>1, SameSound

LEMMA ColumnSound ==
  ASSUME NEW v, Sound(v), NEW x \in Cols
  PROVE  Sound(Column(v, x)) /\ Column(v, x).cr_y = v.cr_y
                             /\ Column(v, x).top = v.top /\ Column(v, x).bot = v.bot
<1>1. Same(v, Column(v, x)) /\ Column(v, x).cr_y = v.cr_y
  BY DEF Same, Sound, Column, Terminal
<1> QED BY <1>1, SameSound DEF Same

LEMMA RowSound ==
  ASSUME NEW v, Sound(v), NEW y \in Rows
  PROVE  Sound([v EXCEPT !.cr_y = y])
<1>1. Same(v, [v EXCEPT !.cr_y = y])
  BY DEF Same, Sound, Terminal
<1> QED BY <1>1, SameSound

LEMMA LinefeedSound ==
  ASSUME NEW v, Sound(v)
  PROVE  Sound(linefeed(v)) /\ Sound(reverse_index(v))
<1>1. v.cr_y \in Rows /\ v.top \in v.top..v.bot /\ 1 \in Nat
  BY Bounds DEF Sound, Terminal, Rows
<1>2. Sound(scroll_up(v, v.top, v.bot, 1)) /\ Sound(scroll_down(v, v.top, v.bot, 1))
  BY <1>1, ScrollSound
<1>3. PICK a \in Rows : a = Least(v.cr_y + 1, H - 1)
  BY <1>1, Bounds DEF Least, Rows
<1>4. PICK b \in Rows : b = Most(v.cr_y - 1, 0)
  BY <1>1, Bounds DEF Most, Rows
<1>5. Sound([v EXCEPT !.cr_y = a]) /\ Sound([v EXCEPT !.cr_y = b])
  BY RowSound
<1>6. Sound(linefeed(v))
  BY <1>2, <1>3, <1>5, Zenon DEF linefeed
<1>7. Sound(reverse_index(v))
  BY <1>2, <1>4, <1>5, Zenon DEF reverse_index
<1> QED BY <1>6, <1>7

LEMMA GlyphSound ==
  ASSUME NEW v, Sound(v)
  PROVE  Sound(put_glyph(v))
<1>1. PICK a : a = IF v.wrap_pending /\ v.autowrap THEN linefeed(Column(v, 0)) ELSE v
  OBVIOUS
<1>2. Sound(a)
  <2>1. 0 \in Cols
    BY Bounds DEF Cols
  <2> QED BY <1>1, <2>1, ColumnSound, LinefeedSound
<1>3. PICK b : b = IF a.insert_mode THEN Slide(a, a.cr_y, a.cr_x, 1) ELSE a
  OBVIOUS
<1>4. b = a
  BY <1>2, <1>3, SlideSound
<1>5. PICK c : c = clear_cells(b, b.cr_y, b.cr_x, b.cr_x + 1)
  OBVIOUS
<1>6. c = a
  BY <1>2, <1>4, <1>5, ClearSound
<1>7. CASE c.cr_x < W - 1
  <2>1. PICK x \in Cols : x = c.cr_x + 1
    BY <1>2, <1>6, <1>7, Bounds DEF Sound, Terminal, Cols
  <2>2. Same(c, [c EXCEPT !.cr_x = x, !.wrap_pending = FALSE])
    BY <1>2, <1>6 DEF Same, Sound, Terminal
  <2>3. Sound([c EXCEPT !.cr_x = x, !.wrap_pending = FALSE])
    BY <1>2, <1>6, <2>2, SameSound
  <2> QED BY <1>1, <1>3, <1>5, <1>7, <2>1, <2>3, Zenon DEF put_glyph
<1>8. CASE ~(c.cr_x < W - 1)
  <2>1. Same(c, [c EXCEPT !.wrap_pending = c.autowrap])
    BY <1>2, <1>6 DEF Same, Sound, Terminal
  <2>2. Sound([c EXCEPT !.wrap_pending = c.autowrap])
    BY <1>2, <1>6, <2>1, SameSound
  <2> QED BY <1>1, <1>3, <1>5, <1>8, <2>2, Zenon DEF put_glyph
<1> QED BY <1>7, <1>8

LEMMA SaveSound ==
  ASSUME NEW v, Sound(v)
  PROVE  Sound(save_cursor(v)) /\ Sound(restore_cursor(v))
<1>1. Same(v, save_cursor(v)) /\ Same(v, restore_cursor(v))
  BY DEF Same, Sound, save_cursor, restore_cursor, Terminal
<1> QED BY <1>1, SameSound

LEMMA ResetSound ==
  ASSUME NEW v, Sound(v)
  PROVE  Sound(full_reset(v))
<1>1. PICK first \in Rows : first = 0
  BY Bounds DEF Rows
<1>2. PICK end \in Rows : end = H - 1
  BY Bounds DEF Rows
<1>3. PICK w : w = [v EXCEPT !.insert_mode = FALSE, !.autowrap = TRUE,
                             !.origin_mode = FALSE, !.cursor_visible = TRUE,
                             !.top = first, !.bot = end, !.wrap_pending = FALSE]
  OBVIOUS
<1>4. w \in Terminal /\ w.top = first /\ w.bot = end /\ w.marked = {}
  BY <1>3 DEF Sound, Terminal
<1>5. Sound(w)
  BY <1>1, <1>2, <1>4, Bounds DEF Sound, OutsideFixed, Rows
<1> QED BY <1>1, <1>2, <1>3, <1>5, SaveSound, Zenon DEF full_reset

LEMMA ModeSound ==
  ASSUME NEW v, Sound(v), NEW private, NEW p, NEW on \in BOOLEAN
  PROVE  Sound(set_mode(v, private, p, on))
<1>1. /\ Same(v, [v EXCEPT !.origin_mode = on]) /\ Same(v, [v EXCEPT !.autowrap = on])
      /\ Same(v, [v EXCEPT !.cursor_visible = on]) /\ Same(v, [v EXCEPT !.insert_mode = on])
  BY DEF Same, Sound, Terminal
<1>2. /\ Sound([v EXCEPT !.origin_mode = on]) /\ Sound([v EXCEPT !.autowrap = on])
      /\ Sound([v EXCEPT !.cursor_visible = on]) /\ Sound([v EXCEPT !.insert_mode = on])
  BY <1>1, SameSound
<1>3. Sound(set_cursor([v EXCEPT !.origin_mode = on], 0, 0))
  BY <1>2, SetCursorSound
<1> QED BY <1>2, <1>3 DEF set_mode

-----------------------------------------------------------------------------
(* CSI and ESC sequences.                                                  *)

LEMMA UpDownSound ==
  ASSUME NEW v, Sound(v), NEW n \in Nat
  PROVE  Sound(Up(v, n)) /\ Sound(Down(v, n))
<1>1. v.cr_y \in Rows /\ v.top \in Rows /\ v.bot \in Rows
  BY DEF Sound, Terminal
<1>2. PICK a \in Rows : a = IF v.cr_y >= v.top THEN v.top ELSE 0
  BY <1>1, Bounds DEF Rows
<1>3. PICK b \in Rows : b = IF v.cr_y <= v.bot THEN v.bot ELSE H - 1
  BY <1>1, Bounds DEF Rows
<1>4. a <= v.cr_y /\ v.cr_y <= b
  BY <1>1, <1>2, <1>3, Bounds DEF Rows
<1>5. PICK y \in Rows : y = Most(v.cr_y - n, a)
  BY <1>1, <1>4, Bounds DEF Most, Rows
<1>6. PICK z \in Rows : z = Least(v.cr_y + n, b)
  BY <1>1, <1>4, Bounds DEF Least, Rows
<1>7. Sound(Settled([v EXCEPT !.cr_y = y])) /\ Sound(Settled([v EXCEPT !.cr_y = z]))
  BY RowSound, SettledSound
<1>8. Up(v, n) = Settled([v EXCEPT !.cr_y = y])
  BY <1>2, <1>5, Zenon DEF Up
<1>9. Down(v, n) = Settled([v EXCEPT !.cr_y = z])
  BY <1>3, <1>6, Zenon DEF Down
<1> QED BY <1>7, <1>8, <1>9

LEMMA EraseSound ==
  ASSUME NEW v, Sound(v), NEW p
  PROVE  EraseDisplay(v, p) = v /\ EraseLine(v, p) = v
<1>1. /\ \A y, x0, x1 : clear_cells(v, y, x0, x1) = v
      /\ \A y0, y1 : clear_rows(v, y0, y1) = v
  BY ClearSound
<1> QED BY <1>1, Zenon DEF EraseDisplay, EraseLine

LEMMA LinesSound ==
  ASSUME NEW v, Sound(v), NEW n \in Nat
  PROVE  Sound(InsertLines(v, n)) /\ Sound(DeleteLines(v, n))
<1>1. 0 \in Cols
  BY Bounds DEF Cols
<1>2. CASE v.cr_y \in v.top..v.bot
  <2>1. Sound(scroll_down(v, v.cr_y, v.bot, n)) /\ Sound(scroll_up(v, v.cr_y, v.bot, n))
    BY <1>2, ScrollSound
  <2> QED BY <1>1, <1>2, <2>1, ColumnSound, SettledSound DEF InsertLines, DeleteLines
<1>3. CASE v.cr_y \notin v.top..v.bot
  BY <1>3, SettledSound DEF InsertLines, DeleteLines
<1> QED BY <1>2, <1>3

(* A change of margins comes after the rows are where they were.           *)
LEMMA MarginsSound ==
  ASSUME NEW v, Sound(v), v.from = Still, NEW p \in Nat, NEW q \in Nat
  PROVE  Sound(SetMargins(v, p, q))
<1>1. PICK t \in Nat : t = Or(p, 1) - 1
  BY DEF Or
<1>2. PICK b \in Int : b = Least(Or(q, H) - 1, H - 1)
  BY Bounds DEF Or, Least
<1>3. CASE t < b
  <2>1. t \in Rows /\ b \in Rows
    BY <1>1, <1>2, <1>3, Bounds DEF Rows, Least, Or
  <2>2. PICK w : w = [v EXCEPT !.top = t, !.bot = b]
    OBVIOUS
  <2>3. /\ w \in Terminal /\ w.top = t /\ w.bot = b /\ w.marked = {} /\ w.from = Still
    BY <2>1, <2>2 DEF Sound, Terminal
  <2>4. Sound(w)
    BY <1>3, <2>3 DEF Sound, OutsideFixed, Still
  <2>5. Sound(set_cursor(w, 0, 0))
    BY <2>4, SetCursorSound
  <2> QED BY <1>1, <1>2, <1>3, <2>2, <2>5, Zenon DEF SetMargins
<1>4. CASE ~(t < b)
  BY <1>1, <1>2, <1>4, Zenon DEF SetMargins
<1> QED BY <1>3, <1>4

LEMMA CsiSound ==
  ASSUME NEW v, Sound(v), v.from = Still, NEW f \in OneParam \cup TwoParams,
         NEW p \in Nat, NEW q \in Nat
  PROVE  Sound(run_csi(v, f, p, q))
<1>1. PICK n \in Nat : n = Or(p, 1)
  BY DEF Or
<1>2. PICK m \in Nat : m = Or(q, 1)
  BY DEF Or
<1>3. n > 0 /\ m > 0
  BY <1>1, <1>2 DEF Or
<1>4. v.cr_x \in Cols /\ v.cr_y \in Rows /\ 0 \in Cols /\ v.top \in v.top..v.bot
  BY Bounds DEF Sound, Terminal, Cols, Rows
<1>5. CASE f \in {"A", "B", "E", "F"}
  <2>1. Sound(Column(v, 0))
    BY <1>4, ColumnSound
  <2>2. Sound(Up(v, n)) /\ Sound(Down(v, n))
    BY UpDownSound
  <2>3. Sound(Up(Column(v, 0), n)) /\ Sound(Down(Column(v, 0), n))
    BY <2>1, UpDownSound
  <2> QED BY <1>1, <1>5, <2>2, <2>3 DEF run_csi
<1>6. CASE f \in {"C", "D", "G"}
  <2>1. PICK a \in Cols : a = Least(v.cr_x + n, W - 1)
    BY <1>4, Bounds DEF Least, Cols
  <2>2. PICK b \in Cols : b = Most(v.cr_x - n, 0)
    BY <1>4, Bounds DEF Most, Cols
  <2>3. PICK c \in Cols : c = Least(n - 1, W - 1)
    BY <1>3, Bounds DEF Least, Cols
  <2>4. /\ Sound(Settled(Column(v, a))) /\ Sound(Settled(Column(v, b)))
        /\ Sound(Settled(Column(v, c)))
    BY ColumnSound, SettledSound
  <2> QED BY <1>1, <1>6, <2>1, <2>2, <2>3, <2>4 DEF run_csi
<1>7. CASE f \in {"d", "H"}
  <2>1. n - 1 \in Int /\ m - 1 \in Int /\ v.cr_x \in Int
    BY <1>4, Bounds DEF Cols
  <2>2. Sound(set_cursor(v, v.cr_x, n - 1)) /\ Sound(set_cursor(v, m - 1, n - 1))
    BY <2>1, SetCursorSound
  <2> QED BY <1>1, <1>2, <1>7, <2>2 DEF run_csi
<1>8. CASE f \in {"J", "K"}
  BY <1>8, EraseSound, SettledSound DEF run_csi
<1>9. CASE f \in {"L", "M"}
  BY <1>1, <1>9, LinesSound DEF run_csi
<1>10. CASE f \in {"P", "@"}
  <2>1. \A y, x, by : Slide(v, y, x, by) = v
    BY SlideSound
  <2> QED BY <1>10, <2>1, SettledSound DEF run_csi
<1>11. CASE f = "X"
  <2>1. \A y, x0, x1 : clear_cells(v, y, x0, x1) = v
    BY ClearSound
  <2> QED BY <1>11, <2>1, SettledSound DEF run_csi
<1>12. CASE f \in {"S", "T"}
  BY <1>1, <1>4, <1>12, ScrollSound DEF run_csi
<1>13. CASE f = "r"
  BY <1>13, MarginsSound DEF run_csi
<1>14. CASE f \in {"s", "u", "other"}
  BY <1>14, SaveSound DEF run_csi
<1> QED BY <1>5, <1>6, <1>7, <1>8, <1>9, <1>10, <1>11, <1>12, <1>13, <1>14
        DEF OneParam, TwoParams

LEMMA EscSound ==
  ASSUME NEW v, Sound(v), NEW c \in EscFinals
  PROVE  Sound(esc_final(v, c))
<1>1. 0 \in Cols
  BY Bounds DEF Cols
<1>2. Sound(save_cursor(v)) /\ Sound(restore_cursor(v))
  BY SaveSound
<1>3. Sound(linefeed(v)) /\ Sound(linefeed(Column(v, 0)))
  BY <1>1, LinefeedSound, ColumnSound
<1>4. Sound(Settled(reverse_index(v)))
  BY LinefeedSound, SettledSound
<1>5. Sound(set_cursor(clear_rows(full_reset(v), 0, H - 1), 0, 0))
  <2>1. Sound(full_reset(v))
    BY ResetSound
  <2>2. Sound(clear_rows(full_reset(v), 0, H - 1))
    BY <2>1, ClearSound
  <2> QED BY <2>2, SetCursorSound
<1> QED BY <1>2, <1>3, <1>4, <1>5 DEF esc_final, EscFinals

-----------------------------------------------------------------------------
(* The invariant: one step per byte and per step of terminal_task.         *)

States == {"ground", "esc", "esc_skip", "string", "string_esc"} \cup InCsi

Screen == vt \in Terminal /\ vt.top < vt.bot /\ OutsideFixed(vt)
Places ==
  /\ state \in States
  /\ task \in {"idle", "batch"}
  /\ cursor \in [shown : BOOLEAN, x : Cols, y : Rows]
Unpainted == task = "batch" => ~cursor.shown

IInv == Screen /\ Places /\ Unpainted /\ CursorColours

LEMMA InitIInv == Init => IInv
<1> SUFFICES ASSUME Init PROVE IInv
  OBVIOUS
<1>1. PICK x \in Cols, y \in Rows :
       vt = [cr_x |-> x, cr_y |-> y, wrap_pending |-> FALSE, top |-> 0, bot |-> H - 1,
             insert_mode |-> FALSE, autowrap |-> TRUE, origin_mode |-> FALSE,
             cursor_visible |-> TRUE, save_x |-> x, save_y |-> y, save_origin |-> FALSE,
             marked |-> {}, from |-> Still]
  BY DEF Init
<1>2. 0 \in Rows /\ H - 1 \in Rows /\ 0 \in Cols /\ 0 < H - 1
  BY Bounds DEF Rows, Cols
<1>3. Still \in [Rows -> Rows \cup {Blank}]
  BY DEF Still
<1>4. vt \in Terminal
  BY <1>1, <1>2, <1>3 DEF Terminal
<1>5. Screen
  BY <1>1, <1>2, <1>4 DEF Screen, OutsideFixed, Still
<1>6. Places /\ Unpainted /\ CursorColours
  BY <1>1, <1>2 DEF Init, Places, States, Unpainted, CursorColours, NotShown
<1> QED BY <1>5, <1>6 DEF IInv

LEMMA FreshSound ==
  ASSUME IInv, Feeding
  PROVE  Sound(Fresh) /\ Fresh.from = Still
         /\ Fresh.cr_x = vt.cr_x /\ ~cursor.shown
<1>1. ~cursor.shown /\ vt.marked = {}
  BY DEF IInv, Unpainted, Feeding, CursorColours
<1>2. Still \in [Rows -> Rows \cup {Blank}] /\ \A y \in Rows : Still[y] = y
  BY DEF Still
<1>3. PICK t \in [Rows -> Rows \cup {Blank}] : t = Still
  BY <1>2
<1>4. PICK w : w = [vt EXCEPT !.from = t]
  OBVIOUS
<1>5. /\ w \in Terminal /\ w.marked = {} /\ w.from = t
      /\ w.top = vt.top /\ w.bot = vt.bot /\ w.cr_x = vt.cr_x
  BY <1>1, <1>4 DEF IInv, Screen, Terminal
<1>6. Sound(w)
  BY <1>2, <1>3, <1>5 DEF Sound, OutsideFixed, IInv, Screen
<1> QED BY <1>1, <1>3, <1>4, <1>5, <1>6, Zenon DEF Fresh

(* What a byte does to the terminal, in any state of the parser.           *)
LEMMA ByteSound ==
  ASSUME IInv, vt_putc
  PROVE  /\ \E w : w = vt' /\ Sound(w)
         /\ state' \in States /\ UNCHANGED Outside /\ Feeding
<1>1. /\ Feeding /\ UNCHANGED Outside
  BY DEF vt_putc, Abort, Escape, InString, AfterEscape, Skip, Control, CsiPrefix,
         CsiFinal, Printable
<1>2. state' \in States
  BY DEF vt_putc, Abort, Escape, InString, AfterEscape, Skip, Control, CsiPrefix,
         CsiFinal, Printable, IInv, Places, States, InCsi
<1>3. PICK v : v = Fresh
  OBVIOUS
<1>4. PICK w : w = vt'
  OBVIOUS
<1>5. Sound(v) /\ v.from = Still /\ vt.cr_x \in Cols
  BY <1>1, <1>3, FreshSound DEF IInv, Screen, Terminal
<1>6. ASSUME w = v PROVE Sound(w)
  BY <1>5, <1>6, Zenon
<1>7. ASSUME AfterEscape PROVE Sound(w)
  <2>1. w = v \/ \E c \in EscFinals : w = esc_final(v, c)
    BY <1>3, <1>4, <1>7, Zenon DEF AfterEscape
  <2>2. \A c \in EscFinals : Sound(esc_final(v, c))
    BY <1>5, EscSound
  <2> QED BY <1>6, <2>1, <2>2, Zenon
<1>8. ASSUME Control PROVE Sound(w)
  <2>1. PICK a \in Cols : a = 0
    BY Bounds DEF Cols
  <2>2. PICK b \in Cols : b = Most(vt.cr_x - 1, 0)
    BY <1>5, Bounds DEF Most, Cols
  <2>3. PICK c \in Cols : c = Least((vt.cr_x \div 8 + 1) * 8, W - 1)
    BY <1>5, Bounds DEF Least, Cols
  <2>4. /\ Sound(Settled(Column(v, a))) /\ Sound(linefeed(v))
        /\ Sound(Settled(Column(v, b))) /\ Sound(Column(v, c))
    BY <1>5, ColumnSound, SettledSound, LinefeedSound
  <2>5. \/ w = Settled(Column(v, a)) \/ w = linefeed(v)
        \/ w = Settled(Column(v, b)) \/ w = Column(v, c)
    BY <1>3, <1>4, <1>8, <2>1, <2>2, <2>3, Zenon DEF Control
  <2> QED BY <2>4, <2>5, Zenon
<1>9. ASSUME CsiFinal PROVE Sound(w)
  <2>1. \/ w = v
        \/ \E f \in OneParam, p \in 0 .. MaxParam : w = run_csi(v, f, p, 0)
        \/ \E f \in TwoParams, p, q \in 0 .. MaxParam : w = run_csi(v, f, p, q)
        \/ \E p \in {4, 6, 7, 25}, on \in BOOLEAN :
             w = set_mode(v, state = "csi_private", p, on)
    BY <1>3, <1>4, <1>9, Zenon DEF CsiFinal
  <2>2. ASSUME NEW f \in OneParam, NEW p \in 0 .. MaxParam, w = run_csi(v, f, p, 0)
        PROVE  Sound(w)
    <3>1. p \in Nat /\ 0 \in Nat
      BY Bounds
    <3> QED BY <1>5, <2>2, <3>1, CsiSound
  <2>3. ASSUME NEW f \in TwoParams, NEW p \in 0 .. MaxParam, NEW q \in 0 .. MaxParam,
               w = run_csi(v, f, p, q)
        PROVE  Sound(w)
    <3>1. p \in Nat /\ q \in Nat
      BY Bounds
    <3> QED BY <1>5, <2>3, <3>1, CsiSound
  <2>4. ASSUME NEW p \in {4, 6, 7, 25}, NEW on \in BOOLEAN,
               w = set_mode(v, state = "csi_private", p, on)
        PROVE  Sound(w)
    <3>1. Sound(set_mode(v, state = "csi_private", p, on))
      BY <1>5, ModeSound
    <3> QED BY <2>4, <3>1, Zenon
  <2> QED BY <1>6, <2>1, <2>2, <2>3, <2>4, Zenon
<1>10. ASSUME Printable PROVE Sound(w)
  <2>1. w = put_glyph(v)
    BY <1>3, <1>4, <1>10, Zenon DEF Printable
  <2>2. Sound(put_glyph(v))
    BY <1>5, GlyphSound
  <2> QED BY <2>1, <2>2, Zenon
<1>11. ASSUME Abort \/ Escape \/ InString \/ Skip \/ CsiPrefix PROVE Sound(w)
  <2>1. w = v
    BY <1>3, <1>4, <1>11 DEF Abort, Escape, InString, Skip, CsiPrefix
  <2> QED BY <1>6, <2>1
<1>12. Sound(w)
  BY <1>7, <1>8, <1>9, <1>10, <1>11, Zenon DEF vt_putc
<1> QED BY <1>1, <1>2, <1>4, <1>12

(* terminal_task paints and unpaints one cell.                             *)
LEMMA PaintKeeps ==
  ASSUME IInv, cursor_hide \/ cursor_show
  PROVE  /\ Screen' /\ CursorColours'
         /\ cursor' \in [shown : BOOLEAN, x : Cols, y : Rows]
         /\ cursor_hide => ~cursor'.shown
<1>1. /\ vt \in Terminal /\ cursor \in [shown : BOOLEAN, x : Cols, y : Rows]
      /\ vt.marked = IF cursor.shown THEN {<<cursor.y, cursor.x>>} ELSE {}
  BY DEF IInv, Screen, Places, CursorColours
<1>2. NotShown \in [shown : BOOLEAN, x : Cols, y : Rows] /\ ~NotShown.shown
  BY Bounds DEF NotShown, Cols, Rows
<1>3. CASE UNCHANGED <<vt, cursor>> /\ (cursor_hide => ~cursor.shown)
  BY <1>1, <1>3 DEF IInv, Screen, CursorColours, OutsideFixed
<1>4. CASE cursor_hide /\ cursor.shown
  <2>1. cursor' = NotShown /\ vt' = [vt EXCEPT !.marked = @ \ {<<cursor.y, cursor.x>>}]
    BY <1>4 DEF cursor_hide, Unpaint
  <2>2. vt.marked \ {<<cursor.y, cursor.x>>} = {}
    BY <1>1, <1>4
  <2>3. vt' = [vt EXCEPT !.marked = {}]
    BY <2>1, <2>2, Zenon
  <2>4. /\ vt' \in Terminal /\ vt'.marked = {}
        /\ vt'.top = vt.top /\ vt'.bot = vt.bot /\ vt'.from = vt.from
    BY <1>1, <2>3 DEF Terminal
  <2> QED BY <1>2, <2>1, <2>4 DEF IInv, Screen, CursorColours, OutsideFixed
<1>5. CASE cursor_show /\ ~cursor.shown /\ vt.cursor_visible
  <2>1. /\ cursor' = [shown |-> TRUE, x |-> vt.cr_x, y |-> vt.cr_y]
        /\ vt' = [vt EXCEPT !.marked = @ \cup {<<vt.cr_y, vt.cr_x>>}]
    BY <1>5 DEF cursor_show
  <2>2. PICK x \in Cols : x = vt.cr_x
    BY <1>1 DEF Terminal
  <2>3. PICK y \in Rows : y = vt.cr_y
    BY <1>1 DEF Terminal
  <2>4. vt.marked \cup {<<vt.cr_y, vt.cr_x>>} = {<<y, x>>}
    BY <1>1, <1>5, <2>2, <2>3
  <2>5. vt' = [vt EXCEPT !.marked = {<<y, x>>}]
    BY <2>1, <2>4, Zenon
  <2>6. {<<y, x>>} \in SUBSET (Rows \X Cols)
    OBVIOUS
  <2>7. /\ vt' \in Terminal /\ vt'.marked = {<<y, x>>}
        /\ vt'.top = vt.top /\ vt'.bot = vt.bot /\ vt'.from = vt.from
    BY <1>1, <2>5, <2>6 DEF Terminal
  <2>8. cursor' = [shown |-> TRUE, x |-> x, y |-> y]
    BY <2>1, <2>2, <2>3
  <2>9. cursor'.shown /\ cursor'.x = x /\ cursor'.y = y
        /\ cursor' \in [shown : BOOLEAN, x : Cols, y : Rows]
    BY <2>8
  <2>10. Screen' /\ CursorColours'
    BY <2>7, <2>9 DEF IInv, Screen, CursorColours, OutsideFixed
  <2>11. ~cursor_hide
    <3> SUFFICES ASSUME cursor_hide PROVE FALSE
      OBVIOUS
    <3>1. cursor' = cursor
      BY <1>5 DEF cursor_hide
    <3> QED BY <1>5, <2>9, <3>1
  <2> QED BY <2>9, <2>10, <2>11
<1> QED BY <1>3, <1>4, <1>5 DEF cursor_hide, cursor_show

LEMMA Invariant == Spec => []IInv
<1>1. ASSUME IInv, [Next]_vars PROVE IInv'
  <2>1. CASE vt_putc
    <3>1. /\ vt' \in Terminal /\ vt'.top < vt'.bot /\ vt'.marked = {}
          /\ \A y \in Rows : y \notin vt'.top..vt'.bot => vt'.from[y] = y
          /\ state' \in States /\ task' = task /\ cursor' = cursor /\ Feeding
      BY <1>1, <2>1, ByteSound DEF Outside, Sound, OutsideFixed
    <3>2. ~cursor.shown
      BY <1>1, <3>1, FreshSound
    <3> QED BY <1>1, <3>1, <3>2
            DEF IInv, Screen, Places, Unpainted, CursorColours, OutsideFixed
  <2>2. CASE BeginBatch
    <3>1. Screen' /\ CursorColours' /\ cursor' \in [shown : BOOLEAN, x : Cols, y : Rows]
          /\ ~cursor'.shown
      BY <1>1, <2>2, PaintKeeps DEF BeginBatch
    <3> QED BY <1>1, <2>2, <3>1 DEF IInv, Places, Unpainted, BeginBatch
  <2>3. CASE EndBatch \/ Blink
    <3>1. Screen' /\ CursorColours' /\ cursor' \in [shown : BOOLEAN, x : Cols, y : Rows]
      BY <1>1, <2>3, PaintKeeps DEF EndBatch, Blink
    <3>2. state' = state /\ task' = "idle"
      BY <2>3 DEF EndBatch, Blink
    <3> QED BY <1>1, <3>1, <3>2 DEF IInv, Places, Unpainted
  <2>4. CASE UNCHANGED vars
    BY <1>1, <2>4 DEF vars, IInv, Screen, Places, Unpainted, CursorColours, OutsideFixed
  <2> QED BY <1>1, <2>1, <2>2, <2>3, <2>4 DEF Next
<1> QED BY InitIInv, <1>1, PTL DEF Spec

-----------------------------------------------------------------------------
(* The cursor, the saved cursor and the painted one are on the screen, and *)
(* the margins are two rows of it, as long as every parameter of a         *)
(* sequence is in 0..MaxParam.  For these, no cell that vt.c writes or     *)
(* reads lies outside its arrays; of a number so long that it comes out    *)
(* negative (vt.c:623 adds digits without a limit) nothing is said.        *)
THEOREM TypeCorrect == Spec => []TypeOK
<1>1. IInv => TypeOK
  BY DEF IInv, Screen, Places, States, TypeOK, Terminal
<1> QED BY <1>1, Invariant, PTL

(* No cell keeps the cursor's colours but the one it is painted on.        *)
THEOREM NoGhostCursor == Spec => []CursorColours
<1>1. IInv => CursorColours
  BY DEF IInv
<1> QED BY <1>1, Invariant, PTL

(* Rows outside the margins do not move, however far a scroll goes.        *)
THEOREM OutsideDoesNotMove == Spec => []OutsideStays
<1>1. IInv => OutsideStays
  BY DEF IInv, Screen, OutsideFixed, OutsideStays
<1> QED BY <1>1, Invariant, PTL

-----------------------------------------------------------------------------
(* Origin mode: what keeps the cursor within the margins.                  *)

Kept(v) == v.origin_mode => InMargins(v)

(* The cursor's row, the margins and the mode stay.                        *)
SamePlace(v, w) ==
  /\ w.cr_y = v.cr_y /\ w.top = v.top /\ w.bot = v.bot
  /\ w.origin_mode = v.origin_mode

LEMMA SameKept ==
  ASSUME NEW v, NEW w, Kept(v), SamePlace(v, w)
  PROVE  Kept(w)
  BY DEF Kept, SamePlace, InMargins

LEMMA SettledKept ==
  ASSUME NEW v, Sound(v), Kept(v)
  PROVE  Kept(Settled(v))
<1>1. SamePlace(v, Settled(v))
  BY DEF SamePlace, Settled, Sound, Terminal
<1> QED BY <1>1, SameKept

LEMMA ColumnKept ==
  ASSUME NEW v, Sound(v), Kept(v), NEW x \in Cols
  PROVE  Kept(Column(v, x))
<1>1. SamePlace(v, Column(v, x))
  BY DEF SamePlace, Column, Sound, Terminal
<1> QED BY <1>1, SameKept

(* A move of the cursor within the margins.                                *)
LEMMA RowKept ==
  ASSUME NEW v, Sound(v), NEW y \in Rows, v.origin_mode => y \in v.top .. v.bot
  PROVE  Kept([v EXCEPT !.cr_y = y])
<1>1. PICK w : w = [v EXCEPT !.cr_y = y]
  OBVIOUS
<1>2. /\ w.cr_y = y /\ w.top = v.top /\ w.bot = v.bot
      /\ w.origin_mode = v.origin_mode
  BY <1>1 DEF Sound, Terminal
<1> QED BY <1>1, <1>2 DEF Kept, InMargins

LEMMA ShiftKept ==
  ASSUME NEW v, Sound(v), Kept(v), NEW top, NEW bot, NEW by
  PROVE  Kept(Shift(v, top, bot, by))
<1>1. SamePlace(v, Shift(v, top, bot, by))
  BY DEF SamePlace, Shift, Sound, Terminal
<1> QED BY <1>1, SameKept

LEMMA ScrollKept ==
  ASSUME NEW v, Sound(v), Kept(v), NEW top, NEW bot, NEW n
  PROVE  Kept(scroll_up(v, top, bot, n)) /\ Kept(scroll_down(v, top, bot, n))
  BY ShiftKept DEF scroll_up, scroll_down

(* set_cursor takes the cursor into the margins wherever it was.           *)
LEMMA SetCursorKept ==
  ASSUME NEW v, Sound(v), NEW x \in Int, NEW y \in Int
  PROVE  Kept(set_cursor(v, x, y))
<1>1. v \in Terminal /\ v.top \in Rows /\ v.bot \in Rows /\ v.top < v.bot
  BY DEF Sound, Terminal
<1>2. PICK lo \in Rows : lo = IF v.origin_mode THEN v.top ELSE 0
  BY <1>1, Bounds DEF Rows
<1>3. PICK hi \in Rows : hi = IF v.origin_mode THEN v.bot ELSE H - 1
  BY <1>1, Bounds DEF Rows
<1>4. PICK cx : cx = Most(0, Least(x, W - 1))
  OBVIOUS
<1>5. PICK cy : cy = Most(lo, Least(y + lo, hi))
  OBVIOUS
<1>6. v.origin_mode => cy \in v.top .. v.bot
  BY <1>1, <1>2, <1>3, <1>5, Bounds DEF Most, Least, Rows
<1>7. PICK w : w = [v EXCEPT !.cr_x = cx, !.cr_y = cy, !.wrap_pending = FALSE]
  OBVIOUS
<1>8. w.cr_y = cy /\ w.top = v.top /\ w.bot = v.bot /\ w.origin_mode = v.origin_mode
  BY <1>1, <1>7 DEF Terminal
<1>9. set_cursor(v, x, y) = w
  BY <1>2, <1>3, <1>4, <1>5, <1>7, Zenon DEF set_cursor
<1>10. Kept(w)
  BY <1>6, <1>8 DEF Kept, InMargins
<1> QED BY <1>9, <1>10, Zenon

(* At a margin the rows move instead of the cursor.                        *)
LEMMA LinefeedKept ==
  ASSUME NEW v, Sound(v), Kept(v)
  PROVE  Kept(linefeed(v)) /\ Kept(reverse_index(v))
<1>1. v.cr_y \in Rows /\ v.top \in Rows /\ v.bot \in Rows
  BY DEF Sound, Terminal
<1>2. PICK a \in Rows : a = Least(v.cr_y + 1, H - 1)
  BY <1>1, Bounds DEF Least, Rows
<1>3. PICK b \in Rows : b = Most(v.cr_y - 1, 0)
  BY <1>1, Bounds DEF Most, Rows
<1>4. ASSUME v.cr_y # v.bot  PROVE Kept([v EXCEPT !.cr_y = a])
  <2>1. v.origin_mode => a \in v.top .. v.bot
    BY <1>1, <1>2, <1>4, Bounds DEF Kept, InMargins, Least, Rows
  <2> QED BY <2>1, RowKept
<1>5. ASSUME v.cr_y # v.top  PROVE Kept([v EXCEPT !.cr_y = b])
  <2>1. v.origin_mode => b \in v.top .. v.bot
    BY <1>1, <1>3, <1>5, Bounds DEF Kept, InMargins, Most, Rows
  <2> QED BY <2>1, RowKept
<1>6. Kept(scroll_up(v, v.top, v.bot, 1)) /\ Kept(scroll_down(v, v.top, v.bot, 1))
  BY ScrollKept
<1>7. Kept(linefeed(v))
  BY <1>2, <1>4, <1>6, Zenon DEF linefeed
<1>8. Kept(reverse_index(v))
  BY <1>3, <1>5, <1>6, Zenon DEF reverse_index
<1> QED BY <1>7, <1>8

LEMMA GlyphKept ==
  ASSUME NEW v, Sound(v), Kept(v)
  PROVE  Kept(put_glyph(v))
<1>1. PICK a : a = IF v.wrap_pending /\ v.autowrap THEN linefeed(Column(v, 0)) ELSE v
  OBVIOUS
<1>2. Sound(a) /\ Kept(a)
  <2>1. 0 \in Cols
    BY Bounds DEF Cols
  <2> QED BY <1>1, <2>1, ColumnSound, LinefeedSound, ColumnKept, LinefeedKept
<1>3. PICK b : b = IF a.insert_mode THEN Slide(a, a.cr_y, a.cr_x, 1) ELSE a
  OBVIOUS
<1>4. b = a
  BY <1>2, <1>3, SlideSound
<1>5. PICK c : c = clear_cells(b, b.cr_y, b.cr_x, b.cr_x + 1)
  OBVIOUS
<1>6. c = a
  BY <1>2, <1>4, <1>5, ClearSound
<1>7. /\ SamePlace(c, [c EXCEPT !.cr_x = @ + 1, !.wrap_pending = FALSE])
      /\ SamePlace(c, [c EXCEPT !.wrap_pending = c.autowrap])
  BY <1>2, <1>6 DEF SamePlace, Sound, Terminal
<1>8. /\ Kept([c EXCEPT !.cr_x = @ + 1, !.wrap_pending = FALSE])
      /\ Kept([c EXCEPT !.wrap_pending = c.autowrap])
  BY <1>2, <1>6, <1>7, SameKept
<1> QED BY <1>1, <1>3, <1>5, <1>8, Zenon DEF put_glyph

LEMMA SaveKept ==
  ASSUME NEW v, Sound(v), Kept(v)
  PROVE  Kept(save_cursor(v))
<1>1. SamePlace(v, save_cursor(v))
  BY DEF SamePlace, save_cursor, Sound, Terminal
<1> QED BY <1>1, SameKept

(* The mode itself: its change homes the cursor.                           *)
LEMMA ModeKept ==
  ASSUME NEW v, Sound(v), Kept(v), NEW private, NEW p, NEW on \in BOOLEAN
  PROVE  Kept(set_mode(v, private, p, on))
<1>1. Sound([v EXCEPT !.origin_mode = on])
  <2>1. Same(v, [v EXCEPT !.origin_mode = on])
    BY DEF Same, Sound, Terminal
  <2> QED BY <2>1, SameSound
<1>2. Kept(set_cursor([v EXCEPT !.origin_mode = on], 0, 0))
  BY <1>1, SetCursorKept
<1>3. /\ SamePlace(v, [v EXCEPT !.autowrap = on])
      /\ SamePlace(v, [v EXCEPT !.cursor_visible = on])
      /\ SamePlace(v, [v EXCEPT !.insert_mode = on])
  BY DEF SamePlace, Sound, Terminal
<1>4. /\ Kept([v EXCEPT !.autowrap = on]) /\ Kept([v EXCEPT !.cursor_visible = on])
      /\ Kept([v EXCEPT !.insert_mode = on])
  BY <1>3, SameKept
<1> QED BY <1>2, <1>4 DEF set_mode

(* Up and down stop at the margin when they start within it.               *)
LEMMA UpDownKept ==
  ASSUME NEW v, Sound(v), Kept(v), NEW n \in Nat
  PROVE  Kept(Up(v, n)) /\ Kept(Down(v, n))
<1>1. v.cr_y \in Rows /\ v.top \in Rows /\ v.bot \in Rows
  BY DEF Sound, Terminal
<1>2. PICK a \in Rows : a = IF v.cr_y >= v.top THEN v.top ELSE 0
  BY <1>1, Bounds DEF Rows
<1>3. PICK b \in Rows : b = IF v.cr_y <= v.bot THEN v.bot ELSE H - 1
  BY <1>1, Bounds DEF Rows
<1>4. a <= v.cr_y /\ v.cr_y <= b
  BY <1>1, <1>2, <1>3, Bounds DEF Rows
<1>5. PICK y \in Rows : y = Most(v.cr_y - n, a)
  BY <1>1, <1>4, Bounds DEF Most, Rows
<1>6. PICK z \in Rows : z = Least(v.cr_y + n, b)
  BY <1>1, <1>4, Bounds DEF Least, Rows
<1>7. v.origin_mode => y \in v.top .. v.bot /\ z \in v.top .. v.bot
  BY <1>1, <1>2, <1>3, <1>5, <1>6, Bounds DEF Kept, InMargins, Most, Least, Rows
<1>8. Kept(Settled([v EXCEPT !.cr_y = y])) /\ Kept(Settled([v EXCEPT !.cr_y = z]))
  BY <1>7, RowKept, RowSound, SettledKept
<1>9. Up(v, n) = Settled([v EXCEPT !.cr_y = y])
  BY <1>2, <1>5, Zenon DEF Up
<1>10. Down(v, n) = Settled([v EXCEPT !.cr_y = z])
  BY <1>3, <1>6, Zenon DEF Down
<1> QED BY <1>8, <1>9, <1>10

LEMMA LinesKept ==
  ASSUME NEW v, Sound(v), Kept(v), NEW n \in Nat
  PROVE  Kept(InsertLines(v, n)) /\ Kept(DeleteLines(v, n))
<1>1. 0 \in Cols
  BY Bounds DEF Cols
<1>2. CASE v.cr_y \in v.top..v.bot
  <2>1. Sound(scroll_down(v, v.cr_y, v.bot, n)) /\ Sound(scroll_up(v, v.cr_y, v.bot, n))
    BY <1>2, ScrollSound
  <2>2. Kept(scroll_down(v, v.cr_y, v.bot, n)) /\ Kept(scroll_up(v, v.cr_y, v.bot, n))
    BY ScrollKept
  <2> QED BY <1>1, <1>2, <2>1, <2>2, ColumnSound, ColumnKept, SettledKept
          DEF InsertLines, DeleteLines
<1>3. CASE v.cr_y \notin v.top..v.bot
  BY <1>3, SettledKept DEF InsertLines, DeleteLines
<1> QED BY <1>2, <1>3

(* New margins home the cursor, margins refused change nothing.            *)
LEMMA MarginsKept ==
  ASSUME NEW v, Sound(v), v.from = Still, Kept(v), NEW p \in Nat, NEW q \in Nat
  PROVE  Kept(SetMargins(v, p, q))
<1>1. PICK t \in Nat : t = Or(p, 1) - 1
  BY DEF Or
<1>2. PICK b \in Int : b = Least(Or(q, H) - 1, H - 1)
  BY Bounds DEF Or, Least
<1>3. CASE t < b
  <2>1. t \in Rows /\ b \in Rows
    BY <1>1, <1>2, <1>3, Bounds DEF Rows, Least, Or
  <2>2. PICK w : w = [v EXCEPT !.top = t, !.bot = b]
    OBVIOUS
  <2>3. /\ w \in Terminal /\ w.top = t /\ w.bot = b /\ w.marked = {} /\ w.from = Still
    BY <2>1, <2>2 DEF Sound, Terminal
  <2>4. Sound(w)
    BY <1>3, <2>3 DEF Sound, OutsideFixed, Still
  <2>5. Kept(set_cursor(w, 0, 0))
    BY <2>4, SetCursorKept
  <2> QED BY <1>1, <1>2, <1>3, <2>2, <2>5, Zenon DEF SetMargins
<1>4. CASE ~(t < b)
  BY <1>1, <1>2, <1>4, Zenon DEF SetMargins
<1> QED BY <1>3, <1>4

LEMMA CsiKept ==
  ASSUME NEW v, Sound(v), v.from = Still, Kept(v), NEW f \in OneParam \cup TwoParams,
         NEW p \in Nat, NEW q \in Nat
  PROVE  Kept(run_csi(v, f, p, q)) \/ run_csi(v, f, p, q) = restore_cursor(v)
<1>1. PICK n \in Nat : n = Or(p, 1)
  BY DEF Or
<1>2. PICK m \in Nat : m = Or(q, 1)
  BY DEF Or
<1>3. n > 0 /\ m > 0
  BY <1>1, <1>2 DEF Or
<1>4. v.cr_x \in Cols /\ v.cr_y \in Rows /\ 0 \in Cols
  BY Bounds DEF Sound, Terminal, Cols
<1>5. CASE f \in {"A", "B", "E", "F"}
  <2>1. Sound(Column(v, 0)) /\ Kept(Column(v, 0))
    BY <1>4, ColumnSound, ColumnKept
  <2>2. Kept(Up(v, n)) /\ Kept(Down(v, n))
    BY UpDownKept
  <2>3. Kept(Up(Column(v, 0), n)) /\ Kept(Down(Column(v, 0), n))
    BY <2>1, UpDownKept
  <2> QED BY <1>1, <1>5, <2>2, <2>3 DEF run_csi
<1>6. CASE f \in {"C", "D", "G"}
  <2>1. PICK a \in Cols : a = Least(v.cr_x + n, W - 1)
    BY <1>4, Bounds DEF Least, Cols
  <2>2. PICK b \in Cols : b = Most(v.cr_x - n, 0)
    BY <1>4, Bounds DEF Most, Cols
  <2>3. PICK c \in Cols : c = Least(n - 1, W - 1)
    BY <1>3, Bounds DEF Least, Cols
  <2>4. /\ Kept(Settled(Column(v, a))) /\ Kept(Settled(Column(v, b)))
        /\ Kept(Settled(Column(v, c)))
    BY ColumnSound, ColumnKept, SettledKept
  <2> QED BY <1>1, <1>6, <2>1, <2>2, <2>3, <2>4 DEF run_csi
<1>7. CASE f \in {"d", "H"}
  <2>1. n - 1 \in Int /\ m - 1 \in Int /\ v.cr_x \in Int
    BY <1>4, Bounds DEF Cols
  <2>2. Kept(set_cursor(v, v.cr_x, n - 1)) /\ Kept(set_cursor(v, m - 1, n - 1))
    BY <2>1, SetCursorKept
  <2> QED BY <1>1, <1>2, <1>7, <2>2 DEF run_csi
<1>8. CASE f \in {"J", "K"}
  BY <1>8, EraseSound, SettledKept DEF run_csi
<1>9. CASE f \in {"L", "M"}
  BY <1>1, <1>9, LinesKept DEF run_csi
<1>10. CASE f \in {"P", "@"}
  <2>1. \A y, x, by : Slide(v, y, x, by) = v
    BY SlideSound
  <2> QED BY <1>10, <2>1, SettledKept DEF run_csi
<1>11. CASE f = "X"
  <2>1. \A y, x0, x1 : clear_cells(v, y, x0, x1) = v
    BY ClearSound
  <2> QED BY <1>11, <2>1, SettledKept DEF run_csi
<1>12. CASE f \in {"S", "T"}
  BY <1>12, ScrollKept DEF run_csi
<1>13. CASE f = "r"
  BY <1>13, MarginsKept DEF run_csi
<1>14. CASE f \in {"s", "u", "other"}
  BY <1>14, SaveKept DEF run_csi
<1> QED BY <1>5, <1>6, <1>7, <1>8, <1>9, <1>10, <1>11, <1>12, <1>13, <1>14
        DEF OneParam, TwoParams

LEMMA EscKept ==
  ASSUME NEW v, Sound(v), Kept(v), NEW c \in EscFinals
  PROVE  Kept(esc_final(v, c)) \/ esc_final(v, c) = restore_cursor(v)
<1>1. 0 \in Cols
  BY Bounds DEF Cols
<1>2. Kept(save_cursor(v))
  BY SaveKept
<1>3. Kept(linefeed(v)) /\ Kept(linefeed(Column(v, 0)))
  BY <1>1, LinefeedKept, ColumnSound, ColumnKept
<1>4. Kept(Settled(reverse_index(v)))
  BY LinefeedSound, LinefeedKept, SettledKept
<1>5. Kept(set_cursor(clear_rows(full_reset(v), 0, H - 1), 0, 0))
  <2>1. Sound(full_reset(v))
    BY ResetSound
  <2>2. Sound(clear_rows(full_reset(v), 0, H - 1))
    BY <2>1, ClearSound
  <2> QED BY <2>2, SetCursorKept
<1> QED BY <1>2, <1>3, <1>4, <1>5 DEF esc_final, EscFinals
LEMMA FreshKept ==
  ASSUME IInv
  PROVE  /\ SamePlace(vt, Fresh)
         /\ Fresh.save_x = vt.save_x /\ Fresh.save_y = vt.save_y
         /\ Fresh.save_origin = vt.save_origin
  BY DEF IInv, Screen, Terminal, Fresh, SamePlace

LEMMA RestorePlace ==
  ASSUME NEW v \in Terminal
  PROVE  /\ restore_cursor(v).cr_x = v.save_x /\ restore_cursor(v).cr_y = v.save_y
         /\ restore_cursor(v).origin_mode = v.save_origin
  BY DEF restore_cursor, Terminal

(* A byte keeps the cursor within the margins or restores a saved one.     *)
LEMMA ByteKept ==
  ASSUME IInv, vt_putc, Kept(vt)
  PROVE  (\E w : w = vt' /\ Kept(w)) \/ Restored
<1>1. Feeding
  BY DEF vt_putc, Abort, Escape, InString, AfterEscape, Skip, Control, CsiPrefix,
         CsiFinal, Printable
<1>2. PICK v : v = Fresh
  OBVIOUS
<1>3. PICK w : w = vt'
  OBVIOUS
<1>4. Sound(v) /\ v.from = Still /\ vt.cr_x \in Cols
  BY <1>1, <1>2, FreshSound DEF IInv, Screen, Terminal
<1>5. Kept(v)
  BY <1>2, FreshKept, SameKept
<1>6. SUFFICES Kept(w) \/ w = restore_cursor(v)
  <2>1. ASSUME w = restore_cursor(v)  PROVE Restored
    <3>1. v \in Terminal
      BY <1>4 DEF Sound
    <3>2. w.cr_x = v.save_x /\ w.cr_y = v.save_y /\ w.origin_mode = v.save_origin
      BY <2>1, <3>1, RestorePlace
    <3> QED BY <1>2, <1>3, <3>2, FreshKept DEF Restored
  <2> QED BY <1>3, <2>1
<1>7. CASE AfterEscape
  <2>1. w = v \/ \E c \in EscFinals : w = esc_final(v, c)
    BY <1>2, <1>3, <1>7, Zenon DEF AfterEscape
  <2>2. \A c \in EscFinals : Kept(esc_final(v, c)) \/ esc_final(v, c) = restore_cursor(v)
    BY <1>4, <1>5, EscKept
  <2> QED BY <1>5, <2>1, <2>2, Zenon
<1>8. CASE Control
  <2>1. PICK a \in Cols : a = 0
    BY Bounds DEF Cols
  <2>2. PICK b \in Cols : b = Most(vt.cr_x - 1, 0)
    BY <1>4, Bounds DEF Most, Cols
  <2>3. PICK c \in Cols : c = Least((vt.cr_x \div 8 + 1) * 8, W - 1)
    BY <1>4, Bounds DEF Least, Cols
  <2>4. /\ Kept(Settled(Column(v, a))) /\ Kept(linefeed(v))
        /\ Kept(Settled(Column(v, b))) /\ Kept(Column(v, c))
    BY <1>4, <1>5, ColumnSound, ColumnKept, SettledKept, LinefeedKept
  <2>5. \/ w = Settled(Column(v, a)) \/ w = linefeed(v)
        \/ w = Settled(Column(v, b)) \/ w = Column(v, c)
    BY <1>2, <1>3, <1>8, <2>1, <2>2, <2>3, Zenon DEF Control
  <2> QED BY <2>4, <2>5, Zenon
<1>9. CASE CsiFinal
  <2>1. \/ w = v
        \/ \E f \in OneParam, p \in 0 .. MaxParam : w = run_csi(v, f, p, 0)
        \/ \E f \in TwoParams, p, q \in 0 .. MaxParam : w = run_csi(v, f, p, q)
        \/ \E p \in {4, 6, 7, 25}, on \in BOOLEAN :
             w = set_mode(v, state = "csi_private", p, on)
    BY <1>2, <1>3, <1>9, Zenon DEF CsiFinal
  <2>2. ASSUME NEW f \in OneParam \cup TwoParams, NEW p \in Nat, NEW q \in Nat
        PROVE  Kept(run_csi(v, f, p, q)) \/ run_csi(v, f, p, q) = restore_cursor(v)
    BY <1>4, <1>5, CsiKept
  <2>3. ASSUME NEW p, NEW on \in BOOLEAN
        PROVE  Kept(set_mode(v, state = "csi_private", p, on))
    BY <1>4, <1>5, ModeKept
  <2>4. 0 .. MaxParam \subseteq Nat /\ 0 \in Nat
    BY Bounds
  <2>5. ASSUME NEW f \in OneParam, NEW p \in 0 .. MaxParam, w = run_csi(v, f, p, 0)
        PROVE  Kept(w) \/ w = restore_cursor(v)
    <3>1. f \in OneParam \cup TwoParams /\ p \in Nat /\ 0 \in Nat
      BY <2>4
    <3> QED BY <2>2, <2>5, <3>1, Zenon
  <2>6. ASSUME NEW f \in TwoParams, NEW p \in 0 .. MaxParam, NEW q \in 0 .. MaxParam,
               w = run_csi(v, f, p, q)
        PROVE  Kept(w) \/ w = restore_cursor(v)
    <3>1. f \in OneParam \cup TwoParams /\ p \in Nat /\ q \in Nat
      BY <2>4
    <3> QED BY <2>2, <2>6, <3>1, Zenon
  <2> QED BY <1>5, <2>1, <2>3, <2>5, <2>6, Zenon
<1>10. CASE Printable
  <2>1. w = put_glyph(v)
    BY <1>2, <1>3, <1>10, Zenon DEF Printable
  <2> QED BY <1>4, <1>5, <2>1, GlyphKept, Zenon
<1>11. CASE Abort \/ Escape \/ InString \/ Skip \/ CsiPrefix
  <2>1. w = v
    BY <1>2, <1>3, <1>11 DEF Abort, Escape, InString, Skip, CsiPrefix
  <2> QED BY <1>5, <2>1
<1> QED BY <1>7, <1>8, <1>9, <1>10, <1>11, Zenon DEF vt_putc

(* In origin mode no byte takes the cursor out of the margins but the one  *)
(* that restores a cursor saved under other margins (vt.c: set_cursor,     *)
(* linefeed, the margins and the movements), on a screen of any size.      *)
THEOREM OriginModeHolds == Spec => OriginHolds
<1>1. ASSUME IInv, [Next]_vars
      PROVE  [vt'.origin_mode /\ (vt.origin_mode => InMargins(vt))
                => InMargins(vt') \/ Restored]_vars
  <2> SUFFICES ASSUME Next, vt'.origin_mode, vt.origin_mode => InMargins(vt)
               PROVE  InMargins(vt') \/ Restored
    BY <1>1
  <2>1. CASE vt_putc
    BY <1>1, <2>1, ByteKept DEF Kept
  <2>2. CASE BeginBatch \/ EndBatch \/ Blink
    <3>1. vt' = vt \/ \E m : vt' = [vt EXCEPT !.marked = m]
      BY <2>2 DEF BeginBatch, EndBatch, Blink, cursor_hide, cursor_show, Unpaint
    <3>2. /\ vt'.cr_y = vt.cr_y /\ vt'.top = vt.top /\ vt'.bot = vt.bot
          /\ vt'.origin_mode = vt.origin_mode
      BY <1>1, <3>1 DEF IInv, Screen, Terminal
    <3> QED BY <3>2 DEF InMargins
  <2> QED BY <2>1, <2>2 DEF Next
<1> QED BY <1>1, Invariant, PTL DEF Spec, OriginHolds
=============================================================================
