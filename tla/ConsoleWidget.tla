--------------------------- MODULE ConsoleWidget ----------------------------
(***************************************************************************)
(* The window of colinux-console-fltk: the mouse selects text of the       *)
(* console's buffer, which is marked by inverting the attributes of its    *)
(* cells, in the buffer that the messages of the VM change and that the    *)
(* user scrolls through.                                                   *)
(***************************************************************************)
EXTENDS Integers, FiniteSets

CONSTANTS X, Y, MaxY

SizesPositive == X \in Nat \ {0} /\ Y \in Nat \ {0} /\ MaxY \in Nat /\ MaxY >= Y

VARIABLES
    cell,          \* the attribute of each cell: is it inverted
    area,          \* mouse_sx and so on, or loc_start and loc_end
    anchor,        \* mouse_start_x and _y, in columns and rows
    mouse_copy,
    rect,          \* mouse_drag_type
    scroll_lines,
    beyond,        \* the selection left the buffer
    smeared        \* the cells under a selection were changed or replaced

widgetVars == <<cell, area, anchor, mouse_copy, rect, scroll_lines, beyond, smeared>>

Cells == 0..(X * MaxY - 1)
NoArea == [sx |-> 0, wx |-> 0, sy |-> 0, wy |-> 0, start |-> 0, end |-> 0]
Lesser(i, j) == IF i < j THEN i ELSE j
Distance(i, j) == IF i < j THEN j - i ELSE i - j

Init ==
    /\ cell = [i \in Cells |-> FALSE]
    /\ area = NoArea /\ anchor = <<0, 0>> /\ mouse_copy = FALSE /\ rect = FALSE
    /\ scroll_lines = 0 /\ beyond = FALSE /\ smeared = FALSE
-----------------------------------------------------------------------------
\* The index in the buffer of a row and column of what is shown.
Index(row, column) == (MaxY - Y + scroll_lines + row) * X + column

\* The cells invert_area inverts, in the buffer or not.
Marked(drag) ==
    IF drag
      THEN {Index(r, c) : r \in area.sy..(area.sy + area.wy - 1), c \in area.sx..(area.sx + area.wx - 1)}
      ELSE Index(0, area.start)..(Index(0, area.end) - 1)

Inverted(cells, at) == [i \in Cells |-> (i \in at) # cells[i]]

Runs == ~beyond /\ ~smeared

\* calc_area, with loc_x and loc_y, which give 0 to config.x and 0 to config.y.
Area(x, y) ==
    IF rect
      THEN LET sx == Lesser(anchor[1], x)
               wx == IF Distance(anchor[1], x) = 0 THEN 1 ELSE Distance(anchor[1], x)
               sy == Lesser(anchor[2], y)
               wy == IF Distance(anchor[2], y) = 0 THEN 1 ELSE Distance(anchor[2], y)
           IN  [area EXCEPT !.sx = sx, !.wx = IF sx + wx > X THEN X - sx ELSE wx,
                            !.sy = sy, !.wy = IF sy + wy > Y THEN Y ELSE wy]
      ELSE LET from == anchor[1] + anchor[2] * X  to == x + y * X
           IN  [area EXCEPT !.start = Lesser(from, to), !.end = from + to - Lesser(from, to)]

MousePush(x, y, drag) ==
    /\ Runs
    /\ cell' = Inverted(cell, Marked(rect))
    /\ area' = NoArea /\ anchor' = <<x, y>> /\ mouse_copy' = TRUE /\ rect' = drag
    /\ UNCHANGED <<scroll_lines, beyond, smeared>>

MouseDrag(x, y) ==
    /\ Runs /\ mouse_copy
    /\ area' = Area(x, y)
    /\ UNCHANGED <<anchor, mouse_copy, rect, scroll_lines, smeared>>
    /\ cell' = Inverted(Inverted(cell, Marked(rect)), Marked(rect)')
    /\ beyond' = ~(Marked(rect)' \subseteq Cells)

\* copy_mouse_selection: what it writes into a clipboard of screen_size_bytes, and a byte.
Copied == IF rect THEN (area.wx + 2) * area.wy ELSE area.end - area.start
screen_size_bytes == (X + 2) * Y

\* mouse_clear
Clear == /\ cell' = Inverted(cell, Marked(rect))
         /\ area' = NoArea /\ anchor' = <<0, 0>> /\ mouse_copy' = FALSE

\* scroll_back_buffer, by the wheel or by a page.
ScrollBack(delta) ==
    /\ Runs
    /\ IF mouse_copy THEN Clear ELSE UNCHANGED <<cell, area, anchor, mouse_copy>>
    /\ scroll_lines' = IF scroll_lines + delta > 0 THEN 0
                       ELSE IF scroll_lines + delta < Y - MaxY THEN Y - MaxY ELSE scroll_lines + delta
    /\ UNCHANGED <<rect, beyond, smeared>>

\* handle_console_event: the operation comes first, then the selection goes.  changed are
\* the cells the operation wrote.
Event(changed) ==
    /\ Runs
    /\ LET written == [i \in Cells |-> IF i \in changed THEN FALSE ELSE cell[i]]
       IN  IF mouse_copy
             THEN /\ cell' = Inverted(written, Marked(rect))
                  /\ area' = NoArea /\ anchor' = <<0, 0>> /\ mouse_copy' = FALSE
             ELSE cell' = written /\ UNCHANGED <<area, anchor, mouse_copy>>
    /\ smeared' = (changed \cap Marked(rect) # {})
    /\ scroll_lines' = 0
    /\ UNCHANGED <<rect, beyond>>

\* The console is attached again: the widget is given a new buffer, and keeps the rest.
SetConsole ==
    /\ cell' = [i \in Cells |-> FALSE]
    /\ smeared' = (Marked(rect) # {}) /\ beyond' = FALSE
    /\ UNCHANGED <<area, anchor, mouse_copy, rect, scroll_lines>>

Next ==
    \/ \E x \in 0..X, y \in 0..Y : MouseDrag(x, y) \/ \E drag \in BOOLEAN : MousePush(x, y, drag)
    \/ \E delta \in {-Y, -1, 1, Y} : ScrollBack(delta)
    \/ \E r \in 0..(Y - 1), c \in 0..(X - 1) : Event({(MaxY - Y + r) * X + c})
    \/ Event(Cells)
    \/ SetConsole

Spec == Init /\ [][Next]_widgetVars
-----------------------------------------------------------------------------
\* The cells shown inverted are those of the selection, and none without one: while it is
\* dragged, replaced by one of the other kind, scrolled or ended by a message, unless the
\* cells changed under it or it was dragged out of the buffer.  Its text fits the clipboard,
\* unless it is of lines and ends in the row below the last one, where loc_y lets it end.
MarksExact == Runs =>
    /\ {i \in Cells : cell[i]} = Marked(rect)
    /\ ~mouse_copy => area = NoArea
    /\ scroll_lines \in (Y - MaxY)..0
    /\ Copied <= screen_size_bytes \/ (~rect /\ area.end > X * Y)
=============================================================================
