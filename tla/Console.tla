------------------------------ MODULE Console -------------------------------
(***************************************************************************)
(* The console of a VM is kept three times.  The guest draws on a screen   *)
(* of its own and sends an operation for each change (cocon); the monitor  *)
(* does it on a buffer that also holds the lines scrolled away             *)
(* (common/console.c), and passes it on to the console that is attached,   *)
(* which does the same on a copy.  A console that attaches asks for what   *)
(* there is, and is sent it line by line by its own thread, which nothing  *)
(* keeps apart from the thread of the guest.                               *)
(***************************************************************************)
EXTENDS Integers, Sequences, SequencesExt, FiniteSets

CONSTANTS
    X, Y,          \* config.x, config.y: the size of the screen
    MaxY,          \* config.max_y: the lines of the buffer
    MaxOps         \* bound: operations of the guest

SizesPositive == X \in Nat \ {0} /\ Y \in Nat \ {0} /\ MaxY \in Nat /\ MaxY >= Y

VARIABLES
    screen,        \* the guest's: what is at each row and column, and the cursor
    history,       \* the rows that left the guest's screen at the top
    kernel,        \* cmon->console
    pending,       \* an operation passed on, but not done by the monitor yet
    queue,         \* messages on the way to the console
    user,          \* the console's copy, or Nothing
    replay,        \* co_monitor_user_get_console: the line it is at, or done
    raced,         \* an operation of the guest met the replay
    ops

conVars == <<screen, history, kernel, pending, queue, user, replay, raced, ops>>

Nothing   == [type |-> "none"]
Rows   == 0..(Y - 1)
Cols   == 0..(X - 1)
Places == Rows \X Cols
Cells  == 0..(X * MaxY - 1)
ScreenAt == (MaxY - Y) * X
Blank  == -1
Drawn  == -2
Zero   == -3

\* The contents at first are all different: what each place holds is where it was.
Init ==
    /\ screen = [at |-> [p \in Places |-> ScreenAt + p[1] * X + p[2]], cursor |-> <<0, 0>>]
    /\ history = [r \in 1..(MaxY - Y) |-> [c \in Cols |-> (r - 1) * X + c]]
    /\ kernel = [buffer |-> [i \in Cells |-> i], cursor |-> <<0, 0>>]
    /\ pending = Nothing /\ queue = <<>> /\ user = Nothing
    /\ replay = [at |-> "none"] /\ raced = FALSE /\ ops = 0
-----------------------------------------------------------------------------
(* co_console_op                                                           *)

Memmove(b, to, from, n) == [i \in Cells |-> IF i \in to..(to + n - 1) THEN b[from + i - to] ELSE b[i]]
Fill(b, to, n, cell) == [i \in Cells |-> IF i \in to..(to + n - 1) THEN cell ELSE b[i]]

\* A part of the screen, or the buffer with all of it.
ScrollUp(b, m) ==
    LET t == X * m.top  s == X * m.lines
        part == X * (m.bottom + 1) - s
        all  == X * MaxY - s
    IN  IF m.top # 0 \/ m.bottom + 1 # Y
          THEN Fill(Memmove(b, ScreenAt + t, ScreenAt + t + s, part - t), ScreenAt + part, s, Blank)
          ELSE Fill(Memmove(b, 0, s, all), all, s, Blank)

ScrollDown(b, m) ==
    LET t == X * m.top  s == X * m.lines
    IN  Fill(Memmove(b, ScreenAt + t + s, ScreenAt + t, X * (m.bottom + 1) - t - s), ScreenAt + t, s, Blank)

\* CO_OPERATION_CONSOLE_PUTCS on the screen, INIT_SCROLLBUFFER on the buffer: cut at the row's end.
Putcs(b, base, m) ==
    LET n == IF m.count > X - m.x THEN X - m.x ELSE m.count
        d == base + X * m.y + m.x
    IN  [i \in Cells |-> IF i \in d..(d + n - 1) THEN m.data[i - d + 1] ELSE b[i]]

Clear(b, m) ==
    [i \in Cells |-> IF \E r \in m.top..m.bottom :
                          i \in (ScreenAt + X * r + m.left)..(ScreenAt + X * r + m.right)
                     THEN Blank ELSE b[i]]

\* Row by row, from the side that is not overwritten.
Bmove(b, m) ==
    LET n   == m.bottom - m.top + 1
        row(i) == IF m.row < m.top THEN i - 1 ELSE n - i
        moved[i \in 0..n] ==
            IF i = 0 THEN b
            ELSE Memmove(moved[i - 1], ScreenAt + X * (m.row + row(i)) + m.column,
                         ScreenAt + X * (m.top + row(i)) + m.left, m.right - m.left + 1)
    IN  moved[n]

ConsoleOp(c, m) ==
    CASE m.type = "scroll_up"   -> [c EXCEPT !.buffer = ScrollUp(@, m)]
      [] m.type = "scroll_down" -> [c EXCEPT !.buffer = ScrollDown(@, m)]
      [] m.type = "putcs"       -> [c EXCEPT !.buffer = Putcs(@, ScreenAt, m)]
      [] m.type = "init"        -> [c EXCEPT !.buffer = Putcs(@, 0, m)]
      [] m.type = "clear"       -> [c EXCEPT !.buffer = Clear(@, m)]
      [] m.type = "bmove"       -> [c EXCEPT !.buffer = Bmove(@, m)]
      [] m.type = "cursor"      -> [c EXCEPT !.cursor = m.at]
      [] m.type = "switch"      -> [c EXCEPT !.buffer = Fill(@, 0, ScreenAt, Zero)]
-----------------------------------------------------------------------------
(* The guest: vt.c draws, cocon sends.                                     *)

Draw(at, ch) == screen' = [screen EXCEPT !.at = [p \in Places |-> IF p \in at THEN ch ELSE @[p]]]

Send(m) == /\ pending' = m
           /\ queue' = IF user = Nothing THEN queue ELSE Append(queue, m)
           /\ raced' = (raced \/ replay.at \in {"buffer", "screen", "cursor"})
           /\ ops' = ops + 1

GuestPutcs(y, x, n) ==
    /\ Draw({<<y, c>> : c \in x..(x + n - 1)}, Drawn)
    /\ Send([type |-> "putcs", x |-> x, y |-> y, count |-> n, data |-> [i \in 1..n |-> Drawn]])
    /\ UNCHANGED history

GuestClear(t, b, l, r) ==
    /\ Draw((t..b) \X (l..r), Blank)
    /\ Send([type |-> "clear", top |-> t, left |-> l, bottom |-> b, right |-> r])
    /\ UNCHANGED history

\* Rows t to b - 1; the rows that leave a whole screen are remembered.
GuestScroll(t, b, dir, n) ==
    /\ screen' = [screen EXCEPT !.at = [p \in Places |->
         LET from == IF dir = "scroll_up" THEN p[1] + n ELSE p[1] - n
         IN  IF p[1] \notin t..(b - 1) THEN @[p]
             ELSE IF from \in t..(b - 1) THEN @[<<from, p[2]>>] ELSE Blank]]
    /\ history' = IF dir = "scroll_up" /\ t = 0 /\ b = Y
         THEN history \o [r \in 1..n |-> [c \in Cols |-> screen.at[<<r - 1, c>>]]]
         ELSE history
    /\ Send([type |-> dir, top |-> t, bottom |-> b - 1, lines |-> n])

GuestBmove(sy, sx, dy, dx, h, w) ==
    /\ screen' = [screen EXCEPT !.at = [p \in Places |->
         IF p \in (dy..(dy + h - 1)) \X (dx..(dx + w - 1)) THEN @[<<p[1] - dy + sy, p[2] - dx + sx>>] ELSE @[p]]]
    /\ Send([type |-> "bmove", row |-> dy, column |-> dx, top |-> sy, left |-> sx,
             bottom |-> sy + h - 1, right |-> sx + w - 1])
    /\ UNCHANGED history

GuestCursor(y, x) ==
    /\ screen' = [screen EXCEPT !.cursor = <<y, x>>]
    /\ Send([type |-> "cursor", at |-> <<y, x>>])
    /\ UNCHANGED history

\* Another virtual terminal of the guest: the lines scrolled away are of the old one.
GuestSwitch ==
    /\ history' = [r \in 1..(MaxY - Y) |-> [c \in Cols |-> Zero]]
    /\ Send([type |-> "switch"])
    /\ UNCHANGED screen

GuestDraws ==
    /\ pending = Nothing /\ ops < MaxOps
    /\ \/ \E y \in Rows, x \in Cols : GuestCursor(y, x) \/ \E n \in 1..(X - x) : GuestPutcs(y, x, n)
       \/ \E t \in Rows, l \in Cols : \E b \in t..(Y - 1), r \in l..(X - 1) : GuestClear(t, b, l, r)
       \/ \E t \in Rows : \E b \in (t + 1)..Y : \E n \in 1..(b - t - 1), dir \in {"scroll_up", "scroll_down"} :
            GuestScroll(t, b, dir, n)
       \/ \E sy, dy \in Rows, sx, dx \in Cols, h \in 1..Y, w \in 1..X :
            /\ <<sy, sx>> # <<dy, dx>> /\ sy + h <= Y /\ dy + h <= Y /\ sx + w <= X /\ dx + w <= X
            /\ GuestBmove(sy, sx, dy, dx, h, w)
       \/ GuestSwitch
    /\ UNCHANGED <<kernel, user, replay>>

\* incoming_message passes an operation on before it is done on the monitor's console.
MonitorDoes ==
    /\ pending # Nothing
    /\ kernel' = ConsoleOp(kernel, pending) /\ pending' = Nothing
    /\ UNCHANGED <<screen, history, queue, user, replay, raced, ops>>
-----------------------------------------------------------------------------
(* The console that attaches, on Windows: the copy, and its window.        *)

\* ScrollConsoleScreenBuffer on the rows of the region.
op_scroll(w, m, by) == [p \in Places |->
    LET from == p[1] + by
    IN  IF p[1] \notin m.top..m.bottom THEN w[p]
        ELSE IF from \in m.top..m.bottom THEN w[<<from, p[2]>>] ELSE Blank]

\* The same call moves a region: what it leaves is blank.
op_bmove(w, m) == [p \in Places |->
    LET from == <<p[1] - m.row + m.top, p[2] - m.column + m.left>>
        source == (m.top..m.bottom) \X (m.left..m.right)
    IN  IF from \in source THEN w[from] ELSE IF p \in source THEN Blank ELSE w[p]]

op_putcs(w, m) == [p \in Places |->
    IF p[1] = m.y /\ p[2] \in m.x..(m.x + m.count - 1) THEN m.data[p[2] - m.x + 1] ELSE w[p]]

op_clear(w, m) == [p \in Places |-> IF p \in (m.top..m.bottom) \X (m.left..m.right) THEN Blank ELSE w[p]]

\* console_widget_t::event: on the copy, then in the window.
WidgetEvent(u, m) ==
    LET c == ConsoleOp([buffer |-> u.buffer, cursor |-> u.cursor], m)
        w == CASE m.type = "scroll_up"   -> op_scroll(u.window, m, m.lines)
               [] m.type = "scroll_down" -> op_scroll(u.window, m, -m.lines)
               [] m.type = "bmove"       -> op_bmove(u.window, m)
               [] m.type = "putcs"       -> op_putcs(u.window, m)
               [] m.type = "clear"       -> op_clear(u.window, m)
               [] OTHER                  -> u.window
    IN  [buffer |-> c.buffer, cursor |-> c.cursor, window |-> w, moved |-> u.moved \/ m.type = "bmove"]

\* draw
Drawing(buffer) == [p \in Places |-> buffer[ScreenAt + p[1] * X + p[2]]]

\* console_window_t::attach: the monitor is opened, then asked for what there is.  The
\* console is created when the answer is there, before the messages are read.
Attach ==
    /\ user = Nothing
    /\ LET zeros == [i \in Cells |-> Zero]
       IN  user' = [buffer |-> zeros, cursor |-> <<0, 0>>, window |-> Drawing(zeros), moved |-> FALSE]
    /\ replay' = [at |-> "buffer", y |-> Y]
    /\ raced' = (pending # Nothing)
    /\ UNCHANGED <<screen, history, kernel, pending, queue, ops>>

\* Mutant of ScreenLine: the lines of the screen are read from the start of the buffer.
ScreenLine_Buffer(y) == [c \in 1..X |-> kernel.buffer[X * y + c - 1]]

ScreenLine(y) == [c \in 1..X |-> kernel.buffer[ScreenAt + X * y + c - 1]]

\* From the line config.y of the buffer to its last one.
ReplayBuffer ==
    /\ replay.at = "buffer"
    /\ IF replay.y = MaxY
         THEN replay' = [at |-> "screen", y |-> 0] /\ UNCHANGED queue
         ELSE /\ queue' = Append(queue, [type |-> "init", x |-> 0, y |-> replay.y, count |-> X,
                                         data |-> [c \in 1..X |-> kernel.buffer[X * replay.y + c - 1]]])
              /\ replay' = [replay EXCEPT !.y = @ + 1]
    /\ UNCHANGED <<screen, history, kernel, pending, user, raced, ops>>

ReplayScreen ==
    /\ replay.at = "screen"
    /\ queue' = Append(queue, [type |-> "putcs", x |-> 0, y |-> replay.y, count |-> X,
                               data |-> ScreenLine(replay.y)])
    /\ replay' = IF replay.y + 1 = Y THEN [at |-> "cursor"] ELSE [replay EXCEPT !.y = @ + 1]
    /\ UNCHANGED <<screen, history, kernel, pending, user, raced, ops>>

ReplayCursor ==
    /\ replay.at = "cursor"
    /\ queue' = Append(queue, [type |-> "cursor", at |-> kernel.cursor])
    /\ replay' = [at |-> "done"]
    /\ UNCHANGED <<screen, history, kernel, pending, user, raced, ops>>

\* message_receive
ConsoleReads ==
    /\ replay.at = "done" /\ queue # <<>>
    /\ user' = WidgetEvent(user, Head(queue)) /\ queue' = Tail(queue)
    /\ UNCHANGED <<screen, history, kernel, pending, replay, raced, ops>>

\* Its messages go with its handle.
Detach ==
    /\ replay.at = "done"
    /\ user' = Nothing /\ queue' = <<>> /\ replay' = [at |-> "none"] /\ raced' = FALSE
    /\ UNCHANGED <<screen, history, kernel, pending, ops>>

Next == \/ GuestDraws \/ MonitorDoes
        \/ Attach \/ ReplayBuffer \/ ReplayScreen \/ ReplayCursor \/ ConsoleReads \/ Detach

Spec == Init /\ [][Next]_conVars
-----------------------------------------------------------------------------
\* The index arithmetic of the monitor's console draws what the guest drew, and its lines
\* above the screen are the last ones that left it.
KernelExact == pending = Nothing =>
    /\ Drawing(kernel.buffer) = screen.at /\ kernel.cursor = screen.cursor
    /\ \A r \in 1..(MaxY - Y), c \in Cols :
         kernel.buffer[(r - 1) * X + c] = history[Len(history) - (MaxY - Y) + r][c]

\* A console that has read its messages shows what the guest shows, in its copy and in its
\* window, unless an operation of the guest met the replay of the lines; a region that is
\* moved leaves blanks in the window until the guest draws there.
UserExact ==
    pending = Nothing /\ replay.at = "done" /\ queue = <<>> /\ ~raced =>
        /\ Drawing(user.buffer) = screen.at /\ user.cursor = screen.cursor
        /\ user.moved \/ user.window = screen.at

\* Both copies, and the window.
ConsolesExact == KernelExact /\ UserExact
=============================================================================
