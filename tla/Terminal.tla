------------------------------- MODULE Terminal -------------------------------
(***************************************************************************)
(* The embedded terminal: the panel and its commands, the session, and the *)
(* child process behind a pseudo-terminal.  The shell writes, closes its   *)
(* side and ends whenever it likes; the UI's thread does everything else.  *)
(***************************************************************************)
EXTENDS VtParser

CONSTANTS Sizes,        \* the heights and widths that a layout can give to the panel
          TooSmall,     \* a window that UI::resize() does not lay out
          DefaultCols,  \* the columns of a shell whose panel has no width (80)
          Outputs,      \* what the shell writes at once
          OutMax,       \* out_buf keeps that many bytes (512 KiB)
          MaxWrites, MaxResizes, MaxShells

\* A window that is laid out is wider than the sidebar and the line numbers.
ASSUME SizesAssumption ==
  /\ TooSmall \notin Sizes
  /\ \A z \in Sizes : z.height \in Nat /\ z.width \in Nat \ {0}
ASSUME OutputsAssumption == \A o \in Outputs : o \in Seq(STRING)
ASSUME BoundsAssumption ==
  DefaultCols \in Nat \ {0} /\ {OutMax, MaxWrites, MaxResizes, MaxShells} \subseteq Nat

VARIABLES window,       \* the size of the program's window
          panel,        \* TerminalPanel: shown, its height and width
          session,      \* TerminalSession: state, exit_status, view_scroll
          term,         \* the parser and the screen
          pty,          \* PtySession: fd, running, lifecycle, exit_status, the size it told
          child,        \* the process: none, runs, or ended and not reaped
          tty,          \* the bytes the shell wrote that were not read; open: its side is
          writes, resizes, shells

vars == <<window, panel, session, term, pty, child, tty, writes, resizes, shells>>
counters == <<writes, resizes, shells>>

Hidden == [height |-> 0, width |-> 0]

Init ==
  /\ window \in Sizes \cup {TooSmall}
  /\ panel = [shown |-> FALSE, size |-> Hidden]
  /\ session = [state |-> "Idle", exit |-> FALSE, view |-> 0]
  /\ term = [vt |-> Ground, scr |-> Unsized]
  /\ pty = [fd |-> FALSE, running |-> FALSE, life |-> "Idle", exit |-> FALSE, size |-> <<0, 0>>]
  /\ child = "none" /\ tty = [bytes |-> <<>>, open |-> FALSE]
  /\ writes = 0 /\ resizes = 0 /\ shells = 0

-------------------------------------------------------------------------------
\* What a handler of the UI's thread works on.
World == [s |-> session, t |-> term, p |-> pty, child |-> child, tty |-> tty, panel |-> panel]
Becomes(w) ==
  /\ session' = w.s /\ term' = w.t /\ pty' = w.p /\ child' = w.child /\ tty' = w.tty
  /\ panel' = w.panel

PtyAlive(w) == w.p.life = "Running" /\ w.child # "none"
Alive(w) == w.s.state = "Running" /\ PtyAlive(w)

\* reap_child(): a process that ended is waited for and leaves its status.
Reap(w) ==
  IF w.child # "ended" THEN w
  ELSE [w EXCEPT !.child = "none", !.p.life = "Exited", !.p.exit = TRUE]

\* PtySession::stop(): the master is closed, the child is told to go and, after 200 ms,
\* killed; either way it is reaped.
PtyStop(w) ==
  IF ~w.p.running /\ ~w.p.fd /\ w.child = "none" THEN w
  ELSE Reap([w EXCEPT !.p.running = FALSE, !.p.fd = FALSE,
                      !.child = IF @ = "none" THEN @ ELSE "ended",
                      !.tty = [bytes |-> <<>>, open |-> FALSE]])

\* PtySession::start() of a shell that forkpty() makes, or does not.
PtyStart(w0, rows, cols, forks) ==
  LET w == [PtyStop(w0) EXCEPT !.p.exit = FALSE, !.p.life = "Idle"]
  IN  IF ~forks THEN [w EXCEPT !.p.life = "Failed"]
      ELSE [w EXCEPT !.p = [@ EXCEPT !.fd = TRUE, !.running = TRUE, !.life = "Running",
                                     !.size = <<rows, cols>>],
                     !.child = "runs", !.tty = [bytes |-> <<>>, open |-> TRUE]]

ViewRows(w) == High(0, w.panel.size.height - 1)

\* TerminalSession::start(): the screen takes the size and is reset before the shell is
\* there to write on it.
SessionStart(w, rows, cols, forks) ==
  LET fresh == [w EXCEPT !.s.exit = FALSE, !.s.view = 0,
                         !.t = [vt |-> Ground, scr |-> Reset(Resize(w.t.scr, rows, cols))]]
  IN  [PtyStart(fresh, rows, cols, forks) EXCEPT !.s.state = IF forks THEN "Running" ELSE "Failed"]

\* ensure_started(): a terminal whose shell ended gets a new one.
EnsureStarted(w, forks) ==
  IF Alive(w) THEN w
  ELSE SessionStart(w, High(1, ViewRows(w)),
                    IF w.panel.size.width > 0 THEN w.panel.size.width ELSE DefaultCols, forks)

Starts(w) == ~Alive(w)

\* TerminalSession::stop().
SessionStop(w0) ==
  IF w0.s.state = "Idle" THEN w0
  ELSE LET w == PtyStop(w0)
       IN  [w EXCEPT !.s.exit = w.p.exit,
                     !.s.state = IF w.p.life = "Failed" THEN "Failed"
                                 ELSE IF w.p.exit THEN "Exited" ELSE "Idle"]

\* A resize that the shell is not told of.
OnResizedQuietly(w) ==
  IF ~w.panel.shown THEN w
  ELSE [w EXCEPT !.t.scr = Resize(@, High(1, ViewRows(w)), High(1, w.panel.size.width))]

\* on_resized(): a panel that is shown gives its size to the screen and, while the shell
\* lives, to the pseudo-terminal.
OnResized(w) ==
  LET rows == High(1, ViewRows(w))
      cols == High(1, w.panel.size.width)
  IN  IF ~w.panel.shown THEN w
      ELSE [w EXCEPT !.t.scr = Resize(@, rows, cols),
                     !.p.size = IF Alive(w) /\ w.p.fd THEN <<rows, cols>> ELSE @]

\* UI::resize(), of a window that is large enough.
Layout(w, win) ==
  IF win = TooSmall THEN w
  ELSE IF w.panel.shown THEN OnResized([w EXCEPT !.panel.size = win])
  ELSE [w EXCEPT !.panel.size = Hidden]

FollowLive(w) == [w EXCEPT !.s.view = 0]
SetViewScroll(w, lines) == [w EXCEPT !.s.view = Clamp(lines, 0, Len(w.t.scr.back))]

-------------------------------------------------------------------------------
\* A step that may start a shell: forkpty() succeeds or fails.
MayStart(w, forks) ==
  /\ Starts(w) => shells < MaxShells
  /\ ~Starts(w) => forks
  /\ shells' = IF Starts(w) THEN shells + 1 ELSE shells
  /\ UNCHANGED <<window, writes, resizes>>

\* UI::open_terminal(), from the toggle, the focus command and :terminal.
Shown(w) == Layout([w EXCEPT !.panel.shown = TRUE], window)
Opened(w, forks) == OnResized(EnsureStarted(Shown(w), forks))
OpenTerminal(forks) == MayStart(Shown(World), forks) /\ Becomes(Opened(World, forks))

\* UI::close_terminal(): the shell goes on behind the closed panel.
CloseTerminal ==
  /\ panel.shown
  /\ Becomes(Layout([World EXCEPT !.panel.shown = FALSE], window))
  /\ UNCHANGED <<window, counters>>

\* :terminal kill, and the end of the program.
Kill ==
  /\ session.state # "Idle"
  /\ Becomes(SessionStop(World)) /\ UNCHANGED <<window, counters>>

\* :terminal clear opens a panel that is not shown.
Cleared(w) == FollowLive([w EXCEPT !.t.scr = SetCursor(EraseInDisplay(@, 2), 0, 0)])
ClearTerminal(forks) ==
  IF panel.shown THEN Becomes(Cleared(World)) /\ forks /\ UNCHANGED <<window, counters>>
  ELSE MayStart(Shown(World), forks) /\ Becomes(Cleared(Opened(World, forks)))

\* The scroll commands of a shown panel; PgUp and PgDn also start a shell.
ScrollBy(w, dir) == SetViewScroll(w, w.s.view + dir * High(1, ViewRows(w)))
ScrollTerminal(dir) ==
  /\ panel.shown
  /\ Becomes(ScrollBy(World, dir)) /\ UNCHANGED <<window, counters>>
PageKey(dir, forks) ==
  /\ panel.shown
  /\ MayStart(World, forks) /\ Becomes(ScrollBy(EnsureStarted(World, forks), dir))

\* Any other key, or a pasted text: the view follows the shell again, which gets the bytes.
TypeKey(forks) ==
  /\ panel.shown
  /\ MayStart(World, forks) /\ Becomes(FollowLive(EnsureStarted(World, forks)))

ResizeWindow(win) ==
  /\ win # window /\ resizes < MaxResizes
  /\ window' = win /\ resizes' = resizes + 1
  /\ Becomes(Layout(World, win)) /\ UNCHANGED <<writes, shells>>

\* PtySession::pump_readable() and take_output(): everything there is, its last OutMax
\* bytes if it is more; at the end of the file the master is closed, and the child reaped
\* if it has ended by then.
LastBytes(bytes) ==
  IF Len(bytes) > OutMax THEN SubSeq(bytes, Len(bytes) - OutMax + 1, Len(bytes)) ELSE bytes
Pumped(w) ==
  IF ~w.p.fd \/ ~w.p.running THEN w
  ELSE LET fed == [w EXCEPT !.t = Feed(@, LastBytes(w.tty.bytes)), !.tty.bytes = <<>>]
       IN  IF w.tty.open THEN fed
           ELSE Reap([fed EXCEPT !.p.running = FALSE, !.p.fd = FALSE, !.p.life = "Exited"])

\* TerminalSession::pump(), on every turn of the UI's loop; a turn that finds nothing
\* changes nothing.
Over(w) == w.s.state = "Running" /\ ~PtyAlive(w)
ReadableBytes == pty.fd /\ pty.running /\ tty.bytes # <<>>
Readable == pty.fd /\ pty.running /\ (tty.bytes # <<>> \/ ~tty.open)
Poll ==
  LET w == Pumped(World)
  IN  /\ Readable \/ Over(World)
      /\ Becomes(IF Over(w) THEN [w EXCEPT !.s.state = "Exited", !.s.exit = w.p.exit] ELSE w)
      /\ UNCHANGED <<window, counters>>

-------------------------------------------------------------------------------
ShellWrites(out) ==
  /\ child = "runs" /\ tty.open /\ writes < MaxWrites
  /\ tty' = [tty EXCEPT !.bytes = @ \o out] /\ writes' = writes + 1
  /\ UNCHANGED <<window, panel, session, term, pty, child, resizes, shells>>

\* Its side is closed by the end of the shell or before it.
ShellCloses ==
  /\ tty.open /\ tty' = [tty EXCEPT !.open = FALSE]
  /\ UNCHANGED <<window, panel, session, term, pty, child, counters>>

ShellEnds ==
  /\ child = "runs" /\ child' = "ended"
  /\ tty' = [tty EXCEPT !.open = FALSE]
  /\ UNCHANGED <<window, panel, session, term, pty, counters>>

Next ==
  \/ \E forks \in BOOLEAN : OpenTerminal(forks)
  \/ CloseTerminal \/ Kill
  \/ \E forks \in BOOLEAN : ClearTerminal(forks)
  \/ \E dir \in {-1, 1} : ScrollTerminal(dir)
  \/ \E dir \in {-1, 1}, forks \in BOOLEAN : PageKey(dir, forks)
  \/ \E forks \in BOOLEAN : TypeKey(forks)
  \/ \E win \in Sizes \cup {TooSmall} : ResizeWindow(win)
  \/ Poll
  \/ \E out \in Outputs : ShellWrites(out)
  \/ ShellCloses \/ ShellEnds

\* poll() wakes the loop for the master, and the loop pumps it on every turn.  This is
\* WF_vars(Poll): a Poll is enabled, and changes something, in just the states named here.
Polled == []<>~(Readable \/ Over(World)) \/ []<><<Poll>>_vars
Spec == Init /\ [][Next]_vars /\ Polled

-------------------------------------------------------------------------------
scr == term.scr
CellType == [ch : STRING, width : 0 .. 2, pen : [DOMAIN PlainPen -> BOOLEAN \cup Nat]]
PenOK(p) == p.fg \in 0 .. 15 \cup {Default} /\ p.bg \in 0 .. 15 \cup {Default}

\* The screen is always one that the code can index: the cursor is a cell of the grid, the
\* region a range of its rows, every line as long as the screen is wide, and a wrap is
\* pending behind the last column only.
ScreenOK ==
  /\ DOMAIN scr.grid = 0 .. scr.rows - 1
  /\ \A r \in DOMAIN scr.grid : DOMAIN scr.grid[r] = 0 .. scr.cols - 1
  /\ scr.rows > 0 => /\ scr.row \in 0 .. scr.rows - 1 /\ scr.col \in 0 .. scr.cols - 1
                     /\ 0 <= scr.top /\ scr.top <= scr.bottom /\ scr.bottom < scr.rows
  /\ scr.wrapPending => scr.col = scr.cols - 1
  /\ Len(scr.back) <= Scrollback /\ PenOK(scr.pen)

TypeOK ==
  /\ window \in Sizes \cup {TooSmall}
  /\ panel.shown \in BOOLEAN /\ panel.size \in Sizes \cup {Hidden}
  /\ session.state \in {"Idle", "Running", "Exited", "Failed"} /\ session.view \in 0 .. Scrollback
  /\ term.vt.st \in {"Ground", "Escape", "Csi", "Osc", "Utf8"}
  /\ pty.life \in {"Idle", "Running", "Exited", "Failed"}
  /\ child \in {"none", "runs", "ended"}
  /\ ScreenOK

\* The shell is told the size of the screen it writes on, and that is the size of the panel
\* whenever a layout gave it one: after a restart, a resize, or a resize behind a closed
\* panel (terminal_session.cpp:56, terminal_panel_part2.cpp:52).
SizesAgree ==
  Alive(World) =>
    /\ pty.size = <<scr.rows, scr.cols>>
    /\ panel.shown /\ panel.size # Hidden =>
         <<scr.rows, scr.cols>> = <<High(1, ViewRows(World)), High(1, panel.size.width)>>

\* Text printed inside a scroll region stays there, whatever it wraps and scrolls: no line
\* outside the region changes, and none goes to the scrollback unless the region is the
\* whole screen (terminal_screen_part2.cpp:128).
Text == {"a", "LF", "CR", "BS", "TAB"} \cup DOMAIN Need \cup {Continuation}
PrintsText ==
  /\ tty.bytes # <<>> /\ tty'.bytes = <<>> /\ shells' = shells
  /\ \A i \in DOMAIN tty.bytes : tty.bytes[i] \in Text
  /\ term.vt.st \in {"Ground", "Utf8"} /\ scr.row \in scr.top .. scr.bottom
RegionHolds ==
  [][PrintsText =>
       /\ \A r \in DOMAIN scr.grid \ (scr.top .. scr.bottom) : scr'.grid[r] = scr.grid[r]
       /\ scr'.row \in scr.top .. scr.bottom
       /\ scr.top .. scr.bottom # DOMAIN scr.grid => scr'.back = scr.back]_vars

\* A shell that closed its side is noticed, behind a closed panel too: its terminal does not
\* pass for a running one, and the next key starts a new shell (terminal_session.cpp:91).
EndNoticed == (pty.fd /\ ~tty.open) ~> ~(pty.fd /\ ~tty.open)
===============================================================================
