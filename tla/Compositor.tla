------------------------------ MODULE Compositor ------------------------------
(***************************************************************************)
(* How windows get onto the screen (windowManager.cpp and the main loop in  *)
(* kernel.cpp).  The virtual screen holds for each pixel a pointer to where *)
(* its color is: into the background, the taskbar, the framebuffer of a     *)
(* window or the window itself (its border).  Nothing draws the screen      *)
(* anew in every frame: whoever moves, resizes, hides, raises or closes a   *)
(* window has to update the rectangles that it changes, since Render reads  *)
(* through all the pointers, those into freed memory as well.               *)
(*                                                                          *)
(* The screen is one line of pixels, of which the last is the taskbar's; a  *)
(* window is as wide as it likes and has a border of one pixel at each end. *)
(* The second dimension, with the title bar, goes by the same rules.  The   *)
(* debug terminal, which is never closed, is left out.                      *)
(***************************************************************************)
EXTENDS Integers, FiniteSets, Sequences, SequencesExt

CONSTANTS
    Windows,        \* addresses of window blocks
    First, Menu,    \* the first terminal, and the start menu
    NULL,
    Width,          \* of the screen, taskbar included
    MinSize,        \* of a window, 80 or 20 in the code
    Positions, Sizes, \* what windows can be moved and resized to
    MaxInputs       \* bound: what users, programs and commands do

ASSUME CompositorAssumption ==
    /\ First \in Windows /\ Menu \in Windows \ {First} /\ NULL \notin Windows
    /\ Width \in Nat \ {0} /\ MinSize \in Nat \ {0}
    /\ Positions \subseteq Int /\ Sizes \subseteq Nat /\ MaxInputs \in Nat
    /\ \E p, q \in Positions : \A r \in Positions : p <= r /\ r <= q

VARIABLES
    windows,        \* osData.windows, the last one in front
    win,            \* the block of each window
    pixels,         \* virtualScreenBuffer
    activeWindow,
    windowsToGetActive,
    pc,             \* "tasks" (and keys), "update" or "mouse"
    next,           \* the place of the window that is updated next
    overdrawn,      \* history: windows that a command drew over all others
    inputs          \* for the bound

vars == <<windows, win, pixels, activeWindow, windowsToGetActive, pc, next,
          overdrawn, inputs>>

Maximized == CHOOSE s \in Sizes : \A t \in Sizes : t <= s
Screen == 0 .. (Width - 1)
Taskbar == Width - 1

Listed == Range(windows)

(* framebuffer tells the buffer of a window from the one it had before.     *)
Window(pos, size, hide, oldHide) ==
    [position |-> pos, size |-> size, newPosition |-> pos, newSize |-> size,
     hidden |-> hide, oldHidden |-> oldHide, showBorder |-> TRUE,
     moveToFront |-> FALSE, framebuffer |-> 0]

Background == [of |-> NULL, at |-> 0, framebuffer |-> 0]
Content(w, b, x) == [of |-> w, at |-> x - b.position, framebuffer |-> b.framebuffer]
Border(w) == [of |-> w, at |-> -1, framebuffer |-> 0]

(* Where windows open, and where the first one is.                          *)
StartPosition == CHOOSE p \in Positions : \A q \in Positions : p <= q
SidePosition == CHOOSE p \in Positions : \A q \in Positions : p >= q

-----------------------------------------------------------------------------
(* Drawing.  A window is drawn into the pixels cells of the screen px.      *)

Edges(b) == {b.position - 1, b.position + b.size}
Inside(b) == b.position .. (b.position + b.size - 1)

RenderWindowRect(px, w, b, cells) ==
    [x \in Screen |->
        IF x \notin cells \/ b.hidden THEN px[x]
        ELSE IF x \in Inside(b) THEN Content(w, b, x)
        ELSE IF x \in Edges(b) /\ b.showBorder THEN Border(w)
        ELSE px[x]]

DrawTaskbarRect(px, cells) ==
    [x \in Screen |-> IF x \in cells /\ x = Taskbar THEN Background ELSE px[x]]

(* Background, all windows from the back to the front, taskbar.             *)
UpdatePointerRect(px, list, blocks, cells) ==
    LET cleared == [x \in Screen |-> IF x \in cells THEN Background ELSE px[x]]
    IN  DrawTaskbarRect(
            FoldLeft(LAMBDA p, w : RenderWindowRect(p, w, blocks[w], cells),
                     cleared, list),
            cells)

(* The rectangle that a window takes up, its border included, and one pixel *)
(* more behind it.                                                          *)
Rect(b) == (b.position - 1) .. (b.position + b.size + 2)
CloseRect(b) == (b.position - 1) .. (b.position + b.size)

RenderWindow(px, w, b) ==
    LET cells == (b.position - 1) .. (b.position + b.size + 1)
    IN  DrawTaskbarRect(RenderWindowRect(px, w, b, cells), cells)

(* A window that is not in the list any more is read all the same; that     *)
(* updates pixels somewhere, which changes nothing for the rest.            *)
UpdateWindowBorder(px, list, blocks, w) ==
    IF w \in Range(list) /\ blocks[w].showBorder
    THEN UpdatePointerRect(px, list, blocks, Edges(blocks[w]))
    ELSE px

RenderWindows(list, blocks) ==
    UpdatePointerRect([x \in Screen |-> Background], list, blocks, Screen)

-----------------------------------------------------------------------------
Init ==
    /\ windows = <<Menu, First>>
    /\ win = [w \in Windows |->
                IF w = First THEN Window(SidePosition, MinSize, FALSE, FALSE)
                ELSE [Window(StartPosition, MinSize, TRUE, FALSE) EXCEPT !.moveToFront = TRUE]]
    /\ pixels = RenderWindows(windows, win)
    /\ activeWindow = First
    /\ windowsToGetActive = <<>>
    /\ pc = "tasks" /\ next = 1
    /\ overdrawn = {} /\ inputs = 0

Input == inputs < MaxInputs /\ inputs' = inputs + 1

(* Keys, tasks and the terminal, between two frames.                        *)
Between == pc = "tasks" /\ Input /\ UNCHANGED <<pc, next>>

(* Mouse packets, between updating and rendering.                           *)
Mouse == pc = "mouse" /\ Input /\ UNCHANGED <<pc, next>>

(* Arrow keys, dragging (HandleHold), maximizing and programs only set what *)
(* the window is to become; a maximized window has no border.  (Rendering   *)
(* does not look at that, so dragging may as well come after it.)           *)
ChangeWindow(w) ==
    /\ Between
    /\ w \in Listed
    /\ \E pos \in Positions, size \in Sizes :
           win' = [win EXCEPT ![w].newPosition = pos, ![w].newSize = size,
                              ![w].showBorder = size # Maximized]
    /\ UNCHANGED <<windows, pixels, activeWindow, windowsToGetActive, overdrawn>>

(* Terminals and windows of programs come to the front of the list, those   *)
(* of applications to its back.                                             *)
OpenAt(w, list, hide, oldHide) ==
    /\ Between
    /\ w \notin Listed
    /\ windows' = list
    /\ win' = [win EXCEPT ![w] = Window(StartPosition, MinSize, hide, oldHide)]
    /\ UNCHANGED <<pixels, overdrawn>>

OpenTerminal(w, hide) ==
    /\ OpenAt(w, Append(windows, w), hide, ~hide)
    /\ windowsToGetActive' =
           IF hide THEN windowsToGetActive ELSE Append(windowsToGetActive, w)
    /\ UNCHANGED activeWindow

OpenNewWindow(w) ==
    /\ OpenAt(w, Append(windows, w), FALSE, FALSE)
    /\ windowsToGetActive' = Append(windowsToGetActive, w)
    /\ UNCHANGED activeWindow

OpenApplication(w) ==
    /\ OpenAt(w, <<w>> \o windows, FALSE, TRUE)
    /\ windowsToGetActive' = Append(windowsToGetActive, w)
    /\ UNCHANGED activeWindow

(* A key or a finished task makes a window active (NULL: the taskbar).      *)
GetActive(w) ==
    /\ Between
    /\ windowsToGetActive' = Append(windowsToGetActive, w)
    /\ UNCHANGED <<windows, win, pixels, activeWindow, overdrawn>>

(* TaskWindowClose::Do.                                                     *)

(* Mutant: the screen is updated while the window is in the list.           *)
UpdatedBeforeClose(w, rest) ==
    UpdatePointerRect(pixels, windows, win, CloseRect(win[w]))

UpdatedAfterClose(w, rest) ==
    UpdatePointerRect(pixels, rest, win, CloseRect(win[w]))

Close(w) ==
    /\ Between
    /\ w \in Listed
    /\ LET rest == RemoveFirst(windows, w)
       IN  /\ windows' = rest
           /\ pixels' = UpdatedAfterClose(w, rest)
    /\ activeWindow' = IF w = activeWindow THEN NULL ELSE activeWindow
    /\ overdrawn' = overdrawn \ {w}
    /\ UNCHANGED <<win, windowsToGetActive>>

-----------------------------------------------------------------------------
(* Window::Resize: a new framebuffer, or the old one when there is no       *)
(* memory for it.                                                           *)
Resized(b, size, memory) ==
    IF memory
    THEN LET s == IF size < MinSize THEN MinSize ELSE size
         IN  [b EXCEPT !.size = s, !.newSize = s, !.framebuffer = 1 - @]
    ELSE [b EXCEPT !.newSize = b.size]

(* The command "set window size" does it at once, and draws the window over *)
(* all others.                                                              *)
ResizeCommand(w) ==
    /\ Between
    /\ w \in Listed \ {Menu}
    /\ \E size \in Sizes, memory \in BOOLEAN :
           LET b == Resized(win[w], size, memory)
               blocks == [win EXCEPT ![w] = b]
               updated == UpdatePointerRect(
                              UpdatePointerRect(pixels, windows, blocks, Rect(b)),
                              windows, blocks,
                              (b.position + b.size + 2) .. (b.position + win[w].size + 2))
           IN  /\ win' = blocks
               /\ pixels' = RenderWindow(updated, w, b)
    /\ overdrawn' = overdrawn \cup {w}
    /\ UNCHANGED <<windows, activeWindow, windowsToGetActive>>

(* The background was switched on or off, or the display changed.           *)
RenderAll ==
    /\ Between
    /\ pixels' = RenderWindows(windows, win)
    /\ overdrawn' = {}
    /\ UNCHANGED <<windows, win, activeWindow, windowsToGetActive>>

(* RecoverDed after a fault: all windows are hidden except that of the      *)
(* crash (w, unless there is none), and the loop begins again.              *)
Recover(w) ==
    /\ Between
    /\ w \in (Windows \ Listed) \cup {NULL}
    /\ LET list == IF w = NULL THEN windows ELSE Append(windows, w)
           blocks == [a \in Windows |->
                       IF a = w THEN Window(StartPosition, MinSize, FALSE, TRUE)
                       ELSE [win[a] EXCEPT !.hidden = TRUE, !.oldHidden = TRUE]]
       IN  /\ windows' = list
           /\ win' = blocks
           /\ pixels' = RenderWindows(list, blocks)
    /\ windowsToGetActive' =
           IF w = NULL THEN windowsToGetActive ELSE Append(windowsToGetActive, w)
    /\ overdrawn' = {}
    /\ UNCHANGED activeWindow

-----------------------------------------------------------------------------
(* The beginning of a frame: the menu that is not active goes, the next     *)
(* window of the queue becomes active, and the active one comes to front.   *)

MenuHidden ==
    IF Menu \in Listed /\ ~win[Menu].hidden /\ activeWindow # Menu
    THEN [win EXCEPT ![Menu].hidden = TRUE, ![Menu].oldHidden = FALSE]
    ELSE win

(* Mutant: the window is put to the front of the list but not drawn.        *)
RaisedUndrawn(px, list, blocks, w) ==
    UpdateWindowBorder(px, list, blocks, w)

Raised(px, list, blocks, w) ==
    UpdateWindowBorder(RenderWindow(px, w, blocks[w]), list, blocks, w)

Activate ==
    /\ pc = "tasks"
    /\ LET queued == windowsToGetActive # <<>>
           w == IF queued THEN Head(windowsToGetActive) ELSE activeWindow
           shown == IF queued /\ w \in Listed
                    THEN [MenuHidden EXCEPT ![w].moveToFront = TRUE, ![w].hidden = FALSE]
                    ELSE MenuHidden
           px == IF queued THEN UpdateWindowBorder(pixels, windows, shown, activeWindow)
                 ELSE pixels
       IN  /\ activeWindow' = w
           /\ windowsToGetActive' = IF queued THEN Tail(windowsToGetActive)
                                    ELSE windowsToGetActive
           /\ IF w \in Listed /\ shown[w].moveToFront
              THEN LET list == Append(RemoveFirst(windows, w), w)
                       blocks == [shown EXCEPT ![w].moveToFront = FALSE]
                   IN  /\ windows' = list
                       /\ win' = blocks
                       /\ pixels' = Raised(UpdateWindowBorder(px, list, blocks, Last(windows)),
                                           list, blocks, w)
              ELSE /\ windows' = windows
                   /\ win' = shown
                   /\ \/ pixels' = px
                      \/ /\ w = NULL /\ windows # <<>>
                         /\ pixels' = UpdateWindowBorder(px, windows, shown, Last(windows))
           /\ overdrawn' = overdrawn \ {w}
    /\ pc' = "update" /\ next' = 1
    /\ UNCHANGED inputs

(* Then each window, from the back to the front, becomes what it is to be.  *)

(* Mutant: a window that appears or goes is not noticed.                    *)
ShownOrHiddenUnseen(px, w) == px

ShownOrHidden(px, w) ==
    IF win[w].hidden # win[w].oldHidden
    THEN UpdatePointerRect(px, windows, [win EXCEPT ![w].oldHidden = win[w].hidden],
                           CloseRect(win[w]))
    ELSE px

(* Mutant: only where the window is now is updated.                         *)
UpdateNewOnly(px, blocks, old, new) ==
    UpdatePointerRect(px, windows, blocks, Rect(new))

(* One rectangle around both or each of them: in two dimensions whichever   *)
(* is smaller, which one line of pixels does not tell.                      *)
UpdateOldAndNew(px, blocks, old, new) ==
    UpdatePointerRect(px, windows, blocks, Rect(old) \cup Rect(new))

UpdateWindow ==
    /\ pc = "update" /\ next <= Len(windows)
    /\ \E memory \in BOOLEAN :
           LET w == windows[next]
               old == win[w]
               sized == IF old.size # old.newSize THEN Resized(old, old.newSize, memory)
                        ELSE old
               new == [sized EXCEPT !.oldHidden = old.hidden,
                                    !.position = old.newPosition]
               blocks == [win EXCEPT ![w] = new]
               px == ShownOrHidden(pixels, w)
           IN  /\ win' = blocks
               /\ pixels' = IF old.size # old.newSize \/ old.position # old.newPosition
                            THEN UpdateOldAndNew(px, blocks, old, new)
                            ELSE px
    /\ next' = next + 1
    /\ UNCHANGED <<windows, activeWindow, windowsToGetActive, pc, overdrawn, inputs>>

UpdateTaskbar ==
    /\ pc = "update" /\ next > Len(windows)
    /\ pixels' = UpdatePointerRect(pixels, windows, win, {Taskbar})
    /\ pc' = "mouse" /\ next' = 1
    /\ UNCHANGED <<windows, win, activeWindow, windowsToGetActive,
                   overdrawn, inputs>>

-----------------------------------------------------------------------------
(* HandleClick.                                                             *)

ClickHide(w) ==
    /\ Mouse
    /\ w \in Listed /\ ~win[w].hidden
    /\ LET blocks == [win EXCEPT ![w].hidden = TRUE]
       IN  /\ win' = blocks
           /\ pixels' = UpdateWindowBorder(pixels, windows, blocks, activeWindow)
    /\ activeWindow' = IF activeWindow = w THEN NULL ELSE activeWindow
    /\ UNCHANGED <<windows, windowsToGetActive, overdrawn>>

(* A tab of the taskbar, the menu button, a window or the background.       *)
ClickTo(w) ==
    /\ Mouse
    /\ w \in Listed \cup {NULL}
    /\ LET blocks == IF w = NULL THEN win
                     ELSE [win EXCEPT ![w].hidden = FALSE, ![w].moveToFront = TRUE]
       IN  /\ win' = blocks
           /\ pixels' = UpdateWindowBorder(pixels, windows, blocks, activeWindow)
    /\ activeWindow' = w
    /\ UNCHANGED <<windows, windowsToGetActive, overdrawn>>

(* Render, with the pointer drawn over the screen before and removed after. *)
Render ==
    /\ pc = "mouse"
    /\ \E x \in Screen :
           pixels' = UpdatePointerRect(pixels, windows, win, {x})
    /\ pc' = "tasks"
    /\ UNCHANGED <<windows, win, activeWindow, windowsToGetActive, next,
                   overdrawn, inputs>>

-----------------------------------------------------------------------------
Next ==
    \/ \E w \in Windows :
          \/ ChangeWindow(w)
          \/ \E hide \in BOOLEAN : OpenTerminal(w, hide)
          \/ OpenNewWindow(w) \/ OpenApplication(w) \/ Close(w)
          \/ ResizeCommand(w) \/ ClickHide(w)
    \/ \E w \in Windows \cup {NULL} : GetActive(w) \/ Recover(w) \/ ClickTo(w)
    \/ RenderAll \/ Activate \/ UpdateWindow \/ UpdateTaskbar \/ Render

Spec == Init /\ [][Next]_vars

-----------------------------------------------------------------------------
Blocks ==
    [position : Int, size : Nat, newPosition : Int, newSize : Nat,
     hidden : BOOLEAN, oldHidden : BOOLEAN, showBorder : BOOLEAN,
     moveToFront : BOOLEAN, framebuffer : 0 .. 1]

TypeOK ==
    /\ windows \in Seq(Windows) /\ IsInjective(windows)
    /\ win \in [Windows -> Blocks]
    /\ \A w \in Listed : win[w].size >= MinSize
    /\ pixels \in [Screen -> [of : Windows \cup {NULL}, at : Int, framebuffer : 0 .. 1]]
    /\ activeWindow \in Windows \cup {NULL}
    /\ windowsToGetActive \in Seq(Windows \cup {NULL})
    /\ pc \in {"tasks", "update", "mouse"} /\ next \in Nat \ {0}
    /\ overdrawn \subseteq Windows /\ inputs \in 0 .. MaxInputs

(* Every pixel that Render reads through points to the background, or to    *)
(* the right place of the present framebuffer, or the border, of a window   *)
(* that is open, at the place where that window is: never into memory that  *)
(* was freed when a window was closed or resized.                           *)
PixelsInPlace ==
    /\ TypeOK
    /\ \A x \in Screen :
          LET p == pixels[x]
          IN  p.of # NULL =>
                 /\ p.of \in Listed
                 /\ \/ x \in Inside(win[p.of]) /\ p = Content(p.of, win[p.of], x)
                    \/ x \in Edges(win[p.of]) /\ p = Border(p.of)

(* What is on the screen agrees with what the list says, except for windows *)
(* that wait to be raised (clicks may come faster than frames): a window    *)
(* that is hidden, and was at the last update, has no pixel.                *)
HiddenNotShown ==
    \A x \in Screen :
        LET w == pixels[x].of
        IN  w # NULL => \/ ~win[w].hidden \/ ~win[w].oldHidden
                        \/ win[w].moveToFront

(* Place in the list, the background behind all.                            *)
Depth(w) == IF w = NULL THEN 0 ELSE SelectInSeq(windows, LAMBDA v : v = w)

Settled(w) ==
    /\ ~win[w].hidden /\ ~win[w].oldHidden /\ ~win[w].moveToFront
    /\ w \notin Range(windowsToGetActive)

(* Where a window is, nothing is seen that lies behind it in the list, nor  *)
(* what was there before: at every moment, though windows are updated one   *)
(* after the other.  Only the command that resizes a window at once draws   *)
(* it over those in front of it.                                            *)
StackingShown ==
    \A w \in Listed : Settled(w) =>
        \A x \in Inside(win[w]) \cap Screen :
            \/ x = Taskbar \/ pixels[x].of \in overdrawn
            \/ Depth(pixels[x].of) >= Depth(w)

=============================================================================
