----------------------------- MODULE WindowTasks -----------------------------
(***************************************************************************)
(* The main loop of the system (kernel.cpp, RenderLoop) as far as it runs   *)
(* tasks: the terminals' tasks, MAAB programs that open windows of their    *)
(* own, and the tasks that close windows, which every close button, key     *)
(* and program only asks for.  A window is known by the address of its      *)
(* block, which malloc may give to the next window once it is freed, while  *)
(* close tasks, the queue of windows to activate, the taskbar and the       *)
(* active window still hold it.                                             *)
(*                                                                          *)
(* A behaviour is followed until such a block is used while it is free      *)
(* (astray): the code writes through the address it was left with, whatever *)
(* lies there.  When a window has the block again it acts on that window.   *)
(*                                                                          *)
(* The order of the window list (which is the order of drawing) is left to  *)
(* choice here; Compositor has it.                                          *)
(***************************************************************************)
EXTENDS Naturals, FiniteSets, Sequences, SequencesExt

CONSTANTS
    Addrs,          \* addresses of window blocks
    First,          \* the terminal that is open after the boot
    Debug,          \* the debug terminal
    Programs,       \* MAAB tasks
    NULL, Enter,    \* no window or no program; an enter handler task
    MaxInputs,      \* bound: keys and clicks
    MaxCalls,       \* bound: window calls of programs
    MaxCrashes      \* osData.maxNonFatalCrashCount, 5 in the code

ASSUME WindowTasksAssumption ==
    /\ IsFiniteSet(Addrs) /\ First \in Addrs /\ Debug \notin Addrs
    /\ NULL \notin Addrs \cup {Debug} \cup Programs /\ Enter \notin Programs
    /\ MaxInputs \in Nat /\ MaxCalls \in Nat /\ MaxCrashes \in Nat

VARIABLES
    windows,            \* osData.windows
    block,              \* what is in the block at each address
    osTasks,            \* windows to close, osData.osTasks
    windowsToGetActive,
    activeWindow,
    taskWindowList,     \* the taskbar's copy of windows
    bgTaskRun,          \* whether hidden terminals run
    created,            \* windowsCreated of each program
    program,            \* where each program is
    pc,                 \* where the main loop is in its frame, or halted, or astray
    toVisit,            \* windows that this round has not visited
    crashesLeft,
    inputs, calls       \* for the bounds

shown == <<windowsToGetActive, activeWindow>>
code == <<created, program>>
bounds == <<inputs, calls>>
vars == <<windows, block, osTasks, shown, taskWindowList, bgTaskRun, code,
          pc, toVisit, crashesLeft, bounds>>

Free == [kind |-> "free"]

(* orphan is history: the program that opened the window was freed.         *)
Terminal(hide, close, tasks) ==
    [kind |-> "terminal", hidden |-> hide, closeWindowAfterTask |-> close,
     tasks |-> tasks, OnClose |-> NULL, orphan |-> FALSE]
Gui(onClose) ==
    [kind |-> "gui", hidden |-> FALSE, closeWindowAfterTask |-> FALSE,
     tasks |-> <<>>, OnClose |-> onClose, orphan |-> FALSE]

Listed == windows \ {Debug}
IsTerminal(w) == w \in Listed /\ block[w].kind = "terminal"

(* Where the loop is when it has used the block of w.                       *)
Used(w, at) == IF w \in Addrs /\ block[w] = Free THEN "astray" ELSE at

(* The first command is typed already.                                      *)
Init ==
    /\ windows = {First, Debug}
    /\ block = [a \in Addrs |-> IF a = First THEN Terminal(FALSE, FALSE, <<Enter>>)
                                ELSE Free]
    /\ osTasks = <<>> /\ windowsToGetActive = <<>>
    /\ activeWindow = First
    /\ taskWindowList = windows
    /\ bgTaskRun = TRUE
    /\ created = [p \in Programs |-> <<>>]
    /\ program = [p \in Programs |-> "none"]
    /\ pc = "keys" /\ toVisit = {}
    /\ crashesLeft = MaxCrashes
    /\ inputs = 0 /\ calls = 0

-----------------------------------------------------------------------------
(* A window is opened at any free address.                                  *)

Opened(a, contents) ==
    /\ a \in Addrs /\ block[a] = Free
    /\ block' = [block EXCEPT ![a] = contents]
    /\ windows' = windows \cup {a}

(* FreeTask of the tasks ts: a MAAB task gives up its windows and asks for  *)
(* them to be closed.                                                       *)
WindowsOf(ts) ==
    FlattenSeq([i \in DOMAIN ts |->
                IF ts[i] \in Programs THEN created[ts[i]] ELSE <<>>])

(* Mutant: Free forgets OnClose.                                            *)
OrphansKeepOnClose(ts, blocks) ==
    [a \in Addrs |-> IF a \in Range(WindowsOf(ts))
                     THEN [blocks[a] EXCEPT !.orphan = TRUE]
                     ELSE blocks[a]]

Orphaned(ts, blocks) ==
    [a \in Addrs |-> IF a \in Range(WindowsOf(ts))
                     THEN [blocks[a] EXCEPT !.OnClose = NULL, !.orphan = TRUE]
                     ELSE blocks[a]]

ProgramsFreed(ts) ==
    /\ program' = [p \in Programs |->
                   IF p \in Range(ts) THEN "none" ELSE program[p]]
    /\ created' = [p \in Programs |->
                   IF p \in Range(ts) THEN <<>> ELSE created[p]]

-----------------------------------------------------------------------------
(* HandleKeyboardList: keys.                                                *)

Input ==
    /\ inputs < MaxInputs /\ inputs' = inputs + 1
    /\ UNCHANGED calls

Key == pc = "keys" /\ Input /\ UNCHANGED <<pc, toVisit, bgTaskRun, crashesLeft,
                                           taskWindowList>>

(* Mutant: the task stays in the list.                                      *)
WithoutFirstTaskKept(w) == block

WithoutFirstTask(w) == [block EXCEPT ![w].tasks = Tail(@)]

KeyStopTask ==
    /\ Key
    /\ IsTerminal(activeWindow) /\ block[activeWindow].tasks # <<>>
    /\ LET ts == <<Head(block[activeWindow].tasks)>>
       IN  /\ block' = Orphaned(ts, WithoutFirstTask(activeWindow))
           /\ osTasks' = osTasks \o WindowsOf(ts)
           /\ ProgramsFreed(ts)
    /\ UNCHANGED <<windows, shown>>

KeyCloseWindow ==
    /\ Key
    /\ activeWindow # NULL
    /\ osTasks' = Append(osTasks, activeWindow)
    /\ UNCHANGED <<windows, block, shown, code>>

(* The next tab of the taskbar, in its order.                               *)
KeyNextTab ==
    /\ Key
    /\ \E w \in taskWindowList :
           windowsToGetActive' = Append(windowsToGetActive, w)
    /\ UNCHANGED <<windows, block, osTasks, activeWindow, code>>

KeyNewTerminal ==
    /\ Key
    /\ \E a \in Addrs :
           /\ Opened(a, Terminal(FALSE, FALSE, <<>>))
           /\ windowsToGetActive' = Append(windowsToGetActive, a)
    /\ UNCHANGED <<osTasks, activeWindow, code>>

KeyEnter ==
    /\ Key
    /\ IsTerminal(activeWindow) /\ block[activeWindow].tasks = <<>>
    /\ block' = [block EXCEPT ![activeWindow].tasks = <<Enter>>]
    /\ UNCHANGED <<windows, osTasks, shown, code>>

-----------------------------------------------------------------------------
(* One window of the queue becomes active, freed or not, and the taskbar is *)
(* drawn, at every eleventh frame with a new copy of the window list.       *)

Synced == windows

Activate ==
    /\ pc = "keys"
    /\ IF windowsToGetActive # <<>>
       THEN LET w == Head(windowsToGetActive)
            IN  /\ pc' = Used(w, "mouse")
                /\ windowsToGetActive' = Tail(windowsToGetActive)
                /\ activeWindow' = w
                /\ block' = IF w \in Listed
                            THEN [block EXCEPT ![w].hidden = FALSE]
                            ELSE block
       ELSE pc' = "mouse" /\ UNCHANGED <<shown, block>>
    /\ taskWindowList' \in {taskWindowList, Synced}
    /\ UNCHANGED <<windows, osTasks, bgTaskRun, code, toVisit, crashesLeft,
                   bounds>>

-----------------------------------------------------------------------------
(* HandleClick, HandleClick's buttons of a window, and the start menu.      *)

ClickOn(w) == /\ pc = "mouse" /\ pc' = Used(w, "mouse") /\ Input
              /\ UNCHANGED <<toVisit, bgTaskRun, crashesLeft, taskWindowList, code>>

Click == ClickOn(NULL)

Visible == {w \in Listed : ~block[w].hidden}

ClickClose(w) ==
    /\ Click /\ w \in Visible
    /\ osTasks' = Append(osTasks, w)
    /\ UNCHANGED <<windows, block, shown>>

ClickHide(w) ==
    /\ Click /\ w \in Visible
    /\ block' = [block EXCEPT ![w].hidden = TRUE]
    /\ activeWindow' = IF activeWindow = w THEN NULL ELSE activeWindow
    /\ UNCHANGED <<windows, osTasks, windowsToGetActive>>

ClickMaximize(w) ==
    /\ Click /\ w \in Visible
    /\ windowsToGetActive' = Append(windowsToGetActive, w)
    /\ UNCHANGED <<windows, block, osTasks, activeWindow>>

(* In a window, or on the background (NULL).                                *)
ClickWindow(w) ==
    /\ Click /\ w \in Visible \cup {NULL}
    /\ activeWindow' = w
    /\ UNCHANGED <<windows, block, osTasks, windowsToGetActive>>

ClickTaskbar ==
    /\ Click
    /\ activeWindow' = NULL
    /\ windowsToGetActive' = Append(windowsToGetActive, NULL)
    /\ UNCHANGED <<windows, block, osTasks>>

(* A tab of the taskbar's copy.                                             *)
ClickTab(w) ==
    /\ ClickOn(w) /\ w \in taskWindowList
    /\ activeWindow' = w
    /\ block' = IF w \in Listed THEN [block EXCEPT ![w].hidden = FALSE] ELSE block
    /\ UNCHANGED <<windows, osTasks, windowsToGetActive>>

MiddleClickTab(w) ==
    /\ Click /\ w \in taskWindowList
    /\ activeWindow' = NULL
    /\ osTasks' = Append(osTasks, w)
    /\ UNCHANGED <<windows, block, windowsToGetActive>>

(* An application of the start menu: a terminal with its command.           *)
StartApplication(a, hide, close) ==
    /\ Click
    /\ hide => close
    /\ Opened(a, Terminal(hide, close, <<Enter>>))
    /\ windowsToGetActive' = IF hide THEN windowsToGetActive
                             ELSE Append(windowsToGetActive, a)
    /\ UNCHANGED <<osTasks, activeWindow>>

-----------------------------------------------------------------------------
(* The tasks of a frame.                                                    *)

Runs(w) == IsTerminal(w) /\ (block[w].hidden => bgTaskRun)

(* Mutant: a frame that is late has no round.                               *)
AsTimeAllows == {"run", "keys"}

AtLeastOneRound == {"run"}

(* Mutant: hidden terminals do not close.                                   *)
FinishedVisible ==
    {w \in Listed : /\ Runs(w) /\ ~block[w].hidden
                    /\ block[w].tasks = <<>> /\ block[w].closeWindowAfterTask}

Finished ==
    {w \in Listed : /\ Runs(w)
                    /\ block[w].tasks = <<>> /\ block[w].closeWindowAfterTask}

CloseFinished ==
    /\ pc = "mouse" /\ pc' \in AtLeastOneRound
    /\ \E requests \in SetToSeqs(Finished) : osTasks' = osTasks \o requests
    /\ toVisit' = windows
    /\ UNCHANGED <<windows, block, shown, taskWindowList, bgTaskRun, code,
                   crashesLeft, bounds>>

(* The terminals of this round that have a task to do.                      *)
Waiting == {w \in toVisit : Runs(w) /\ block[w].tasks # <<>>}

(* HandleEnter: the command does nothing here, or closes its window (exit), *)
(* or sets bgTaskRun, or opens a window (connect4), or starts a program.    *)
RunCommand(w) ==
    /\ pc = "run" /\ w \in Waiting /\ Head(block[w].tasks) = Enter
    /\ toVisit' = toVisit \ {w}
    /\ UNCHANGED <<pc, taskWindowList, activeWindow, crashesLeft, bounds>>

CommandDone(w) ==
    /\ RunCommand(w)
    /\ block' = WithoutFirstTask(w)
    /\ UNCHANGED <<windows, osTasks, windowsToGetActive, bgTaskRun, code>>

CommandExit(w) ==
    /\ RunCommand(w)
    /\ block' = WithoutFirstTask(w)
    /\ osTasks' = Append(osTasks, w)
    /\ UNCHANGED <<windows, windowsToGetActive, bgTaskRun, code>>

CommandSet(w) ==
    /\ RunCommand(w)
    /\ block' = WithoutFirstTask(w)
    /\ bgTaskRun' = ~bgTaskRun
    /\ UNCHANGED <<windows, osTasks, windowsToGetActive, code>>

CommandOpens(w, a) ==
    /\ RunCommand(w)
    /\ a \in Addrs /\ block[a] = Free
    /\ block' = [WithoutFirstTask(w) EXCEPT ![a] = Gui(NULL)]
    /\ windows' = windows \cup {a}
    /\ windowsToGetActive' = Append(windowsToGetActive, a)
    /\ UNCHANGED <<osTasks, bgTaskRun, code>>

CommandMaab(w, p) ==
    /\ RunCommand(w)
    /\ program[p] = "none"
    /\ block' = [block EXCEPT ![w].tasks = Append(Tail(@), p)]
    /\ program' = [program EXCEPT ![p] = "running"]
    /\ UNCHANGED <<windows, osTasks, windowsToGetActive, bgTaskRun, created>>

(* A MAAB task: some of its window calls, or it ends, or it divides by zero. *)
RunProgram(w, p) ==
    /\ pc = "run" /\ w \in Waiting /\ Head(block[w].tasks) = p
    /\ program[p] = "running"

Called == calls < MaxCalls /\ calls' = calls + 1 /\ UNCHANGED inputs

(* Nothing that matters here: other instructions, a sleep, a wait for input.*)
ProgramGoesOn(w, p) ==
    /\ RunProgram(w, p)
    /\ toVisit' = toVisit \ {w}
    /\ UNCHANGED <<windows, block, osTasks, shown, taskWindowList, bgTaskRun,
                   code, pc, crashesLeft, bounds>>

(* A call does not end the visit: there are up to 100 instructions in it.   *)
ProgramCreatesWindow(w, p, a) ==
    /\ RunProgram(w, p) /\ Called
    /\ Opened(a, Gui(p))
    /\ created' = [created EXCEPT ![p] = Append(@, a)]
    /\ windowsToGetActive' = Append(windowsToGetActive, a)
    /\ UNCHANGED <<osTasks, activeWindow, taskWindowList, bgTaskRun,
                   program, pc, toVisit, crashesLeft>>

(* Any window: a program can give any window any id.                        *)
ProgramDeletesWindow(w, p, other) ==
    /\ RunProgram(w, p) /\ Called
    /\ other \in windows
    /\ osTasks' = Append(osTasks, other)
    /\ UNCHANGED <<windows, block, shown, taskWindowList, bgTaskRun, code,
                   pc, toVisit, crashesLeft>>

ProgramEnds(w, p) ==
    /\ RunProgram(w, p)
    /\ toVisit' = toVisit \ {w}
    /\ block' = Orphaned(<<p>>, WithoutFirstTask(w))
    /\ osTasks' = osTasks \o WindowsOf(<<p>>)
    /\ ProgramsFreed(<<p>>)
    /\ UNCHANGED <<windows, shown, taskWindowList, bgTaskRun, pc, crashesLeft,
                   bounds>>

(* The fault: Panic opens a window that says so and, unless the heap is the *)
(* backup one, another; RecoverDed hides every window and drops the tasks   *)
(* of the active one, whoever faulted, without freeing them.  The tasks to  *)
(* close windows stay.  After too many faults the kernel stops.             *)

(* Mutant: they do not (the line is in RecoverDed, commented out).          *)
ForgottenOsTasks == <<>>

OsTasksAfterFault == osTasks

CrashWindows ==
    LET free == {a \in Addrs : block[a] = Free}
    IN  {s \in SUBSET free : Cardinality(s) \in {1, 2}}
        \cup (IF free = {} THEN {{}} ELSE {})

Hidden(contents) ==
    IF contents = Free THEN Free ELSE [contents EXCEPT !.hidden = TRUE]

ProgramFaults(w, p) ==
    /\ pc = "run" /\ w \in Waiting /\ Head(block[w].tasks) = p
    /\ p \in Programs
    /\ crashesLeft > 0 /\ crashesLeft' = crashesLeft - 1
    /\ \E opened \in CrashWindows :
           LET dropped == IF IsTerminal(activeWindow)
                          THEN Range(block[activeWindow].tasks) ELSE {}
               blockOf(a) ==
                   IF a \in opened THEN Gui(NULL)
                   ELSE IF a = activeWindow /\ IsTerminal(a)
                        THEN [block[a] EXCEPT !.tasks = <<>>]
                        ELSE block[a]
           IN  /\ windows' = windows \cup opened
               /\ block' = [a \in Addrs |-> Hidden(blockOf(a))]
               /\ program' = [q \in Programs |->
                               IF q \in dropped THEN "leaked"
                               ELSE IF q = p THEN "faulty" ELSE program[q]]
               /\ IF opened = {} THEN UNCHANGED windowsToGetActive
                  ELSE \E a \in opened :
                           windowsToGetActive' = Append(windowsToGetActive, a)
    /\ osTasks' = OsTasksAfterFault
    /\ bgTaskRun' = FALSE
    /\ pc' = "keys" /\ toVisit' = {}
    /\ UNCHANGED <<activeWindow, taskWindowList, created, bounds>>

KernelPanic(w, p) ==
    /\ pc = "run" /\ w \in Waiting /\ Head(block[w].tasks) = p
    /\ p \in Programs
    /\ crashesLeft = 0
    /\ pc' = "halted"
    /\ UNCHANGED <<windows, block, osTasks, shown, taskWindowList, bgTaskRun,
                   code, toVisit, crashesLeft, bounds>>

-----------------------------------------------------------------------------
(* One task of osTasks at the end of a round: TaskWindowClose::Do, and      *)
(* Window::Free, which tells the program of the window and then frees the   *)
(* tasks of a terminal.                                                     *)

(* Mutant: the program is not told.                                         *)
NotTold(w) == created

OnExternalWindowClose(w) ==
    [p \in Programs |-> IF p = block[w].OnClose
                        THEN RemoveFirst(created[p], w)
                        ELSE created[p]]

(* Mutant: the window stays in the list.                                    *)
NotRemoved(w) == windows

Removed(w) == windows \ {w}

Close(w) ==
    LET ts == block[w].tasks
        told == OnExternalWindowClose(w)
    IN  /\ windows' = Removed(w)
        /\ activeWindow' = IF activeWindow = w THEN NULL ELSE activeWindow
        /\ created' = [p \in Programs |-> IF p \in Range(ts) THEN <<>> ELSE told[p]]
        /\ program' = [p \in Programs |->
                        IF p \in Range(ts) THEN "none" ELSE program[p]]
        /\ block' = [Orphaned(ts, block) EXCEPT ![w] = Free]
        /\ osTasks' = Tail(osTasks) \o WindowsOf(ts)

DoOsTask ==
    IF osTasks = <<>>
    THEN UNCHANGED <<windows, block, osTasks, activeWindow, code>>
    ELSE IF Head(osTasks) \in Listed
    THEN Close(Head(osTasks))
    ELSE /\ osTasks' = Tail(osTasks)
         /\ UNCHANGED <<windows, block, activeWindow, code>>

EndRound ==
    /\ pc = "run" /\ Waiting = {}
    /\ DoOsTask
    /\ UNCHANGED <<windowsToGetActive, taskWindowList, bgTaskRun, crashesLeft,
                   bounds>>

(* While the time of the frame is not over there is another round.          *)
AnotherRound == EndRound /\ pc' = "run" /\ toVisit' = windows'

EndFrame == EndRound /\ pc' = "keys" /\ toVisit' = {}

-----------------------------------------------------------------------------
Keyboard ==
    KeyStopTask \/ KeyCloseWindow \/ KeyNextTab \/ KeyNewTerminal \/ KeyEnter

Mouse ==
    \/ \E w \in Addrs : ClickClose(w) \/ ClickHide(w) \/ ClickMaximize(w)
    \/ \E w \in Addrs \cup {NULL} : ClickWindow(w)
    \/ ClickTaskbar
    \/ \E w \in Addrs \cup {Debug} : ClickTab(w) \/ MiddleClickTab(w)
    \/ \E a \in Addrs, hide, close \in BOOLEAN : StartApplication(a, hide, close)

Commands ==
    \E w \in Addrs :
        \/ CommandDone(w) \/ CommandExit(w) \/ CommandSet(w)
        \/ \E a \in Addrs : CommandOpens(w, a)
        \/ \E p \in Programs : CommandMaab(w, p)

RunPrograms ==
    \E w \in Addrs, p \in Programs :
        \/ ProgramGoesOn(w, p) \/ ProgramEnds(w, p)
        \/ \E a \in Addrs : ProgramCreatesWindow(w, p, a)
        \/ \E other \in windows : ProgramDeletesWindow(w, p, other)
        \/ ProgramFaults(w, p) \/ KernelPanic(w, p)

RenderLoop ==
    Activate \/ CloseFinished \/ Commands \/ RunPrograms \/ AnotherRound \/ EndFrame

Next == Keyboard \/ Mouse \/ RenderLoop

(* The loop goes on by itself, and the clock ends each frame.               *)
Spec == Init /\ [][Next]_vars /\ WF_vars(RenderLoop) /\ SF_vars(EndFrame)

-----------------------------------------------------------------------------
Contents ==
    [kind : {"terminal", "gui"}, hidden : BOOLEAN,
     closeWindowAfterTask : BOOLEAN, tasks : Seq(Programs \cup {Enter}),
     OnClose : Programs \cup {NULL}, orphan : BOOLEAN]

(* The blocks that are in use are those of the listed windows: no window is *)
(* in the list after its block is freed, and none is lost, though close     *)
(* tasks, the queue and the taskbar still have windows that are gone.  The  *)
(* debug terminal is never closed.                                          *)
Types ==
    /\ block \in [Addrs -> Contents \cup {Free}]
    /\ windows = {a \in Addrs : block[a] # Free} \cup {Debug}
    /\ taskWindowList \subseteq Addrs \cup {Debug}
    /\ osTasks \in Seq(Addrs \cup {Debug})
    /\ windowsToGetActive \in Seq(Addrs \cup {Debug, NULL})
    /\ activeWindow \in Addrs \cup {Debug, NULL}
    /\ bgTaskRun \in BOOLEAN
    /\ created \in [Programs -> Seq(Addrs)]
    /\ program \in [Programs -> {"none", "running", "faulty", "leaked"}]
    /\ pc \in {"keys", "mouse", "run", "halted", "astray"}
    /\ toVisit \subseteq Addrs \cup {Debug}
    /\ crashesLeft \in 0 .. MaxCrashes
    /\ inputs \in 0 .. MaxInputs /\ calls \in 0 .. MaxCalls

(* Until a freed block is used, the active window is open: what the keys    *)
(* and a fault do to it they do to a window, or to none.                    *)
TypeOK == Types /\ (pc # "astray" => activeWindow \in windows \cup {NULL})

(* Until a freed block is used, a window calls back the program that has it *)
(* in its list, which is not freed, a program has only such windows in its  *)
(* list, and keys go to a window that is open (TypeOK).                     *)
CallbacksPaired ==
    pc = "astray" \/
    /\ TypeOK
    /\ \A p \in Programs :
           /\ \A a \in Listed :
                  block[a].OnClose = p <=> a \in Range(created[p])
           /\ Range(created[p]) \subseteq Listed
           /\ program[p] = "none" => created[p] = <<>>

(* Until a freed block is used, every program that was started and is not   *)
(* freed is the task of just one open terminal, unless a fault dropped it,  *)
(* and no freed one is a task.                                              *)
OneTerminalPerProgram ==
    pc = "astray" \/
    \A p \in Programs :
        LET terminals == {w \in Listed : p \in Range(block[w].tasks)}
        IN  Cardinality(terminals) =
                IF program[p] \in {"running", "faulty"} THEN 1 ELSE 0

(* The windows of a program that was freed are about to be closed, until a  *)
(* freed block is used.                                                     *)
OrphansClosing ==
    pc = "astray" \/
    \A a \in Listed : block[a].orphan => a \in Range(osTasks)

(* However many windows and tasks there are, the windows that buttons, keys *)
(* and programs asked to close are closed (the bounds say that at some time *)
(* nobody asks for more), unless the kernel stops or uses a freed block.    *)
CloseServed == []<>(Range(osTasks) \cap Listed = {} \/ pc \in {"halted", "astray"})

(* The terminals of applications go when their task is done, hidden or not  *)
(* (unless hidden terminals do not run).                                    *)
ApplicationsClose ==
    []<>(\/ pc \in {"halted", "astray"}
         \/ \A w \in Listed : Runs(w) /\ block[w].closeWindowAfterTask
                              => block[w].tasks # <<>>)

=============================================================================
