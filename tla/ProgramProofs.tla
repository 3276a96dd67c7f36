---------------------------- MODULE ProgramProofs ----------------------------
(***************************************************************************)
(* MAAB programs.  First their windows and tasks: the invariants of         *)
(* WindowTasks, for any number of blocks, programs, inputs, window calls    *)
(* and faults.  Then the memory inside of each: the invariants of MaabMem,  *)
(* for every size of the buffer, of a header and of what is asked for.      *)
(***************************************************************************)
EXTENDS WindowTasks, MaabMem, SequenceLemmas, FiniteSetTheorems

Tasks == Programs \cup {Enter}
Targets == Addrs \cup {Debug}

-----------------------------------------------------------------------------
(* The windows of at most one task.                                         *)
LEMMA WindowsOfOne ==
    /\ WindowsOf(<<>>) = <<>>
    /\ \A x : WindowsOf(<<x>>) = IF x \in Programs THEN created[x] ELSE <<>>
<1>1. WindowsOf(<<>>) = <<>>
  BY DEF WindowsOf, FlattenSeq
<1>2. ASSUME NEW x
      PROVE  WindowsOf(<<x>>) = IF x \in Programs THEN created[x] ELSE <<>>
  <2> DEFINE own == IF x \in Programs THEN created[x] ELSE <<>>
  <2>1. [i \in DOMAIN <<x>> |->
            IF <<x>>[i] \in Programs THEN created[<<x>>[i]] ELSE <<>>] = <<own>>
    OBVIOUS
  <2> QED BY <2>1, FlattenOne DEF WindowsOf
<1> QED BY <1>1, <1>2

-----------------------------------------------------------------------------
LEMMA ContentsFields ==
    ASSUME NEW c \in Contents
    PROVE  /\ c # Free
           /\ c.hidden \in BOOLEAN /\ c.closeWindowAfterTask \in BOOLEAN
           /\ c.tasks \in Seq(Tasks) /\ c.OnClose \in Programs \cup {NULL}
           /\ c.orphan \in BOOLEAN
  BY DEF Contents, Free, Tasks

LEMMA HiddenChanged ==
    ASSUME NEW c \in Contents, NEW b \in BOOLEAN
    PROVE  LET d == [c EXCEPT !.hidden = b]
           IN  /\ d \in Contents /\ d.tasks = c.tasks
               /\ d.OnClose = c.OnClose /\ d.orphan = c.orphan
  BY DEF Contents

LEMMA TasksChanged ==
    ASSUME NEW c \in Contents, NEW ts \in Seq(Tasks)
    PROVE  LET d == [c EXCEPT !.tasks = ts]
           IN  /\ d \in Contents /\ d.tasks = ts
               /\ d.OnClose = c.OnClose /\ d.orphan = c.orphan
  BY DEF Contents, Tasks

LEMMA OrphanChanged ==
    ASSUME NEW c \in Contents
    PROVE  LET d == [c EXCEPT !.OnClose = NULL, !.orphan = TRUE]
           IN  /\ d \in Contents /\ d.tasks = c.tasks
               /\ d.OnClose = NULL /\ d.orphan = TRUE
  BY DEF Contents

LEMMA NewContents ==
    /\ \A hide, close \in BOOLEAN : \A ts \in Seq(Tasks) :
          LET d == Terminal(hide, close, ts)
          IN  /\ d \in Contents /\ d.tasks = ts
              /\ d.OnClose = NULL /\ d.orphan = FALSE
    /\ \A p \in Programs \cup {NULL} :
          /\ Gui(p) \in Contents /\ Gui(p).tasks = <<>>
          /\ Gui(p).OnClose = p /\ Gui(p).orphan = FALSE
  BY DEF Contents, Terminal, Gui, Tasks

-----------------------------------------------------------------------------
(* A terminal has at most one task: a program takes the place of the        *)
(* command that starts it.                                                  *)
AtMostOneTask == \A a \in Addrs : block[a] # Free => Len(block[a].tasks) <= 1

(* A program has each of its windows once in its list.                      *)
WindowsOnce == \A p \in Programs : IsInjective(created[p])

Paired ==
    \A p \in Programs :
        /\ \A a \in Listed : block[a].OnClose = p <=> a \in Range(created[p])
        /\ Range(created[p]) \subseteq Listed
        /\ program[p] = "none" => created[p] = <<>>

(* OneTerminalPerProgram without counting.                                  *)
OneTerminal ==
    \A p \in Programs :
        /\ \A v, w \in Listed :
              p \in Range(block[v].tasks) /\ p \in Range(block[w].tasks) => v = w
        /\ (\E w \in Listed : p \in Range(block[w].tasks)) <=>
              program[p] \in {"running", "faulty"}

(* OrphansClosing, whether or not a freed block was used.                   *)
OrphansAsked == \A a \in Listed : block[a].orphan => a \in Range(osTasks)

TypeInv == Types /\ AtMostOneTask

Inv == TypeInv /\ WindowsOnce /\ Paired /\ OneTerminal /\ OrphansAsked

LEMMA ListedBlocks ==
    ASSUME Types
    PROVE  /\ Listed = {a \in Addrs : block[a] # Free}
           /\ \A a \in Listed : a \in Addrs /\ block[a] \in Contents
  BY WindowTasksAssumption DEF Types, Listed

(* The windows of the first task of a terminal.                             *)
LEMMA FirstTask ==
    ASSUME TypeInv, NEW w \in Addrs, block[w] # Free, block[w].tasks # <<>>
    PROVE  /\ Head(block[w].tasks) \in Tasks
           /\ block[w].tasks = <<Head(block[w].tasks)>>
           /\ Tail(block[w].tasks) = <<>>
<1>1. block[w] \in Contents
  BY DEF TypeInv, Types
<1>2. block[w].tasks \in Seq(Tasks) /\ Len(block[w].tasks) <= 1
  BY <1>1, ContentsFields DEF TypeInv, AtMostOneTask
<1> QED BY <1>2, ShortSequence

-----------------------------------------------------------------------------
(* Types in two parts: the blocks, and the rest.                            *)
Blocks == [Addrs -> Contents \cup {Free}]

BlocksOK ==
    /\ block \in Blocks
    /\ windows = {a \in Addrs : block[a] # Free} \cup {Debug}
    /\ AtMostOneTask

CodeOK ==
    /\ osTasks \in Seq(Targets)
    /\ created \in [Programs -> Seq(Addrs)]
    /\ program \in [Programs -> {"none", "running", "faulty", "leaked"}]

LoopOK ==
    /\ taskWindowList \subseteq Targets
    /\ windowsToGetActive \in Seq(Targets \cup {NULL})
    /\ activeWindow \in Targets \cup {NULL}
    /\ bgTaskRun \in BOOLEAN
    /\ pc \in {"keys", "mouse", "run", "halted", "astray"}
    /\ toVisit \subseteq Targets
    /\ crashesLeft \in 0 .. MaxCrashes
    /\ inputs \in 0 .. MaxInputs /\ calls \in 0 .. MaxCalls

LEMMA TypeParts == TypeInv <=> BlocksOK /\ CodeOK /\ LoopOK
<1>1. Targets \cup {NULL} = Addrs \cup {Debug, NULL}
  BY DEF Targets
<1> QED BY <1>1 DEF TypeInv, Types, BlocksOK, CodeOK, LoopOK, Blocks, Targets

(* What the other invariants look at in a block.                            *)
Progs(c) == Range(c.tasks) \cap Programs

SameView(a) ==
    /\ block'[a] = Free <=> block[a] = Free
    /\ block[a] # Free => /\ Progs(block'[a]) = Progs(block[a])
                          /\ block'[a].OnClose = block[a].OnClose
                          /\ block'[a].orphan = block[a].orphan

-----------------------------------------------------------------------------
(* Changes of one block.                                                    *)
LEMMA BlockSet ==
    ASSUME BlocksOK, NEW a \in Addrs, NEW c \in Contents, Len(c.tasks) <= 1,
           block' = [block EXCEPT ![a] = c],
           windows' = windows \cup {a}
    PROVE  /\ BlocksOK' /\ block'[a] = c
           /\ \A x \in Addrs \ {a} : SameView(x)
<1>1. c # Free
  BY ContentsFields
<1> QED BY <1>1 DEF Blocks, BlocksOK, AtMostOneTask, SameView

LEMMA HiddenSet ==
    ASSUME BlocksOK, NEW w \in Addrs, block[w] # Free, NEW b \in BOOLEAN,
           block' = [block EXCEPT ![w].hidden = b], UNCHANGED windows
    PROVE  BlocksOK' /\ \A x \in Addrs : SameView(x)
<1> DEFINE d == [block[w] EXCEPT !.hidden = b]
<1>1. block[w] \in Contents /\ Len(block[w].tasks) <= 1
  BY DEF BlocksOK, Blocks, AtMostOneTask
<1>2. /\ d \in Contents /\ d.tasks = block[w].tasks
      /\ d.OnClose = block[w].OnClose /\ d.orphan = block[w].orphan /\ d # Free
  BY <1>1, HiddenChanged, ContentsFields
<1>3. block' = [block EXCEPT ![w] = d] /\ windows' = windows \cup {w}
  BY DEF BlocksOK, Blocks
<1> HIDE DEF d
<1>4. BlocksOK' /\ block'[w] = d /\ \A x \in Addrs \ {w} : SameView(x)
  BY <1>1, <1>2, <1>3, BlockSet
<1>5. SameView(w)
  BY <1>2, <1>4 DEF SameView, Progs
<1> QED BY <1>4, <1>5

LEMMA TasksSet ==
    ASSUME BlocksOK, NEW w \in Addrs, block[w] # Free,
           NEW ts \in Seq(Tasks), Len(ts) <= 1,
           block' = [block EXCEPT ![w].tasks = ts], UNCHANGED windows
    PROVE  /\ BlocksOK' /\ \A x \in Addrs \ {w} : SameView(x)
           /\ block'[w] \in Contents /\ block'[w].tasks = ts
           /\ block'[w].OnClose = block[w].OnClose
           /\ block'[w].orphan = block[w].orphan
<1> DEFINE d == [block[w] EXCEPT !.tasks = ts]
<1>1. block[w] \in Contents
  BY DEF BlocksOK, Blocks
<1>2. /\ d \in Contents /\ d.tasks = ts
      /\ d.OnClose = block[w].OnClose /\ d.orphan = block[w].orphan
  BY <1>1, TasksChanged
<1>3. block' = [block EXCEPT ![w] = d] /\ windows' = windows \cup {w}
  BY DEF BlocksOK, Blocks
<1> HIDE DEF d
<1>4. BlocksOK' /\ block'[w] = d /\ \A x \in Addrs \ {w} : SameView(x)
  BY <1>2, <1>3, BlockSet
<1> QED BY <1>2, <1>4

(* Windows of a program that was freed.                                     *)
LEMMA OrphansMade ==
    ASSUME NEW blocks \in Blocks, NEW ts, Range(WindowsOf(ts)) \subseteq Addrs,
           \A a \in Range(WindowsOf(ts)) : blocks[a] # Free
    PROVE  LET made == Orphaned(ts, blocks) IN
           /\ made \in Blocks
           /\ \A a \in Addrs :
                 /\ made[a] = Free <=> blocks[a] = Free
                 /\ blocks[a] # Free =>
                       /\ made[a].tasks = blocks[a].tasks
                       /\ made[a].OnClose = IF a \in Range(WindowsOf(ts)) THEN NULL
                                            ELSE blocks[a].OnClose
                       /\ made[a].orphan = (a \in Range(WindowsOf(ts))
                                               \/ blocks[a].orphan)
<1> DEFINE made == Orphaned(ts, blocks)
<1>1. ASSUME NEW a \in Addrs, a \in Range(WindowsOf(ts))
      PROVE  /\ made[a] \in Contents /\ made[a].tasks = blocks[a].tasks
             /\ made[a].OnClose = NULL /\ made[a].orphan = TRUE
  <2>1. blocks[a] \in Contents
    BY <1>1 DEF Blocks
  <2> QED BY <1>1, <2>1, OrphanChanged DEF Orphaned
<1>2. ASSUME NEW a \in Addrs, a \notin Range(WindowsOf(ts))
      PROVE  made[a] = blocks[a]
  BY <1>2 DEF Orphaned
<1>3. DOMAIN made = Addrs /\ made = [a \in Addrs |-> made[a]]
  BY DEF Orphaned
<1> HIDE DEF made
<1>4. made \in Blocks
  BY <1>1, <1>2, <1>3 DEF Blocks
<1>5. \A a \in Addrs : blocks[a] # Free => blocks[a] \in Contents
  BY DEF Blocks
<1>6. \A c \in Contents : c # Free /\ c.orphan \in BOOLEAN
  BY ContentsFields
<1> SUFFICES ASSUME NEW a \in Addrs
             PROVE  /\ made[a] = Free <=> blocks[a] = Free
                    /\ blocks[a] # Free =>
                       /\ made[a].tasks = blocks[a].tasks
                       /\ made[a].OnClose = IF a \in Range(WindowsOf(ts)) THEN NULL
                                            ELSE blocks[a].OnClose
                       /\ made[a].orphan = (a \in Range(WindowsOf(ts))
                                               \/ blocks[a].orphan)
  BY <1>4 DEF made
<1>7. CASE a \in Range(WindowsOf(ts))
  BY <1>1, <1>6, <1>7
<1>8. CASE a \notin Range(WindowsOf(ts))
  BY <1>2, <1>5, <1>6, <1>8
<1> QED BY <1>7, <1>8

-----------------------------------------------------------------------------
(* What a step does to the other invariants.  The programs in F are freed   *)
(* and the windows in R go away (both may be empty).                        *)
LEMMA Shrinks ==
    ASSUME Inv, TypeInv', NEW F \in SUBSET Programs, NEW R \in SUBSET Listed,
           Listed' = Listed \ R,
           \A a \in R : Progs(block[a]) \subseteq F,
           \A a \in Listed \ R :
              /\ Progs(block'[a]) = Progs(block[a]) \ F
              /\ block'[a].OnClose = IF block[a].OnClose \in F THEN NULL
                                     ELSE block[a].OnClose
              /\ block'[a].orphan => block[a].orphan \/ block[a].OnClose \in F
              /\ a \in Range(osTasks) \/ block[a].OnClose \in F
                    => a \in Range(osTasks'),
           program' = [p \in Programs |-> IF p \in F THEN "none" ELSE program[p]],
           \A p \in F : created'[p] = <<>>,
           \A p \in Programs \ F : /\ IsInjective(created'[p])
                                   /\ Range(created'[p]) = Range(created[p]) \ R
    PROVE  Inv'
<1>1. Types /\ Paired /\ WindowsOnce /\ OneTerminal /\ OrphansAsked
  BY DEF Inv, TypeInv
<1>2. Range(<<>>) = {} /\ IsInjective(<<>>)
  BY DEF Range, IsInjective
<1>3. NULL \notin Programs
  BY WindowTasksAssumption
<1>4. WindowsOnce'
  BY <1>2 DEF WindowsOnce
<1>5. Paired'
  <2> SUFFICES ASSUME NEW p \in Programs
               PROVE  /\ \A a \in Listed' :
                             block'[a].OnClose = p <=> a \in Range(created'[p])
                      /\ Range(created'[p]) \subseteq Listed'
                      /\ program'[p] = "none" => created'[p] = <<>>
    BY DEF Paired
  <2>1. CASE p \in F
    BY <1>2, <1>3, <2>1
  <2>2. CASE p \notin F
    <3>1. program'[p] = "none" => created'[p] = <<>>
      <4> SUFFICES ASSUME program'[p] = "none" PROVE created'[p] = <<>>
        OBVIOUS
      <4>1. created[p] = <<>>
        BY <1>1, <2>2 DEF Paired
      <4>2. Range(created'[p]) = {}
        BY <1>2, <2>2, <4>1
      <4>3. created'[p] \in Seq(Addrs)
        BY DEF TypeInv, Types
      <4> QED BY <4>2, <4>3 DEF Range
    <3> QED BY <1>1, <1>3, <2>2, <3>1 DEF Paired
  <2> QED BY <2>1, <2>2
<1>6. OneTerminal'
  <2> SUFFICES ASSUME NEW p \in Programs
               PROVE  /\ \A v, w \in Listed' :
                            p \in Progs(block'[v]) /\ p \in Progs(block'[w])
                            => v = w
                      /\ (\E w \in Listed' : p \in Progs(block'[w])) <=>
                            program'[p] \in {"running", "faulty"}
    BY DEF OneTerminal, Progs
  <2>1. /\ \A v, w \in Listed :
              p \in Progs(block[v]) /\ p \in Progs(block[w]) => v = w
        /\ (\E w \in Listed : p \in Progs(block[w])) <=>
              program[p] \in {"running", "faulty"}
    BY <1>1 DEF OneTerminal, Progs
  <2>2. \A w \in Listed' : p \in Progs(block'[w]) <=>
                               p \notin F /\ p \in Progs(block[w])
    OBVIOUS
  <2>3. CASE p \in F
    BY <2>2, <2>3
  <2>4. CASE p \notin F
    BY <2>1, <2>2, <2>4
  <2> QED BY <2>3, <2>4
<1>7. OrphansAsked'
  BY <1>1 DEF OrphansAsked
<1> QED BY <1>4, <1>5, <1>6, <1>7 DEF Inv

(* Nothing that the other invariants look at changes.                       *)
LEMMA Kept ==
    ASSUME Inv, TypeInv', \A a \in Addrs : SameView(a),
           Listed \cap Range(osTasks) \subseteq Range(osTasks'),
           UNCHANGED <<created, program>>
    PROVE  Inv'
<1>1. Types /\ Types' /\ WindowsOnce
  BY DEF Inv, TypeInv
<1>2. /\ Listed' = {a \in Addrs : block'[a] # Free}
      /\ Listed = {a \in Addrs : block[a] # Free}
  BY <1>1, ListedBlocks, WindowTasksAssumption DEF Types, Listed
<1>3. Listed' = Listed \ {}
  BY <1>2 DEF SameView
<1>4. program' = [p \in Programs |-> IF p \in {} THEN "none" ELSE program[p]]
  BY <1>1 DEF Types
<1>5. \A a \in Listed : block[a] # Free /\ SameView(a)
  BY <1>2
<1>6. \A a \in Listed \ {} :
         /\ Progs(block'[a]) = Progs(block[a]) \ {}
         /\ block'[a].OnClose = IF block[a].OnClose \in {} THEN NULL
                                ELSE block[a].OnClose
         /\ block'[a].orphan => block[a].orphan \/ block[a].OnClose \in {}
         /\ a \in Range(osTasks) \/ block[a].OnClose \in {} => a \in Range(osTasks')
  BY <1>5 DEF SameView
<1>7. \A p \in Programs \ {} : /\ IsInjective(created'[p])
                               /\ Range(created'[p]) = Range(created[p]) \ {}
  BY <1>1 DEF WindowsOnce
<1>8. /\ {} \in SUBSET Programs /\ {} \in SUBSET Listed
      /\ \A a \in {} : Progs(block[a]) \subseteq {}
      /\ \A p \in {} : created'[p] = <<>>
  OBVIOUS
<1> QED BY <1>3, <1>4, <1>6, <1>7, <1>8, Shrinks

(* The windows in N are opened, with the callback onClose.                  *)
LEMMA Opens ==
    ASSUME Inv, TypeInv', NEW N \in SUBSET Addrs,
           \A a \in N : block[a] = Free,
           NEW onClose \in Programs \cup {NULL},
           onClose \in Programs => program[onClose] # "none",
           \A a \in Addrs \ N : SameView(a),
           \A a \in N : /\ block'[a] # Free /\ Progs(block'[a]) = {}
                        /\ block'[a].OnClose = onClose /\ ~block'[a].orphan,
           UNCHANGED <<osTasks, program>>,
           \A p \in Programs :
              IF p = onClose
              THEN /\ Range(created'[p]) = Range(created[p]) \cup N
                   /\ IsInjective(created'[p])
              ELSE created'[p] = created[p]
    PROVE  Inv'
<1>1. /\ Types /\ Types'
      /\ Paired /\ WindowsOnce /\ OneTerminal /\ OrphansAsked
  BY DEF Inv, TypeInv
<1>2. /\ Listed' = {a \in Addrs : block'[a] # Free}
      /\ Listed = {a \in Addrs : block[a] # Free}
  BY <1>1, ListedBlocks, WindowTasksAssumption DEF Types, Listed
<1>3. /\ Listed' = Listed \cup N /\ Listed \cap N = {}
      /\ \A a \in Listed : /\ Progs(block'[a]) = Progs(block[a])
                            /\ block'[a].OnClose = block[a].OnClose
                            /\ block'[a].orphan = block[a].orphan
  BY <1>2 DEF SameView
<1>4. NULL \notin Programs
  BY WindowTasksAssumption
<1>5. WindowsOnce'
  BY <1>1 DEF WindowsOnce
<1>6. Paired'
  BY <1>1, <1>3, <1>4 DEF Paired
<1>7. OneTerminal'
  <2> SUFFICES ASSUME NEW p \in Programs
               PROVE  /\ \A v, w \in Listed' :
                            p \in Progs(block'[v]) /\ p \in Progs(block'[w])
                            => v = w
                      /\ (\E w \in Listed' : p \in Progs(block'[w])) <=>
                            program'[p] \in {"running", "faulty"}
    BY DEF OneTerminal, Progs
  <2>1. /\ \A v, w \in Listed :
              p \in Progs(block[v]) /\ p \in Progs(block[w]) => v = w
        /\ (\E w \in Listed : p \in Progs(block[w])) <=>
              program[p] \in {"running", "faulty"}
    BY <1>1 DEF OneTerminal, Progs
  <2>2. \A w \in Listed' : p \in Progs(block'[w]) <=>
                               w \in Listed /\ p \in Progs(block[w])
    BY <1>3
  <2> QED BY <1>3, <2>1, <2>2
<1>8. OrphansAsked'
  BY <1>1, <1>3 DEF OrphansAsked
<1> QED BY <1>5, <1>6, <1>7, <1>8 DEF Inv

(* The command of the terminal w starts the program p in its place.         *)
LEMMA Starts ==
    ASSUME Inv, TypeInv', NEW w \in Listed, NEW p \in Programs,
           program[p] = "none",
           program' = [program EXCEPT ![p] = "running"],
           UNCHANGED <<osTasks, created>>,
           \A a \in Addrs \ {w} : SameView(a),
           block'[w] # Free, Progs(block[w]) = {}, Progs(block'[w]) = {p},
           block'[w].OnClose = block[w].OnClose,
           block'[w].orphan = block[w].orphan
    PROVE  Inv'
<1>1. /\ Types /\ Types'
      /\ Paired /\ WindowsOnce /\ OneTerminal /\ OrphansAsked
  BY DEF Inv, TypeInv
<1>2. /\ Listed' = {a \in Addrs : block'[a] # Free}
      /\ Listed = {a \in Addrs : block[a] # Free}
  BY <1>1, ListedBlocks, WindowTasksAssumption DEF Types, Listed
<1>3. /\ Listed' = Listed
      /\ \A a \in Listed : /\ block'[a].OnClose = block[a].OnClose
                            /\ block'[a].orphan = block[a].orphan
      /\ \A a \in Listed \ {w} : Progs(block'[a]) = Progs(block[a])
  BY <1>2 DEF SameView
<1>4. \A q \in Programs : program'[q] = IF q = p THEN "running" ELSE program[q]
  BY <1>1 DEF Types
<1>5. WindowsOnce' /\ Paired' /\ OrphansAsked'
  BY <1>1, <1>3, <1>4 DEF WindowsOnce, Paired, OrphansAsked
<1>6. OneTerminal'
  <2> SUFFICES ASSUME NEW q \in Programs
               PROVE  /\ \A v, x \in Listed' :
                            q \in Progs(block'[v]) /\ q \in Progs(block'[x])
                            => v = x
                      /\ (\E x \in Listed' : q \in Progs(block'[x])) <=>
                            program'[q] \in {"running", "faulty"}
    BY DEF OneTerminal, Progs
  <2>1. /\ \A v, x \in Listed :
              q \in Progs(block[v]) /\ q \in Progs(block[x]) => v = x
        /\ (\E x \in Listed : q \in Progs(block[x])) <=>
              program[q] \in {"running", "faulty"}
    BY <1>1 DEF OneTerminal, Progs
  <2>2. CASE q = p
    BY <1>3, <1>4, <2>1, <2>2
  <2>3. CASE q # p
    BY <1>3, <1>4, <2>1, <2>3
  <2> QED BY <2>2, <2>3
<1> QED BY <1>5, <1>6 DEF Inv

(* The program p faults: the programs in D are dropped, the windows in N    *)
(* are opened to say so.                                                    *)
LEMMA Faults ==
    ASSUME Inv, TypeInv', NEW D \in SUBSET Programs, NEW N \in SUBSET Addrs,
           NEW p \in Programs, \E w \in Listed : p \in Progs(block[w]),
           \A a \in N : block[a] = Free,
           program' = [q \in Programs |-> IF q \in D THEN "leaked"
                                          ELSE IF q = p THEN "faulty"
                                          ELSE program[q]],
           UNCHANGED <<osTasks, created>>,
           \A a \in N : /\ block'[a] # Free /\ Progs(block'[a]) = {}
                        /\ block'[a].OnClose = NULL /\ ~block'[a].orphan,
           \A a \in Addrs \ N : block'[a] = Free <=> block[a] = Free,
           \A a \in Listed : /\ Progs(block'[a]) = Progs(block[a]) \ D
                             /\ block'[a].OnClose = block[a].OnClose
                             /\ block'[a].orphan = block[a].orphan
    PROVE  Inv'
<1>1. /\ Types /\ Types'
      /\ Paired /\ WindowsOnce /\ OneTerminal /\ OrphansAsked
  BY DEF Inv, TypeInv
<1>2. /\ Listed' = {a \in Addrs : block'[a] # Free}
      /\ Listed = {a \in Addrs : block[a] # Free}
  BY <1>1, ListedBlocks, WindowTasksAssumption DEF Types, Listed
<1>3. Listed' = Listed \cup N /\ Listed \cap N = {}
  BY <1>2
<1>4. NULL \notin Programs
  BY WindowTasksAssumption
<1>5. WindowsOnce'
  BY <1>1 DEF WindowsOnce
<1>6. Paired'
  <2>1. \A q \in Programs : program'[q] = "none" => program[q] = "none"
    OBVIOUS
  <2> QED BY <1>1, <1>3, <1>4, <2>1 DEF Paired
<1>7. OneTerminal'
  <2> SUFFICES ASSUME NEW q \in Programs
               PROVE  /\ \A v, x \in Listed' :
                            q \in Progs(block'[v]) /\ q \in Progs(block'[x])
                            => v = x
                      /\ (\E x \in Listed' : q \in Progs(block'[x])) <=>
                            program'[q] \in {"running", "faulty"}
    BY DEF OneTerminal, Progs
  <2>1. /\ \A v, x \in Listed :
              q \in Progs(block[v]) /\ q \in Progs(block[x]) => v = x
        /\ (\E x \in Listed : q \in Progs(block[x])) <=>
              program[q] \in {"running", "faulty"}
    BY <1>1 DEF OneTerminal, Progs
  <2>2. \A x \in Listed' : q \in Progs(block'[x]) <=>
                  x \in Listed /\ q \in Progs(block[x]) /\ q \notin D
    BY <1>3
  <2>3. CASE q \in D
    BY <2>2, <2>3
  <2>4. CASE q \notin D
    BY <1>3, <2>1, <2>2, <2>4
  <2> QED BY <2>3, <2>4
<1>8. OrphansAsked'
  BY <1>1, <1>3 DEF OrphansAsked
<1> QED BY <1>5, <1>6, <1>7, <1>8 DEF Inv

-----------------------------------------------------------------------------
(* The actions.  First those that leave the blocks and programs alone.      *)
LEMMA NothingOpened ==
    ASSUME Inv, LoopOK', UNCHANGED <<windows, block, created, program>>,
           osTasks' \in Seq(Targets),
           Listed \cap Range(osTasks) \subseteq Range(osTasks')
    PROVE  Inv'
<1>1. BlocksOK /\ CodeOK
  BY TypeParts DEF Inv
<1>2. BlocksOK' /\ CodeOK'
  BY <1>1 DEF BlocksOK, CodeOK, AtMostOneTask
<1>3. TypeInv'
  BY <1>2, TypeParts, PTL
<1>4. \A a \in Addrs : SameView(a)
  BY DEF SameView
<1> QED BY <1>3, <1>4, Kept

LEMMA Asked ==
    ASSUME CodeOK, NEW w \in Targets, osTasks' = Append(osTasks, w)
    PROVE  osTasks' \in Seq(Targets) /\ Range(osTasks) \subseteq Range(osTasks')
  BY RangeOfAppend, AppendProperties DEF CodeOK

LEMMA ToActivate ==
    ASSUME LoopOK, NEW w \in Targets \cup {NULL}
    PROVE  Append(windowsToGetActive, w) \in Seq(Targets \cup {NULL})
  BY AppendProperties DEF LoopOK

LEMMA QuietKeys ==
    ASSUME Inv, KeyCloseWindow \/ KeyNextTab
    PROVE  Inv'
<1>1. CodeOK /\ LoopOK
  BY TypeParts DEF Inv
<1>2. CASE KeyCloseWindow
  <2>1. activeWindow \in Targets
    BY <1>1, <1>2 DEF LoopOK, KeyCloseWindow
  <2>2. osTasks' \in Seq(Targets) /\ Range(osTasks) \subseteq Range(osTasks')
    BY <1>1, <1>2, <2>1, Asked DEF KeyCloseWindow
  <2>3. LoopOK'
    BY <1>1, <1>2, WindowTasksAssumption
       DEF LoopOK, KeyCloseWindow, Key, Input, shown
  <2> QED BY <1>2, <2>2, <2>3, NothingOpened DEF KeyCloseWindow, code
<1>3. CASE KeyNextTab
  <2>1. windowsToGetActive' \in Seq(Targets \cup {NULL})
    BY <1>1, <1>3, ToActivate DEF KeyNextTab, LoopOK
  <2>2. LoopOK'
    BY <1>1, <1>3, <2>1, WindowTasksAssumption
       DEF LoopOK, KeyNextTab, Key, Input
  <2>3. osTasks' = osTasks /\ osTasks \in Seq(Targets)
    BY <1>1, <1>3 DEF KeyNextTab, CodeOK
  <2> QED BY <1>3, <2>2, <2>3, NothingOpened DEF KeyNextTab, code
<1> QED BY <1>2, <1>3

(* What every click leaves alone.                                           *)
LEMMA ClickFrame ==
    ASSUME LoopOK, NEW w, ClickOn(w)
    PROVE  /\ UNCHANGED <<toVisit, bgTaskRun, crashesLeft, taskWindowList, calls,
                          created, program>>
           /\ inputs' \in 0 .. MaxInputs /\ pc' \in {"mouse", "astray"}
  BY WindowTasksAssumption DEF ClickOn, Used, Input, LoopOK, code

LEMMA QuietClicks ==
    ASSUME Inv, NEW w,
           \/ w \in Addrs /\ (ClickClose(w) \/ ClickMaximize(w))
           \/ w \in Addrs \cup {NULL} /\ ClickWindow(w)
           \/ ClickTaskbar
           \/ w \in Targets /\ MiddleClickTab(w)
    PROVE  Inv'
<1>1. CodeOK /\ LoopOK
  BY TypeParts DEF Inv
<1>2. Click
  BY DEF ClickClose, ClickMaximize, ClickWindow, ClickTaskbar, MiddleClickTab
<1>3. /\ UNCHANGED <<toVisit, bgTaskRun, crashesLeft, taskWindowList, calls,
                     created, program>>
      /\ inputs' \in 0 .. MaxInputs /\ pc' \in {"mouse", "astray"}
  BY <1>1, <1>2, ClickFrame DEF Click
<1>4. UNCHANGED <<windows, block>>
  BY DEF ClickClose, ClickMaximize, ClickWindow, ClickTaskbar, MiddleClickTab
<1>5. osTasks \in Seq(Targets) /\ Addrs \subseteq Targets
  BY <1>1 DEF CodeOK, Targets
<1>6. osTasks' \in Seq(Targets) /\ Range(osTasks) \subseteq Range(osTasks')
  <2>1. CASE w \in Targets /\ osTasks' = Append(osTasks, w)
    BY <1>1, <2>1, Asked
  <2>2. CASE osTasks' = osTasks
    BY <1>5, <2>2
  <2> QED BY <1>5, <2>1, <2>2
          DEF ClickClose, ClickMaximize, ClickWindow, ClickTaskbar, MiddleClickTab
<1>7. windowsToGetActive' \in Seq(Targets \cup {NULL})
  <2>1. \A x \in Targets \cup {NULL} :
           Append(windowsToGetActive, x) \in Seq(Targets \cup {NULL})
    BY <1>1, ToActivate
  <2> QED BY <1>1, <1>5, <2>1 DEF LoopOK, shown, ClickClose, ClickMaximize,
             ClickWindow, ClickTaskbar, MiddleClickTab
<1>8. activeWindow' \in Targets \cup {NULL}
  BY <1>1, <1>5 DEF LoopOK, shown, ClickClose, ClickMaximize, ClickWindow,
     ClickTaskbar, MiddleClickTab
<1>9. LoopOK'
  BY <1>1, <1>3, <1>7, <1>8 DEF LoopOK
<1> QED BY <1>3, <1>4, <1>6, <1>9, NothingOpened

LEMMA FinishedAsked ==
    ASSUME Inv, NEW requests \in SetToSeqs(Finished),
           osTasks' = osTasks \o requests
    PROVE  osTasks' \in Seq(Targets) /\ Range(osTasks) \subseteq Range(osTasks')
<1>1. Types /\ osTasks \in Seq(Targets)
  BY TypeParts DEF Inv, TypeInv, CodeOK
<1>2. Finished \subseteq Addrs
  BY <1>1, ListedBlocks DEF Finished
<1>3. Cardinality(Finished) \in Nat
  BY <1>2, WindowTasksAssumption, FS_Subset, FS_CardinalityType
<1>4. requests \in Seq(Targets)
  BY <1>2, <1>3, SeqDef DEF SetToSeqs, Targets
<1> QED BY <1>1, <1>4, RangeOfConcat

LEMMA CloseFinishedStep ==
    ASSUME Inv, CloseFinished
    PROVE  Inv'
<1>1. CodeOK /\ LoopOK /\ Types
  BY TypeParts DEF Inv, TypeInv
<1>2. windows \subseteq Targets
  BY <1>1, WindowTasksAssumption DEF Types, Targets
<1>3. osTasks' \in Seq(Targets) /\ Range(osTasks) \subseteq Range(osTasks')
  BY FinishedAsked DEF CloseFinished
<1>4. LoopOK'
  BY <1>1, <1>2 DEF LoopOK, CloseFinished, AtLeastOneRound, shown, bounds
<1> QED BY <1>3, <1>4, NothingOpened DEF CloseFinished, code

LEMMA QuietPrograms ==
    ASSUME Inv, NEW w \in Addrs, NEW p \in Programs,
           \/ ProgramGoesOn(w, p) \/ KernelPanic(w, p)
           \/ \E other \in windows : ProgramDeletesWindow(w, p, other)
    PROVE  Inv'
<1>1. CodeOK /\ LoopOK /\ Types
  BY TypeParts DEF Inv, TypeInv
<1>2. /\ windows \subseteq Targets
      /\ osTasks \in Seq(Targets)
  BY <1>1, WindowTasksAssumption DEF Types, Targets, CodeOK
<1>3. CASE ProgramGoesOn(w, p)
  <2>1. LoopOK'
    BY <1>1, <1>3 DEF LoopOK, ProgramGoesOn, shown, bounds
  <2> QED BY <1>2, <1>3, <2>1, NothingOpened DEF ProgramGoesOn, code
<1>4. CASE KernelPanic(w, p)
  <2>1. LoopOK'
    BY <1>1, <1>4 DEF LoopOK, KernelPanic, shown, bounds
  <2> QED BY <1>2, <1>4, <2>1, NothingOpened DEF KernelPanic, code
<1>5. ASSUME NEW other \in windows, ProgramDeletesWindow(w, p, other)
      PROVE  Inv'
  <2>1. osTasks' \in Seq(Targets) /\ Range(osTasks) \subseteq Range(osTasks')
    BY <1>1, <1>2, <1>5, Asked DEF ProgramDeletesWindow
  <2>2. LoopOK'
    BY <1>1, <1>5, WindowTasksAssumption
       DEF LoopOK, ProgramDeletesWindow, Called, shown
  <2> QED BY <1>5, <2>1, <2>2, NothingOpened DEF ProgramDeletesWindow, code
<1> QED BY <1>3, <1>4, <1>5

(* Those that change only what the other invariants do not look at.         *)
LEMMA ViewKept ==
    ASSUME Inv, BlocksOK', LoopOK', \A a \in Addrs : SameView(a),
           osTasks' \in Seq(Targets),
           Listed \cap Range(osTasks) \subseteq Range(osTasks'),
           UNCHANGED <<created, program>>
    PROVE  Inv'
<1>1. CodeOK
  BY TypeParts DEF Inv
<1>2. CodeOK'
  BY <1>1 DEF CodeOK
<1>3. TypeInv'
  BY <1>2, TypeParts, PTL
<1> QED BY <1>3, Kept

LEMMA ListedBlock ==
    ASSUME Inv, NEW w \in Listed
    PROVE  /\ BlocksOK /\ CodeOK /\ LoopOK /\ w \in Addrs /\ w \in Targets
           /\ block[w] # Free /\ block[w] \in Contents
           /\ osTasks \in Seq(Targets)
<1>1. Types /\ BlocksOK /\ CodeOK /\ LoopOK
  BY TypeParts DEF Inv, TypeInv
<1> QED BY <1>1, ListedBlocks DEF Targets, CodeOK

(* A window that is shown or hidden, or none.                               *)
LEMMA Shown ==
    ASSUME Inv, NEW w, NEW b \in BOOLEAN, UNCHANGED windows,
           block' = IF w \in Listed THEN [block EXCEPT ![w].hidden = b] ELSE block
    PROVE  BlocksOK' /\ \A a \in Addrs : SameView(a)
<1>1. CASE w \in Listed
  BY <1>1, ListedBlock, HiddenSet
<1>2. CASE w \notin Listed
  <2>1. BlocksOK
    BY TypeParts DEF Inv
  <2> QED BY <1>2, <2>1 DEF BlocksOK, SameView, AtMostOneTask
<1> QED BY <1>1, <1>2

LEMMA ActivateStep ==
    ASSUME Inv, Activate
    PROVE  Inv'
<1>1. CodeOK /\ LoopOK /\ Types
  BY TypeParts DEF Inv, TypeInv
<1>2. taskWindowList' \subseteq Targets
  BY <1>1, WindowTasksAssumption DEF Activate, Synced, LoopOK, Types, Targets
<1>3. UNCHANGED <<windows, osTasks, bgTaskRun, created, program, toVisit,
                  crashesLeft, inputs, calls>> /\ pc' \in {"mouse", "astray"}
  BY DEF Activate, Used, code, bounds
<1>4. osTasks' \in Seq(Targets) /\ Range(osTasks) \subseteq Range(osTasks')
  BY <1>1, <1>3 DEF CodeOK
<1>5. CASE windowsToGetActive = <<>>
  <2>1. UNCHANGED <<windowsToGetActive, activeWindow, block>>
    BY <1>5 DEF Activate, shown
  <2>2. LoopOK'
    BY <1>1, <1>2, <1>3, <2>1 DEF LoopOK
  <2> QED BY <1>3, <1>4, <2>1, <2>2, NothingOpened
<1>6. CASE windowsToGetActive # <<>>
  <2> DEFINE w == Head(windowsToGetActive)
  <2>1. w \in Targets \cup {NULL} /\ windowsToGetActive' \in Seq(Targets \cup {NULL})
    <3>1. windowsToGetActive \in Seq(Targets \cup {NULL})
      BY <1>1 DEF LoopOK
    <3>2. windowsToGetActive' = Tail(windowsToGetActive)
      BY <1>6 DEF Activate
    <3> QED BY <1>6, <3>1, <3>2, RangeOfTail
  <2>2. activeWindow' = w
    BY <1>6 DEF Activate
  <2>3. LoopOK'
    BY <1>1, <1>2, <1>3, <2>1, <2>2 DEF LoopOK
  <2>4. block' = IF w \in Listed THEN [block EXCEPT ![w].hidden = FALSE] ELSE block
    BY <1>6 DEF Activate
  <2>5. BlocksOK' /\ \A a \in Addrs : SameView(a)
    BY <1>3, <2>4, Shown
  <2> QED BY <1>3, <1>4, <2>3, <2>5, ViewKept
<1> QED BY <1>5, <1>6

LEMMA HidingClicks ==
    ASSUME Inv, NEW w,
           (w \in Addrs /\ ClickHide(w)) \/ (w \in Targets /\ ClickTab(w))
    PROVE  Inv'
<1>1. CodeOK /\ LoopOK
  BY TypeParts DEF Inv
<1>2. (\E x : ClickOn(x)) /\ UNCHANGED <<windows, osTasks, windowsToGetActive>>
  BY DEF ClickHide, ClickTab, Click
<1>3. /\ UNCHANGED <<toVisit, bgTaskRun, crashesLeft, taskWindowList, calls,
                     created, program>>
      /\ inputs' \in 0 .. MaxInputs /\ pc' \in {"mouse", "astray"}
  BY <1>1, <1>2, ClickFrame
<1>4. activeWindow' \in Targets \cup {NULL}
  BY <1>1 DEF ClickHide, ClickTab, LoopOK
<1>5. LoopOK'
  BY <1>1, <1>2, <1>3, <1>4 DEF LoopOK
<1>6. osTasks' \in Seq(Targets) /\ Range(osTasks) \subseteq Range(osTasks')
  BY <1>1, <1>2 DEF CodeOK
<1>7. \E b \in BOOLEAN :
         block' = IF w \in Listed THEN [block EXCEPT ![w].hidden = b] ELSE block
  BY DEF ClickHide, ClickTab, Visible
<1>8. BlocksOK' /\ \A a \in Addrs : SameView(a)
  BY <1>2, <1>7, Shown
<1> QED BY <1>3, <1>5, <1>6, <1>8, ViewKept

-----------------------------------------------------------------------------
(* The first task of a terminal goes, or an enter handler comes.            *)
LEMMA FirstTaskGone ==
    ASSUME Inv, NEW w \in Listed, block[w].tasks # <<>>
    PROVE  /\ WithoutFirstTask(w) = [block EXCEPT ![w].tasks = <<>>]
           /\ Head(block[w].tasks) \in Tasks
           /\ Progs(block[w]) = {Head(block[w].tasks)} \cap Programs
           /\ block[w].tasks = <<Head(block[w].tasks)>>
<1>1. TypeInv /\ w \in Addrs /\ block[w] # Free
  BY ListedBlock DEF Inv
<1>2. /\ Head(block[w].tasks) \in Tasks
      /\ block[w].tasks = <<Head(block[w].tasks)>>
      /\ Tail(block[w].tasks) = <<>>
  BY <1>1, FirstTask
<1>3. Range(block[w].tasks) = {Head(block[w].tasks)}
  BY <1>2, RangeOfOne
<1> QED BY <1>2, <1>3 DEF WithoutFirstTask, Progs

LEMMA NoProgs ==
    ASSUME NEW c
    PROVE  /\ c.tasks = <<>> => Progs(c) = {}
           /\ c.tasks = <<Enter>> => Progs(c) = {}
           /\ \A p \in Programs : c.tasks = <<p>> => Progs(c) = {p}
<1>1. Range(<<>>) = {} /\ \A x : Range(<<x>>) = {x}
  BY RangeOfOne DEF Range
<1>2. Enter \notin Programs
  BY WindowTasksAssumption
<1>3. c.tasks = <<>> => Progs(c) = {}
  BY <1>1 DEF Progs
<1>4. c.tasks = <<Enter>> => Progs(c) = {}
  BY <1>1, <1>2 DEF Progs
<1>5. \A p \in Programs : c.tasks = <<p>> => Progs(c) = {p}
  BY <1>1 DEF Progs
<1> QED BY <1>3, <1>4, <1>5

LEMMA EnterSet ==
    ASSUME Inv, NEW w \in Listed, Progs(block[w]) = {},
           NEW ts \in {<<>>, <<Enter>>},
           block' = [block EXCEPT ![w].tasks = ts], UNCHANGED windows
    PROVE  BlocksOK' /\ \A a \in Addrs : SameView(a)
<1>1. BlocksOK /\ w \in Addrs /\ block[w] # Free
  BY ListedBlock
<1>2. ts \in Seq(Tasks) /\ Len(ts) <= 1
  <2>1. CASE ts = <<>>
    BY <2>1
  <2>2. CASE ts = <<Enter>>
    <3>1. ts \in Seq(Tasks)
      BY <2>2 DEF Tasks
    <3> QED BY <2>2, <3>1
  <2> QED BY <2>1, <2>2
<1>3. /\ BlocksOK' /\ \A x \in Addrs \ {w} : SameView(x)
      /\ block'[w] \in Contents /\ block'[w].tasks = ts
      /\ block'[w].OnClose = block[w].OnClose
      /\ block'[w].orphan = block[w].orphan
  BY <1>1, <1>2, TasksSet
<1>4. Progs(block'[w]) = {} /\ block'[w] # Free
  BY <1>3, NoProgs, ContentsFields
<1>5. SameView(w)
  BY <1>3, <1>4 DEF SameView
<1> QED BY <1>3, <1>5

LEMMA KeyEnterStep ==
    ASSUME Inv, KeyEnter
    PROVE  Inv'
<1> DEFINE w == activeWindow
<1>1. w \in Listed /\ block[w].tasks = <<>>
  BY DEF KeyEnter, IsTerminal
<1>2. CodeOK /\ LoopOK
  BY TypeParts DEF Inv
<1>3. LoopOK'
  BY <1>2, WindowTasksAssumption DEF LoopOK, KeyEnter, Key, Input, shown
<1>4. BlocksOK' /\ \A a \in Addrs : SameView(a)
  BY <1>1, NoProgs, EnterSet DEF KeyEnter
<1> QED BY <1>2, <1>3, <1>4, ViewKept DEF KeyEnter, CodeOK, code

(* The frame of a command that ran.                                         *)
LEMMA CommandFrame ==
    ASSUME Inv, NEW w, RunCommand(w)
    PROVE  /\ w \in Listed /\ block[w].tasks # <<>>
           /\ Head(block[w].tasks) = Enter /\ Progs(block[w]) = {}
           /\ WithoutFirstTask(w) = [block EXCEPT ![w].tasks = <<>>]
           /\ (windowsToGetActive' \in Seq(Targets \cup {NULL})
                 /\ bgTaskRun' \in BOOLEAN) => LoopOK'
<1>1. w \in Listed /\ block[w].tasks # <<>> /\ Head(block[w].tasks) = Enter
  BY DEF RunCommand, Waiting, Runs, IsTerminal
<1>2. LoopOK
  BY TypeParts DEF Inv
<1>3. (windowsToGetActive' \in Seq(Targets \cup {NULL}) /\ bgTaskRun' \in BOOLEAN)
        => LoopOK'
  BY <1>2 DEF RunCommand, LoopOK, bounds
<1> QED BY <1>1, <1>3, FirstTaskGone, WindowTasksAssumption

LEMMA CommandSteps ==
    ASSUME Inv, NEW w, CommandDone(w) \/ CommandExit(w) \/ CommandSet(w)
    PROVE  Inv'
<1>1. /\ RunCommand(w) /\ block' = WithoutFirstTask(w)
      /\ UNCHANGED <<windows, windowsToGetActive, created, program>>
  BY DEF CommandDone, CommandExit, CommandSet, code
<1>2. w \in Listed /\ Progs(block[w]) = {}
      /\ block' = [block EXCEPT ![w].tasks = <<>>]
  BY <1>1, CommandFrame
<1>3. CodeOK /\ LoopOK /\ w \in Targets
  BY <1>2, ListedBlock
<1>4. LoopOK'
  <2>1. windowsToGetActive' \in Seq(Targets \cup {NULL})
    BY <1>1, <1>3 DEF LoopOK
  <2>2. bgTaskRun' \in BOOLEAN
    BY <1>3 DEF LoopOK, CommandDone, CommandExit, CommandSet
  <2> QED BY <1>1, <2>1, <2>2, CommandFrame
<1>5. BlocksOK' /\ \A a \in Addrs : SameView(a)
  BY <1>1, <1>2, EnterSet
<1>6. osTasks' \in Seq(Targets) /\ Range(osTasks) \subseteq Range(osTasks')
  <2>1. CASE osTasks' = osTasks
    BY <1>3, <2>1 DEF CodeOK
  <2>2. CASE osTasks' = Append(osTasks, w)
    BY <1>3, <2>2, Asked
  <2> QED BY <2>1, <2>2 DEF CommandDone, CommandExit, CommandSet
<1> QED BY <1>1, <1>4, <1>5, <1>6, ViewKept

-----------------------------------------------------------------------------
(* A window is opened that is nobody's, and asked to become active or not.  *)
LEMMA OpenedAlone ==
    ASSUME Inv, LoopOK', BlocksOK', NEW a \in Addrs, block[a] = Free,
           \A x \in Addrs \ {a} : SameView(x),
           block'[a] \in Contents, Progs(block'[a]) = {},
           block'[a].OnClose = NULL, block'[a].orphan = FALSE,
           UNCHANGED <<osTasks, created, program>>
    PROVE  Inv'
<1>1. CodeOK
  BY TypeParts DEF Inv
<1>2. CodeOK'
  BY <1>1 DEF CodeOK
<1>3. TypeInv'
  BY <1>2, TypeParts, PTL
<1>4. NULL \notin Programs
  BY WindowTasksAssumption
<1>5. block'[a] # Free
  BY ContentsFields
<1>6. /\ {a} \in SUBSET Addrs /\ NULL \in Programs \cup {NULL}
      /\ \A x \in {a} : block[x] = Free
      /\ \A x \in {a} : /\ block'[x] # Free /\ Progs(block'[x]) = {}
                       /\ block'[x].OnClose = NULL /\ ~block'[x].orphan
      /\ \A p \in Programs : p # NULL /\ created'[p] = created[p]
  BY <1>4, <1>5
<1> QED BY <1>3, <1>4, <1>6, Opens

LEMMA TerminalOpened ==
    ASSUME Inv, LoopOK', NEW a \in Addrs, NEW hide \in BOOLEAN,
           NEW close \in BOOLEAN, NEW ts \in {<<>>, <<Enter>>},
           Opened(a, Terminal(hide, close, ts)),
           UNCHANGED <<osTasks, created, program>>
    PROVE  Inv'
<1> DEFINE c == Terminal(hide, close, ts)
<1>1. ts \in Seq(Tasks) /\ Len(ts) <= 1
  <2>1. CASE ts = <<>>
    BY <2>1
  <2>2. CASE ts = <<Enter>>
    <3>1. ts \in Seq(Tasks)
      BY <2>2 DEF Tasks
    <3> QED BY <2>2, <3>1
  <2> QED BY <2>1, <2>2
<1>2. c \in Contents /\ c.tasks = ts /\ c.OnClose = NULL /\ c.orphan = FALSE
  BY <1>1, NewContents
<1>3. Progs(c) = {}
  BY <1>2, NoProgs
<1>4. /\ block' = [block EXCEPT ![a] = c] /\ windows' = windows \cup {a}
      /\ block[a] = Free
  BY DEF Opened
<1>5. BlocksOK
  BY TypeParts DEF Inv
<1> HIDE DEF c
<1>6. /\ BlocksOK' /\ block'[a] = c
      /\ \A x \in Addrs \ {a} : SameView(x)
  BY <1>1, <1>2, <1>4, <1>5, BlockSet
<1> QED BY <1>2, <1>3, <1>4, <1>6, OpenedAlone

LEMMA NewTerminals ==
    ASSUME Inv,
           \/ KeyNewTerminal
           \/ \E a \in Addrs, hide, close \in BOOLEAN :
                 StartApplication(a, hide, close)
    PROVE  Inv'
<1>1. LoopOK
  BY TypeParts DEF Inv
<1>2. CASE KeyNewTerminal
  <2>1. PICK a \in Addrs : /\ Opened(a, Terminal(FALSE, FALSE, <<>>))
                           /\ windowsToGetActive' = Append(windowsToGetActive, a)
    BY <1>2 DEF KeyNewTerminal
  <2>2. windowsToGetActive' \in Seq(Targets \cup {NULL})
    BY <1>1, <2>1, ToActivate DEF Targets
  <2>3. LoopOK'
    BY <1>1, <1>2, <2>2, WindowTasksAssumption
       DEF LoopOK, KeyNewTerminal, Key, Input
  <2> QED BY <1>2, <2>1, <2>3, TerminalOpened DEF KeyNewTerminal, code
<1>3. ASSUME NEW a \in Addrs, NEW hide \in BOOLEAN, NEW close \in BOOLEAN,
             StartApplication(a, hide, close)
      PROVE  Inv'
  <2>1. windowsToGetActive' \in Seq(Targets \cup {NULL})
    BY <1>1, <1>3, ToActivate DEF Targets, StartApplication, LoopOK
  <2>2. /\ ClickOn(NULL) /\ UNCHANGED <<osTasks, activeWindow>>
        /\ Opened(a, Terminal(hide, close, <<Enter>>))
    BY <1>3 DEF StartApplication, Click
  <2>3. LoopOK' /\ UNCHANGED <<created, program>>
    BY <1>1, <2>1, <2>2, ClickFrame DEF LoopOK
  <2> QED BY <1>3, <2>2, <2>3, TerminalOpened
<1> QED BY <1>2, <1>3

LEMMA CommandOpensStep ==
    ASSUME Inv, NEW w, NEW a \in Addrs, CommandOpens(w, a)
    PROVE  Inv'
<1>1. /\ RunCommand(w) /\ block[a] = Free
      /\ block' = [WithoutFirstTask(w) EXCEPT ![a] = Gui(NULL)]
      /\ windows' = windows \cup {a}
      /\ windowsToGetActive' = Append(windowsToGetActive, a)
      /\ UNCHANGED <<osTasks, bgTaskRun, created, program>>
  BY DEF CommandOpens, code
<1>2. w \in Listed /\ Progs(block[w]) = {}
      /\ WithoutFirstTask(w) = [block EXCEPT ![w].tasks = <<>>]
  BY <1>1, CommandFrame
<1>3. /\ BlocksOK /\ LoopOK /\ w \in Addrs /\ block[w] # Free
      /\ block[w] \in Contents
  BY <1>2, ListedBlock
<1>4. LoopOK'
  BY <1>1, <1>3, ToActivate, CommandFrame DEF Targets, LoopOK
<1> DEFINE c == Gui(NULL)
           d == [block[w] EXCEPT !.tasks = <<>>]
<1>5. c \in Contents /\ c.tasks = <<>> /\ c.OnClose = NULL /\ c.orphan = FALSE
  BY NewContents
<1>6. /\ d \in Contents /\ d.tasks = <<>> /\ d.OnClose = block[w].OnClose
      /\ d.orphan = block[w].orphan
  <2>1. <<>> \in Seq(Tasks)
    OBVIOUS
  <2> QED BY <1>3, <2>1, TasksChanged
<1>8. block' = [block EXCEPT ![w] = d, ![a] = c]
  BY <1>1, <1>2
<1> HIDE DEF c, d
<1>7. Progs(c) = {} /\ Progs(d) = {} /\ c # Free /\ d # Free
      /\ Len(c.tasks) <= 1 /\ Len(d.tasks) <= 1
  <2>1. Len(c.tasks) <= 1 /\ Len(d.tasks) <= 1
    BY <1>5, <1>6
  <2> QED BY <1>5, <1>6, <2>1, NoProgs, ContentsFields
<1>9. w # a
  BY <1>1, <1>3
<1>10. /\ block' \in Blocks /\ block'[w] = d /\ block'[a] = c
       /\ \A x \in Addrs \ {a, w} : block'[x] = block[x]
  BY <1>3, <1>5, <1>6, <1>8, <1>9 DEF BlocksOK, Blocks
<1>11. BlocksOK'
  BY <1>1, <1>3, <1>7, <1>10 DEF BlocksOK, AtMostOneTask
<1>12. \A x \in Addrs \ {a} : SameView(x)
  <2>1. SameView(w)
    BY <1>2, <1>3, <1>6, <1>7, <1>10 DEF SameView
  <2> QED BY <1>10, <2>1 DEF SameView
<1> QED BY <1>1, <1>4, <1>5, <1>7, <1>10, <1>11, <1>12, OpenedAlone

LEMMA ProgramCreatesWindowStep ==
    ASSUME Inv, NEW w, NEW p \in Programs, NEW a \in Addrs,
           ProgramCreatesWindow(w, p, a)
    PROVE  Inv'
<1>1. BlocksOK /\ CodeOK /\ LoopOK /\ Paired /\ WindowsOnce /\ Types
  BY TypeParts DEF Inv, TypeInv
<1>2. /\ block' = [block EXCEPT ![a] = Gui(p)] /\ windows' = windows \cup {a}
      /\ block[a] = Free
      /\ created' = [created EXCEPT ![p] = Append(@, a)]
      /\ windowsToGetActive' = Append(windowsToGetActive, a)
      /\ UNCHANGED <<osTasks, program>> /\ program[p] # "none"
  BY DEF ProgramCreatesWindow, Opened, RunProgram
<1>3. LoopOK'
  <2>1. windowsToGetActive' \in Seq(Targets \cup {NULL})
    BY <1>1, <1>2, ToActivate DEF Targets
  <2> QED BY <1>1, <2>1, WindowTasksAssumption
          DEF LoopOK, ProgramCreatesWindow, Called
<1>4. /\ Gui(p) \in Contents /\ Gui(p).tasks = <<>> /\ Gui(p).OnClose = p
      /\ Gui(p).orphan = FALSE /\ Gui(p) # Free /\ Progs(Gui(p)) = {}
  BY NewContents, NoProgs, ContentsFields
<1>5. Len(Gui(p).tasks) <= 1
  BY <1>4
<1>6. /\ BlocksOK' /\ block'[a] = Gui(p)
      /\ \A x \in Addrs \ {a} : SameView(x)
  BY <1>1, <1>2, <1>4, <1>5, BlockSet
<1>7. /\ created[p] \in Seq(Addrs) /\ IsInjective(created[p])
      /\ a \notin Range(created[p])
  BY <1>1, <1>2, ListedBlocks DEF CodeOK, Paired, WindowsOnce
<1>8. /\ created'[p] \in Seq(Addrs) /\ IsInjective(created'[p])
      /\ Range(created'[p]) = Range(created[p]) \cup {a}
      /\ \A q \in Programs \ {p} : created'[q] = created[q]
  <2>1. created'[p] = Append(created[p], a)
    BY <1>1, <1>2 DEF CodeOK
  <2>2. \A q \in Programs \ {p} : created'[q] = created[q]
    BY <1>1, <1>2 DEF CodeOK
  <2> QED BY <1>7, <2>1, <2>2, AppendedOnce, RangeOfAppend, AppendProperties
<1>9. CodeOK'
  <2>1. created' \in [Programs -> Seq(Addrs)]
    BY <1>1, <1>2, <1>7, AppendProperties DEF CodeOK
  <2> QED BY <1>1, <1>2, <2>1 DEF CodeOK
<1>10. TypeInv'
  BY <1>3, <1>6, <1>9, TypeParts, PTL
<1>11. /\ {a} \in SUBSET Addrs /\ p \in Programs \cup {NULL}
       /\ \A x \in {a} : block[x] = Free
       /\ \A x \in {a} : /\ block'[x] # Free /\ Progs(block'[x]) = {}
                        /\ block'[x].OnClose = p /\ ~block'[x].orphan
  BY <1>2, <1>4, <1>6
<1>12. \A q \in Programs :
          IF q = p
          THEN /\ Range(created'[q]) = Range(created[q]) \cup {a}
               /\ IsInjective(created'[q])
          ELSE created'[q] = created[q]
  BY <1>8
<1> QED BY <1>2, <1>6, <1>10, <1>11, <1>12, Opens

-----------------------------------------------------------------------------
(* A terminal loses its only task ts, which is freed: its windows will      *)
(* close.                                                                   *)
LEMMA TaskFreed ==
    ASSUME Inv, LoopOK', NEW w \in Listed, block[w].tasks # <<>>,
           NEW x, x = Head(block[w].tasks),
           block' = Orphaned(<<x>>, WithoutFirstTask(w)),
           osTasks' = osTasks \o WindowsOf(<<x>>),
           ProgramsFreed(<<x>>), UNCHANGED windows
    PROVE  Inv'
<1> DEFINE F == {x} \cap Programs
           mine == Range(WindowsOf(<<x>>))
           less == [block EXCEPT ![w].tasks = <<>>]
           d == [block[w] EXCEPT !.tasks = <<>>]
<1>1. /\ Types /\ BlocksOK /\ CodeOK /\ Paired /\ WindowsOnce /\ OneTerminal
      /\ w \in Addrs /\ block[w] # Free /\ block[w] \in Contents
  BY TypeParts, ListedBlock DEF Inv, TypeInv
<1>2. WithoutFirstTask(w) = less /\ Progs(block[w]) = F
  BY FirstTaskGone
<1>3. /\ WindowsOf(<<x>>) = IF x \in Programs THEN created[x] ELSE <<>>
      /\ Range(<<>>) = {} /\ Range(<<x>>) = {x}
  BY WindowsOfOne, RangeOfOne DEF Range
<1>4. WindowsOf(<<x>>) \in Seq(Addrs)
  <2>1. <<>> \in Seq(Addrs)
    OBVIOUS
  <2>2. x \in Programs => created[x] \in Seq(Addrs)
    BY <1>1 DEF CodeOK
  <2> QED BY <1>3, <2>1, <2>2
<1>5. /\ mine \subseteq Listed
      /\ \A a \in Listed : a \in mine <=> block[a].OnClose \in F
  BY <1>1, <1>3 DEF Paired
<1>6. Listed = {a \in Addrs : block[a] # Free}
  BY <1>1, ListedBlocks
<1>7. /\ d \in Contents /\ d.tasks = <<>> /\ d.OnClose = block[w].OnClose
      /\ d.orphan = block[w].orphan /\ d # Free
  <2>1. <<>> \in Seq(Tasks)
    OBVIOUS
  <2> QED BY <1>1, <2>1, TasksChanged, ContentsFields
<1>8. block' = Orphaned(<<x>>, less)
  BY <1>2
<1> HIDE DEF d
<1>9. /\ less \in Blocks /\ less[w] = d
      /\ \A a \in Addrs \ {w} : less[a] = block[a]
  BY <1>1, <1>7 DEF BlocksOK, Blocks, d
<1> HIDE DEF mine, less, F
<1>10. /\ block' \in Blocks
       /\ \A a \in Addrs :
             /\ block'[a] = Free <=> less[a] = Free
             /\ less[a] # Free =>
                   /\ block'[a].tasks = less[a].tasks
                   /\ block'[a].OnClose = IF a \in mine THEN NULL ELSE less[a].OnClose
                   /\ block'[a].orphan = (a \in mine \/ less[a].orphan)
  <2>1. mine \subseteq Addrs /\ \A a \in mine : less[a] # Free
    BY <1>5, <1>6, <1>7, <1>9
  <2>2. /\ Range(WindowsOf(<<x>>)) \subseteq Addrs
        /\ \A a \in Range(WindowsOf(<<x>>)) : less[a] # Free
    BY <2>1 DEF mine
  <2>3. LET made == Orphaned(<<x>>, less) IN
        /\ made \in Blocks
        /\ \A a \in Addrs :
              /\ made[a] = Free <=> less[a] = Free
              /\ less[a] # Free =>
                    /\ made[a].tasks = less[a].tasks
                    /\ made[a].OnClose = IF a \in Range(WindowsOf(<<x>>)) THEN NULL
                                         ELSE less[a].OnClose
                    /\ made[a].orphan = (a \in Range(WindowsOf(<<x>>))
                                            \/ less[a].orphan)
    BY <1>9, <2>2, OrphansMade
  <2> QED BY <1>8, <2>3 DEF mine
<1>11. \A a \in Listed :
          /\ block'[a] # Free
          /\ block'[a].tasks = IF a = w THEN <<>> ELSE block[a].tasks
          /\ block'[a].OnClose = IF a \in mine THEN NULL ELSE block[a].OnClose
          /\ block'[a].orphan = (a \in mine \/ block[a].orphan)
  BY <1>6, <1>7, <1>9, <1>10
<1>12. {a \in Addrs : block'[a] # Free} = {a \in Addrs : block[a] # Free}
  BY <1>1, <1>7, <1>9, <1>10
<1>13. BlocksOK'
  <2>1. AtMostOneTask'
    BY <1>1, <1>6, <1>11, <1>12 DEF BlocksOK, AtMostOneTask
  <2> QED BY <1>1, <1>10, <1>12, <2>1 DEF BlocksOK
<1>14. /\ osTasks' \in Seq(Targets)
       /\ Range(osTasks') = Range(osTasks) \cup mine
  <2>1. Seq(Addrs) \subseteq Seq(Targets) /\ osTasks \in Seq(Targets)
    BY <1>1 DEF Targets, CodeOK
  <2> QED BY <1>4, <2>1, RangeOfConcat DEF mine
<1>15. /\ program' = [p \in Programs |-> IF p \in F THEN "none" ELSE program[p]]
       /\ created' = [p \in Programs |-> IF p \in F THEN <<>> ELSE created[p]]
  BY <1>3 DEF ProgramsFreed, F
<1>16. CodeOK'
  BY <1>1, <1>14, <1>15 DEF CodeOK
<1>17. TypeInv'
  BY <1>13, <1>16, TypeParts, PTL
<1>18. Listed' = Listed \ {}
  BY DEF Listed
<1>19. \A a \in Listed \ {} : Progs(block'[a]) = Progs(block[a]) \ F
  <2>1. CASE w \in Listed
    <3>1. Progs(block'[w]) = {}
      BY <1>11, NoProgs
    <3>2. \A a \in Listed \ {w} : F \cap Progs(block[a]) = {}
      BY <1>1, <1>2 DEF OneTerminal, Progs
    <3>3. \A a \in Listed \ {w} : Progs(block'[a]) = Progs(block[a])
      BY <1>11 DEF Progs
    <3> QED BY <1>2, <3>1, <3>2, <3>3
  <2> QED BY <2>1
<1>20. \A a \in Listed \ {} :
          /\ block'[a].OnClose = IF block[a].OnClose \in F THEN NULL
                                 ELSE block[a].OnClose
          /\ block'[a].orphan => block[a].orphan \/ block[a].OnClose \in F
          /\ a \in Range(osTasks) \/ block[a].OnClose \in F => a \in Range(osTasks')
  BY <1>5, <1>11, <1>14
<1>21. /\ F \in SUBSET Programs /\ {} \in SUBSET Listed
       /\ \A a \in {} : Progs(block[a]) \subseteq F
       /\ \A p \in F : created'[p] = <<>>
  BY <1>15 DEF F
<1>22. \A p \in Programs \ F : /\ IsInjective(created'[p])
                               /\ Range(created'[p]) = Range(created[p]) \ {}
  BY <1>1, <1>15 DEF WindowsOnce
<1> QED BY <1>15, <1>17, <1>18, <1>19, <1>20, <1>21, <1>22, Shrinks

LEMMA KeyStopTaskStep ==
    ASSUME Inv, KeyStopTask
    PROVE  Inv'
<1> DEFINE w == activeWindow
<1>1. LoopOK
  BY TypeParts DEF Inv
<1>2. LoopOK'
  BY <1>1, WindowTasksAssumption DEF LoopOK, KeyStopTask, Key, Input, shown
<1>3. w \in Listed /\ block[w].tasks # <<>>
  BY DEF KeyStopTask, IsTerminal
<1> QED BY <1>2, <1>3, TaskFreed DEF KeyStopTask

LEMMA ProgramEndsStep ==
    ASSUME Inv, NEW w, NEW p \in Programs, ProgramEnds(w, p)
    PROVE  Inv'
<1>1. LoopOK
  BY TypeParts DEF Inv
<1>2. LoopOK'
  BY <1>1 DEF LoopOK, ProgramEnds, shown, bounds
<1>3. w \in Listed /\ block[w].tasks # <<>> /\ p = Head(block[w].tasks)
  BY DEF ProgramEnds, RunProgram, Waiting, Runs, IsTerminal
<1> QED BY <1>2, <1>3, TaskFreed DEF ProgramEnds

LEMMA CommandMaabStep ==
    ASSUME Inv, NEW w, NEW p \in Programs, CommandMaab(w, p)
    PROVE  Inv'
<1>1. /\ RunCommand(w) /\ program[p] = "none"
      /\ block' = [block EXCEPT ![w].tasks = Append(Tail(@), p)]
      /\ program' = [program EXCEPT ![p] = "running"]
      /\ UNCHANGED <<windows, osTasks, windowsToGetActive, bgTaskRun, created>>
  BY DEF CommandMaab
<1>2. w \in Listed /\ block[w].tasks # <<>> /\ Progs(block[w]) = {}
  BY <1>1, CommandFrame
<1>3. /\ BlocksOK /\ CodeOK /\ LoopOK /\ w \in Addrs /\ block[w] # Free
  BY <1>2, ListedBlock
<1>4. Tail(block[w].tasks) = <<>>
  BY <1>2, <1>3, FirstTask DEF Inv
<1>5. block' = [block EXCEPT ![w].tasks = <<p>>]
  <2>1. Append(<<>>, p) = <<p>>
    OBVIOUS
  <2>2. block' = [block EXCEPT ![w].tasks = Append(<<>>, p)]
    BY <1>1, <1>4
  <2> QED BY <2>1, <2>2
<1>6. <<p>> \in Seq(Tasks) /\ Len(<<p>>) <= 1
  <2>1. <<p>> \in Seq(Tasks)
    BY DEF Tasks
  <2> QED BY <2>1
<1>7. /\ BlocksOK' /\ \A x \in Addrs \ {w} : SameView(x)
      /\ block'[w] \in Contents /\ block'[w].tasks = <<p>>
      /\ block'[w].OnClose = block[w].OnClose
      /\ block'[w].orphan = block[w].orphan
  BY <1>1, <1>3, <1>5, <1>6, TasksSet
<1>8. Progs(block'[w]) = {p} /\ block'[w] # Free
  BY <1>7, NoProgs, ContentsFields
<1>9. LoopOK'
  BY <1>1, <1>3, CommandFrame DEF LoopOK
<1>10. CodeOK'
  BY <1>1, <1>3 DEF CodeOK
<1>11. TypeInv'
  BY <1>7, <1>9, <1>10, TypeParts, PTL
<1> QED BY <1>1, <1>2, <1>7, <1>8, <1>11, Starts

LEMMA ProgramFaultsStep ==
    ASSUME Inv, NEW w, NEW p \in Programs, ProgramFaults(w, p)
    PROVE  Inv'
<1> DEFINE v == activeWindow
           dropped == IF IsTerminal(v) THEN Range(block[v].tasks) ELSE {}
<1>1. /\ Types /\ BlocksOK /\ CodeOK /\ LoopOK /\ OneTerminal
  BY TypeParts DEF Inv, TypeInv
<1>2. PICK N \in CrashWindows :
         LET blockOf(a) ==
                 IF a \in N THEN Gui(NULL)
                 ELSE IF a = v /\ IsTerminal(a)
                      THEN [block[a] EXCEPT !.tasks = <<>>]
                      ELSE block[a]
         IN  /\ windows' = windows \cup N
             /\ block' = [a \in Addrs |-> Hidden(blockOf(a))]
             /\ program' = [q \in Programs |->
                             IF q \in dropped THEN "leaked"
                             ELSE IF q = p THEN "faulty" ELSE program[q]]
             /\ IF N = {} THEN UNCHANGED windowsToGetActive
                ELSE \E a \in N :
                         windowsToGetActive' = Append(windowsToGetActive, a)
  BY DEF ProgramFaults
<1>3. N \subseteq Addrs /\ \A a \in N : block[a] = Free
  BY DEF CrashWindows
<1>4. windowsToGetActive' \in Seq(Targets \cup {NULL})
  <2>1. CASE N = {}
    BY <1>1, <1>2, <2>1 DEF LoopOK
  <2>2. CASE N # {}
    BY <1>1, <1>2, <1>3, <2>2, ToActivate DEF Targets
  <2> QED BY <2>1, <2>2
<1>5. LoopOK'
  <2>1. /\ UNCHANGED <<activeWindow, taskWindowList, inputs, calls>>
        /\ crashesLeft > 0 /\ crashesLeft' = crashesLeft - 1
        /\ pc' = "keys" /\ toVisit' = {} /\ bgTaskRun' = FALSE
    BY DEF ProgramFaults, bounds
  <2>2. crashesLeft' \in 0 .. MaxCrashes
    BY <1>1, <2>1, WindowTasksAssumption DEF LoopOK
  <2> QED BY <1>1, <1>4, <2>1, <2>2 DEF LoopOK
<1>6. Listed = {a \in Addrs : block[a] # Free}
  BY <1>1, ListedBlocks
<1>7. ASSUME NEW a \in N
      PROVE  /\ block'[a] \in Contents /\ block'[a].tasks = <<>>
             /\ block'[a].OnClose = NULL /\ block'[a].orphan = FALSE
  <2>1. /\ Gui(NULL) \in Contents /\ Gui(NULL).tasks = <<>>
        /\ Gui(NULL).OnClose = NULL /\ Gui(NULL).orphan = FALSE
    BY NewContents
  <2>2. block'[a] = [Gui(NULL) EXCEPT !.hidden = TRUE]
    BY <1>2, <1>3, <2>1, ContentsFields DEF Hidden
  <2> QED BY <2>1, <2>2, HiddenChanged
<1>8. ASSUME NEW a \in Addrs \ N, block[a] = Free
      PROVE  block'[a] = Free
  BY <1>2, <1>6, <1>8 DEF Hidden, IsTerminal
<1>9. ASSUME NEW a \in Listed
      PROVE  /\ block'[a] \in Contents
             /\ block'[a].tasks = IF a = v /\ IsTerminal(a) THEN <<>> ELSE block[a].tasks
             /\ block'[a].OnClose = block[a].OnClose
             /\ block'[a].orphan = block[a].orphan
  <2>1. /\ block[a] \in Contents /\ a \in Addrs \ N
    BY <1>1, <1>3, <1>6, ListedBlocks
  <2>2. CASE a = v /\ IsTerminal(a)
    <3> DEFINE d == [block[a] EXCEPT !.tasks = <<>>]
    <3>1. <<>> \in Seq(Tasks)
      OBVIOUS
    <3>2. /\ d \in Contents /\ d.tasks = <<>> /\ d.OnClose = block[a].OnClose
          /\ d.orphan = block[a].orphan
      BY <2>1, <3>1, TasksChanged
    <3>3. block'[a] = [d EXCEPT !.hidden = TRUE]
      BY <1>2, <2>1, <2>2, <3>2, ContentsFields DEF Hidden
    <3> HIDE DEF d
    <3> QED BY <2>2, <3>2, <3>3, HiddenChanged
  <2>3. CASE ~(a = v /\ IsTerminal(a))
    <3>1. block'[a] = [block[a] EXCEPT !.hidden = TRUE]
      BY <1>2, <2>1, <2>3, ContentsFields DEF Hidden
    <3> QED BY <2>1, <2>3, <3>1, HiddenChanged
  <2> QED BY <2>2, <2>3
<1>10. BlocksOK'
  <2>1. DOMAIN block' = Addrs /\ block' = [a \in Addrs |-> block'[a]]
    BY <1>2
  <2>2. \A a \in Addrs : IF a \in N \/ block[a] # Free THEN block'[a] \in Contents
                          ELSE block'[a] = Free
    BY <1>6, <1>7, <1>8, <1>9
  <2>3. block' \in Blocks
    BY <2>1, <2>2 DEF Blocks
  <2>4. windows' = {a \in Addrs : block'[a] # Free} \cup {Debug}
    <3>1. Free \notin Contents
      BY ContentsFields
    <3>2. {a \in Addrs : block'[a] # Free} = {a \in Addrs : block[a] # Free} \cup N
      BY <1>3, <2>2, <3>1
    <3>3. windows = {a \in Addrs : block[a] # Free} \cup {Debug}
      BY <1>1 DEF BlocksOK
    <3>4. windows' = windows \cup N
      BY <1>2
    <3> QED BY <3>2, <3>3, <3>4
  <2>5. AtMostOneTask'
    <3>1. \A a \in Addrs : block'[a] # Free => a \in N \/ a \in Listed
      BY <1>6, <2>2
    <3>2. Len(<<>>) <= 1
      OBVIOUS
    <3> QED BY <1>1, <1>6, <1>7, <1>9, <3>1, <3>2 DEF BlocksOK, AtMostOneTask
  <2> QED BY <2>3, <2>4, <2>5 DEF BlocksOK
<1>11. /\ UNCHANGED <<osTasks, created>>
       /\ program' = [q \in Programs |-> IF q \in dropped \cap Programs THEN "leaked"
                                         ELSE IF q = p THEN "faulty" ELSE program[q]]
  BY <1>2 DEF ProgramFaults, OsTasksAfterFault
<1>12. CodeOK'
  BY <1>1, <1>11 DEF CodeOK
<1>13. TypeInv'
  BY <1>5, <1>10, <1>12, TypeParts, PTL
<1>14. w \in Listed /\ p \in Progs(block[w])
  <2>1. w \in Listed /\ block[w].tasks # <<>> /\ p = Head(block[w].tasks)
    BY DEF ProgramFaults, Waiting, Runs, IsTerminal
  <2> QED BY <2>1, FirstTaskGone
<1>15. \A a \in Listed : Progs(block'[a]) = Progs(block[a]) \ (dropped \cap Programs)
  <2> SUFFICES ASSUME NEW a \in Listed
               PROVE  Progs(block'[a]) = Progs(block[a]) \ (dropped \cap Programs)
    OBVIOUS
  <2>1. CASE a = v /\ IsTerminal(a)
    <3>1. Progs(block'[a]) = {}
      BY <1>9, <2>1, NoProgs
    <3> QED BY <2>1, <3>1 DEF Progs
  <2>2. CASE ~(a = v /\ IsTerminal(a))
    <3>1. Progs(block'[a]) = Progs(block[a])
      BY <1>9, <2>2 DEF Progs
    <3>2. Progs(block[a]) \cap dropped = {}
      BY <1>1, <2>2 DEF OneTerminal, Progs, IsTerminal
    <3> QED BY <3>1, <3>2
  <2> QED BY <2>1, <2>2
<1> HIDE DEF dropped
<1>16. /\ dropped \cap Programs \in SUBSET Programs /\ N \in SUBSET Addrs
       /\ \A a \in N : block[a] = Free
       /\ \E x \in Listed : p \in Progs(block[x])
  BY <1>3, <1>14
<1>17. \A a \in N : /\ block'[a] # Free /\ Progs(block'[a]) = {}
                    /\ block'[a].OnClose = NULL /\ ~block'[a].orphan
  BY <1>7, NoProgs, ContentsFields
<1>18. /\ \A a \in Addrs \ N : block'[a] = Free <=> block[a] = Free
       /\ \A a \in Listed : /\ block'[a].OnClose = block[a].OnClose
                             /\ block'[a].orphan = block[a].orphan
  BY <1>6, <1>8, <1>9, ContentsFields
<1> QED BY <1>11, <1>13, <1>15, <1>16, <1>17, <1>18, Faults

-----------------------------------------------------------------------------
(* A window is closed: its program is told, and its own task is freed.      *)
LEMMA CloseStep ==
    ASSUME Inv, LoopOK', osTasks # <<>>, NEW w \in Listed, w = Head(osTasks),
           Close(w)
    PROVE  Inv'
<1> DEFINE ts == block[w].tasks
           F == Progs(block[w])
           mine == Range(WindowsOf(ts))
           rest == Orphaned(ts, block)
<1>1. /\ Types /\ BlocksOK /\ CodeOK /\ Paired /\ WindowsOnce /\ OneTerminal
      /\ w \in Addrs /\ block[w] # Free /\ block[w] \in Contents
  BY TypeParts, ListedBlock DEF Inv, TypeInv
<1>2. /\ windows' = windows \ {w}
      /\ created' = [p \in Programs |-> IF p \in Range(ts) THEN <<>>
                                        ELSE OnExternalWindowClose(w)[p]]
      /\ program' = [p \in Programs |->
                      IF p \in Range(ts) THEN "none" ELSE program[p]]
      /\ block' = [rest EXCEPT ![w] = Free]
      /\ osTasks' = Tail(osTasks) \o WindowsOf(ts)
  BY DEF Close, Removed
<1>3. Listed = {a \in Addrs : block[a] # Free}
  BY <1>1, ListedBlocks
<1>4. WindowsOf(ts) \in Seq(Addrs) /\
      \/ F = {} /\ mine = {}
      \/ \E p \in Programs : F = {p} /\ mine = Range(created[p])
  <2>1. <<>> \in Seq(Addrs) /\ Range(<<>>) = {}
    BY DEF Range
  <2>2. CASE ts = <<>>
    <3>1. WindowsOf(ts) = <<>> /\ F = {}
      BY <2>2, WindowsOfOne, NoProgs
    <3> QED BY <2>1, <3>1
  <2>3. CASE ts # <<>>
    <3> DEFINE x == Head(ts)
    <3>1. ts = <<x>> /\ F = {x} \cap Programs
      BY <2>3, FirstTaskGone
    <3> HIDE DEF x
    <3>2. WindowsOf(ts) = IF x \in Programs THEN created[x] ELSE <<>>
      BY <3>1, WindowsOfOne
    <3>3. CASE x \in Programs
      <4>1. WindowsOf(ts) = created[x] /\ created[x] \in Seq(Addrs)
        BY <1>1, <3>2, <3>3 DEF CodeOK
      <4>2. F = {x}
        BY <3>1, <3>3
      <4> QED BY <3>3, <4>1, <4>2
    <3>4. CASE x \notin Programs
      <4>1. WindowsOf(ts) = <<>> /\ F = {}
        BY <3>1, <3>2, <3>4
      <4> QED BY <2>1, <4>1
    <3> QED BY <3>3, <3>4
  <2> QED BY <2>2, <2>3
<1>5. /\ mine \subseteq Listed
      /\ \A a \in Listed : a \in mine <=> block[a].OnClose \in F
  <2>1. CASE F = {} /\ mine = {}
    BY <2>1
  <2>2. ASSUME NEW p \in Programs, F = {p}, mine = Range(created[p])
        PROVE  /\ mine \subseteq Listed
               /\ \A a \in Listed : a \in mine <=> block[a].OnClose \in F
    BY <1>1, <2>2 DEF Paired
  <2> QED BY <1>4, <2>1, <2>2
<1>6. /\ rest \in Blocks
      /\ \A a \in Addrs :
            /\ rest[a] = Free <=> block[a] = Free
            /\ block[a] # Free =>
                  /\ rest[a].tasks = block[a].tasks
                  /\ rest[a].OnClose = IF a \in mine THEN NULL ELSE block[a].OnClose
                  /\ rest[a].orphan = (a \in mine \/ block[a].orphan)
  <2>1. /\ Range(WindowsOf(ts)) \subseteq Addrs
        /\ \A a \in Range(WindowsOf(ts)) : block[a] # Free
    BY <1>3, <1>5
  <2> QED BY <1>1, <2>1, OrphansMade DEF BlocksOK
<1> HIDE DEF rest, mine
<1>7. /\ block' \in Blocks /\ block'[w] = Free
      /\ \A a \in Addrs \ {w} : block'[a] = rest[a]
  BY <1>1, <1>2, <1>6 DEF Blocks
<1>8. \A a \in Listed \ {w} :
         /\ block'[a] # Free
         /\ block'[a].tasks = block[a].tasks
         /\ block'[a].OnClose = IF a \in mine THEN NULL ELSE block[a].OnClose
         /\ block'[a].orphan = (a \in mine \/ block[a].orphan)
  BY <1>3, <1>6, <1>7
<1>9. {a \in Addrs : block'[a] # Free} = {a \in Addrs : block[a] # Free} \ {w}
  BY <1>1, <1>6, <1>7
<1>10. BlocksOK'
  <2>1. AtMostOneTask'
    BY <1>1, <1>3, <1>8, <1>9 DEF BlocksOK, AtMostOneTask
  <2>2. windows' = {a \in Addrs : block'[a] # Free} \cup {Debug}
    BY <1>1, <1>2, <1>9 DEF BlocksOK, Listed
  <2> QED BY <1>7, <2>1, <2>2 DEF BlocksOK
<1>11. /\ osTasks' \in Seq(Targets)
       /\ Range(osTasks) \subseteq {w} \cup Range(osTasks')
       /\ mine \subseteq Range(osTasks')
  <2>1. osTasks \in Seq(Targets) /\ Seq(Addrs) \subseteq Seq(Targets)
    BY <1>1 DEF Targets, CodeOK
  <2>2. Tail(osTasks) \in Seq(Targets)
        /\ Range(osTasks) = {w} \cup Range(Tail(osTasks))
    BY <2>1, RangeOfTail
  <2>3. WindowsOf(ts) \in Seq(Targets)
    BY <1>4, <2>1
  <2>4. /\ Tail(osTasks) \o WindowsOf(ts) \in Seq(Targets)
        /\ Range(Tail(osTasks) \o WindowsOf(ts))
              = Range(Tail(osTasks)) \cup Range(WindowsOf(ts))
    <3>1. \A s, t \in Seq(Targets) : /\ s \o t \in Seq(Targets)
                                     /\ Range(s \o t) = Range(s) \cup Range(t)
      BY RangeOfConcat
    <3> QED BY <2>2, <2>3, <3>1, Zenon
  <2> QED BY <1>2, <2>2, <2>4 DEF mine
<1>12. /\ program' = [p \in Programs |-> IF p \in F THEN "none" ELSE program[p]]
       /\ \A p \in F : created'[p] = <<>>
       /\ \A p \in Programs \ F :
             created'[p] = IF p = block[w].OnClose THEN RemoveFirst(created[p], w)
                           ELSE created[p]
       /\ DOMAIN created' = Programs
       /\ created' = [p \in Programs |-> created'[p]]
  BY <1>2 DEF Progs, OnExternalWindowClose
<1>13. \A p \in Programs \ F : /\ created'[p] \in Seq(Addrs)
                               /\ IsInjective(created'[p])
                               /\ Range(created'[p]) = Range(created[p]) \ {w}
  <2> SUFFICES ASSUME NEW p \in Programs \ F
               PROVE  /\ created'[p] \in Seq(Addrs)
                      /\ IsInjective(created'[p])
                      /\ Range(created'[p]) = Range(created[p]) \ {w}
    OBVIOUS
  <2>1. created[p] \in Seq(Addrs) /\ IsInjective(created[p])
    BY <1>1 DEF CodeOK, WindowsOnce
  <2>2. CASE p = block[w].OnClose
    BY <1>12, <2>1, <2>2, RemovedFirst
  <2>3. CASE p # block[w].OnClose
    BY <1>1, <1>12, <2>1, <2>3 DEF Paired
  <2> QED BY <2>2, <2>3
<1>14. CodeOK'
  <2> HIDE DEF F
  <2>1. \A p \in Programs : created'[p] \in Seq(Addrs)
    <3>1. <<>> \in Seq(Addrs)
      OBVIOUS
    <3> QED BY <1>12, <1>13, <3>1
  <2> QED BY <1>1, <1>11, <1>12, <2>1 DEF CodeOK
<1>15. TypeInv'
  BY <1>10, <1>14, TypeParts, PTL
<1>16. \A a \in Listed \ {w} : Progs(block'[a]) = Progs(block[a]) \ F
  <2>1. \A a \in Listed \ {w} : F \cap Progs(block[a]) = {}
    BY <1>1 DEF OneTerminal, Progs
  <2> QED BY <1>8, <2>1 DEF Progs
<1>17. \A a \in Listed \ {w} :
          /\ block'[a].OnClose = IF block[a].OnClose \in F THEN NULL
                                 ELSE block[a].OnClose
          /\ block'[a].orphan => block[a].orphan \/ block[a].OnClose \in F
          /\ a \in Range(osTasks) \/ block[a].OnClose \in F => a \in Range(osTasks')
  BY <1>5, <1>8, <1>11
<1>18. /\ F \in SUBSET Programs /\ {w} \in SUBSET Listed
       /\ Listed' = Listed \ {w}
       /\ \A a \in {w} : Progs(block[a]) \subseteq F
  BY <1>2 DEF Progs, Listed
<1> HIDE DEF F
<1>19. \A a \in Listed \ {w} :
          /\ Progs(block'[a]) = Progs(block[a]) \ F
          /\ block'[a].OnClose = IF block[a].OnClose \in F THEN NULL
                                 ELSE block[a].OnClose
          /\ block'[a].orphan => block[a].orphan \/ block[a].OnClose \in F
          /\ a \in Range(osTasks) \/ block[a].OnClose \in F => a \in Range(osTasks')
  BY <1>16, <1>17
<1>20. \A p \in Programs \ F : /\ IsInjective(created'[p])
                               /\ Range(created'[p]) = Range(created[p]) \ {w}
  BY <1>13
<1>21. /\ program' = [p \in Programs |-> IF p \in F THEN "none" ELSE program[p]]
       /\ \A p \in F : created'[p] = <<>>
  BY <1>12
<1> QED BY <1>15, <1>18, <1>19, <1>20, <1>21, Shrinks

LEMMA EndRoundStep ==
    ASSUME Inv, AnotherRound \/ EndFrame
    PROVE  Inv'
<1>1. BlocksOK /\ CodeOK /\ LoopOK /\ Types
  BY TypeParts DEF Inv, TypeInv
<1>2. /\ EndRound /\ DoOsTask /\ pc' \in {"run", "keys"}
      /\ toVisit' \in {{}, windows'}
      /\ UNCHANGED <<windowsToGetActive, taskWindowList, bgTaskRun, crashesLeft,
                     inputs, calls>>
  BY DEF AnotherRound, EndFrame, EndRound, bounds
<1>3. windows \subseteq Targets
  BY <1>1 DEF Types, Targets
<1>4. CASE windows' \subseteq windows /\ activeWindow' \in {activeWindow, NULL}
  <2>1. LoopOK'
    BY <1>1, <1>2, <1>3, <1>4 DEF LoopOK
  <2>2. CASE osTasks = <<>>
    BY <1>1, <1>2, <2>1, <2>2, NothingOpened DEF DoOsTask, code, CodeOK
  <2>3. CASE osTasks # <<>> /\ Head(osTasks) \in Listed
    BY <1>2, <2>1, <2>3, CloseStep DEF DoOsTask
  <2>4. CASE osTasks # <<>> /\ Head(osTasks) \notin Listed
    <3>1. osTasks' = Tail(osTasks) /\ UNCHANGED <<windows, block, created, program>>
      BY <1>2, <2>4 DEF DoOsTask, code
    <3>2. /\ osTasks' \in Seq(Targets)
          /\ Range(osTasks) = {Head(osTasks)} \cup Range(osTasks')
      BY <1>1, <2>4, <3>1, RangeOfTail DEF CodeOK
    <3> QED BY <2>1, <2>4, <3>1, <3>2, NothingOpened
  <2> QED BY <2>2, <2>3, <2>4
<1>5. windows' \subseteq windows /\ activeWindow' \in {activeWindow, NULL}
  BY <1>2 DEF DoOsTask, Close, Removed
<1> QED BY <1>4, <1>5

-----------------------------------------------------------------------------
(* Together.                                                                *)
LEMMA InitInv == Init => Inv
<1> SUFFICES ASSUME Init PROVE Inv
  OBVIOUS
<1>1. /\ Terminal(FALSE, FALSE, <<Enter>>) \in Contents
      /\ Terminal(FALSE, FALSE, <<Enter>>).tasks = <<Enter>>
      /\ Terminal(FALSE, FALSE, <<Enter>>).OnClose = NULL
      /\ Terminal(FALSE, FALSE, <<Enter>>).orphan = FALSE
  <2>1. <<Enter>> \in Seq(Tasks)
    BY DEF Tasks
  <2> QED BY <2>1, NewContents
<1>2. /\ block \in Blocks /\ block[First] = Terminal(FALSE, FALSE, <<Enter>>)
      /\ \A a \in Addrs \ {First} : block[a] = Free
      /\ First \in Addrs /\ block[First] # Free
  BY <1>1, ContentsFields, WindowTasksAssumption DEF Init, Blocks
<1>3. Progs(block[First]) = {}
  BY <1>1, <1>2, NoProgs
<1>4. Len(<<Enter>>) <= 1
  OBVIOUS
<1>5. BlocksOK
  BY <1>1, <1>2, <1>4 DEF BlocksOK, AtMostOneTask, Init
<1>6. CodeOK
  <2>1. <<>> \in Seq(Targets) /\ <<>> \in Seq(Addrs)
    OBVIOUS
  <2> QED BY <2>1 DEF Init, CodeOK
<1>7. LoopOK
  <2>1. <<>> \in Seq(Targets \cup {NULL})
    OBVIOUS
  <2> QED BY <1>2, <2>1, WindowTasksAssumption DEF Init, LoopOK, Targets
<1>8. TypeInv
  BY <1>5, <1>6, <1>7, TypeParts
<1>9. Listed = {First}
  BY WindowTasksAssumption DEF Init, Listed
<1>10. /\ \A p \in Programs : created[p] = <<>> /\ program[p] = "none"
       /\ Range(<<>>) = {} /\ IsInjective(<<>>) /\ NULL \notin Programs
  BY WindowTasksAssumption DEF Init, Range, IsInjective
<1>11. WindowsOnce /\ Paired /\ OrphansAsked
  BY <1>1, <1>2, <1>9, <1>10 DEF WindowsOnce, Paired, OrphansAsked
<1>12. OneTerminal
  BY <1>3, <1>9, <1>10 DEF OneTerminal, Progs
<1> QED BY <1>8, <1>11, <1>12 DEF Inv

LEMMA NextInv == Inv /\ [Next]_vars => Inv'
<1> SUFFICES ASSUME Inv, [Next]_vars PROVE Inv'
  OBVIOUS
<1>1. CASE UNCHANGED vars
  <2>1. /\ UNCHANGED <<windows, block, osTasks, created, program>>
        /\ CodeOK /\ LoopOK
    BY <1>1, TypeParts DEF vars, code, Inv
  <2>2. LoopOK'
    BY <1>1, <2>1 DEF LoopOK, vars, shown, bounds
  <2> QED BY <2>1, <2>2, NothingOpened DEF CodeOK
<1>2. CASE Keyboard
  BY <1>2, QuietKeys, KeyStopTaskStep, NewTerminals, KeyEnterStep DEF Keyboard
<1>3. CASE Mouse
  BY <1>3, QuietClicks, HidingClicks, NewTerminals DEF Mouse, Targets
<1>4. CASE Activate \/ AnotherRound \/ EndFrame
  BY <1>4, ActivateStep, EndRoundStep
<1>5. CASE Commands
  BY <1>5, CommandSteps, CommandOpensStep, CommandMaabStep DEF Commands
<1>6. CASE CloseFinished
  BY <1>6, CloseFinishedStep
<1>7. CASE RunPrograms
  BY <1>7, QuietPrograms, ProgramEndsStep, ProgramCreatesWindowStep,
     ProgramFaultsStep DEF RunPrograms
<1> QED BY <1>1, <1>2, <1>3, <1>4, <1>5, <1>6, <1>7 DEF Next, RenderLoop

(* The active window is not closed without being forgotten, and none becomes *)
(* active that is not open but in the step that uses its block.             *)
ActiveOpen == pc # "astray" => activeWindow \in windows \cup {NULL}

LEMMA InUse ==
    ASSUME Inv, NEW w \in Targets \cup {NULL}, NEW at, Used(w, at) # "astray"
    PROVE  w \in windows \cup {NULL}
  BY DEF Inv, TypeInv, Types, Used, Targets

LEMMA ActiveByMouse ==
    ASSUME Inv, ActiveOpen, Mouse
    PROVE  ActiveOpen'
<1>1. ASSUME NEW w, Click, UNCHANGED windows,
             activeWindow' = activeWindow \/ activeWindow' = NULL
                \/ (activeWindow' = w /\ w \in Visible \cup {NULL})
      PROVE  ActiveOpen'
  BY <1>1 DEF ActiveOpen, Click, ClickOn, Visible, Listed
<1>2. ASSUME NEW w \in Addrs, ClickClose(w) \/ ClickHide(w) \/ ClickMaximize(w)
      PROVE  ActiveOpen'
  <2>1. /\ Click /\ UNCHANGED windows
        /\ activeWindow' = activeWindow \/ activeWindow' = NULL
    BY <1>2 DEF ClickClose, ClickHide, ClickMaximize, shown
  <2> QED BY <1>1, <2>1
<1>3. ASSUME NEW w, ClickWindow(w) PROVE ActiveOpen'
  BY <1>1, <1>3 DEF ClickWindow
<1>4. CASE ClickTaskbar
  BY <1>1, <1>4 DEF ClickTaskbar
<1>5. ASSUME NEW w \in Targets, ClickTab(w) PROVE ActiveOpen'
  BY <1>5, InUse DEF ClickTab, ClickOn, ActiveOpen
<1>6. ASSUME NEW w, MiddleClickTab(w) PROVE ActiveOpen'
  BY <1>1, <1>6 DEF MiddleClickTab
<1>7. ASSUME NEW a, NEW hide, NEW close, StartApplication(a, hide, close)
      PROVE  ActiveOpen'
  BY <1>7 DEF StartApplication, Click, ClickOn, ActiveOpen, Opened
<1> QED BY <1>2, <1>3, <1>4, <1>5, <1>6, <1>7 DEF Mouse, Targets

LEMMA ActiveNext == Inv /\ ActiveOpen /\ [Next]_vars => ActiveOpen'
<1> SUFFICES ASSUME Inv, ActiveOpen, [Next]_vars PROVE ActiveOpen'
  OBVIOUS
<1>1. ASSUME pc # "astray", UNCHANGED activeWindow, windows \subseteq windows'
      PROVE  ActiveOpen'
  BY <1>1 DEF ActiveOpen
<1>2. CASE UNCHANGED vars
  BY <1>2 DEF vars, shown, ActiveOpen
<1>3. CASE Keyboard
  <2>1. pc # "astray" /\ UNCHANGED activeWindow /\ windows \subseteq windows'
    BY <1>3 DEF Keyboard, KeyStopTask, KeyCloseWindow, KeyNextTab,
       KeyNewTerminal, KeyEnter, Key, Opened, shown
  <2> QED BY <1>1, <2>1
<1>4. CASE Mouse
  BY <1>4, ActiveByMouse
<1>5. CASE Activate
  <2>1. CASE windowsToGetActive = <<>>
    BY <1>5, <2>1 DEF Activate, ActiveOpen, shown
  <2>2. CASE windowsToGetActive # <<>>
    <3>1. LoopOK /\ windowsToGetActive \in Seq(Targets \cup {NULL})
      BY TypeParts DEF Inv, LoopOK
    <3>2. Head(windowsToGetActive) \in Targets \cup {NULL}
      BY <2>2, <3>1
    <3> QED BY <1>5, <2>2, <3>2, InUse DEF Activate, ActiveOpen
  <2> QED BY <2>1, <2>2
<1>6. CASE Commands
  <2>1. pc # "astray" /\ UNCHANGED activeWindow /\ windows \subseteq windows'
    BY <1>6 DEF Commands, CommandDone, CommandExit, CommandSet, CommandOpens,
       CommandMaab, RunCommand
  <2> QED BY <1>1, <2>1
<1>7. CASE CloseFinished
  BY <1>1, <1>7 DEF CloseFinished, shown
<1>8. CASE RunPrograms
  <2>1. PICK w \in Addrs, p \in Programs :
           \/ ProgramGoesOn(w, p) \/ ProgramEnds(w, p)
           \/ \E a \in Addrs : ProgramCreatesWindow(w, p, a)
           \/ \E other \in windows : ProgramDeletesWindow(w, p, other)
           \/ ProgramFaults(w, p) \/ KernelPanic(w, p)
    BY <1>8 DEF RunPrograms
  <2>2. CASE ProgramGoesOn(w, p) \/ ProgramEnds(w, p) \/ KernelPanic(w, p)
    BY <1>1, <2>2 DEF ProgramGoesOn, ProgramEnds, KernelPanic, RunProgram, shown
  <2>3. ASSUME NEW a, ProgramCreatesWindow(w, p, a) PROVE ActiveOpen'
    BY <1>1, <2>3 DEF ProgramCreatesWindow, RunProgram, Opened
  <2>4. ASSUME NEW other, ProgramDeletesWindow(w, p, other) PROVE ActiveOpen'
    BY <1>1, <2>4 DEF ProgramDeletesWindow, RunProgram, shown
  <2>5. CASE ProgramFaults(w, p)
    <3>1. PICK opened \in CrashWindows : windows' = windows \cup opened
      BY <2>5 DEF ProgramFaults
    <3>2. pc = "run" /\ UNCHANGED activeWindow
      BY <2>5 DEF ProgramFaults
    <3> QED BY <1>1, <3>1, <3>2
  <2> QED BY <2>1, <2>2, <2>3, <2>4, <2>5
<1>9. CASE AnotherRound \/ EndFrame
  <2>1. EndRound
    BY <1>9 DEF AnotherRound, EndFrame
  <2>2. CASE UNCHANGED windows /\ UNCHANGED activeWindow
    BY <1>1, <2>1, <2>2 DEF EndRound
  <2>3. ASSUME NEW w, Close(w) PROVE ActiveOpen'
    BY <2>1, <2>3 DEF EndRound, ActiveOpen, Close, Removed
  <2> QED BY <2>1, <2>2, <2>3 DEF EndRound, DoOsTask
<1> QED BY <1>2, <1>3, <1>4, <1>5, <1>6, <1>7, <1>8, <1>9 DEF Next, RenderLoop

(* Every step of the main loop, of a program and of the user keeps the      *)
(* inductive invariant: blocks, windows and tasks are consistent.           *)
THEOREM AlwaysInv == Spec => []Inv
<1> QED BY InitInv, NextInv, PTL DEF Spec

(* The types of the state; the blocks in use are those of the windows in    *)
(* the list, and the active window is one of them, until a freed block is   *)
(* used: keys and faults reach no window that is gone.                      *)
THEOREM AlwaysTypeOK == Spec => []TypeOK
<1>1. Init => ActiveOpen
  BY DEF Init, ActiveOpen
<1>2. Inv /\ ActiveOpen => TypeOK
  BY DEF Inv, TypeInv, TypeOK, ActiveOpen
<1> QED BY <1>1, <1>2, ActiveNext, AlwaysInv, PTL DEF Spec

(* A window calls back the program that has it in its list, and no other    *)
(* (Window::OnClose and TaskMAAB::windowsCreated), however windows are      *)
(* opened, closed, and their blocks given to others, until the loop or a    *)
(* click uses a block that is free.                                         *)
THEOREM AlwaysCallbacksPaired == Spec => []CallbacksPaired
<1>1. Inv /\ TypeOK => CallbacksPaired
  BY DEF Inv, Paired, CallbacksPaired
<1> QED BY <1>1, AlwaysInv, AlwaysTypeOK, PTL

(* A program that was started and neither freed nor dropped by a fault is   *)
(* the task of just one open terminal, until a freed block is used.         *)
THEOREM AlwaysOneTerminalPerProgram == Spec => []OneTerminalPerProgram
<1>1. ASSUME Inv, NEW p \in Programs
      PROVE  LET terminals == {w \in Listed : p \in Range(block[w].tasks)}
             IN  Cardinality(terminals) =
                    IF program[p] \in {"running", "faulty"} THEN 1 ELSE 0
  <2> DEFINE terminals == {w \in Listed : p \in Range(block[w].tasks)}
  <2>1. /\ \A v, w \in terminals : v = w
        /\ (\E w \in terminals : TRUE) <=> program[p] \in {"running", "faulty"}
    BY <1>1 DEF Inv, OneTerminal
  <2> HIDE DEF terminals
  <2>2. CASE terminals = {}
    BY <2>1, <2>2, FS_EmptySet DEF terminals
  <2>3. CASE terminals # {}
    <3>1. \E w : terminals = {w}
      BY <2>1, <2>3
    <3>2. Cardinality(terminals) = 1
      BY <3>1, FS_Singleton
    <3> QED BY <2>1, <2>3, <3>2 DEF terminals
  <2> QED BY <2>2, <2>3
<1>2. Inv => OneTerminalPerProgram
  BY <1>1 DEF OneTerminalPerProgram
<1> QED BY <1>2, AlwaysInv, PTL

(* The windows of a program that was freed (TaskMAAB::Free) are waiting to  *)
(* be closed until they are, or a freed block is used.                      *)
THEOREM AlwaysOrphansClosing == Spec => []OrphansClosing
<1>1. Inv => OrphansClosing
  BY DEF Inv, OrphansAsked, OrphansClosing
<1> QED BY <1>1, AlwaysInv, PTL

-----------------------------------------------------------------------------
(* The memory of a program.                                                 *)
(* The list of segments of the headers s, as the set S of their addresses,  *)
(* the last of which is l: each segment ends where the next one begins, and *)
(* they know each other.                                                    *)
MaabHeaders == [length : 0 .. BufSize, next : -1 .. BufSize,
                last : -1 .. BufSize, free : BOOLEAN, magic : BOOLEAN]

SegEnd(s, a) == a + HeaderLen + s[a].length

Linked(s, l, S) ==
    /\ s \in [Addresses -> MaabHeaders]
    /\ S \subseteq Addresses /\ 0 \in S /\ l \in S
    /\ SegEnd(s, l) = BufSize
    /\ \A a \in S : /\ s[a].magic /\ s[a].length \in Nat \ {0}
                    /\ SegEnd(s, a) <= BufSize
    /\ \A a \in S : s[a].next = IF a = l THEN Null ELSE SegEnd(s, a)
    /\ \A a \in S : a # l => /\ SegEnd(s, a) \in S
                             /\ s[SegEnd(s, a)].last = a
    /\ s[0].last = Null
    /\ \A a \in S : a # 0 => /\ s[a].last \in S
                             /\ SegEnd(s, s[a].last) = a
    /\ \A a, b \in S : a < b => SegEnd(s, a) <= b

(* What is not in the list and looks like the header of a segment in use.   *)
LooksInUse(s, S) == {a \in Addresses \ S : s[a].magic /\ ~s[a].free}

SegsInUse(s, S) == {a \in S : ~s[a].free}

(* Of two neighbours one is in use, unless the first is in A or the second  *)
(* is in B.                                                                 *)
ApartBut(s, l, S, A, B) ==
    \A a \in S : (a # l /\ s[a].free /\ s[SegEnd(s, a)].free)
                    => (a \in A \/ SegEnd(s, a) \in B)

MaabInv ==
    /\ \E S : /\ Linked(seg, lastHdr, S) /\ LooksInUse(seg, S) = forged
              /\ ApartBut(seg, lastHdr, S, {}, {})
              /\ SegsInUse(seg, S) = {b - HeaderLen : b \in held}
    /\ held \subseteq Addresses /\ spoilt = FALSE

(* It lasts until the program has spoilt the list.                          *)
MaabKept == spoilt \/ MaabInv

LEMMA LinkedFacts ==
    ASSUME NEW s, NEW l, NEW S, Linked(s, l, S)
    PROVE  /\ BufSize \in Nat /\ HeaderLen \in Nat /\ HeaderLen >= 1
           /\ S \subseteq Addresses /\ Null \notin S
           /\ \A a \in S :
                 /\ a \in Nat /\ a < BufSize /\ a \in Addresses
                 /\ s[a] \in MaabHeaders /\ s[a].length \in Nat /\ s[a].length >= 1
                 /\ SegEnd(s, a) = a + HeaderLen + s[a].length
                 /\ SegEnd(s, a) \in Nat /\ SegEnd(s, a) > a /\ SegEnd(s, a) <= BufSize
                 /\ a # l => SegEnd(s, a) \in S
<1>1. BufSize \in Nat /\ HeaderLen \in Nat /\ HeaderLen >= 1
  BY MaabAssumption
<1>2. S \subseteq Addresses /\ Null \notin S
  BY <1>1 DEF Linked, Addresses, Null
<1>3. ASSUME NEW a \in S
      PROVE  /\ a \in Nat /\ a < BufSize /\ a \in Addresses
             /\ s[a] \in MaabHeaders /\ s[a].length \in Nat /\ s[a].length >= 1
             /\ SegEnd(s, a) = a + HeaderLen + s[a].length
             /\ SegEnd(s, a) \in Nat /\ SegEnd(s, a) > a /\ SegEnd(s, a) <= BufSize
             /\ a # l => SegEnd(s, a) \in S
  <2>1. a \in Nat /\ a < BufSize /\ a \in Addresses
    BY <1>1, <1>2 DEF Addresses
  <2>2. s[a].length \in Nat \ {0} /\ SegEnd(s, a) <= BufSize
        /\ (a # l => SegEnd(s, a) \in S) /\ s[a] \in MaabHeaders
    BY <2>1 DEF Linked
  <2>3. SegEnd(s, a) = a + HeaderLen + s[a].length
    BY DEF SegEnd
  <2> QED BY <1>1, <2>1, <2>2, <2>3
<1> QED BY <1>1, <1>2, <1>3

(* The headers of t say what those of s do, but for the segments in X.      *)
SameBut(s, t, S, X) ==
    \A b \in S \ X : /\ t[b].length = s[b].length /\ t[b].next = s[b].next
                     /\ t[b].last = s[b].last
                     /\ t[b].free = s[b].free /\ t[b].magic = s[b].magic

(* What combining a free segment with the next one does to the headers.     *)
LEMMA ForwardEffect ==
    ASSUME NEW s, NEW l, NEW S, Linked(s, l, S), NEW a \in S,
           NEW n, n = s[a].next, n # Null, s[n].free,
           NEW r, r = CombineForward(s, l, a)
    PROVE  LET t == r.seg
               m == s[n].next
           IN  /\ t \in [Addresses -> MaabHeaders]
               /\ r.last = IF n = l THEN a ELSE l
               /\ t[a].length = s[a].length + s[n].length + HeaderLen
               /\ t[a].next = m /\ t[a].last = s[a].last
               /\ t[a].free = s[a].free /\ t[a].magic = s[a].magic
               /\ t[n].free
               /\ \A b \in Addresses \ {a, n} :
                     /\ t[b].length = s[b].length /\ t[b].next = s[b].next
                     /\ t[b].free = s[b].free /\ t[b].magic = s[b].magic
                     /\ t[b].last = IF b = m THEN a ELSE s[b].last
<1> DEFINE m == s[n].next
           ha == [s[a] EXCEPT !.length = @ + s[n].length + HeaderLen, !.next = m]
           t == [b \in Addresses |->
                   IF b = a THEN ha ELSE IF b = n THEN Old(s[n].free)
                   ELSE IF b = m THEN [s[m] EXCEPT !.last = a] ELSE s[b]]
<1>1. r = [seg |-> t, last |-> IF n = l THEN a ELSE l]
  <2> HIDE DEF t, m
  <2>1. r = IF n = Null \/ ~s[n].free THEN [seg |-> s, last |-> l]
            ELSE [seg |-> t, last |-> IF n = l THEN a ELSE l]
    BY Zenon DEF CombineForward, t, m
  <2> QED BY <2>1
<1>2. /\ a # l /\ n \in S /\ n = SegEnd(s, a) /\ n # a /\ a \in Addresses
      /\ n \in Addresses /\ s[a] \in MaabHeaders /\ s[n] \in MaabHeaders
      /\ s \in [Addresses -> MaabHeaders]
  BY LinkedFacts DEF Linked
<1> DEFINE len == s[a].length + s[n].length + HeaderLen
<1>3. len \in 0 .. BufSize /\ m \in -1 .. BufSize /\ a \in -1 .. BufSize
  <2>1. /\ n = a + HeaderLen + s[a].length /\ SegEnd(s, n) = n + HeaderLen + s[n].length
        /\ SegEnd(s, n) <= BufSize /\ a \in Nat /\ a < BufSize /\ n \in Nat
        /\ HeaderLen \in Nat /\ s[a].length \in Nat /\ s[n].length \in Nat
        /\ BufSize \in Nat
    BY <1>2, LinkedFacts
  <2>2. m \in -1 .. BufSize
    BY <1>2 DEF MaabHeaders
  <2> DEFINE x == s[a].length
             y == s[n].length
  <2>3. n = a + HeaderLen + x /\ n + HeaderLen + y <= BufSize /\ x \in Nat /\ y \in Nat
    BY <2>1
  <2> HIDE DEF x, y, m
  <2>4. x + y + HeaderLen \in 0 .. BufSize /\ a \in -1 .. BufSize
    BY <2>1, <2>3
  <2> QED BY <2>2, <2>4 DEF x, y
<1>4. /\ ha \in MaabHeaders /\ ha.length = len /\ ha.next = m /\ ha.last = s[a].last
      /\ ha.free = s[a].free /\ ha.magic = s[a].magic
  <2> DEFINE e == s[a]
  <2>1. e \in MaabHeaders /\ ha = [e EXCEPT !.length = len, !.next = m]
    BY <1>2
  <2> HIDE DEF e, ha, len, m
  <2> QED BY <1>3, <2>1 DEF MaabHeaders, e
<1> DEFINE hn == Old(s[n].free)
<1>5. hn \in MaabHeaders /\ hn.free = s[n].free
  <2>1. s[n].free \in BOOLEAN
    BY <1>2 DEF MaabHeaders
  <2> QED BY <2>1, MaabAssumption DEF Old, Header, Null, MaabHeaders
<1>6. ASSUME NEW e \in MaabHeaders
      PROVE  LET d == [e EXCEPT !.last = a]
             IN  /\ d \in MaabHeaders /\ d.last = a /\ d.length = e.length
                 /\ d.next = e.next /\ d.free = e.free /\ d.magic = e.magic
  BY <1>3 DEF MaabHeaders
<1>7. t \in [Addresses -> MaabHeaders]
  <2> SUFFICES ASSUME NEW b \in Addresses
               PROVE  (IF b = a THEN ha ELSE IF b = n THEN hn
                       ELSE IF b = m THEN [s[m] EXCEPT !.last = a] ELSE s[b])
                      \in MaabHeaders
    OBVIOUS
  <2>1. b = m => [s[m] EXCEPT !.last = a] \in MaabHeaders
    BY <1>2, <1>6
  <2>2. s[b] \in MaabHeaders
    BY <1>2
  <2> HIDE DEF ha, hn, m
  <2> QED BY <1>4, <1>5, <2>1, <2>2
<1>8. t[a] = ha /\ t[n] = hn
  <2> HIDE DEF ha, m
  <2> QED BY <1>2
<1>9. ASSUME NEW b \in Addresses \ {a, n}
      PROVE  /\ t[b].length = s[b].length /\ t[b].next = s[b].next
             /\ t[b].free = s[b].free /\ t[b].magic = s[b].magic
             /\ t[b].last = IF b = m THEN a ELSE s[b].last
  <2>1. s[b] \in MaabHeaders
    BY <1>2
  <2>2. t[b] = IF b = m THEN [s[b] EXCEPT !.last = a] ELSE s[b]
    <3> HIDE DEF m, ha
    <3> QED OBVIOUS
  <2> HIDE DEF t, m
  <2> QED BY <1>6, <2>1, <2>2
<1>10. t[n].free
  BY <1>5, <1>8
<1> HIDE DEF t, ha, hn
<1>11. r.seg = t /\ r.last = IF n = l THEN a ELSE l
  BY <1>1
<1> HIDE DEF m
<1>12. /\ t[a].length = s[a].length + s[n].length + HeaderLen
       /\ t[a].next = m /\ t[a].last = s[a].last
       /\ t[a].free = s[a].free /\ t[a].magic = s[a].magic
  BY <1>4, <1>8 DEF len
<1> QED BY <1>7, <1>9, <1>10, <1>11, <1>12 DEF m

(* Combining keeps the list, what is in use and what is old.                *)
LEMMA ForwardKeeps ==
    ASSUME NEW s, NEW l, NEW S, Linked(s, l, S),
           NEW a \in S, s[a].free, NEW B, ApartBut(s, l, S, {a}, B),
           NEW r, r = CombineForward(s, l, a)
    PROVE  \E T : /\ Linked(r.seg, r.last, T)
                  /\ LooksInUse(r.seg, T) = LooksInUse(s, S)
                  /\ ApartBut(r.seg, r.last, T, {}, B)
                  /\ SegsInUse(r.seg, T) = SegsInUse(s, S)
                  /\ a \in T
<1> DEFINE n == s[a].next
           m == s[n].next
           t == r.seg
           k == r.last
           T == S \ {n}
<1>1. CASE n = Null \/ ~s[n].free
  <2>1. r = [seg |-> s, last |-> l]
    BY <1>1 DEF CombineForward
  <2>2. t = s /\ k = l
    BY <2>1
  <2>3. a # l => ~s[SegEnd(s, a)].free
    <3>1. a # l => n = SegEnd(s, a) /\ n # Null
      BY LinkedFacts DEF Linked
    <3> QED BY <1>1, <3>1
  <2>4. ApartBut(s, l, S, {}, B)
    BY <2>3 DEF ApartBut
  <2> QED BY <2>2, <2>4
<1>2. CASE n # Null /\ s[n].free
  <2>1. /\ t \in [Addresses -> MaabHeaders]
        /\ k = IF n = l THEN a ELSE l
        /\ t[a].length = s[a].length + s[n].length + HeaderLen
        /\ t[a].next = m /\ t[a].last = s[a].last
        /\ t[a].free = s[a].free /\ t[a].magic = s[a].magic
        /\ t[n].free
        /\ \A b \in Addresses \ {a, n} :
              /\ t[b].length = s[b].length /\ t[b].next = s[b].next
              /\ t[b].free = s[b].free /\ t[b].magic = s[b].magic
              /\ t[b].last = IF b = m THEN a ELSE s[b].last
    <3>1. n = s[a].next /\ n # Null /\ s[n].free
      BY <1>2
    <3> HIDE DEF n
    <3>2. Linked(s, l, S) /\ a \in S /\ r = CombineForward(s, l, a)
      OBVIOUS
    <3> QED BY ONLY <3>1, <3>2, ForwardEffect
  <2>2. /\ a # l /\ n \in S /\ n = SegEnd(s, a) /\ n > a /\ s[n].last = a
        /\ a \in Nat /\ n \in Nat /\ n # a /\ BufSize \in Nat
        /\ \A b \in S : b \in Nat /\ b \in Addresses
    BY <1>2, LinkedFacts DEF Linked
  <2>3. /\ n = l => m = Null
        /\ n # l => m = SegEnd(s, n) /\ m \in S /\ m > n /\ s[m].last = n
    <3>1. n \in S
      BY <2>2
    <3> HIDE DEF n
    <3>2. n = l => m = Null
      BY <3>1 DEF Linked
    <3>3. n # l => m = SegEnd(s, n) /\ m \in S /\ s[m].last = n
      BY <3>1 DEF Linked
    <3>4. SegEnd(s, n) > n
      BY <3>1, LinkedFacts
    <3> HIDE DEF m
    <3> QED BY <3>2, <3>3, <3>4
  <2>4. /\ SegEnd(t, a) = SegEnd(s, n)
        /\ \A b \in T \ {a} : SegEnd(t, b) = SegEnd(s, b)
    <3>1. SegEnd(t, a) = SegEnd(s, n)
      <4>1. /\ SegEnd(t, a) = a + HeaderLen + t[a].length
            /\ SegEnd(s, n) = n + HeaderLen + s[n].length
            /\ n = a + HeaderLen + s[a].length
        BY <2>2, LinkedFacts DEF SegEnd
      <4>2. HeaderLen \in Nat /\ s[a].length \in Nat /\ s[n].length \in Nat
        BY <2>2, LinkedFacts
      <4> HIDE DEF n, t
      <4> QED BY <2>1, <2>2, <4>1, <4>2
    <3> QED BY <2>1, <2>2, <3>1 DEF SegEnd
  <2> HIDE DEF t, k, n, m
  <2>5. /\ T \subseteq Addresses /\ 0 \in T /\ k \in T /\ a \in T /\ m # 0
    <3>1. T \subseteq Addresses /\ a \in T
      BY <2>2
    <3>2. n # 0 /\ m # 0
      BY <2>2, <2>3 DEF Null
    <3>3. 0 \in T
      BY <3>2 DEF Linked
    <3>4. k \in T
      BY <2>1, <2>2, <3>1 DEF Linked
    <3> QED BY <3>1, <3>2, <3>3, <3>4
  <2>6. SegEnd(t, k) = BufSize
    BY <2>1, <2>2, <2>4 DEF Linked
  <2>7. \A b \in T : /\ t[b].magic /\ t[b].length \in Nat \ {0}
                     /\ SegEnd(t, b) <= BufSize
    <3>1. t[a].magic /\ t[a].length \in Nat \ {0} /\ SegEnd(t, a) <= BufSize
      <4>1. t[a].magic /\ SegEnd(t, a) <= BufSize
        BY <2>1, <2>2, <2>4 DEF Linked
      <4> DEFINE x == s[a].length
                 y == s[n].length
      <4>2. /\ HeaderLen \in Nat /\ x \in Nat /\ x >= 1 /\ y \in Nat
            /\ t[a].length = x + y + HeaderLen
        BY <2>1, <2>2, LinkedFacts
      <4> HIDE DEF x, y
      <4> QED BY <4>1, <4>2
    <3> QED BY <2>1, <2>2, <2>4, <3>1 DEF Linked
  <2>8. \A b \in T : t[b].next = IF b = k THEN Null ELSE SegEnd(t, b)
    <3>1. t[a].next = IF a = k THEN Null ELSE SegEnd(t, a)
      BY <2>1, <2>2, <2>3, <2>4
    <3>2. \A b \in T \ {a} : t[b].next = s[b].next /\ (b = k <=> b = l)
      BY <2>1, <2>2
    <3> QED BY <2>4, <3>1, <3>2 DEF Linked
  <2>9. ASSUME NEW b \in T, b # k
        PROVE  SegEnd(t, b) \in T /\ t[SegEnd(t, b)].last = b
    <3>1. CASE b = a
      <4>1. n # l
        BY <2>1, <2>9, <3>1
      <4>2. m # n /\ m # a /\ m = SegEnd(t, b) /\ m \in S
        BY <2>2, <2>3, <2>4, <3>1, <4>1
      <4> QED BY <2>1, <2>2, <3>1, <4>2
    <3>2. CASE b # a
      <4>1. b # l /\ b \in S
        BY <2>1, <2>9, <3>2
      <4> DEFINE e == SegEnd(s, b)
      <4>2. e \in S /\ s[e].last = b /\ SegEnd(t, b) = e
        BY <2>4, <3>2, <4>1 DEF Linked
      <4> HIDE DEF e
      <4>3. e # n /\ e # m
        BY <2>2, <2>3, <2>9, <3>2, <4>2 DEF Null
      <4>4. t[e].last = b
        BY <2>1, <2>2, <4>2, <4>3
      <4> QED BY <4>2, <4>3, <4>4
    <3> QED BY <3>1, <3>2
  <2>10. t[0].last = Null
    BY <2>1, <2>2, <2>5 DEF Linked
  <2>11. ASSUME NEW b \in T, b # 0
         PROVE  t[b].last \in T /\ SegEnd(t, t[b].last) = b
    <3>1. CASE b = m
      <4>1. m # a /\ SegEnd(s, n) = m
        BY <2>2, <2>3, <3>1 DEF Null
      <4> QED BY <2>1, <2>2, <2>4, <2>5, <3>1, <4>1
    <3>2. CASE b # m
      <4> DEFINE p == s[b].last
      <4>1. p \in S /\ SegEnd(s, p) = b /\ t[b].last = p
        BY <2>1, <2>2, <2>11, <3>2 DEF Linked
      <4> HIDE DEF p
      <4>2. p # a
        BY <2>2, <4>1
      <4>3. p # n
        <5>1. n = l => SegEnd(s, n) = BufSize
          BY DEF Linked
        <5>2. b < BufSize
          BY LinkedFacts
        <5> QED BY <2>2, <2>3, <3>2, <4>1, <5>1, <5>2
      <4> QED BY <2>4, <4>1, <4>2, <4>3
    <3> QED BY <3>1, <3>2
  <2>12. ASSUME NEW b \in T, NEW c \in T, b < c
         PROVE  SegEnd(t, b) <= c
    <3>1. CASE b = a
      <4>1. n <= c /\ n # c
        BY <2>2, <2>12, <3>1 DEF Linked
      <4>2. n < c
        BY <2>2, <4>1
      <4> QED BY <2>2, <2>4, <3>1, <4>2 DEF Linked
    <3>2. CASE b # a
      BY <2>4, <2>12, <3>2 DEF Linked
    <3> QED BY <3>1, <3>2
  <2>13. Linked(t, k, T)
    <3> HIDE DEF T
    <3> QED BY <2>1, <2>5, <2>6, <2>7, <2>8, <2>9, <2>10, <2>11, <2>12 DEF Linked
  <2>14. LooksInUse(t, T) = LooksInUse(s, S)
    <3>1. \A b \in Addresses \ S : b # a /\ b # n
      BY <2>2
    <3>2. \A b \in Addresses \ S : t[b].free = s[b].free /\ t[b].magic = s[b].magic
      BY <2>1, <3>1
    <3>3. \A b \in Addresses \ T : b = n \/ b \in Addresses \ S
      OBVIOUS
    <3> QED BY <2>1, <3>1, <3>2, <3>3 DEF LooksInUse
  <2>15. SegsInUse(t, T) = SegsInUse(s, S)
    <3>1. \A b \in T : t[b].free = s[b].free
      BY <2>1, <2>2
    <3> QED BY <1>2, <3>1 DEF SegsInUse, n
  <2>16. ASSUME NEW b \in T, b # k, t[b].free, t[SegEnd(t, b)].free
         PROVE  SegEnd(t, b) \in B
    <3>1. CASE b = a
      <4>1. n # l
        BY <2>1, <2>16, <3>1
      <4>2. m = SegEnd(t, b) /\ m \in S /\ m # a /\ m # n /\ m = SegEnd(s, n)
        BY <2>2, <2>3, <2>4, <3>1, <4>1
      <4>3. s[n].free /\ s[m].free
        BY <1>2, <2>1, <2>2, <2>16, <4>2 DEF n
      <4> QED BY <2>2, <4>1, <4>2, <4>3 DEF ApartBut
    <3>2. CASE b # a
      <4> DEFINE e == SegEnd(t, b)
      <4>1. b \in S /\ b # l /\ e = SegEnd(s, b) /\ s[b].free
        BY <2>1, <2>2, <2>4, <2>16, <3>2
      <4>2. e \in T /\ t[e].free
        BY <2>9, <2>16
      <4> HIDE DEF e
      <4>3. s[e].free
        BY <2>1, <2>2, <4>2
      <4> QED BY <3>2, <4>1, <4>3 DEF ApartBut, e
    <3> QED BY <3>1, <3>2
  <2>17. ApartBut(t, k, T, {}, B)
    BY <2>16 DEF ApartBut
  <2> QED BY <2>5, <2>13, <2>14, <2>15, <2>17 DEF t, k
<1> QED BY <1>1, <1>2

LEMMA BackwardKeeps ==
    ASSUME NEW s, NEW l, NEW S, Linked(s, l, S),
           NEW a \in S, s[a].free, ApartBut(s, l, S, {}, {a}),
           NEW r, r = CombineBackward(s, l, a)
    PROVE  \E T : /\ Linked(r.seg, r.last, T)
                  /\ LooksInUse(r.seg, T) = LooksInUse(s, S)
                  /\ ApartBut(r.seg, r.last, T, {}, {})
                  /\ SegsInUse(r.seg, T) = SegsInUse(s, S)
<1> DEFINE p == s[a].last
<1>1. a # 0 => p \in S /\ SegEnd(s, p) = a /\ p # Null
  BY LinkedFacts DEF Linked
<1>2. a = 0 => p = Null
  BY DEF Linked
<1>3. CASE p # Null /\ s[p].free
  <2>1. r = CombineForward(s, l, p) /\ p \in S
    BY <1>1, <1>2, <1>3 DEF CombineBackward
  <2>2. ApartBut(s, l, S, {p}, {})
    <3> SUFFICES ASSUME NEW b \in S, b # l, s[b].free, s[SegEnd(s, b)].free
                 PROVE  b = p
      BY DEF ApartBut
    <3>1. SegEnd(s, b) = a
      BY DEF ApartBut
    <3> QED BY <3>1 DEF Linked
  <2> HIDE DEF p
  <2>3. s[p].free
    BY <1>3
  <2> QED BY <2>1, <2>2, <2>3, ForwardKeeps
<1>4. CASE ~(p # Null /\ s[p].free)
  <2>1. r = [seg |-> s, last |-> l]
    BY <1>4 DEF CombineBackward
  <2>2. r.seg = s /\ r.last = l
    BY <2>1
  <2>3. ApartBut(s, l, S, {}, {})
    <3> SUFFICES ASSUME NEW b \in S, b # l, s[b].free, s[SegEnd(s, b)].free
                 PROVE  FALSE
      BY DEF ApartBut
    <3>1. SegEnd(s, b) = a
      BY DEF ApartBut
    <3>2. b = p /\ a # 0
      BY <3>1, LinkedFacts DEF Linked
    <3> QED BY <1>1, <1>4, <3>2
  <2> QED BY <2>2, <2>3
<1> QED BY <1>3, <1>4

(* The list does not depend on which segments are free, nor on headers that *)
(* are not in it.                                                           *)
LEMMA LinkedAlike ==
    ASSUME NEW s, NEW l, NEW S, Linked(s, l, S),
           NEW t \in [Addresses -> MaabHeaders],
           \A b \in S : /\ t[b].length = s[b].length /\ t[b].next = s[b].next
                        /\ t[b].last = s[b].last /\ t[b].magic = s[b].magic
    PROVE  Linked(t, l, S) /\ \A b \in S : SegEnd(t, b) = SegEnd(s, b)
<1>1. \A b \in S : SegEnd(t, b) = SegEnd(s, b)
  BY DEF SegEnd
<1>2. /\ S \subseteq Addresses /\ 0 \in S /\ l \in S /\ SegEnd(t, l) = BufSize
      /\ t[0].last = Null
  BY <1>1 DEF Linked
<1>3. \A a \in S : /\ t[a].magic /\ t[a].length \in Nat \ {0}
                   /\ SegEnd(t, a) <= BufSize
  BY <1>1 DEF Linked
<1>4. \A a \in S : t[a].next = IF a = l THEN Null ELSE SegEnd(t, a)
  BY <1>1 DEF Linked
<1>5. \A a \in S : a # l => /\ SegEnd(t, a) \in S /\ t[SegEnd(t, a)].last = a
  BY <1>1 DEF Linked
<1>6. \A a \in S : a # 0 => /\ t[a].last \in S /\ SegEnd(t, t[a].last) = a
  BY <1>1 DEF Linked
<1>7. \A a, b \in S : a < b => SegEnd(t, a) <= b
  BY <1>1 DEF Linked
<1> QED BY <1>1, <1>2, <1>3, <1>4, <1>5, <1>6, <1>7 DEF Linked

(* A segment marked free or in use.                                         *)
Marked(s, a, f) == [s EXCEPT ![a].free = f]

LEMMA MarkKeeps ==
    ASSUME NEW s, NEW l, NEW S, Linked(s, l, S), NEW a \in S,
           NEW f \in BOOLEAN, NEW t, t = Marked(s, a, f)
    PROVE  /\ Linked(t, l, S) /\ LooksInUse(t, S) = LooksInUse(s, S)
           /\ t[a].free = f
           /\ \A b \in S : SegEnd(t, b) = SegEnd(s, b)
           /\ \A b \in S \ {a} : t[b].free = s[b].free
<1> DEFINE e == s[a]
           d == [e EXCEPT !.free = f]
<1>1. s \in [Addresses -> MaabHeaders] /\ a \in Addresses /\ S \subseteq Addresses
      /\ e \in MaabHeaders
  BY LinkedFacts DEF Linked
<1>2. t = [s EXCEPT ![a] = d]
  BY DEF Marked
<1>3. /\ d \in MaabHeaders /\ d.length = e.length /\ d.next = e.next
      /\ d.last = e.last /\ d.magic = e.magic /\ d.free = f
  <2> HIDE DEF e
  <2> QED BY <1>1 DEF MaabHeaders
<1> HIDE DEF d
<1>4. /\ t \in [Addresses -> MaabHeaders] /\ t[a] = d
      /\ \A b \in Addresses \ {a} : t[b] = s[b]
  BY <1>1, <1>2, <1>3
<1>5. \A b \in S : /\ t[b].length = s[b].length /\ t[b].next = s[b].next
                   /\ t[b].last = s[b].last /\ t[b].magic = s[b].magic
  BY <1>1, <1>3, <1>4
<1>6. Linked(t, l, S) /\ \A b \in S : SegEnd(t, b) = SegEnd(s, b)
  <2>1. Linked(s, l, S) /\ t \in [Addresses -> MaabHeaders]
    BY <1>4
  <2> QED BY ONLY <1>5, <2>1, LinkedAlike
<1>7. LooksInUse(t, S) = LooksInUse(s, S)
  BY <1>4 DEF LooksInUse
<1>8. t[a].free = f /\ \A b \in S \ {a} : t[b].free = s[b].free
  BY <1>1, <1>3, <1>4
<1> QED BY <1>6, <1>7, <1>8

(* A segment that is given back is not in use any more, and all others are  *)
(* as they were.                                                            *)
LEMMA FreedKeeps ==
    ASSUME NEW S, Linked(seg, lastHdr, S),
           ApartBut(seg, lastHdr, S, {}, {}), NEW a \in S,
           NEW r, r = Freed(a)
    PROVE  \E T : /\ Linked(r.seg, r.last, T)
                  /\ LooksInUse(r.seg, T) = LooksInUse(seg, S)
                  /\ ApartBut(r.seg, r.last, T, {}, {})
                  /\ SegsInUse(r.seg, T) = SegsInUse(seg, S) \ {a}
<1> DEFINE s == [seg EXCEPT ![a].free = TRUE]
           f == CombineForward(s, lastHdr, a)
<1>1. /\ Linked(s, lastHdr, S) /\ LooksInUse(s, S) = LooksInUse(seg, S) /\ s[a].free
      /\ \A b \in S : SegEnd(s, b) = SegEnd(seg, b)
      /\ \A b \in S \ {a} : s[b].free = seg[b].free
  <2> DEFINE yes == TRUE
  <2>1. /\ Linked(seg, lastHdr, S) /\ a \in S
        /\ yes \in BOOLEAN /\ s = Marked(seg, a, yes)
    BY DEF Marked
  <2> HIDE DEF s, f, yes
  <2>2. /\ Linked(s, lastHdr, S) /\ LooksInUse(s, S) = LooksInUse(seg, S)
        /\ s[a].free = yes
        /\ \A b \in S : SegEnd(s, b) = SegEnd(seg, b)
        /\ \A b \in S \ {a} : s[b].free = seg[b].free
    BY ONLY <2>1, MarkKeeps
  <2> QED BY <2>2 DEF yes
<1>2. r = CombineBackward(f.seg, f.last, a)
  BY DEF Freed
<1> HIDE DEF s
<1>3. ApartBut(s, lastHdr, S, {a}, {a})
  <2> SUFFICES ASSUME NEW b \in S, b # lastHdr, s[b].free, s[SegEnd(s, b)].free,
                      b # a, SegEnd(s, b) # a
               PROVE  FALSE
    BY DEF ApartBut
  <2>1. SegEnd(seg, b) = SegEnd(s, b) /\ SegEnd(s, b) \in S
    BY <1>1, LinkedFacts
  <2>2. seg[b].free /\ seg[SegEnd(seg, b)].free
    BY <1>1, <2>1
  <2> QED BY <2>2 DEF ApartBut
<1>4. SegsInUse(s, S) = SegsInUse(seg, S) \ {a}
  BY <1>1 DEF SegsInUse
<1>5. PICK T : /\ Linked(f.seg, f.last, T) /\ LooksInUse(f.seg, T) = LooksInUse(s, S)
               /\ ApartBut(f.seg, f.last, T, {}, {a})
               /\ SegsInUse(f.seg, T) = SegsInUse(s, S) /\ a \in T
  <2>1. f = CombineForward(s, lastHdr, a)
    OBVIOUS
  <2> HIDE DEF f
  <2> QED BY <1>1, <1>3, <2>1, ForwardKeeps
<1>6. f.seg[a].free
  BY <1>1, <1>4, <1>5 DEF SegsInUse
<1> HIDE DEF f
<1> QED BY <1>1, <1>2, <1>4, <1>5, <1>6, BackwardKeeps


-----------------------------------------------------------------------------
LEMMA NoHeaderFacts == NoHeader \in MaabHeaders /\ ~NoHeader.magic
<1> DEFINE h == Header(0, Null, Null, FALSE)
<1>1. h \in MaabHeaders
  BY MaabAssumption DEF Header, Null, MaabHeaders
<1>2. NoHeader = [h EXCEPT !.magic = FALSE]
  BY DEF NoHeader
<1> HIDE DEF h
<1> QED BY <1>1, <1>2 DEF MaabHeaders

(* A header written at new destroys those that lie there and no other.      *)
LEMMA OverwrittenHeaders ==
    ASSUME NEW s \in [Addresses -> MaabHeaders], NEW new,
           NEW t, t = Overwritten(s, new)
    PROVE  /\ t \in [Addresses -> MaabHeaders]
           /\ \A b \in Addresses \cap Under(new) : ~t[b].magic
           /\ \A b \in Addresses \ Under(new) : t[b] = s[b]
<1>1. NoHeader \in MaabHeaders /\ ~NoHeader.magic
  BY NoHeaderFacts
<1>2. \A b \in Addresses : t[b] = IF b \in Under(new) THEN NoHeader ELSE s[b]
  BY DEF Overwritten
<1>3. t \in [Addresses -> MaabHeaders]
  BY <1>1 DEF Overwritten
<1> QED BY <1>1, <1>2, <1>3

(* The units in front of a segment and behind it hold no header of it.      *)
LEMMA HeaderBeside ==
    ASSUME NEW s, NEW l, NEW S, Linked(s, l, S), NEW a \in S, NEW b \in S,
           NEW first \in Int, NEW last \in Int,
           first >= a + HeaderLen, last < SegEnd(s, a)
    PROVE  b + HeaderLen - 1 \notin first .. last
<1>1. /\ a \in Nat /\ b \in Nat /\ HeaderLen \in Nat /\ HeaderLen >= 1
      /\ SegEnd(s, a) \in Nat /\ SegEnd(s, b) \in Nat
      /\ SegEnd(s, b) = b + HeaderLen + s[b].length /\ s[b].length \in Nat
  BY LinkedFacts
<1>2. CASE a < b
  <2>1. SegEnd(s, a) <= b
    BY <1>2 DEF Linked
  <2> QED BY <1>1, <2>1
<1>3. CASE b < a
  <2>1. SegEnd(s, b) <= a
    BY <1>3 DEF Linked
  <2> QED BY <1>1, <2>1
<1>4. CASE a = b
  BY <1>1, <1>4
<1> QED BY <1>1, <1>2, <1>3, <1>4

(* What cutting a segment does to the headers.                              *)
LEMMA SplitEffect ==
    ASSUME NEW s, NEW l, NEW S, Linked(s, l, S), NEW a \in S,
           NEW size \in Nat \ {0}, CanSplit(s, a, size),
           NEW new, new = a + size + HeaderLen,
           NEW r, r = Split(s, l, a, size)
    PROVE  LET t == r.seg
               m == s[a].next
           IN  /\ t \in [Addresses -> MaabHeaders]
               /\ r.last = IF l = a THEN new ELSE l
               /\ new \in Addresses \ S /\ new > a /\ new < SegEnd(s, a)
               /\ t[a].length = size /\ t[a].next = new /\ t[a].last = s[a].last
               /\ t[a].free = s[a].free /\ t[a].magic = s[a].magic
               /\ t[new].length = s[a].length - size - HeaderLen
               /\ t[new].length >= 1
               /\ t[new].next = m /\ t[new].last = a
               /\ t[new].free = s[a].free /\ t[new].magic
               /\ \A b \in S \ {a} :
                     /\ t[b].length = s[b].length /\ t[b].next = s[b].next
                     /\ t[b].free = s[b].free /\ t[b].magic = s[b].magic
                     /\ t[b].last = IF b = m THEN new ELSE s[b].last
               /\ \A b \in Addresses \ (S \cup {new}) :
                     IF b \in Under(new) THEN ~t[b].magic ELSE t[b] = s[b]
<1> DEFINE m == s[a].next
           rest == Header(s[a].length - size - HeaderLen, m, a, s[a].free)
           o == Overwritten(s, new)
           ha == [o[a] EXCEPT !.length = size, !.next = new]
           t == [b \in Addresses |->
                   IF b = a THEN ha ELSE IF b = new THEN rest
                   ELSE IF b = m THEN [o[b] EXCEPT !.last = new] ELSE o[b]]
<1>1. r.seg = t /\ r.last = IF l = a THEN new ELSE l
  <2> DEFINE last == IF l = a THEN new ELSE l
  <2>1. Split(s, l, a, size) = [seg |-> t, last |-> last]
    BY Zenon DEF Split
  <2> HIDE DEF t, last
  <2>2. r.seg = t /\ r.last = last
    BY <2>1
  <2> QED BY <2>2 DEF last
<1> DEFINE x == s[a].length
<1>2. /\ a \in Nat /\ a \in Addresses /\ HeaderLen \in Nat /\ HeaderLen >= 1
      /\ BufSize \in Nat /\ S \subseteq Addresses
      /\ x \in Nat /\ x - size - HeaderLen >= 1
      /\ SegEnd(s, a) = a + HeaderLen + x /\ SegEnd(s, a) <= BufSize
      /\ s \in [Addresses -> MaabHeaders] /\ s[a] \in MaabHeaders
      /\ \A b \in S : b \in Nat
  <2>1. x - size - HeaderLen >= 1
    <3>1. x - size - HeaderLen >= Grain /\ Grain \in Nat \ {0} /\ x \in Nat
          /\ HeaderLen \in Nat
      BY MaabAssumption, LinkedFacts DEF CanSplit
    <3> HIDE DEF x
    <3> QED BY <3>1
  <2> QED BY <2>1, LinkedFacts DEF Linked
<1>3. /\ new \in Nat /\ new > a /\ new < SegEnd(s, a) /\ new < BufSize
      /\ new + HeaderLen - 1 < SegEnd(s, a) /\ new >= a + HeaderLen
      /\ new \in 0 .. BufSize /\ size \in 0 .. BufSize
      /\ x - size - HeaderLen \in 0 .. BufSize
  <2> HIDE DEF x
  <2> QED BY <1>2
<1>4. new \in Addresses \ S
  <2>1. new \in Addresses
    BY <1>2, <1>3 DEF Addresses
  <2>2. new \notin S
    <3> SUFFICES ASSUME new \in S PROVE FALSE
      OBVIOUS
    <3>1. SegEnd(s, a) <= new
      BY <1>3 DEF Linked
    <3> QED BY <1>2, <1>3, <3>1, LinkedFacts
  <2> QED BY <2>1, <2>2
<1>5. /\ o \in [Addresses -> MaabHeaders]
      /\ \A b \in Addresses \cap Under(new) : ~o[b].magic
      /\ \A b \in Addresses \ Under(new) : o[b] = s[b]
      /\ \A b \in S : o[b] = s[b]
  <2> DEFINE last == new + HeaderLen - 1
  <2>0. o = Overwritten(s, new) /\ last \in Int /\ last < SegEnd(s, a)
        /\ new \in Int
    BY <1>2, <1>3
  <2> HIDE DEF o, last
  <2>1. /\ o \in [Addresses -> MaabHeaders]
        /\ \A b \in Addresses \cap Under(new) : ~o[b].magic
        /\ \A b \in Addresses \ Under(new) : o[b] = s[b]
    BY <1>2, <2>0, OverwrittenHeaders
  <2>2. \A b \in S : b + HeaderLen - 1 \notin new .. last
    BY <1>3, <2>0, HeaderBeside
  <2>3. \A b \in S : b \in Addresses \ Under(new)
    BY <1>2, <2>2 DEF Under, last
  <2> QED BY <2>1, <2>3
<1> HIDE DEF o
<1>6. /\ ha \in MaabHeaders /\ ha.length = size /\ ha.next = new
      /\ ha.last = s[a].last /\ ha.free = s[a].free /\ ha.magic = s[a].magic
  <2> DEFINE e == s[a]
  <2>1. e \in MaabHeaders /\ ha = [e EXCEPT !.length = size, !.next = new]
    BY <1>2, <1>5
  <2>2. size \in 0 .. BufSize /\ new \in -1 .. BufSize
    BY <1>2, <1>3
  <2> HIDE DEF e, ha
  <2> QED BY <2>1, <2>2 DEF MaabHeaders, e
<1>7. /\ rest \in MaabHeaders /\ rest.length = x - size - HeaderLen
      /\ rest.next = m /\ rest.last = a /\ rest.free = s[a].free /\ rest.magic
  <2> DEFINE len == x - size - HeaderLen
             f == s[a].free
  <2>1. m \in -1 .. BufSize /\ f \in BOOLEAN /\ a \in -1 .. BufSize
        /\ len \in 0 .. BufSize
    BY <1>2, <1>3 DEF MaabHeaders, Addresses
  <2>2. rest = Header(len, m, a, f)
    OBVIOUS
  <2> HIDE DEF len, f, m, rest
  <2>3. /\ rest \in MaabHeaders /\ rest.length = len
        /\ rest.next = m /\ rest.last = a /\ rest.free = f /\ rest.magic
    BY <2>1, <2>2 DEF Header, MaabHeaders
  <2> QED BY <2>3 DEF len, f
<1>8. ASSUME NEW e \in MaabHeaders
      PROVE  LET d == [e EXCEPT !.last = new]
             IN  /\ d \in MaabHeaders /\ d.last = new /\ d.length = e.length
                 /\ d.next = e.next /\ d.free = e.free /\ d.magic = e.magic
  BY <1>2, <1>3 DEF MaabHeaders
<1>9. \A b \in Addresses : t[b] = IF b = a THEN ha ELSE IF b = new THEN rest
                                  ELSE IF b = m THEN [o[b] EXCEPT !.last = new]
                                  ELSE o[b]
  <2> HIDE DEF ha, rest, m
  <2> QED OBVIOUS
<1>10. t \in [Addresses -> MaabHeaders]
  <2> SUFFICES ASSUME NEW b \in Addresses
               PROVE  (IF b = a THEN ha ELSE IF b = new THEN rest
                       ELSE IF b = m THEN [o[b] EXCEPT !.last = new] ELSE o[b])
                      \in MaabHeaders
    OBVIOUS
  <2>1. o[b] \in MaabHeaders /\ [o[b] EXCEPT !.last = new] \in MaabHeaders
    BY <1>5, <1>8
  <2> HIDE DEF ha, rest, m
  <2> QED BY <1>6, <1>7, <2>1
<1> HIDE DEF t
<1>11. t[a] = ha /\ t[new] = rest
  <2> HIDE DEF ha, rest, m
  <2> QED BY <1>2, <1>4, <1>9
<1>12. ASSUME NEW b \in S \ {a}
       PROVE  /\ t[b].length = s[b].length /\ t[b].next = s[b].next
              /\ t[b].free = s[b].free /\ t[b].magic = s[b].magic
              /\ t[b].last = IF b = m THEN new ELSE s[b].last
  <2>1. b \in Addresses /\ b # new /\ b # a /\ o[b] = s[b] /\ s[b] \in MaabHeaders
    BY <1>2, <1>4, <1>5
  <2>2. t[b] = IF b = m THEN [s[b] EXCEPT !.last = new] ELSE s[b]
    <3> HIDE DEF ha, rest, m
    <3> QED BY <1>9, <2>1
  <2> HIDE DEF m
  <2> QED BY <1>8, <2>1, <2>2
<1>13. ASSUME NEW b \in Addresses \ (S \cup {new})
       PROVE  IF b \in Under(new) THEN ~t[b].magic ELSE t[b] = s[b]
  <2>1. m \in S \/ m = Null
    BY LinkedFacts DEF Linked
  <2>2. b # m
    BY <1>2, <2>1 DEF Addresses, Null
  <2>3. t[b] = o[b]
    <3> HIDE DEF ha, rest, m
    <3> QED BY <1>2, <1>9, <1>13, <2>2
  <2> QED BY <1>5, <1>13, <2>3
<1> HIDE DEF ha, rest
<1>14. /\ t[a].length = size /\ t[a].next = new /\ t[a].last = s[a].last
       /\ t[a].free = s[a].free /\ t[a].magic = s[a].magic
  BY <1>6, <1>11
<1>15. /\ t[new].length = s[a].length - size - HeaderLen /\ t[new].length >= 1
       /\ t[new].next = m /\ t[new].last = a
       /\ t[new].free = s[a].free /\ t[new].magic
  BY <1>2, <1>7, <1>11
<1> HIDE DEF m
<1> QED BY <1>1, <1>3, <1>4, <1>10, <1>12, <1>13, <1>14, <1>15 DEF m

LEMMA SplitKeeps ==
    ASSUME NEW s, NEW l, NEW S, Linked(s, l, S),
           ApartBut(s, l, S, {}, {}), NEW a \in S, s[a].free,
           NEW size \in Nat \ {0}, CanSplit(s, a, size),
           NEW r, r = Split(s, l, a, size)
    PROVE  \E T : /\ Linked(r.seg, r.last, T)
                  /\ LooksInUse(r.seg, T) =
                        LooksInUse(s, S) \ Under(a + size + HeaderLen)
                  /\ ApartBut(r.seg, r.last, T, {a}, {})
                  /\ SegsInUse(r.seg, T) = SegsInUse(s, S)
                  /\ a \in T
<1> DEFINE new == a + size + HeaderLen
           m == s[a].next
           t == r.seg
           k == r.last
           T == S \cup {new}
<1>1. /\ t \in [Addresses -> MaabHeaders]
      /\ k = IF l = a THEN new ELSE l
      /\ new \in Addresses \ S /\ new > a /\ new < SegEnd(s, a)
      /\ t[a].length = size /\ t[a].next = new /\ t[a].last = s[a].last
      /\ t[a].free = s[a].free /\ t[a].magic = s[a].magic
      /\ t[new].length = s[a].length - size - HeaderLen
      /\ t[new].length >= 1
      /\ t[new].next = m /\ t[new].last = a
      /\ t[new].free = s[a].free /\ t[new].magic
      /\ \A b \in S \ {a} :
            /\ t[b].length = s[b].length /\ t[b].next = s[b].next
            /\ t[b].free = s[b].free /\ t[b].magic = s[b].magic
            /\ t[b].last = IF b = m THEN new ELSE s[b].last
      /\ \A b \in Addresses \ (S \cup {new}) :
            IF b \in Under(new) THEN ~t[b].magic ELSE t[b] = s[b]
  <2>1. /\ Linked(s, l, S) /\ a \in S /\ size \in Nat \ {0} /\ CanSplit(s, a, size)
        /\ r = Split(s, l, a, size) /\ new = a + size + HeaderLen
    OBVIOUS
  <2> HIDE DEF new
  <2> QED BY ONLY <2>1, SplitEffect
<1>2. /\ a \in Nat /\ HeaderLen \in Nat /\ HeaderLen >= 1 /\ BufSize \in Nat
      /\ SegEnd(s, a) = a + HeaderLen + s[a].length /\ s[a].length \in Nat
      /\ SegEnd(s, a) <= BufSize /\ SegEnd(s, a) \in Nat
      /\ new \in Nat /\ S \subseteq Addresses /\ \A b \in S : b \in Nat
  BY LinkedFacts
<1>3. /\ SegEnd(t, a) = new /\ SegEnd(t, new) = SegEnd(s, a)
      /\ \A b \in S \ {a} : SegEnd(t, b) = SegEnd(s, b)
  <2>1. SegEnd(t, a) = new
    BY <1>1, <1>2 DEF SegEnd
  <2>2. SegEnd(t, new) = SegEnd(s, a)
    <3> DEFINE x == s[a].length
    <3>1. /\ SegEnd(t, new) = new + HeaderLen + t[new].length
          /\ t[new].length = x - size - HeaderLen /\ x \in Nat
          /\ SegEnd(s, a) = a + HeaderLen + x
      BY <1>1, <1>2 DEF SegEnd
    <3> HIDE DEF x, t
    <3> QED BY <1>2, <3>1
  <2> QED BY <1>1, <2>1, <2>2 DEF SegEnd
<1>4. /\ a = l => m = Null
      /\ a # l => m = SegEnd(s, a) /\ m \in S /\ m > new /\ s[m].last = a
  <2>1. a = l => m = Null
    BY DEF Linked
  <2>2. a # l => m = SegEnd(s, a) /\ m \in S /\ s[m].last = a
    BY DEF Linked
  <2> HIDE DEF m, t, k, new
  <2> QED BY <1>1, <2>1, <2>2
<1>5. new # a /\ new # 0 /\ new # m /\ m # 0 /\ m # a
  <2> HIDE DEF m, t, k, new
  <2> QED BY <1>1, <1>2, <1>4 DEF Null
<1> HIDE DEF new, m, t, k
<1>6. T \subseteq Addresses /\ 0 \in T /\ k \in T /\ a \in T /\ new \in T
  BY <1>1, <1>2 DEF Linked
<1>7. SegEnd(t, k) = BufSize
  BY <1>1, <1>3 DEF Linked
<1>8. \A b \in T : /\ t[b].magic /\ t[b].length \in Nat \ {0}
                   /\ SegEnd(t, b) <= BufSize
  <2>1. t[a].magic /\ t[a].length \in Nat \ {0} /\ SegEnd(t, a) <= BufSize
    BY <1>1, <1>2, <1>3 DEF Linked
  <2>2. t[new].magic /\ t[new].length \in Nat \ {0} /\ SegEnd(t, new) <= BufSize
    <3> DEFINE y == t[new].length
               x == s[a].length
    <3>1. y = x - size - HeaderLen /\ y >= 1 /\ x \in Nat
      BY <1>1, <1>2
    <3> HIDE DEF x, y
    <3>2. y \in Nat \ {0}
      BY <1>2, <3>1
    <3> QED BY <1>1, <1>2, <1>3, <3>2 DEF y
  <2>3. \A b \in S \ {a} : /\ t[b].magic /\ t[b].length \in Nat \ {0}
                           /\ SegEnd(t, b) <= BufSize
    BY <1>1, <1>3 DEF Linked
  <2> QED BY <2>1, <2>2, <2>3
<1>9. \A b \in T : t[b].next = IF b = k THEN Null ELSE SegEnd(t, b)
  <2>1. t[a].next = IF a = k THEN Null ELSE SegEnd(t, a)
    BY <1>1, <1>3, <1>5
  <2>2. t[new].next = IF new = k THEN Null ELSE SegEnd(t, new)
    <3>1. new = k <=> a = l
      BY <1>1 DEF Linked
    <3> QED BY <1>1, <1>3, <1>4, <3>1
  <2>3. \A b \in S \ {a} : t[b].next = s[b].next /\ (b = k <=> b = l)
    BY <1>1
  <2> QED BY <1>3, <2>1, <2>2, <2>3 DEF Linked
<1>10. ASSUME NEW b \in T, b # k
       PROVE  SegEnd(t, b) \in T /\ t[SegEnd(t, b)].last = b
  <2>1. CASE b = a
    BY <1>1, <1>3, <1>6, <2>1
  <2>2. CASE b = new
    <3>1. a # l
      BY <1>1, <1>10, <2>2
    <3> QED BY <1>1, <1>3, <1>4, <1>5, <2>2, <3>1
  <2>3. CASE b # a /\ b # new
    <3>1. b \in S \ {a} /\ b # l
      BY <1>1, <1>10, <2>3
    <3> DEFINE e == SegEnd(s, b)
    <3>2. e \in S /\ s[e].last = b /\ SegEnd(t, b) = e
      BY <1>3, <3>1 DEF Linked
    <3> HIDE DEF e
    <3>3. e # m
      BY <1>2, <1>4, <2>3, <3>2 DEF Null
    <3>4. t[e].last = b
      BY <1>1, <3>2, <3>3
    <3> QED BY <3>2, <3>4
  <2> QED BY <2>1, <2>2, <2>3
<1>11. t[0].last = Null
  BY <1>1, <1>5 DEF Linked
<1>12. ASSUME NEW b \in T, b # 0
       PROVE  t[b].last \in T /\ SegEnd(t, t[b].last) = b
  <2>1. CASE b = new
    BY <1>1, <1>3, <1>6, <2>1
  <2>2. CASE b = m
    <3>1. b \in S \ {a} /\ t[b].last = new /\ a # l
      <4>1. b \in Nat
        BY <1>2
      <4>2. a # l
        BY <1>4, <2>2, <4>1 DEF Null
      <4> QED BY <1>1, <1>4, <1>5, <2>2, <4>2
    <3> QED BY <1>3, <1>4, <1>6, <2>2, <3>1
  <2>3. CASE b # new /\ b # m
    <3> DEFINE p == s[b].last
    <3>1. p \in S /\ SegEnd(s, p) = b /\ t[b].last = p
      BY <1>1, <1>12, <2>3 DEF Linked
    <3> HIDE DEF p
    <3>2. p # a
      <4>1. a = l => SegEnd(s, a) = BufSize
        BY DEF Linked
      <4>2. b < BufSize /\ b \in Nat
        BY <2>3, LinkedFacts
      <4> QED BY <1>2, <1>4, <2>3, <3>1, <4>1, <4>2
    <3> QED BY <1>3, <3>1, <3>2
  <2> QED BY <2>1, <2>2, <2>3
<1>13. ASSUME NEW b \in T, NEW c \in T, b < c
       PROVE  SegEnd(t, b) <= c
  <2>1. /\ \A d \in S : d < a => SegEnd(s, d) <= a
        /\ \A d \in S : a < d => SegEnd(s, a) <= d
        /\ \A d, e \in S : d < e => SegEnd(s, d) <= e
        /\ \A d \in S : SegEnd(s, d) \in Nat
    BY LinkedFacts DEF Linked
  <2>2. CASE b = a
    <3>1. c = new \/ c \in S
      OBVIOUS
    <3> QED BY <1>1, <1>2, <1>3, <1>13, <2>1, <2>2, <3>1
  <2>3. CASE b = new
    <3>1. c \in S /\ c > a
      <4>1. new \in Nat /\ new > a /\ a \in Nat
        BY <1>1, <1>2
      <4>2. c \in S
        <5>1. c # new
          BY <1>13, <2>3, <4>1
        <5> QED BY <5>1
      <4>3. c \in Nat
        BY <1>2, <4>2
      <4> QED BY <1>13, <2>3, <4>1, <4>2, <4>3
    <3> QED BY <1>3, <2>1, <2>3, <3>1
  <2>4. CASE b # a /\ b # new /\ c = new
    <3>1. b \in S \ {a} /\ b \in Nat
      BY <1>2, <2>4
    <3>2. b < a
      BY <1>1, <1>2, <1>13, <2>1, <2>4, <3>1
    <3> QED BY <1>1, <1>2, <1>3, <2>1, <2>4, <3>1, <3>2
  <2>5. CASE b # a /\ b # new /\ c # new
    BY <1>3, <1>13, <2>1, <2>5
  <2> QED BY <2>2, <2>3, <2>4, <2>5
<1>14. Linked(t, k, T)
  <2> HIDE DEF T
  <2> QED BY <1>1, <1>6, <1>7, <1>8, <1>9, <1>10, <1>11, <1>12, <1>13 DEF Linked
<1>15. LooksInUse(t, T) = LooksInUse(s, S) \ Under(new)
  <2>1. new \in Under(new)
    BY <1>1, <1>2, MaabAssumption DEF Under, Addresses
  <2>2. \A b \in Addresses \ T : IF b \in Under(new) THEN ~t[b].magic ELSE t[b] = s[b]
    BY <1>1
  <2> QED BY <2>1, <2>2 DEF LooksInUse
<1>16. /\ t[a].free /\ t[new].free
       /\ \A b \in S : t[b].free = s[b].free
  BY <1>1
<1>17. SegsInUse(t, T) = SegsInUse(s, S)
  BY <1>16 DEF SegsInUse
<1>18. ASSUME NEW b \in T, b # k, b # a, t[b].free, t[SegEnd(t, b)].free
       PROVE  FALSE
  <2>1. CASE b = new
    <3>1. a # l
      BY <1>1, <1>18, <2>1
    <3> QED BY <1>3, <1>4, <1>16, <1>18, <2>1, <3>1 DEF ApartBut
  <2>2. CASE b # new
    <3>1. b \in S \ {a} /\ b # l
      BY <1>1, <1>18, <2>2
    <3>2. SegEnd(s, b) \in S /\ SegEnd(t, b) = SegEnd(s, b)
      BY <1>3, <3>1 DEF Linked
    <3> QED BY <1>16, <1>18, <3>1, <3>2 DEF ApartBut
  <2> QED BY <2>1, <2>2
<1>19. ApartBut(t, k, T, {a}, {})
  BY <1>18 DEF ApartBut
<1>20. LooksInUse(t, T) = LooksInUse(s, S) \ Under(a + size + HeaderLen)
  BY <1>15 DEF new
<1> QED BY <1>6, <1>14, <1>17, <1>19, <1>20 DEF t, k

-----------------------------------------------------------------------------
(* The walk over the list of segments.                                      *)
Walked(s, w) ==
    LET next == s[Last(w)].next
    IN  IF next = Null THEN w ELSE Append(w, next)

IsWalk(s, f, n) ==
    f = [m \in 0 .. n |-> IF m = 0 THEN <<0>> ELSE Walked(s, f[m - 1])]

LEMMA WalkExists ==
    ASSUME NEW s, NEW n \in Nat
    PROVE  \E f : IsWalk(s, f, n)
<1> DEFINE T == {m \in Nat : ~\E f : IsWalk(s, f, m)}
<1> SUFFICES ASSUME T # {} PROVE FALSE
  OBVIOUS
<1>1. PICK m \in T : \A k \in T : m <= k
  <2>1. T \subseteq Nat
    OBVIOUS
  <2> HIDE DEF T
  <2> QED BY <2>1, LeastNatural
<1>2. m \in Nat /\ ~\E f : IsWalk(s, f, m)
  BY <1>1
<1>3. m # 0
  <2> DEFINE f == [i \in 0 .. 0 |-> <<0>>]
  <2>1. f = [i \in 0 .. 0 |-> IF i = 0 THEN <<0>> ELSE Walked(s, f[i - 1])]
    OBVIOUS
  <2> QED BY <1>2, <2>1 DEF IsWalk
<1>4. PICK f : IsWalk(s, f, m - 1)
  <2>1. m - 1 \in Nat /\ ~(m <= m - 1)
    BY <1>2, <1>3
  <2>2. m - 1 \notin T
    BY <1>1, <2>1
  <2> QED BY <2>1, <2>2
<1> DEFINE k == [i \in 0 .. m |-> IF i = m THEN Walked(s, f[m - 1]) ELSE f[i]]
           r == [i \in 0 .. m |-> IF i = 0 THEN <<0>> ELSE Walked(s, k[i - 1])]
<1>5. \A i \in 0 .. (m - 1) :
          f[i] = IF i = 0 THEN <<0>> ELSE Walked(s, f[i - 1])
  <2>1. f = [i \in 0 .. (m - 1) |-> IF i = 0 THEN <<0>> ELSE Walked(s, f[i - 1])]
    BY <1>4 DEF IsWalk
  <2> QED BY <2>1
<1>6. ASSUME NEW i \in 0 .. m PROVE k[i] = r[i]
  <2>1. CASE i = 0
    BY <1>2, <1>3, <1>5, <2>1
  <2>2. CASE i # 0 /\ i # m
    <3>1. i \in 0 .. (m - 1) /\ i - 1 \in 0 .. m /\ i - 1 # m
      BY <1>2, <2>2
    <3>2. k[i] = f[i] /\ k[i - 1] = f[i - 1]
      BY <2>2, <3>1
    <3> QED BY <1>5, <2>2, <3>1, <3>2
  <2>3. CASE i = m
    <3>1. m \in 0 .. m /\ m - 1 \in 0 .. m /\ m - 1 # m
      BY <1>2, <1>3
    <3>2. k[m] = Walked(s, f[m - 1]) /\ k[m - 1] = f[m - 1]
      BY <3>1
    <3> QED BY <1>3, <2>3, <3>1, <3>2
  <2> QED BY <2>1, <2>2, <2>3
<1>7. k = r
  BY <1>6
<1>8. IsWalk(s, k, m)
  <2> HIDE DEF k
  <2> QED BY <1>7 DEF IsWalk
<1> QED BY <1>2, <1>8

LEMMA ChainIsWalk ==
    \E f : IsWalk(seg, f, BufSize) /\ Chain = f[BufSize]
<1> DEFINE step[n \in 0 .. BufSize] ==
              IF n = 0 THEN <<0>>
              ELSE LET walked == step[n - 1]
                       next   == seg[Last(walked)].next
                   IN  IF next = Null THEN walked ELSE Append(walked, next)
<1>1. Chain = step[BufSize]
  BY Zenon DEF Chain
<1>2. PICK f : IsWalk(seg, f, BufSize)
  BY WalkExists, MaabAssumption
<1>3. IsWalk(seg, step, BufSize)
  BY <1>2, Zenon DEF IsWalk, Walked
<1> HIDE DEF step
<1> QED BY <1>1, <1>3

(* The walk of a list meets its segments one after the other, and no other. *)
WalkIn(s, S, w) ==
    /\ w \in Seq(S) /\ w # <<>> /\ w[1] = 0
    /\ \A i \in 1 .. Len(w) : w[i] >= i - 1
    /\ \A i \in 1 .. (Len(w) - 1) : s[w[i]].next = w[i + 1]

LEMMA WalkStep ==
    ASSUME NEW s, NEW l, NEW S, Linked(s, l, S), NEW w, WalkIn(s, S, w)
    PROVE  /\ WalkIn(s, S, Walked(s, w))
           /\ Last(w) # l => Len(Walked(s, w)) = Len(w) + 1
           /\ Last(w) = l => Walked(s, w) = w
<1> DEFINE a == w[Len(w)]
           next == s[a].next
<1>0. Last(w) = a
  BY DEF Last
<1>1. /\ Len(w) \in Nat \ {0} /\ a \in S /\ a >= Len(w) - 1
      /\ S \subseteq Nat /\ Null \notin S
  <2>1. Len(w) \in Nat \ {0}
    BY DEF WalkIn
  <2>2. a \in S /\ a >= Len(w) - 1
    BY <2>1 DEF WalkIn
  <2>3. S \subseteq Nat /\ Null \notin S
    BY LinkedFacts
  <2> QED BY <2>1, <2>2, <2>3
<1>2. CASE a = l
  <2>1. next = Null
    BY <1>1, <1>2 DEF Linked
  <2>2. Walked(s, w) = w
    BY <1>0, <2>1 DEF Walked
  <2> QED BY <1>0, <1>2, <2>2
<1>3. CASE a # l
  <2>1. next = SegEnd(s, a) /\ next \in S /\ s[a].length \in Nat
    BY <1>1, <1>3 DEF Linked
  <2>2. next # Null /\ next >= Len(w)
    <3>1. a \in Nat /\ a >= Len(w) - 1 /\ Len(w) \in Nat /\ Null \notin S
      BY <1>1
    <3>2. SegEnd(s, a) > a /\ SegEnd(s, a) \in Nat
      BY <1>1, LinkedFacts
    <3> HIDE DEF a, next
    <3> QED BY <2>1, <3>1, <3>2
  <2>3. Walked(s, w) = Append(w, next)
    BY <1>0, <2>2 DEF Walked
  <2> HIDE DEF next
  <2> DEFINE v == Append(w, next)
  <2>4. /\ v \in Seq(S) /\ Len(v) = Len(w) + 1
        /\ \A i \in 1 .. Len(w) : v[i] = w[i]
        /\ v[Len(w) + 1] = next
    BY <1>1, <2>1 DEF WalkIn
  <2> HIDE DEF v
  <2>5. \A i \in 1 .. Len(v) : v[i] >= i - 1
    BY <1>1, <2>2, <2>4 DEF WalkIn
  <2>6. \A i \in 1 .. (Len(v) - 1) : s[v[i]].next = v[i + 1]
    <3> SUFFICES ASSUME NEW i \in 1 .. (Len(v) - 1)
                 PROVE  s[v[i]].next = v[i + 1]
      OBVIOUS
    <3>1. CASE i = Len(w)
      BY <1>1, <2>4, <3>1 DEF next
    <3>2. CASE i # Len(w)
      <4>1. i \in 1 .. (Len(w) - 1) /\ i \in 1 .. Len(w) /\ i + 1 \in 1 .. Len(w)
        BY <1>1, <2>4, <3>2
      <4> QED BY <2>4, <4>1 DEF WalkIn
    <3> QED BY <3>1, <3>2
  <2>7. v # <<>> /\ v[1] = 0
    BY <1>1, <2>4 DEF WalkIn
  <2>8. WalkIn(s, S, v)
    BY <2>4, <2>5, <2>6, <2>7 DEF WalkIn
  <2> QED BY <1>0, <1>3, <2>3, <2>4, <2>8 DEF v
<1> QED BY <1>2, <1>3

(* The walk ends with the last segment, as it has more steps than the       *)
(* buffer has addresses.                                                    *)
LEMMA ChainEnds ==
    ASSUME NEW S, Linked(seg, lastHdr, S)
    PROVE  WalkIn(seg, S, Chain) /\ Last(Chain) = lastHdr
<1>1. PICK f : IsWalk(seg, f, BufSize) /\ Chain = f[BufSize]
  BY ChainIsWalk
<1>0. BufSize \in Nat
  BY MaabAssumption
<1> DEFINE Good(m) == /\ WalkIn(seg, S, f[m])
                      /\ Last(f[m]) = lastHdr \/ Len(f[m]) = m + 1
           T == {m \in 0 .. BufSize : ~Good(m)}
<1>2. \A m \in 0 .. BufSize :
          f[m] = IF m = 0 THEN <<0>> ELSE Walked(seg, f[m - 1])
  <2>1. f = [m \in 0 .. BufSize |->
                IF m = 0 THEN <<0>> ELSE Walked(seg, f[m - 1])]
    BY <1>1 DEF IsWalk
  <2> QED BY <2>1
<1>3. T = {}
  <2> SUFFICES ASSUME T # {} PROVE FALSE
    OBVIOUS
  <2>1. T \subseteq Nat
    BY <1>0
  <2>2. PICK m \in T : \A k \in T : m <= k
    <3> HIDE DEF T
    <3> QED BY <2>1, LeastNatural
  <2>3. m \in 0 .. BufSize /\ ~Good(m)
    BY <2>2
  <2>4. m # 0
    <3> SUFFICES ASSUME m = 0 PROVE FALSE
      OBVIOUS
    <3>1. f[m] = <<0>>
      BY <1>2, <2>3
    <3>2. 0 \in S
      BY DEF Linked
    <3>3. WalkIn(seg, S, f[m]) /\ Len(f[m]) = 1
      BY <3>1, <3>2 DEF WalkIn
    <3> QED BY <2>3, <3>3
  <2>5. Good(m - 1)
    <3>1. m - 1 \in 0 .. BufSize /\ ~(m <= m - 1)
      BY <1>0, <2>3, <2>4
    <3>2. m - 1 \notin T
      BY <2>1, <2>2, <3>1
    <3> QED BY <3>1, <3>2
  <2>6. f[m] = Walked(seg, f[m - 1])
    BY <1>2, <2>3, <2>4
  <2> DEFINE w == f[m - 1]
  <2>7. /\ WalkIn(seg, S, Walked(seg, w))
        /\ Last(w) # lastHdr => Len(Walked(seg, w)) = Len(w) + 1
        /\ Last(w) = lastHdr => Walked(seg, w) = w
    BY <2>5, WalkStep
  <2>8. Last(w) = lastHdr \/ Len(w) = m
    BY <2>3, <2>5
  <2>9. f[m] = Walked(seg, w)
    BY <2>6
  <2> HIDE DEF w
  <2> QED BY <2>3, <2>7, <2>8, <2>9
<1>4. WalkIn(seg, S, f[BufSize])
      /\ (Last(f[BufSize]) = lastHdr \/ Len(f[BufSize]) = BufSize + 1)
  <2>1. BufSize \in 0 .. BufSize
    BY <1>0
  <2> QED BY <1>3, <2>1
<1> DEFINE c == Chain
<1>5. WalkIn(seg, S, c) /\ (Last(c) = lastHdr \/ Len(c) = BufSize + 1)
  BY <1>1, <1>4
<1> HIDE DEF c
<1>6. Len(c) # BufSize + 1
  <2> SUFFICES ASSUME Len(c) = BufSize + 1 PROVE FALSE
    OBVIOUS
  <2>1. Len(c) \in 1 .. Len(c) /\ c \in Seq(S)
    BY <1>0, <1>5 DEF WalkIn
  <2>2. c[Len(c)] \in S /\ c[Len(c)] >= Len(c) - 1
    BY <1>5, <2>1 DEF WalkIn
  <2>3. c[Len(c)] < BufSize /\ c[Len(c)] \in Nat
    BY <2>2, LinkedFacts
  <2> QED BY <1>0, <2>2, <2>3
<1> QED BY <1>5, <1>6 DEF c

LEMMA ChainIsList ==
    ASSUME NEW S, Linked(seg, lastHdr, S)
    PROVE  /\ Chain \in Seq(S) /\ Len(Chain) \in Nat /\ ToSet(Chain) = S
           /\ \A i \in 1 .. Len(Chain) : Chain[i] \in S
<1> DEFINE c == Chain
<1>1. WalkIn(seg, S, c) /\ Last(c) = lastHdr
  BY ChainEnds
<1> HIDE DEF c
<1>2. /\ c \in Seq(S) /\ Len(c) \in Nat /\ DOMAIN c = 1 .. Len(c) /\ Len(c) >= 1
      /\ c[Len(c)] = lastHdr
  BY <1>1 DEF WalkIn, Last
<1> DEFINE T == {a \in S : ~\E i \in 1 .. Len(c) : c[i] = a}
<1>3. T = {}
  <2> SUFFICES ASSUME T # {} PROVE FALSE
    OBVIOUS
  <2>1. T \subseteq Nat
    <3>1. S \subseteq Nat
      BY LinkedFacts
    <3> QED BY <3>1
  <2>2. PICK a \in T : \A k \in T : a <= k
    <3> HIDE DEF T
    <3> QED BY <2>1, LeastNatural
  <2>3. a \in S /\ a \in Nat /\ \A i \in 1 .. Len(c) : c[i] # a
    BY <2>1, <2>2
  <2>4. a # 0
    BY <1>1, <1>2, <2>3 DEF WalkIn
  <2> DEFINE p == seg[a].last
  <2>5. p \in S /\ SegEnd(seg, p) = a
    BY <2>3, <2>4 DEF Linked
  <2> HIDE DEF p
  <2>6. p \in Nat /\ p < a
    BY <2>5, LinkedFacts
  <2>7. p \notin T
    BY <2>1, <2>2, <2>6
  <2>8. PICK i \in 1 .. Len(c) : c[i] = p
    BY <2>5, <2>7
  <2>9. p # lastHdr
    <3> SUFFICES ASSUME p = lastHdr PROVE FALSE
      OBVIOUS
    <3>1. a = BufSize
      BY <2>5 DEF Linked
    <3> QED BY <2>3, <3>1, LinkedFacts
  <2>10. i \in 1 .. (Len(c) - 1) /\ i + 1 \in 1 .. Len(c)
    BY <1>2, <2>8, <2>9
  <2>11. seg[p].next = c[i + 1]
    BY <1>1, <2>8, <2>10 DEF WalkIn
  <2>12. seg[p].next = a
    BY <2>5, <2>9 DEF Linked
  <2> QED BY <2>3, <2>10, <2>11, <2>12
<1>4. \A i \in 1 .. Len(c) : c[i] \in S
  BY <1>2, ElementOfSeq
<1>5. \A a \in S : \E i \in 1 .. Len(c) : c[i] = a
  BY <1>3
<1>6. ToSet(c) = S
  BY <1>2, <1>4, <1>5 DEF ToSet
<1> QED BY <1>2, <1>4, <1>6 DEF c

-----------------------------------------------------------------------------
(* The invariant is inductive.                                              *)
LEMMA MaabInitKeeps == MaabInit => MaabInv
<1> SUFFICES ASSUME MaabInit PROVE MaabInv
  OBVIOUS
<1>1. /\ HeaderLen \in Nat \ {0} /\ BufSize \in Nat /\ BufSize > HeaderLen
      /\ 0 \in Addresses /\ lastHdr = 0 /\ held = {} /\ forged = {} /\ spoilt = FALSE
  BY MaabAssumption DEF MaabInit, Addresses
<1> DEFINE len == BufSize - HeaderLen
           first == Header(len, Null, Null, TRUE)
<1>2. len \in 0 .. BufSize /\ len \in Nat \ {0} /\ HeaderLen + len = BufSize
  BY <1>1
<1>3. seg = [a \in Addresses |-> IF a = 0 THEN first ELSE NoHeader]
  BY DEF MaabInit
<1> HIDE DEF len
<1>4. /\ first \in MaabHeaders /\ first.length = len /\ first.next = Null
      /\ first.last = Null /\ first.free /\ first.magic
  BY <1>1, <1>2 DEF Header, Null, MaabHeaders
<1>5. NoHeader \in MaabHeaders /\ ~NoHeader.magic
  BY NoHeaderFacts
<1> HIDE DEF first
<1>6. /\ seg \in [Addresses -> MaabHeaders] /\ seg[0] = first
      /\ \A b \in Addresses \ {0} : seg[b] = NoHeader
  BY <1>1, <1>3, <1>4, <1>5
<1>7. SegEnd(seg, 0) = BufSize
  BY <1>1, <1>2, <1>4, <1>6 DEF SegEnd
<1>8. Linked(seg, lastHdr, {0})
  BY <1>1, <1>2, <1>4, <1>6, <1>7 DEF Linked
<1>9. /\ LooksInUse(seg, {0}) = {} /\ ApartBut(seg, lastHdr, {0}, {}, {})
      /\ SegsInUse(seg, {0}) = {}
  BY <1>1, <1>4, <1>5, <1>6 DEF LooksInUse, ApartBut, SegsInUse
<1> QED BY <1>1, <1>8, <1>9 DEF MaabInv

(* FreeMem goes by the headers of the segments in use, and by those that    *)
(* look like one.                                                           *)
LEMMA AcceptedIsHeld ==
    ASSUME MaabInv, NEW address \in Addresses
    PROVE  Accepted(address) <=> address \in held \/ address - HeaderLen \in forged
<1>1. PICK S : /\ Linked(seg, lastHdr, S) /\ LooksInUse(seg, S) = forged
               /\ SegsInUse(seg, S) = {b - HeaderLen : b \in held}
  BY DEF MaabInv
<1>2. HeaderLen \in Nat /\ address \in Nat /\ held \subseteq Nat
  BY MaabAssumption DEF MaabInv, Addresses
<1> DEFINE a == address - HeaderLen
<1>3. address \in held <=> a \in SegsInUse(seg, S)
  <2>1. address \in held => a \in SegsInUse(seg, S)
    BY <1>1
  <2>2. ASSUME a \in SegsInUse(seg, S) PROVE address \in held
    <3>1. PICK b \in held : a = b - HeaderLen
      BY <1>1, <2>2
    <3>2. b = address
      BY <1>2, <3>1
    <3> QED BY <3>2
  <2> QED BY <2>1, <2>2
<1>4. Accepted(address) <=> a \in SegsInUse(seg, S) \/ a \in LooksInUse(seg, S)
  BY <1>1 DEF Accepted, SegsInUse, Linked, LooksInUse
<1> QED BY <1>1, <1>3, <1>4

LEMMA MallocMemKeeps ==
    ASSUME MaabInv, NEW size \in Sizes, MallocMem(size)
    PROVE  MaabInv'
<1>1. PICK S : /\ Linked(seg, lastHdr, S) /\ LooksInUse(seg, S) = forged
               /\ ApartBut(seg, lastHdr, S, {}, {})
               /\ SegsInUse(seg, S) = {b - HeaderLen : b \in held}
  BY DEF MaabInv
<1> DEFINE I == {i \in 1 .. Len(Chain) :
                    /\ seg[Chain[i]].free
                    /\ seg[Chain[i]].length = size \/ CanSplit(seg, Chain[i], size)}
           fit == Fit(size)
           a == Chain[fit]
           whole == seg[a].length = size
           got == IF whole THEN [seg |-> seg, last |-> lastHdr]
                  ELSE Split(seg, lastHdr, a, size)
           now == IF whole THEN forged ELSE forged \ Under(a + size + HeaderLen)
<1>2. /\ fit # 0
      /\ seg' = [got.seg EXCEPT ![a].free = FALSE]
      /\ lastHdr' = got.last
      /\ held' = held \cup {a + HeaderLen}
      /\ forged' = now /\ spoilt' = spoilt
  BY Zenon DEF MallocMem
<1>3. /\ a \in S /\ seg[a].free
      /\ seg[a].length = size \/ CanSplit(seg, a, size)
  <2>1. fit = IF I # {} THEN Min(I) ELSE 0
    BY DEF SelectInSeq, Fit
  <2>2. fit \in I
    <3>1. I \subseteq Nat
      OBVIOUS
    <3>2. fit # 0
      BY <1>2
    <3> HIDE DEF I, fit
    <3> QED BY <2>1, <3>1, <3>2, MinIsLeast
  <2>3. /\ fit \in 1 .. Len(Chain) /\ seg[a].free
        /\ seg[a].length = size \/ CanSplit(seg, a, size)
    <3> HIDE DEF fit
    <3> QED BY <2>2
  <2> HIDE DEF fit
  <2> QED BY <1>1, <2>3, ChainIsList
<1> HIDE DEF I, fit, a
<1>4. \E T : /\ Linked(got.seg, got.last, T) /\ LooksInUse(got.seg, T) = now
             /\ ApartBut(got.seg, got.last, T, {a}, {})
             /\ SegsInUse(got.seg, T) = SegsInUse(seg, S)
             /\ a \in T
  <2>1. CASE seg[a].length = size
    <3>1. got.seg = seg /\ got.last = lastHdr /\ now = forged
      BY <2>1
    <3>2. ApartBut(seg, lastHdr, S, {a}, {})
      BY <1>1 DEF ApartBut
    <3> HIDE DEF got, now
    <3> QED BY <1>1, <1>3, <3>1, <3>2
  <2>2. CASE seg[a].length # size
    <3>1. got = Split(seg, lastHdr, a, size) /\ CanSplit(seg, a, size)
          /\ size \in Nat \ {0} /\ now = forged \ Under(a + size + HeaderLen)
      BY <1>3, <2>2, MaabAssumption
    <3> HIDE DEF got, now
    <3> QED BY <1>1, <1>3, <3>1, SplitKeeps
  <2> QED BY <2>1, <2>2
<1> HIDE DEF got, now
<1>5. PICK T : /\ Linked(got.seg, got.last, T) /\ LooksInUse(got.seg, T) = now
               /\ ApartBut(got.seg, got.last, T, {a}, {})
               /\ SegsInUse(got.seg, T) = SegsInUse(seg, S)
               /\ a \in T
  BY <1>4
<1> DEFINE t == got.seg
           l == got.last
           no == FALSE
<1>6. /\ Linked(t, l, T) /\ LooksInUse(t, T) = now /\ no \in BOOLEAN
      /\ seg' = Marked(t, a, no)
  BY <1>2, <1>5 DEF Marked
<1> HIDE DEF t, l, no
<1>7. /\ Linked(seg', l, T) /\ LooksInUse(seg', T) = now
      /\ seg'[a].free = no
      /\ \A b \in T : SegEnd(seg', b) = SegEnd(t, b)
      /\ \A b \in T \ {a} : seg'[b].free = t[b].free
  BY ONLY <1>5, <1>6, MarkKeeps
<1>8. ApartBut(seg', l, T, {}, {})
  <2> SUFFICES ASSUME NEW b \in T, b # l, seg'[b].free, seg'[SegEnd(seg', b)].free
               PROVE  FALSE
    BY DEF ApartBut
  <2>1. b # a /\ SegEnd(t, b) # a
    BY <1>7 DEF no
  <2>2. SegEnd(t, b) \in T
    BY <1>6, LinkedFacts
  <2>3. t[b].free /\ t[SegEnd(t, b)].free
    BY <1>7, <2>1, <2>2
  <2> QED BY <1>5, <2>1, <2>3 DEF ApartBut, t, l
<1>9. SegsInUse(seg', T) = SegsInUse(t, T) \cup {a}
  BY <1>5, <1>7 DEF SegsInUse, no
<1>10. SegsInUse(seg', T) = {b - HeaderLen : b \in held'}
  <2>1. (a + HeaderLen) - HeaderLen = a
    BY <1>1, <1>3, LinkedFacts
  <2>2. SegsInUse(t, T) = {b - HeaderLen : b \in held}
    BY <1>1, <1>5 DEF t
  <2> QED BY <1>2, <1>9, <2>1, <2>2
<1>11. held' \subseteq Addresses
  <2> DEFINE x == seg[a].length
  <2>1. /\ a \in Nat /\ HeaderLen \in Nat /\ BufSize \in Nat /\ x \in Nat /\ x >= 1
        /\ a + HeaderLen + x <= BufSize
    BY <1>1, <1>3, LinkedFacts
  <2> HIDE DEF x
  <2>2. a + HeaderLen \in Addresses
    BY <2>1 DEF Addresses
  <2> QED BY <1>2, <2>2 DEF MaabInv
<1> QED BY <1>2, <1>7, <1>8, <1>10, <1>11 DEF MaabInv, l

(* The program writes into no header of the list.                           *)
LEMMA WriteBytesKeeps ==
    ASSUME MaabInv, NEW unit \in Addresses \ HeaderUnits,
           NEW looksInUse \in BOOLEAN, WriteBytes(unit, looksInUse)
    PROVE  MaabInv'
<1>1. PICK S : /\ Linked(seg, lastHdr, S) /\ LooksInUse(seg, S) = forged
               /\ ApartBut(seg, lastHdr, S, {}, {})
               /\ SegsInUse(seg, S) = {b - HeaderLen : b \in held}
  BY DEF MaabInv
<1> DEFINE a == unit - HeaderLen + 1
           h == IF looksInUse THEN Old(FALSE) ELSE NoHeader
<1>2. /\ seg' = [seg EXCEPT ![a] = h] /\ UNCHANGED <<lastHdr, held, spoilt>>
      /\ forged' = IF looksInUse THEN forged \cup {a} ELSE forged \ {a}
  BY DEF WriteBytes
<1>3. seg \in [Addresses -> MaabHeaders] /\ S \subseteq Addresses /\ 0 \in S
  BY <1>1 DEF Linked
<1>4. \A b \in S : unit \notin b .. (b + HeaderLen - 1)
  <2>1. ToSet(Chain) = S
    BY <1>1, ChainIsList
  <2> QED BY <2>1 DEF HeaderUnits
<1>5. unit \in Nat /\ unit < BufSize /\ HeaderLen \in Nat /\ HeaderLen >= 1
      /\ BufSize \in Nat
  BY MaabAssumption DEF Addresses
<1>6. a \in Addresses \ S
  <2>1. a \notin S
    <3> SUFFICES ASSUME a \in S PROVE FALSE
      OBVIOUS
    <3>1. unit \in a .. (a + HeaderLen - 1)
      BY <1>5
    <3> HIDE DEF a
    <3> QED BY <1>4, <3>1
  <2>2. unit \notin 0 .. (0 + HeaderLen - 1)
    BY <1>3, <1>4
  <2> QED BY <1>5, <2>1, <2>2 DEF Addresses
<1>7. h \in MaabHeaders /\ (h.magic /\ ~h.free <=> looksInUse)
  <2>1. NoHeader \in MaabHeaders /\ ~NoHeader.magic
    BY NoHeaderFacts
  <2>2. Old(FALSE) \in MaabHeaders /\ Old(FALSE).magic /\ ~Old(FALSE).free
    BY MaabAssumption DEF Old, Header, Null, MaabHeaders
  <2> QED BY <2>1, <2>2
<1> HIDE DEF a, h
<1>8. /\ seg' \in [Addresses -> MaabHeaders] /\ seg'[a] = h
      /\ \A b \in Addresses \ {a} : seg'[b] = seg[b]
  BY <1>2, <1>3, <1>6, <1>7
<1>9. \A b \in S : seg'[b] = seg[b]
  BY <1>3, <1>6, <1>8
<1>10. Linked(seg', lastHdr, S) /\ \A b \in S : SegEnd(seg', b) = SegEnd(seg, b)
  BY <1>1, <1>8, <1>9, LinkedAlike
<1>11. LooksInUse(seg', S) = forged'
  BY <1>1, <1>2, <1>6, <1>7, <1>8 DEF LooksInUse
<1>12. ApartBut(seg', lastHdr, S, {}, {})
  BY <1>1, <1>9, <1>10, LinkedFacts DEF ApartBut
<1>13. SegsInUse(seg', S) = SegsInUse(seg, S)
  BY <1>9 DEF SegsInUse
<1> QED BY <1>1, <1>2, <1>10, <1>11, <1>12, <1>13 DEF MaabInv

LEMMA FreeMemKeeps ==
    ASSUME MaabInv, NEW address \in Addresses, FreeMem(address)
    PROVE  MaabInv'
<1>1. PICK S : /\ Linked(seg, lastHdr, S) /\ LooksInUse(seg, S) = forged
               /\ ApartBut(seg, lastHdr, S, {}, {})
               /\ SegsInUse(seg, S) = {b - HeaderLen : b \in held}
  BY DEF MaabInv
<1> DEFINE a == address - HeaderLen
           r == Freed(a)
<1>2. /\ seg' = r.seg /\ lastHdr' = r.last /\ held' = held \ {address}
      /\ address \in held /\ UNCHANGED <<forged, spoilt>>
  BY DEF FreeMem
<1>4. a \in S
  BY <1>1, <1>2 DEF SegsInUse
<1>5. r = Freed(a)
  OBVIOUS
<1> HIDE DEF a, r
<1>6. PICK T : /\ Linked(r.seg, r.last, T) /\ LooksInUse(r.seg, T) = LooksInUse(seg, S)
               /\ ApartBut(r.seg, r.last, T, {}, {})
               /\ SegsInUse(r.seg, T) = SegsInUse(seg, S) \ {a}
  BY <1>1, <1>4, <1>5, FreedKeeps
<1>7. SegsInUse(seg', T) = {b - HeaderLen : b \in held'}
  <2>1. HeaderLen \in Nat /\ address \in Nat /\ held \subseteq Nat
    BY MaabAssumption DEF MaabInv, Addresses
  <2>2. \A b \in held : b - HeaderLen = a <=> b = address
    BY <2>1, <1>2 DEF a
  <2> QED BY <1>1, <1>2, <1>6, <2>2
<1> QED BY <1>1, <1>2, <1>6, <1>7 DEF MaabInv

LEMMA MaabNextKeeps == MaabKept /\ [MaabNext]_maabVars => MaabKept'
<1> SUFFICES ASSUME MaabKept, [MaabNext]_maabVars PROVE MaabKept'
  OBVIOUS
<1>0. ASSUME NEW size \in Sizes, MallocMem(size) PROVE MaabKept'
  <2>1. MaabInv
    BY <1>0 DEF MallocMem, MaabKept
  <2> QED BY <1>0, <2>1, MallocMemKeeps DEF MaabKept
<1>2. ASSUME NEW unit \in Addresses \ HeaderUnits, NEW looksInUse \in BOOLEAN,
             WriteBytes(unit, looksInUse)
      PROVE  MaabKept'
  <2>1. MaabInv
    BY <1>2 DEF WriteBytes, MaabKept
  <2> QED BY <1>2, <2>1, WriteBytesKeeps DEF MaabKept
<1>3. ASSUME WriteHeader PROVE MaabKept'
  BY <1>3 DEF WriteHeader, MaabKept
<1>4. ASSUME NEW address \in Addresses, FreeMem(address) PROVE MaabKept'
  <2>1. MaabInv
    BY <1>4 DEF FreeMem, MaabKept
  <2> QED BY <1>4, <2>1, FreeMemKeeps DEF MaabKept
<1>5. ASSUME NEW address \in Addresses, FreeLookAlike(address) PROVE MaabKept'
  BY <1>5 DEF FreeLookAlike, MaabKept
<1>6. CASE UNCHANGED maabVars
  BY <1>6 DEF maabVars, MaabKept, MaabInv
<1>7. CASE Spoilt
  BY <1>6, <1>7 DEF Spoilt
<1> QED BY <1>0, <1>2, <1>3, <1>4, <1>5, <1>6, <1>7 DEF MaabNext

LEMMA MaabInvTiles ==
    ASSUME MaabInv
    PROVE  SegmentsTile
<1>1. PICK S : /\ Linked(seg, lastHdr, S) /\ ApartBut(seg, lastHdr, S, {}, {})
               /\ LooksInUse(seg, S) = forged
  BY DEF MaabInv
<1>8. forged \subseteq Addresses
  BY <1>1 DEF LooksInUse
<1> DEFINE c == Chain
<1>2. WalkIn(seg, S, c) /\ Last(c) = lastHdr
  BY <1>1, ChainEnds
<1> HIDE DEF c
<1>3. /\ c \in Seq(S) /\ Len(c) \in Nat \ {0} /\ DOMAIN c = 1 .. Len(c)
      /\ c[Len(c)] = lastHdr
  BY <1>2 DEF WalkIn, Last
<1>4. \A i \in 1 .. Len(c) : c[i] \in S
  BY <1>3, ElementOfSeq
<1>5. ASSUME NEW i \in 1 .. (Len(c) - 1)
      PROVE  /\ c[i + 1] = SegEnd(seg, c[i]) /\ c[i] # lastHdr
             /\ seg[c[i + 1]].last = c[i]
             /\ ~(seg[c[i]].free /\ seg[c[i + 1]].free)
  <2>1. i \in 1 .. Len(c) /\ i + 1 \in 1 .. Len(c)
    BY <1>3
  <2>2. c[i] \in S /\ c[i + 1] \in S /\ seg[c[i]].next = c[i + 1]
    BY <1>2, <1>4, <2>1 DEF WalkIn
  <2>3. c[i + 1] # Null
    BY <1>1, <2>2, LinkedFacts
  <2>4. c[i] # lastHdr /\ c[i + 1] = SegEnd(seg, c[i])
    BY <1>1, <2>2, <2>3 DEF Linked
  <2>5. seg[c[i + 1]].last = c[i]
    BY <1>1, <2>2, <2>4 DEF Linked
  <2> QED BY <1>1, <2>2, <2>4, <2>5 DEF ApartBut
<1>6. ASSUME NEW i \in 1 .. Len(c)
      PROVE  /\ seg[c[i]].magic
             /\ seg[c[i]].last = IF i = 1 THEN Null ELSE c[i - 1]
             /\ c[i] + HeaderLen + seg[c[i]].length =
                   IF i = Len(c) THEN BufSize ELSE c[i + 1]
  <2>1. seg[c[i]].magic
    BY <1>1, <1>4 DEF Linked
  <2>2. seg[c[i]].last = IF i = 1 THEN Null ELSE c[i - 1]
    <3>1. ASSUME i # 1 PROVE seg[c[i]].last = c[i - 1]
      <4>1. i - 1 \in 1 .. (Len(c) - 1) /\ (i - 1) + 1 = i
        BY <1>3, <3>1
      <4> QED BY <1>5, <4>1
    <3>2. i = 1 => seg[c[i]].last = Null
      BY <1>1, <1>2 DEF WalkIn, Linked
    <3> QED BY <3>1, <3>2
  <2>3. SegEnd(seg, c[i]) = IF i = Len(c) THEN BufSize ELSE c[i + 1]
    <3>1. i = Len(c) => SegEnd(seg, c[i]) = BufSize
      BY <1>1, <1>3 DEF Linked
    <3>2. i # Len(c) => i \in 1 .. (Len(c) - 1)
      <4> DEFINE n == Len(c)
      <4>1. n \in Nat /\ i \in 1 .. n
        BY <1>3
      <4> HIDE DEF n
      <4>2. i # n => i \in 1 .. (n - 1)
        BY <4>1
      <4> QED BY <4>2 DEF n
    <3> QED BY <1>5, <3>1, <3>2
  <2> QED BY <2>1, <2>2, <2>3 DEF SegEnd
<1>7. MaabTypeOK
  BY <1>1, <1>8 DEF MaabInv, MaabTypeOK, Linked, MaabHeaders
<1> QED BY <1>2, <1>3, <1>5, <1>6, <1>7 DEF SegmentsTile, c

(* The segments of a program's memory lie one behind the other, fill the    *)
(* buffer and are linked in both directions, and no two free ones are       *)
(* neighbours, whatever is allocated, written and freed (MallocMem, FreeMem *)
(* and the Split and Combine functions under them), until the program       *)
(* writes over the header of a segment or frees what it made look like one. *)
THEOREM ProgramMemoryTiled == MaabSpec => []SegmentsTile
<1>1. MaabInit => MaabKept
  BY MaabInitKeeps DEF MaabKept
<1>2. MaabKept /\ [MaabNext]_maabVars => MaabKept'
  BY MaabNextKeeps
<1>3. MaabKept => SegmentsTile
  BY MaabInvTiles DEF MaabKept, SegmentsTile
<1> QED BY <1>1, <1>2, <1>3, PTL DEF MaabSpec

LEMMA MaabInvHeld ==
    ASSUME MaabInv
    PROVE  OnlyHeldIsAccepted
<1>1. PICK S : /\ Linked(seg, lastHdr, S)
               /\ SegsInUse(seg, S) = {b - HeaderLen : b \in held}
  BY DEF MaabInv
<1>2. ToSet(Chain) = S
  BY <1>1, ChainIsList
<1>3. \A address \in Addresses :
          Accepted(address) <=> address \in held \/ address - HeaderLen \in forged
  BY AcceptedIsHeld
<1> QED BY <1>1, <1>2, <1>3 DEF OnlyHeldIsAccepted, SegsInUse

(* FreeMem gives back the blocks the program holds and refuses every other  *)
(* address but those in front of which the program itself wrote the flag or *)
(* the magic number of a header in use: no header that was merged away is   *)
(* accepted as it was left.                                                 *)
THEOREM ProgramFreesOnlyItsOwn == MaabSpec => []OnlyHeldIsAccepted
<1>1. MaabInit => MaabKept
  BY MaabInitKeeps DEF MaabKept
<1>2. MaabKept /\ [MaabNext]_maabVars => MaabKept'
  BY MaabNextKeeps
<1>3. MaabKept => OnlyHeldIsAccepted
  BY MaabInvHeld DEF MaabKept, OnlyHeldIsAccepted
<1> QED BY <1>1, <1>2, <1>3, PTL DEF MaabSpec
=============================================================================
