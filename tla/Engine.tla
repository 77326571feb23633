------------------------------- MODULE Engine -------------------------------
(***************************************************************************)
(* The main thread between main() and its return: the frame loop of        *)
(* Engine::run with the reading of keys, the modes of the terminal, lines  *)
(* typed while a frame is drawn, the pixel buffer, and the handler of      *)
(* SIGWINCH, which may interrupt the main thread between any two steps.    *)
(*                                                                         *)
(* What the scenes do with a key or a line is the business of SelectView   *)
(* and NetScene; here they may ask for a line, throw a DatabaseError or    *)
(* show anything in Views.                                                 *)
(***************************************************************************)
EXTENDS Layout, Sequences, SequencesExt

CONSTANTS
  Windows,      \* the sizes the window can have
  Views,        \* what there can be to show
  EmptyRead,    \* what the uninitialised char of readc can hold
  MaxTyped,     \* bound: keys typed
  MaxResizes    \* bound: changes of the window's size

\* One byte each: ctrl+q, escape, the end of a line, 0, and all the others.
Keys == {"ctrl_q", "esc", "enter", "nul", "key"}

Size == [w : Nat, h : Nat]

ASSUME EngineAssumption ==
  /\ Windows \subseteq Size /\ Views \subseteq View
  /\ EmptyRead \subseteq Keys /\ MaxTyped \in Nat /\ MaxResizes \in Nat

VARIABLES
  pc,            \* where the main thread is
  running,       \* Engine: no finalize() yet
  raw, vtime,    \* termios: uncooked, VTIME
  alternative,   \* the alternate screen is shown
  typed,         \* bytes that were typed and not read
  ntyped,        \* keys typed so far
  win,           \* size of the window
  size,          \* Term::width and height
  len,           \* length of TermScreen::buffer
  frame, view,   \* the size and what there is to show, as of this frame
  winch,         \* where the handler is: "out", "entered", "updated"
  disposition,   \* of SIGWINCH: "default", "handle_winch" or "ignore"
  pending,       \* a SIGWINCH waits to be delivered
  missed,        \* history: a change of size nobody will be told about
  resizes        \* changes of the window's size so far

ttyVars    == <<raw, vtime, alternative>>
keyVars    == <<typed, ntyped>>
screenVars == <<size, len>>
frameVars  == <<frame, view>>
sigVars    == <<win, winch, disposition, pending, missed, resizes>>
vars == <<pc, running, ttyVars, keyVars, screenVars, frameVars, sigVars>>

NoView == [sidebar |-> FALSE, selected |-> FALSE, chats |-> 0, msgs |-> 0,
           modals |-> {}, rows |-> 0]

-----------------------------------------------------------------------------
(* The modes of the terminal.  A call of tcsetattr that cooks or uncooks   *)
(* discards what was typed, one that only sets the timeout does not.       *)

Uncook == raw' = TRUE /\ typed' = <<>>
Cook == raw' = FALSE /\ typed' = <<>>
SetTermiosControl(time) == vtime' = time
UncookTermios == Uncook /\ SetTermiosControl(0) /\ alternative' = TRUE

-----------------------------------------------------------------------------
(* Start and end.                                                          *)

Init ==
  /\ pc = "main" /\ running = TRUE
  /\ raw = FALSE /\ vtime = 0 /\ alternative = FALSE
  /\ typed = <<>> /\ ntyped = 0
  /\ win \in Windows /\ size = win /\ len = BufferSize(win)
  /\ frame = win /\ view = NoView
  /\ winch = "out" /\ disposition = "default" /\ pending = FALSE
  /\ missed = FALSE /\ resizes = 0

\* The handler runs on the main thread: no step of one within the other.
MainAt(place) == pc = place /\ winch = "out"

\* TermScreen and Term are constructed.
MakeScreen ==
  /\ MainAt("main") /\ pc' = "signal"
  /\ size' = win /\ len' = BufferSize(win) /\ missed' = FALSE
  /\ UncookTermios
  /\ UNCHANGED <<running, ntyped, frameVars, win, winch, disposition, pending,
                 resizes>>

HandleWinch ==
  /\ MainAt("signal") /\ pc' = "open"
  /\ disposition' = "handle_winch"
  /\ UNCHANGED <<running, ttyVars, keyVars, screenVars, frameVars, win, winch,
                 pending, missed, resizes>>

\* The database and the schema: an exception here is fatal, abort() runs no
\* destructor.  Then the scenes are made, and mount fetches.
OpenDatabase ==
  /\ MainAt("open") /\ pc' \in {"mount", "aborted"}
  /\ UNCHANGED <<running, ttyVars, keyVars, screenVars, frameVars, sigVars>>

MakeSceneTree ==
  /\ MainAt("mount") /\ pc' \in {"test", "return"}
  /\ UNCHANGED <<running, ttyVars, keyVars, screenVars, frameVars, sigVars>>

\* ~Term, for the shared_ptr that is global, when main has returned.
CookOnly ==
  /\ MainAt("return") /\ pc' = "exited"
  /\ Cook /\ SetTermiosControl(0)
  /\ UNCHANGED <<running, alternative, ntyped, screenVars, frameVars, sigVars>>

CookTermios ==
  /\ MainAt("return") /\ pc' = "exited"
  /\ Cook /\ SetTermiosControl(0) /\ alternative' = FALSE
  /\ UNCHANGED <<running, ntyped, screenVars, frameVars, sigVars>>

\* A DatabaseError leaves Engine::run and start_app; main catches it.
Throws ==
  /\ pc \in {"poll", "update", "draw"} /\ winch = "out" /\ pc' = "return"
  /\ UNCHANGED <<running, ttyVars, keyVars, screenVars, frameVars, sigVars>>

-----------------------------------------------------------------------------
(* poll_events.                                                            *)

ShouldRun ==
  /\ MainAt("test") /\ pc' = IF running THEN "poll" ELSE "return"
  /\ UNCHANGED <<running, ttyVars, keyVars, screenVars, frameVars, sigVars>>

\* readc takes a byte, or leaves its variable as it was.
Readc(c) ==
  IF typed = <<>> THEN c \in EmptyRead /\ UNCHANGED typed
  ELSE c = Head(typed) /\ typed' = Tail(typed)

IsQuitEsc(c) == c = "esc"
IsQuit(c) == c = "ctrl_q"

\* finalize, and then the key goes to its listeners all the same.
ReadKey(c) ==
  /\ MainAt("poll") /\ Readc(c)
  /\ running' = (running /\ ~IsQuit(c))
  /\ pc' = IF c = "nul" THEN "clear" ELSE IF c = "esc" THEN "escape" ELSE "poll"
  /\ SetTermiosControl(IF c = "esc" THEN 1 ELSE vtime)
  /\ UNCHANGED <<raw, alternative, ntyped, screenVars, frameVars, sigVars>>

SequenceLength == Lesser(8, Len(typed))

\* After an escape: the bytes that come within a tenth of a second are a
\* sequence, known or not, none are the escape key; then the escape byte
\* itself goes to its listeners.
LeaveTimeout ==
  /\ MainAt("escape") /\ pc' = "poll"
  /\ typed' = SubSeq(typed, SequenceLength + 1, Len(typed))
  /\ UNCHANGED <<running, ttyVars, ntyped, screenVars, frameVars, sigVars>>

ReadSequence ==
  /\ MainAt("escape") /\ pc' = "poll"
  /\ typed' = SubSeq(typed, SequenceLength + 1, Len(typed))
  /\ SetTermiosControl(0)
  /\ UNCHANGED <<running, raw, alternative, ntyped, screenVars, frameVars, sigVars>>

-----------------------------------------------------------------------------
(* The rest of a frame.                                                    *)

Clear ==
  /\ MainAt("clear") /\ pc' = "update"
  /\ len' = BufferSize(size)
  /\ UNCHANGED <<running, ttyVars, keyVars, size, frameVars, sigVars>>

\* The scenes update; the size they are drawn with is read once.
Update ==
  /\ MainAt("update") /\ pc' = "draw"
  /\ frame' = size /\ view' \in Views
  /\ UNCHANGED <<running, ttyVars, keyVars, screenVars, sigVars>>

\* inputline: cook, read a line, uncook.
AskLine ==
  /\ MainAt("draw") /\ pc' = "line"
  /\ Cook
  /\ UNCHANGED <<running, vtime, alternative, ntyped, screenVars, frameVars,
                 sigVars>>

ReadLine ==
  /\ MainAt("line") /\ "enter" \in ToSet(typed)
  /\ pc' = "draw" /\ Uncook
  /\ UNCHANGED <<running, vtime, alternative, ntyped, screenVars, frameVars,
                 sigVars>>

\* A cooked terminal turns ctrl+c into a signal, which ends the process.
Interrupt ==
  /\ pc = "line" /\ pc' = "killed"
  /\ UNCHANGED <<running, ttyVars, keyVars, screenVars, frameVars, sigVars>>

Drawn ==
  /\ MainAt("draw") /\ pc' = "commit"
  /\ UNCHANGED <<running, ttyVars, keyVars, screenVars, frameVars, sigVars>>

Commit ==
  /\ MainAt("commit") /\ pc' = "test" /\ view' = NoView
  /\ UNCHANGED <<running, ttyVars, keyVars, screenVars, frame, sigVars>>

-----------------------------------------------------------------------------
(* The user, the window and SIGWINCH.                                      *)

Gone == pc \in {"exited", "aborted", "killed"}

Type(c) ==
  /\ ~Gone /\ ntyped < MaxTyped
  /\ typed' = Append(typed, c) /\ ntyped' = ntyped + 1
  /\ UNCHANGED <<pc, running, ttyVars, screenVars, frameVars, sigVars>>

\* A signal that is ignored when it comes is gone.
Resize(s) ==
  /\ ~Gone /\ resizes < MaxResizes /\ s # win
  /\ win' = s /\ resizes' = resizes + 1
  /\ IF disposition = "handle_winch" THEN pending' = TRUE /\ UNCHANGED missed
                                     ELSE missed' = TRUE /\ UNCHANGED pending
  /\ UNCHANGED <<pc, running, ttyVars, keyVars, screenVars, frameVars, winch,
                 disposition>>

\* handle_winch ignores the signal, updates the size, and handles it again.
EnterWinch ==
  /\ ~Gone /\ pending /\ winch = "out"
  /\ pending' = FALSE /\ disposition' = "ignore" /\ winch' = "entered"
  /\ UNCHANGED <<pc, running, ttyVars, keyVars, screenVars, frameVars, win,
                 missed, resizes>>

TermOnly ==
  /\ winch = "entered" /\ winch' = "updated"
  /\ size' = win /\ missed' = FALSE
  /\ UNCHANGED <<pc, running, ttyVars, keyVars, len, frameVars, win,
                 disposition, pending, resizes>>
BufferOnly ==
  /\ winch = "entered" /\ winch' = "updated"
  /\ len' = BufferSize(size) /\ missed' = FALSE
  /\ UNCHANGED <<pc, running, ttyVars, keyVars, size, frameVars, win,
                 disposition, pending, resizes>>
UpdateSize ==
  /\ winch = "entered" /\ winch' = "updated"
  /\ size' = win /\ len' = BufferSize(win) /\ missed' = FALSE
  /\ UNCHANGED <<pc, running, ttyVars, keyVars, frameVars, win, disposition,
                 pending, resizes>>

LeaveWinch ==
  /\ winch = "updated" /\ winch' = "out"
  /\ disposition' = "handle_winch"
  /\ UNCHANGED <<pc, running, ttyVars, keyVars, screenVars, frameVars, win,
                 pending, missed, resizes>>

-----------------------------------------------------------------------------
StartAndEnd == MakeScreen \/ HandleWinch \/ OpenDatabase \/ MakeSceneTree
                 \/ CookTermios \/ Throws
Poll == (\E c \in Keys : ReadKey(c)) \/ ReadSequence
Frame == ShouldRun \/ Poll \/ Clear \/ Update \/ AskLine \/ ReadLine \/ Drawn
           \/ Commit
Winch == EnterWinch \/ UpdateSize \/ LeaveWinch
Outside == \/ \E c \in Keys : Type(c)
           \/ \E s \in Windows : Resize(s)
           \/ Interrupt

Next == StartAndEnd \/ Frame \/ Winch \/ Outside

Spec == Init /\ [][Next]_vars

\* The main thread and its signal handler are scheduled; nobody has to type.
FairSpec == Spec /\ WF_vars(StartAndEnd \/ Frame) /\ WF_vars(Winch)

-----------------------------------------------------------------------------
(* What the engine promises.                                               *)

\* Every variable holds what the code can put there; the buffer is never
\* empty, as commit reads the style of its first pixel.
TypeOK ==
  /\ pc \in {"main", "signal", "open", "mount", "test", "poll", "escape",
             "clear", "update", "draw", "line", "commit", "return", "exited",
             "aborted", "killed"}
  /\ running \in BOOLEAN /\ raw \in BOOLEAN /\ alternative \in BOOLEAN
  /\ pending \in BOOLEAN /\ missed \in BOOLEAN
  /\ vtime \in {0, 1} /\ typed \in Seq(Keys) /\ ntyped \in Nat
  /\ win \in Size /\ size \in Size /\ frame \in Size /\ view \in View
  /\ len \in Nat \ {0}
  /\ winch \in {"out", "entered", "updated"}
  /\ disposition \in {"default", "handle_winch", "ignore"} /\ resizes \in Nat

\* A screen of size s has room for view v: the texts of the bottom panel, four
\* lines for each chat and four above them, the forms and the lists.
Fits(v, s) ==
  /\ s.w >= (IF v.selected THEN 62 ELSE 39) /\ s.h >= 6
  /\ v.sidebar => 4 * v.chats + 4 <= s.h
  /\ "create_chat" \in v.modals => s.h >= 11
  /\ "create_user" \in v.modals => s.h >= 15
  /\ v.modals \cap ListModals # {} => (s.h \div 4) + v.rows + 4 <= s.h

\* Whatever is shown, no scene writes outside the pixel buffer if there is room
\* for it and the screen has not shrunk since the frame began: it may have been
\* resized, and may have grown, between any two calls.
WritesInside ==
  pc = "draw" /\ winch = "out" /\ Fits(view, frame)
    /\ frame.w <= size.w /\ frame.h <= size.h
    => \A c \in Calls(view, frame) : Inside(Writes(size, c), len)

\* commit walks over width times height pixels: whenever it starts, and however
\* the size came to be what it is, the buffer has that many.
CommitInside == pc = "commit" /\ winch = "out" => Inside(CommitReads(size), len)

\* update_size "should be called from the SIGWINCH signal": outside of the
\* handler the size is that of the window, unless the last change came while
\* the handler had the signal ignored, or before it was installed.
SizeFollowsWindow ==
  pc # "main" /\ winch = "out" /\ ~pending /\ ~missed => size = win

\* Keys are read byte by byte and without waiting, the rest of a sequence with
\* a timeout and a line from a cooked terminal, whatever happened before.
ModeFitsRead ==
  /\ pc = "poll" => raw /\ vtime = 0
  /\ pc = "escape" => raw /\ vtime = 1
  /\ pc = "line" => ~raw
  /\ pc \in {"poll", "escape", "draw", "line", "commit"} => alternative

\* "On destruction, the terminal will be returned back to this state": the
\* shell finds it as it was after ctrl+q and after a DatabaseError anywhere; a
\* ctrl+c while a line is typed leaves at least a cooked terminal.
TerminalRestored ==
  /\ pc = "exited" => ~raw /\ ~alternative
  /\ pc = "killed" => ~raw

\* "Ctrl+Q is quit, always", as far as it is true: while keys are polled, if no
\* escape is before it, which takes it for a part of its sequence, and no 0,
\* which ends the poll; also if readc makes up keys in between.
QuitTyped ==
  \E i \in DOMAIN typed :
    typed[i] = "ctrl_q" /\ \A j \in 1 .. i - 1 : typed[j] \notin {"esc", "nul"}
QuitHonoured == (pc = "poll" /\ QuitTyped) ~> (~running \/ pc = "return")

\* "Abort on invalid coords and truncate lines that are to long": setc, hline
\* and vline write nothing outside the buffer.
LinesInside ==
  pc = "draw" /\ winch = "out" =>
    \A c \in Calls(view, frame) :
      c.op # "print" => Inside(Writes(size, c), len)

=============================================================================
