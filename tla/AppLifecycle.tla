---------------------------- MODULE AppLifecycle ----------------------------
(***************************************************************************)
(* How an Electron application closes its windows and quits: the browser   *)
(* process's Browser object, its WindowList, and the close paths of        *)
(* NativeWindow (views), BaseWindow and BrowserWindow.                     *)
(*                                                                         *)
(* All of this code runs on the UI thread, so the hazard is not two        *)
(* threads but RE-ENTRANCY: every event it emits ("close", "closed",       *)
(* "before-quit", "will-quit", ...) runs JavaScript that may call          *)
(* app.quit(), app.exit(), win.close(), win.destroy() or open a window     *)
(* before the C++ function that emitted it continues.  The model makes the *)
(* C++ call stack explicit.  A frame whose fn is a C++ function is about   *)
(* to be executed; a frame whose fn is an event is a handler in progress,  *)
(* over which JavaScript may push calls, and which then returns with or    *)
(* without preventDefault().  When the stack is empty the message loop     *)
(* runs a task: the application's own code, a page's answer, a deletion.   *)
(***************************************************************************)
EXTENDS Naturals, Sequences, FiniteSets

CONSTANTS
    Windows,      \* the NativeWindows the application may open
    PlainWindows, \* those that are BaseWindows: no page to ask
    FixedWindows, \* those that are not closable (IsClosable() is false)
    NoWindow,     \* the window of a frame that is not about a window
    MaxCalls      \* bound: how many API calls the application makes

ASSUME WindowsAssumption ==
    /\ PlainWindows \subseteq Windows
    /\ FixedWindows \subseteq Windows
    /\ NoWindow \notin Windows
ASSUME MaxCallsAssumption == MaxCalls \in Nat

VARIABLES
    phase,       \* where the main function is; "exited" once the process is gone
    is_quitting, is_exiting, is_shutdown,   \* Browser's flags
    quit_posted, \* RunQuitClosure has posted the message loop's quit closure
    windows,     \* WindowList::windows_
    life,        \* each NativeWindow; "closed" is is_closed_
    page,        \* the page of each BrowserWindow that is still observed
    fresh,       \* history: the windows opened since the last quit or exit
                 \* took its snapshot of the window list
    stack,       \* the UI thread's call stack, innermost frame last
    calls        \* how many API calls the application has made

vars == <<phase, is_quitting, is_exiting, is_shutdown, quit_posted,
          windows, life, page, fresh, stack, calls>>
browser == <<phase, is_quitting, is_exiting, is_shutdown, quit_posted>>

-----------------------------------------------------------------------------
(* The call stack.                                                         *)

Calls == {"Quit", "NotifyAndShutdown", "Shutdown", "OnWindowAllClosed",
          "CloseAllWindows", "DestroyAllWindows", "Close", "CloseImmediately"}

Handlers == {"before-quit", "will-quit", "quit", "window-all-closed",
             "close", "closed", "will-prevent-unload"}

Frames == [fn : Calls \cup Handlers,
           win : Windows \cup {NoWindow},
           todo : Seq(Windows)]

Frame(fn)          == [fn |-> fn, win |-> NoWindow, todo |-> <<>>]
WindowFrame(fn, w) == [fn |-> fn, win |-> w, todo |-> <<>>]
ListFrame(fn, s)   == [fn |-> fn, win |-> NoWindow, todo |-> s]

Top       == stack[Len(stack)]
Push(f)   == stack' = Append(stack, f)
Return    == stack' = SubSeq(stack, 1, Len(stack) - 1)
Become(f) == stack' = [stack EXCEPT ![Len(stack)] = f]  \* a tail call

Idle == stack = <<>> /\ phase # "exited"
At(fn) == stack # <<>> /\ phase # "exited" /\ Top.fn = fn

Listed == {windows[i] : i \in DOMAIN windows}

(* std::erase: no window is listed twice (WindowListExact).                *)
Erase(s, w) ==
    IF \E i \in 1..Len(s) : s[i] = w
      THEN LET i == CHOOSE i \in 1..Len(s) : s[i] = w
           IN SubSeq(s, 1, i - 1) \o SubSeq(s, i + 1, Len(s))
      ELSE s

-----------------------------------------------------------------------------
TypeOK ==
    /\ phase \in {"loading", "launched", "running", "exited"}
    /\ is_quitting \in BOOLEAN
    /\ is_exiting \in BOOLEAN
    /\ is_shutdown \in BOOLEAN
    /\ quit_posted \in BOOLEAN
    /\ windows \in Seq(Windows)
    /\ life \in [Windows -> {"unborn", "open", "closed"}]
    /\ page \in [Windows -> {"none", "loaded", "asking", "closing"}]
    /\ fresh \subseteq Windows
    /\ stack \in Seq(Frames)
    /\ calls \in 0..MaxCalls

Init ==
    /\ phase = "loading"        \* the application's main script is running
    /\ is_quitting = FALSE
    /\ is_exiting = FALSE
    /\ is_shutdown = FALSE
    /\ quit_posted = FALSE
    /\ windows = <<>>
    /\ life = [w \in Windows |-> "unborn"]
    /\ page = [w \in Windows |-> "none"]
    /\ fresh = {}
    /\ stack = <<>>
    /\ calls = 0

-----------------------------------------------------------------------------
(* The process.                                                            *)

(* PreMainMessageLoopRun: "ready" is emitted, windows may be created.      *)
DidFinishLaunching ==
    /\ Idle
    /\ phase = "loading"
    /\ phase' = "launched"
    /\ UNCHANGED <<is_quitting, is_exiting, is_shutdown, quit_posted,
                   windows, life, page, fresh, stack, calls>>

(* WillRunMainMessageLoop: from here exit codes are accepted, and a        *)
(* shutdown that came too early finds its quit closure.                    *)
SetMainMessageLoopQuitClosure ==
    /\ Idle
    /\ phase = "launched"
    /\ phase' = "running"
    /\ quit_posted' = is_shutdown
    /\ UNCHANGED <<is_quitting, is_exiting, is_shutdown,
                   windows, life, page, fresh, stack, calls>>

MessageLoopQuits ==
    /\ Idle
    /\ quit_posted
    /\ phase' = "exited"
    /\ UNCHANGED <<is_quitting, is_exiting, is_shutdown, quit_posted,
                   windows, life, page, fresh, stack, calls>>

-----------------------------------------------------------------------------
(* What JavaScript may do: as a task of the loop, or in an event handler.  *)

JSRuns == /\ phase # "exited"
          /\ stack # <<>> => Top.fn \in Handlers

JSCalls == /\ JSRuns
           /\ calls < MaxCalls
           /\ calls' = calls + 1

(* new BrowserWindow / new BaseWindow.                                     *)
OpenWindow(w) ==
    /\ JSRuns
    /\ phase # "loading"
    /\ life[w] = "unborn"
    /\ life' = [life EXCEPT ![w] = "open"]
    /\ windows' = Append(windows, w)
    /\ page' = [page EXCEPT ![w] = IF w \in PlainWindows THEN "none" ELSE "loaded"]
    /\ fresh' = fresh \cup {w}
    /\ UNCHANGED <<browser, stack, calls>>

AppQuit ==
    /\ JSCalls
    /\ Push(Frame("Quit"))
    /\ UNCHANGED <<browser, windows, life, page, fresh>>

(* Fault: app.exit() asks the windows instead of destroying them.          *)
ExitClosesWindows ==
    /\ JSCalls
    /\ phase = "running"
    /\ is_quitting' = TRUE
    /\ is_exiting' = TRUE
    /\ fresh' = {}
    /\ Push(IF windows = <<>> THEN Frame("Shutdown")
                              ELSE ListFrame("CloseAllWindows", windows))
    /\ UNCHANGED <<phase, is_shutdown, quit_posted, windows, life, page>>

(* app.exit() before the message loop runs: SetExitCode refuses, and the   *)
(* process ends under whatever is on the stack.                            *)
ExitProcess ==
    /\ JSCalls
    /\ phase # "running"
    /\ phase' = "exited"
    /\ UNCHANGED <<is_quitting, is_exiting, is_shutdown, quit_posted,
                   windows, life, page, fresh, stack>>

ExitWithCode ==
    /\ JSCalls
    /\ phase = "running"
    /\ is_quitting' = TRUE
    /\ is_exiting' = TRUE
    /\ fresh' = {}
    /\ Push(IF windows = <<>> THEN Frame("Shutdown")
                              ELSE ListFrame("DestroyAllWindows", windows))
    /\ UNCHANGED <<phase, is_shutdown, quit_posted, windows, life, page>>

WinClose(w) ==
    /\ JSCalls
    /\ life[w] = "open"
    /\ Push(WindowFrame("Close", w))
    /\ UNCHANGED <<browser, windows, life, page, fresh>>

(* win.destroy() deletes the BrowserWindow, which stops observing its page *)
(* before the native window is closed.                                     *)
WinDestroy(w) ==
    /\ JSCalls
    /\ life[w] = "open"
    /\ page' = [page EXCEPT ![w] = "none"]
    /\ Push(WindowFrame("CloseImmediately", w))
    /\ UNCHANGED <<browser, windows, life, fresh>>

(* win.webContents.close(), and a page that calls window.close().          *)
WebContentsClose(w) ==
    /\ JSCalls
    /\ life[w] = "open"
    /\ page[w] = "loaded"
    /\ page' = [page EXCEPT ![w] = "closing"]
    /\ UNCHANGED <<browser, windows, life, fresh, stack>>

-----------------------------------------------------------------------------
(* Browser.                                                                *)

Quit ==
    /\ At("Quit")
    /\ IF is_quitting THEN Return ELSE Become(Frame("before-quit"))
    /\ UNCHANGED <<browser, windows, life, page, fresh, calls>>

(* Fault: Quit() relies on OnWindowAllClosed even when no window is open.  *)
QuitWithoutEmptyCheck(prevented) ==
    /\ At("before-quit")
    /\ is_quitting' = ~prevented
    /\ fresh' = IF prevented \/ is_exiting THEN fresh ELSE {}
    /\ IF prevented THEN Return ELSE Become(ListFrame("CloseAllWindows", windows))
    /\ UNCHANGED <<phase, is_exiting, is_shutdown, quit_posted,
                   windows, life, page, calls>>

(* Quit() after HandleBeforeQuit().  The history variable restarts here,   *)
(* except after app.exit(), whose windows stay accounted for.              *)
BeforeQuitReturns(prevented) ==
    /\ At("before-quit")
    /\ is_quitting' = ~prevented
    /\ fresh' = IF prevented \/ is_exiting THEN fresh ELSE {}
    /\ IF prevented THEN Return
       ELSE Become(IF windows = <<>> THEN Frame("NotifyAndShutdown")
                                     ELSE ListFrame("CloseAllWindows", windows))
    /\ UNCHANGED <<phase, is_exiting, is_shutdown, quit_posted,
                   windows, life, page, calls>>

NotifyAndShutdown ==
    /\ At("NotifyAndShutdown")
    /\ IF is_shutdown THEN Return ELSE Become(Frame("will-quit"))
    /\ UNCHANGED <<browser, windows, life, page, fresh, calls>>

WillQuitReturns(prevented) ==
    /\ At("will-quit")
    /\ IF prevented THEN is_quitting' = FALSE /\ Return
                    ELSE Become(Frame("Shutdown")) /\ UNCHANGED is_quitting
    /\ UNCHANGED <<phase, is_exiting, is_shutdown, quit_posted,
                   windows, life, page, fresh, calls>>

Shutdown ==
    /\ At("Shutdown")
    /\ IF is_shutdown
         THEN Return /\ UNCHANGED <<is_shutdown, is_quitting>>
         ELSE /\ is_shutdown' = TRUE
              /\ is_quitting' = TRUE
              /\ Become(Frame("quit"))
    /\ UNCHANGED <<phase, is_exiting, quit_posted,
                   windows, life, page, fresh, calls>>

(* Fault: is_quitting_, which app.exit() sets too, is looked at first.     *)
QuittingBeforeExiting ==
    /\ At("OnWindowAllClosed")
    /\ Become(Frame(CASE is_quitting                 -> "NotifyAndShutdown"
                      [] ~is_quitting /\ is_exiting  -> "Shutdown"
                      [] OTHER                       -> "window-all-closed"))
    /\ UNCHANGED <<browser, windows, life, page, fresh, calls>>

(* Shutdown() after OnQuit: without a message loop yet, it only waits.     *)
QuitReturns ==
    /\ At("quit")
    /\ quit_posted' = (quit_posted \/ phase = "running")
    /\ Return
    /\ UNCHANGED <<phase, is_quitting, is_exiting, is_shutdown,
                   windows, life, page, fresh, calls>>

OnWindowAllClosed ==
    /\ At("OnWindowAllClosed")
    /\ Become(Frame(CASE is_exiting                 -> "Shutdown"
                      [] ~is_exiting /\ is_quitting -> "NotifyAndShutdown"
                      [] OTHER                      -> "window-all-closed"))
    /\ UNCHANGED <<browser, windows, life, page, fresh, calls>>

WindowAllClosedReturns ==
    /\ At("window-all-closed")
    /\ Return
    /\ UNCHANGED <<browser, windows, life, page, fresh, calls>>

(* WindowList::WindowCloseCancelled -> Browser::OnWindowCloseCancelled.    *)
WindowCloseCancelled ==
    /\ is_quitting' = FALSE
    /\ UNCHANGED <<phase, is_exiting, is_shutdown, quit_posted>>

-----------------------------------------------------------------------------
(* WindowList: both loops walk a snapshot of weak pointers.                *)

ForEachWindow(loop, call) ==
    /\ At(loop)
    /\ IF Top.todo = <<>> THEN Return
       ELSE LET w    == Head(Top.todo)
                rest == [stack EXCEPT ![Len(stack)] = ListFrame(loop, Tail(Top.todo))]
            IN stack' = IF life[w] = "closed" THEN rest
                        ELSE Append(rest, WindowFrame(call, w))
    /\ UNCHANGED <<browser, windows, life, page, fresh, calls>>

CloseAllWindows   == ForEachWindow("CloseAllWindows", "Close")
DestroyAllWindows == ForEachWindow("DestroyAllWindows", "CloseImmediately")

-----------------------------------------------------------------------------
(* A window.                                                               *)

(* NativeWindowViews::Close, up to the "close" event.                      *)
Close ==
    /\ At("Close")
    /\ IF Top.win \in FixedWindows
         THEN WindowCloseCancelled /\ Return
         ELSE Become(WindowFrame("close", Top.win)) /\ UNCHANGED browser
    /\ UNCHANGED <<windows, life, page, fresh, calls>>

(* NotifyWindowCloseButtonClicked after WillCloseWindow: a window whose    *)
(* page is still observed asks the page (with a beforeunload handler) or   *)
(* closes the page; any other is closed at once.                           *)
CloseReturns(prevented) ==
    LET w == Top.win IN
    /\ At("close")
    /\ CASE prevented ->
              WindowCloseCancelled /\ Return /\ UNCHANGED page
         [] ~prevented /\ (page[w] = "none" \/ life[w] = "closed") ->
              /\ Become(WindowFrame("CloseImmediately", w))
              /\ UNCHANGED <<browser, page>>
         [] OTHER ->
              /\ \E p \in {"asking", "closing"} :
                   page' = [page EXCEPT ![w] = IF page[w] = "loaded" THEN p ELSE @]
              /\ Return
              /\ UNCHANGED browser
    /\ UNCHANGED <<windows, life, fresh, calls>>

(* Fault: NotifyWindowClosed without its is_closed_ guard.                 *)
CloseImmediatelyTwice ==
    /\ At("CloseImmediately")
    /\ life' = [life EXCEPT ![Top.win] = "closed"]
    /\ Become(WindowFrame("closed", Top.win))
    /\ UNCHANGED <<browser, windows, page, fresh, calls>>

(* CloseNow destroys the widget; NotifyWindowClosed runs once per window.  *)
CloseImmediately ==
    /\ At("CloseImmediately")
    /\ IF life[Top.win] = "closed"
         THEN Return /\ UNCHANGED life
         ELSE /\ life' = [life EXCEPT ![Top.win] = "closed"]
              /\ Become(WindowFrame("closed", Top.win))
    /\ UNCHANGED <<browser, windows, page, fresh, calls>>

(* Fault: RemoveWindow does not tell anyone that the list is empty.        *)
RemoveWindowSilently ==
    /\ At("closed")
    /\ windows' = Erase(windows, Top.win)
    /\ Return
    /\ UNCHANGED <<browser, life, page, fresh, calls>>

(* NotifyWindowClosed after OnWindowClosed: WindowList::RemoveWindow.      *)
ClosedReturns ==
    /\ At("closed")
    /\ windows' = Erase(windows, Top.win)
    /\ IF windows' = <<>> THEN Become(Frame("OnWindowAllClosed")) ELSE Return
    /\ UNCHANGED <<browser, life, page, fresh, calls>>

-----------------------------------------------------------------------------
(* The page of a BrowserWindow, as tasks of the message loop.              *)

(* beforeunload did not object: the page is being unloaded.                *)
BeforeUnloadFired(w) ==
    /\ Idle
    /\ page[w] = "asking"
    /\ page' = [page EXCEPT ![w] = "closing"]
    /\ UNCHANGED <<browser, windows, life, fresh, stack, calls>>

(* Fault: BeforeUnloadDialogCancelled does not cancel the quit.            *)
DialogCancelUnnoticed(prevented) ==
    /\ At("will-prevent-unload")
    /\ Return
    /\ page' = [page EXCEPT ![Top.win] =
                  IF @ = "none" THEN @ ELSE IF prevented THEN "closing" ELSE "loaded"]
    /\ UNCHANGED <<browser, windows, life, fresh, calls>>

(* beforeunload objected: "will-prevent-unload" decides.                   *)
RunBeforeUnloadDialog(w) ==
    /\ Idle
    /\ page[w] = "asking"
    /\ Push(WindowFrame("will-prevent-unload", w))
    /\ UNCHANGED <<browser, windows, life, page, fresh, calls>>

WillPreventUnloadReturns(prevented) ==
    LET w == Top.win IN
    /\ At("will-prevent-unload")
    /\ Return
    /\ CASE page[w] = "none" ->
              UNCHANGED <<browser, page>>
         [] page[w] # "none" /\ prevented ->
              /\ page' = [page EXCEPT ![w] = "closing"]
              /\ UNCHANGED browser
         [] OTHER ->
              /\ page' = [page EXCEPT ![w] = "loaded"]
              /\ WindowCloseCancelled
    /\ UNCHANGED <<windows, life, fresh, calls>>

(* CloseContents, and the posted destruction of the WebContents.           *)
WebContentsDestroyed(w) ==
    /\ Idle
    /\ page[w] = "closing"
    /\ page' = [page EXCEPT ![w] = "none"]
    /\ Push(WindowFrame("CloseImmediately", w))
    /\ UNCHANGED <<browser, windows, life, fresh, calls>>

(* The deletion of a closed BrowserWindow, posted by OnWindowClosed.       *)
DestroyClosure(w) ==
    /\ Idle
    /\ life[w] = "closed"
    /\ page[w] # "none"
    /\ page' = [page EXCEPT ![w] = "none"]
    /\ UNCHANGED <<browser, windows, life, fresh, stack, calls>>

-----------------------------------------------------------------------------
Startup == DidFinishLaunching \/ SetMainMessageLoopQuitClosure

JavaScript ==
    \/ AppQuit
    \/ ExitProcess
    \/ ExitWithCode
    \/ \E w \in Windows :
         OpenWindow(w) \/ WinClose(w) \/ WinDestroy(w) \/ WebContentsClose(w)

Native ==
    \/ Quit
    \/ NotifyAndShutdown
    \/ Shutdown
    \/ OnWindowAllClosed
    \/ CloseAllWindows
    \/ DestroyAllWindows
    \/ Close
    \/ CloseImmediately

HandlerReturns ==
    \/ \E prevented \in BOOLEAN :
         \/ BeforeQuitReturns(prevented)
         \/ WillQuitReturns(prevented)
         \/ CloseReturns(prevented)
         \/ WillPreventUnloadReturns(prevented)
    \/ QuitReturns
    \/ WindowAllClosedReturns
    \/ ClosedReturns

PageTask(w) ==
    \/ BeforeUnloadFired(w)
    \/ RunBeforeUnloadDialog(w)
    \/ WebContentsDestroyed(w)
    \/ DestroyClosure(w)

Next ==
    \/ Startup
    \/ MessageLoopQuits
    \/ JavaScript
    \/ Native
    \/ HandlerReturns
    \/ \E w \in Windows : PageTask(w)

Spec == Init /\ [][Next]_vars

(* The UI thread executes the frame it is at, handlers return, the message *)
(* loop starts and runs its tasks, and content's own unload timers make a  *)
(* page answer.  Nothing makes the application call anything.              *)
Fairness ==
    /\ WF_vars(Startup)
    /\ WF_vars(MessageLoopQuits)
    /\ WF_vars(Native)
    /\ WF_vars(HandlerReturns)
    /\ \A w \in Windows : WF_vars(PageTask(w))

FairSpec == Spec /\ Fairness

-----------------------------------------------------------------------------
(* WindowList::windows_ is exactly the windows that are open, plus those   *)
(* whose "closed" handlers are still running: a window is never dropped    *)
(* early, never kept, never listed twice.                                  *)
WindowListExact ==
    /\ Len(windows) = Cardinality(Listed)
    /\ \A w \in Windows :
         w \in Listed <=>
           \/ life[w] = "open"
           \/ \E i \in DOMAIN stack : stack[i].fn = "closed" /\ stack[i].win = w

(* A quit or exit in progress that has no window left is never forgotten:  *)
(* when the UI thread is idle it has reached Shutdown().  Nobody else      *)
(* would call it, and is_quitting_ would make app.quit() a no-op.          *)
NoStuckQuit ==
    Idle /\ (is_quitting \/ is_exiting) => is_shutdown \/ windows # <<>>

(* When Quit() has returned to the loop and the quit was not cancelled,    *)
(* every window it found has been asked: it is gone, or its page is being  *)
(* asked or unloaded.  Only windows opened meanwhile may be untouched.     *)
QuitReachesEveryWindow ==
    Idle /\ is_quitting /\ ~is_shutdown =>
      \A w \in Listed \ fresh : page[w] \in {"asking", "closing"}

(* When ExitWithCode() has returned, no window it found is still there.    *)
ExitDestroysAll ==
    Idle /\ is_exiting => Listed \subseteq fresh

(* After app.exit(), "will-quit" is not emitted any more, whatever the     *)
(* application called before or calls while its windows go.                *)
EmitsWillQuit == /\ Len(stack') = Len(stack)
                 /\ At("NotifyAndShutdown")
                 /\ stack'[Len(stack)].fn = "will-quit"

ExitSkipsWillQuit == [][~(is_exiting /\ EmitsWillQuit)]_vars

(* A quit concludes: the process ends, also when the shutdown was decided  *)
(* before the message loop ran, or the quit is cancelled, or a window that *)
(* it has not seen keeps it waiting.                                       *)
QuitConcludes ==
    /\ is_quitting /\ ~is_shutdown ~>
         \/ is_shutdown
         \/ ~is_quitting
         \/ Listed \cap fresh # {}
         \/ phase = "exited"
    /\ is_shutdown ~> phase = "exited"

(* docs/api/app.md:582: app.exit() "Exits immediately with exitCode ...    *)
(* All windows will be closed immediately".                                *)
ExitIsImmediate == Idle /\ is_exiting => is_shutdown

(* docs/api/app.md:570: app.quit() will "Try to close all windows. The     *)
(* before-quit event will be emitted first": it is ignored only while a    *)
(* window is still on its way out.                                         *)
QuitIgnoredOnlyWhileClosing ==
    At("Quit") /\ Len(stack) = 1 /\ is_quitting /\ ~is_exiting /\ ~is_shutdown =>
      \E w \in Listed : page[w] \in {"asking", "closing"}

=============================================================================
