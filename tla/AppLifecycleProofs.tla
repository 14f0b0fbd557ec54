------------------------- MODULE AppLifecycleProofs -------------------------
(***************************************************************************)
(* Theorems about AppLifecycle, for every set of windows and every bound   *)
(* on the number of calls.                                                 *)
(***************************************************************************)
EXTENDS AppLifecycle, SequenceTheorems, FiniteSetTheorems, TLAPS

-----------------------------------------------------------------------------
(* A call: an element is put on top.                                       *)
LEMMA PushType ==
    ASSUME NEW S, NEW s \in Seq(S), NEW x \in S
    PROVE  /\ Append(s, x) \in Seq(S)
           /\ Len(Append(s, x)) = Len(s) + 1
           /\ Append(s, x)[Len(s) + 1] = x
           /\ \A i \in 1..Len(s) : Append(s, x)[i] = s[i]
BY AppendProperties

(* A return: the last element is dropped.                                  *)
LEMMA ReturnType ==
    ASSUME NEW S, NEW s \in Seq(S), s # <<>>
    PROVE  /\ SubSeq(s, 1, Len(s) - 1) \in Seq(S)
           /\ Len(SubSeq(s, 1, Len(s) - 1)) = Len(s) - 1
           /\ \A i \in 1..(Len(s) - 1) : SubSeq(s, 1, Len(s) - 1)[i] = s[i]
<1>1. Len(s) \in Nat /\ Len(s) >= 1
  BY EmptySeq, LenProperties
<1>2. \A i \in 1..(Len(s) - 1) : s[i] \in S
  BY <1>1, ElementOfSeq
<1>3. PICK n \in Nat : n = Len(s) - 1
  BY <1>1
<1> DEFINE t == SubSeq(s, 1, n)
<1>4. /\ t \in Seq(S)
      /\ Len(t) = IF 1 <= n THEN n - 1 + 1 ELSE 0
      /\ \A i \in 1..(n - 1 + 1) : t[i] = s[1 + i - 1]
  <2>1. \A i \in 1..n : s[i] \in S
    BY <1>2, <1>3
  <2> QED
    BY <2>1, SubSeqProperties, Z3
<1> HIDE DEF t
<1>5. Len(t) = n
  BY <1>4
<1>6. \A i \in 1..n : t[i] = s[i]
  BY <1>4
<1> QED
  BY <1>3, <1>4, <1>5, <1>6 DEF t

(* A tail call: the last element is replaced.                              *)
LEMMA BecomeType ==
    ASSUME NEW S, NEW s \in Seq(S), s # <<>>, NEW x \in S
    PROVE  /\ [s EXCEPT ![Len(s)] = x] \in Seq(S)
           /\ Len([s EXCEPT ![Len(s)] = x]) = Len(s)
           /\ [s EXCEPT ![Len(s)] = x][Len(s)] = x
           /\ \A i \in 1..(Len(s) - 1) : [s EXCEPT ![Len(s)] = x][i] = s[i]
<1>1. Len(s) \in 1..Len(s)
  BY EmptySeq, LenProperties
<1> QED
  BY <1>1, ExceptSeq, LenProperties

(* What is left when the head of a queue is received was there.            *)
LEMMA TailElements ==
    ASSUME NEW S, NEW s \in Seq(S), s # <<>>
    PROVE  \A i \in 1..Len(Tail(s)) : \E j \in 1..Len(s) : Tail(s)[i] = s[j]
<1> DEFINE t == Tail(s)
<1>1. Len(t) = Len(s) - 1 /\ \A i \in 1..Len(t) : t[i] = s[i + 1]
  BY HeadTailProperties
<1>2. Len(s) \in Nat
  BY LenProperties
<1> HIDE DEF t
<1>3. \A i \in 1..Len(t) : i + 1 \in 1..Len(s) /\ t[i] = s[i + 1]
  BY <1>1, <1>2
<1> QED
  BY <1>3 DEF t

(* The head of a queue is one of its elements.                             *)
LEMMA HeadIsElement ==
    ASSUME NEW S, NEW s \in Seq(S), s # <<>>
    PROVE  1 \in 1..Len(s) /\ Head(s) = s[1]
BY EmptySeq, LenProperties

-----------------------------------------------------------------------------
(* std::erase leaves a sequence of windows.                                *)
LEMMA EraseType ==
    ASSUME NEW S, NEW s \in Seq(S), NEW w
    PROVE  Erase(s, w) \in Seq(S)
<1>1. CASE \E i \in 1..Len(s) : s[i] = w
  <2> DEFINE i == CHOOSE i \in 1..Len(s) : s[i] = w
  <2>1. i \in 1..Len(s)
    BY <1>1
  <2> HIDE DEF i
  <2>2. Len(s) \in Nat /\ \A j \in 1..Len(s) : s[j] \in S
    BY LenProperties, ElementOfSeq
  <2>3. SubSeq(s, 1, i - 1) \in Seq(S)
    BY <2>1, <2>2, SubSeqProperties
  <2>4. SubSeq(s, i + 1, Len(s)) \in Seq(S)
    BY <2>1, <2>2, SubSeqProperties
  <2>5. SubSeq(s, 1, i - 1) \o SubSeq(s, i + 1, Len(s)) \in Seq(S)
    BY <2>3, <2>4, ConcatProperties
  <2> QED
    BY <1>1, <2>5 DEF Erase, i
<1>2. CASE ~ \E i \in 1..Len(s) : s[i] = w
  BY <1>2 DEF Erase
<1> QED
  BY <1>1, <1>2

-----------------------------------------------------------------------------
(* Every frame the actions build is a frame.                               *)
LEMMA FrameType ==
    /\ \A fn \in Calls \cup Handlers : Frame(fn) \in Frames /\ Frame(fn).fn = fn
    /\ \A fn \in Calls \cup Handlers, w \in Windows \cup {NoWindow} :
         WindowFrame(fn, w) \in Frames /\ WindowFrame(fn, w).fn = fn
    /\ \A fn \in Calls \cup Handlers, s \in Seq(Windows) :
         ListFrame(fn, s) \in Frames /\ ListFrame(fn, s).fn = fn
<1>1. <<>> \in Seq(Windows)
  BY EmptySeq
<1> QED
  BY <1>1 DEF Frame, WindowFrame, ListFrame, Frames

(* What a push, a tail call and a return leave of the stack.               *)
LEMMA StackSteps ==
    ASSUME stack \in Seq(Frames)
    PROVE  /\ Len(stack) \in Nat
           /\ \A f \in Frames : Push(f) =>
                /\ stack' \in Seq(Frames)
                /\ Len(stack') = Len(stack) + 1
                /\ stack'[Len(stack) + 1] = f
                /\ \A i \in 1..Len(stack) : stack'[i] = stack[i]
           /\ stack # <<>> =>
                /\ Len(stack) >= 1
                /\ Top \in Frames
           /\ stack # <<>> /\ Return =>
                /\ stack' \in Seq(Frames)
                /\ Len(stack') = Len(stack) - 1
                /\ \A i \in 1..(Len(stack) - 1) : stack'[i] = stack[i]
           /\ \A f \in Frames : stack # <<>> /\ Become(f) =>
                /\ stack' \in Seq(Frames)
                /\ Len(stack') = Len(stack)
                /\ stack'[Len(stack)] = f
                /\ \A i \in 1..(Len(stack) - 1) : stack'[i] = stack[i]
<1>1. Len(stack) \in Nat
  BY LenProperties
<1>2. ASSUME NEW f \in Frames, Push(f)
      PROVE  /\ stack' \in Seq(Frames)
             /\ Len(stack') = Len(stack) + 1
             /\ stack'[Len(stack) + 1] = f
             /\ \A i \in 1..Len(stack) : stack'[i] = stack[i]
  BY <1>2, PushType DEF Push
<1>3. ASSUME stack # <<>>
      PROVE  Len(stack) >= 1 /\ Top \in Frames
  <2>1. Len(stack) \in Nat \ {0}
    BY <1>3, EmptySeq
  <2> QED
    BY <2>1, ElementOfSeq DEF Top
<1>4. ASSUME stack # <<>>, Return
      PROVE  /\ stack' \in Seq(Frames)
             /\ Len(stack') = Len(stack) - 1
             /\ \A i \in 1..(Len(stack) - 1) : stack'[i] = stack[i]
  BY <1>4, ReturnType DEF Return
<1>5. ASSUME NEW f \in Frames, stack # <<>>, Become(f)
      PROVE  /\ stack' \in Seq(Frames)
             /\ Len(stack') = Len(stack)
             /\ stack'[Len(stack)] = f
             /\ \A i \in 1..(Len(stack) - 1) : stack'[i] = stack[i]
  BY <1>5, BecomeType DEF Become
<1> QED
  BY <1>1, <1>2, <1>3, <1>4, <1>5

(* A turn of a loop over the windows: it returns, or goes on, or goes on   *)
(* with a call on top.                                                     *)
LEMMA LoopSteps ==
    ASSUME stack \in Seq(Frames),
           NEW loop \in {"CloseAllWindows", "DestroyAllWindows"},
           NEW call \in {"Close", "CloseImmediately"},
           ForEachWindow(loop, call)
    PROVE  \/ Return
           \/ \E s \in Seq(Windows) : Become(ListFrame(loop, s))
           \/ \E s \in Seq(Windows), w \in Windows :
                /\ stack' \in Seq(Frames)
                /\ Len(stack') = Len(stack) + 1
                /\ stack'[Len(stack) + 1] = WindowFrame(call, w)
                /\ stack'[Len(stack)] = ListFrame(loop, s)
                /\ \A i \in 1..(Len(stack) - 1) : stack'[i] = stack[i]
<1>1. stack # <<>> /\ Top \in Frames /\ Len(stack) \in Nat /\ Len(stack) >= 1
  BY StackSteps DEF ForEachWindow, At
<1>2. CASE Top.todo = <<>>
  BY <1>2 DEF ForEachWindow
<1>3. CASE Top.todo # <<>>
  <2> DEFINE w    == Head(Top.todo)
             s    == Tail(Top.todo)
             rest == [stack EXCEPT ![Len(stack)] = ListFrame(loop, s)]
  <2>1. w \in Windows /\ s \in Seq(Windows)
    <3>1. Top.todo \in Seq(Windows)
      BY <1>1 DEF Frames
    <3> QED
      BY <1>3, <3>1, HeadTailProperties
  <2>2. ListFrame(loop, s) \in Frames /\ WindowFrame(call, w) \in Frames
    BY <2>1, FrameType DEF Calls
  <2>3. \/ stack' = rest
        \/ stack' = Append(rest, WindowFrame(call, w))
    BY <1>3 DEF ForEachWindow
  <2>4. CASE stack' = rest
    BY <2>1, <2>4 DEF Become
  <2>5. CASE stack' = Append(rest, WindowFrame(call, w))
    <3>1. /\ rest \in Seq(Frames)
          /\ Len(rest) = Len(stack)
          /\ rest[Len(stack)] = ListFrame(loop, s)
          /\ \A i \in 1..(Len(stack) - 1) : rest[i] = stack[i]
      BY <1>1, <2>2, BecomeType
    <3> HIDE DEF rest, s, w
    <3>2. /\ stack' \in Seq(Frames)
          /\ Len(stack') = Len(rest) + 1
          /\ stack'[Len(rest) + 1] = WindowFrame(call, w)
          /\ \A i \in 1..Len(rest) : stack'[i] = rest[i]
      BY <2>2, <2>5, <3>1, PushType
    <3>3. /\ Len(stack') = Len(stack) + 1
          /\ stack'[Len(stack) + 1] = WindowFrame(call, w)
          /\ stack'[Len(stack)] = ListFrame(loop, s)
          /\ \A i \in 1..(Len(stack) - 1) : stack'[i] = stack[i]
      BY <1>1, <3>1, <3>2
    <3> QED
      BY <2>1, <3>2, <3>3
  <2> QED
    BY <2>3, <2>4, <2>5
<1> QED
  BY <1>2, <1>3

-----------------------------------------------------------------------------
(* Type correctness.  The stack's type is all there is to it: the other    *)
(* variables take their values from the types' own constants.              *)
LEMMA TypeStep == TypeOK /\ [Next]_vars => TypeOK'
<1> SUFFICES ASSUME TypeOK, [Next]_vars
             PROVE  TypeOK'
  OBVIOUS
<1> USE DEF browser
<1>0. stack \in Seq(Frames)
  BY DEF TypeOK
<1>1. CASE UNCHANGED vars
  BY <1>1 DEF TypeOK, vars
<1>2. CASE DidFinishLaunching
  BY <1>2 DEF TypeOK, DidFinishLaunching
<1>3. CASE SetMainMessageLoopQuitClosure
  BY <1>3 DEF TypeOK, SetMainMessageLoopQuitClosure
<1>4. CASE MessageLoopQuits
  BY <1>4 DEF TypeOK, MessageLoopQuits
<1>5. ASSUME NEW w \in Windows, OpenWindow(w)
      PROVE  TypeOK'
  <2>1. windows' \in Seq(Windows)
    BY <1>5, PushType DEF TypeOK, OpenWindow
  <2> QED
    BY <1>5, <2>1 DEF TypeOK, OpenWindow
<1>6. CASE AppQuit
  <2>1. stack' \in Seq(Frames)
    BY <1>0, <1>6, FrameType, StackSteps DEF AppQuit, Calls
  <2> QED
    BY <1>6, <2>1, MaxCallsAssumption DEF TypeOK, AppQuit, JSCalls
<1>7. CASE ExitProcess
  BY <1>7, MaxCallsAssumption DEF TypeOK, ExitProcess, JSCalls
<1>8. CASE ExitWithCode
  <2>1. windows \in Seq(Windows)
    BY DEF TypeOK
  <2>2. stack' \in Seq(Frames)
    BY <1>0, <1>8, <2>1, FrameType, StackSteps DEF ExitWithCode, Calls
  <2> QED
    BY <1>8, <2>2, MaxCallsAssumption DEF TypeOK, ExitWithCode, JSCalls
<1>9. ASSUME NEW w \in Windows, WinClose(w)
      PROVE  TypeOK'
  <2>1. stack' \in Seq(Frames)
    BY <1>0, <1>9, FrameType, StackSteps DEF WinClose, Calls
  <2> QED
    BY <1>9, <2>1, MaxCallsAssumption DEF TypeOK, WinClose, JSCalls
<1>10. ASSUME NEW w \in Windows, WinDestroy(w)
       PROVE  TypeOK'
  <2>1. stack' \in Seq(Frames)
    BY <1>0, <1>10, FrameType, StackSteps DEF WinDestroy, Calls
  <2> QED
    BY <1>10, <2>1, MaxCallsAssumption DEF TypeOK, WinDestroy, JSCalls
<1>11. ASSUME NEW w \in Windows, WebContentsClose(w)
       PROVE  TypeOK'
  BY <1>11, MaxCallsAssumption DEF TypeOK, WebContentsClose, JSCalls
<1>12. CASE Quit
  <2>1. stack' \in Seq(Frames)
    BY <1>0, <1>12, FrameType, StackSteps DEF Quit, At, Handlers
  <2> QED
    BY <1>12, <2>1 DEF TypeOK, Quit
<1>13. CASE NotifyAndShutdown
  <2>1. stack' \in Seq(Frames)
    BY <1>0, <1>13, FrameType, StackSteps DEF NotifyAndShutdown, At, Handlers
  <2> QED
    BY <1>13, <2>1 DEF TypeOK, NotifyAndShutdown
<1>14. CASE Shutdown
  <2>1. stack' \in Seq(Frames)
    BY <1>0, <1>14, FrameType, StackSteps DEF Shutdown, At, Handlers
  <2> QED
    BY <1>14, <2>1 DEF TypeOK, Shutdown
<1>15. CASE OnWindowAllClosed
  <2>1. stack' \in Seq(Frames)
    <3>1. PICK fn \in Calls \cup Handlers : Become(Frame(fn))
      BY <1>15 DEF OnWindowAllClosed, Calls, Handlers
    <3> QED
      BY <1>0, <1>15, <3>1, FrameType, StackSteps DEF OnWindowAllClosed, At
  <2> QED
    BY <1>15, <2>1 DEF TypeOK, OnWindowAllClosed
<1>16. CASE CloseAllWindows \/ DestroyAllWindows
  <2>1. PICK loop \in {"CloseAllWindows", "DestroyAllWindows"},
             call \in {"Close", "CloseImmediately"} : ForEachWindow(loop, call)
    BY <1>16 DEF CloseAllWindows, DestroyAllWindows
  <2>2. stack # <<>> /\ loop \in Calls \cup Handlers
    BY <2>1 DEF ForEachWindow, At, Calls
  <2>3. stack' \in Seq(Frames)
    BY <1>0, <2>1, <2>2, LoopSteps, FrameType, StackSteps
  <2> QED
    BY <2>1, <2>3 DEF TypeOK, ForEachWindow
<1>17. CASE Close
  <2>1. stack # <<>> /\ Top.win \in Windows \cup {NoWindow}
    BY <1>0, <1>17, StackSteps DEF Close, At, Frames
  <2>2. stack' \in Seq(Frames)
    BY <1>0, <1>17, <2>1, FrameType, StackSteps DEF Close, Handlers
  <2> QED
    BY <1>17, <2>2 DEF TypeOK, Close, WindowCloseCancelled
<1>18. CASE CloseImmediately
  <2>1. stack # <<>> /\ Top.win \in Windows \cup {NoWindow}
    BY <1>0, <1>18, StackSteps DEF CloseImmediately, At, Frames
  <2>2. stack' \in Seq(Frames)
    BY <1>0, <1>18, <2>1, FrameType, StackSteps DEF CloseImmediately, Handlers
  <2> QED
    BY <1>18, <2>2 DEF TypeOK, CloseImmediately
<1>19. ASSUME NEW prevented \in BOOLEAN, BeforeQuitReturns(prevented)
       PROVE  TypeOK'
  <2>1. windows \in Seq(Windows)
    BY DEF TypeOK
  <2>2. stack' \in Seq(Frames)
    BY <1>0, <1>19, <2>1, FrameType, StackSteps DEF BeforeQuitReturns, At, Calls
  <2> QED
    BY <1>19, <2>2 DEF TypeOK, BeforeQuitReturns
<1>20. ASSUME NEW prevented \in BOOLEAN, WillQuitReturns(prevented)
       PROVE  TypeOK'
  <2>1. stack' \in Seq(Frames)
    BY <1>0, <1>20, FrameType, StackSteps DEF WillQuitReturns, At, Calls
  <2> QED
    BY <1>20, <2>1 DEF TypeOK, WillQuitReturns
<1>21. ASSUME NEW prevented \in BOOLEAN, CloseReturns(prevented)
       PROVE  TypeOK'
  <2>1. stack # <<>> /\ Top.win \in Windows \cup {NoWindow}
    BY <1>0, <1>21, StackSteps DEF CloseReturns, At, Frames
  <2>2. stack' \in Seq(Frames)
    BY <1>0, <1>21, <2>1, FrameType, StackSteps DEF CloseReturns, Calls
  <2> QED
    BY <1>21, <2>2 DEF TypeOK, CloseReturns, WindowCloseCancelled
<1>22. ASSUME NEW prevented \in BOOLEAN, WillPreventUnloadReturns(prevented)
       PROVE  TypeOK'
  <2>1. stack' \in Seq(Frames)
    BY <1>0, <1>22, StackSteps DEF WillPreventUnloadReturns, At
  <2> QED
    BY <1>22, <2>1 DEF TypeOK, WillPreventUnloadReturns, WindowCloseCancelled
<1>23. CASE QuitReturns
  <2>1. stack' \in Seq(Frames)
    BY <1>0, <1>23, StackSteps DEF QuitReturns, At
  <2> QED
    BY <1>23, <2>1 DEF TypeOK, QuitReturns
<1>24. CASE WindowAllClosedReturns
  <2>1. stack' \in Seq(Frames)
    BY <1>0, <1>24, StackSteps DEF WindowAllClosedReturns, At
  <2> QED
    BY <1>24, <2>1 DEF TypeOK, WindowAllClosedReturns
<1>25. CASE ClosedReturns
  <2>1. stack' \in Seq(Frames)
    BY <1>0, <1>25, FrameType, StackSteps DEF ClosedReturns, At, Calls
  <2>2. windows' \in Seq(Windows)
    BY <1>25, EraseType DEF TypeOK, ClosedReturns
  <2> QED
    BY <1>25, <2>1, <2>2 DEF TypeOK, ClosedReturns
<1>26. ASSUME NEW w \in Windows, PageTask(w)
       PROVE  TypeOK'
  <2>1. WindowFrame("will-prevent-unload", w) \in Frames
        /\ WindowFrame("CloseImmediately", w) \in Frames
    BY FrameType DEF Calls, Handlers
  <2>2. stack' \in Seq(Frames)
    BY <1>0, <1>26, <2>1, StackSteps
       DEF PageTask, BeforeUnloadFired, RunBeforeUnloadDialog,
           WebContentsDestroyed, DestroyClosure
  <2> QED
    BY <1>26, <2>2 DEF TypeOK, PageTask, BeforeUnloadFired,
                       RunBeforeUnloadDialog, WebContentsDestroyed, DestroyClosure
<1> QED
  BY <1>1, <1>2, <1>3, <1>4, <1>5, <1>6, <1>7, <1>8, <1>9, <1>10, <1>11, <1>12,
     <1>13, <1>14, <1>15, <1>16, <1>17, <1>18, <1>19, <1>20, <1>21, <1>22,
     <1>23, <1>24, <1>25, <1>26
     DEF Next, Startup, JavaScript, Native, HandlerReturns

LEMMA TypeInit == Init => TypeOK
<1>1. <<>> \in Seq(Windows) /\ <<>> \in Seq(Frames)
  BY EmptySeq
<1>2. Init => /\ life \in [Windows -> {"unborn", "open", "closed"}]
              /\ page \in [Windows -> {"none", "loaded", "asking", "closing"}]
  BY DEF Init
<1>3. Init => windows \in Seq(Windows) /\ stack \in Seq(Frames)
  BY <1>1 DEF Init
<1>4. Init => calls \in 0..MaxCalls /\ fresh \subseteq Windows
  BY MaxCallsAssumption DEF Init
<1> QED
  BY <1>2, <1>3, <1>4 DEF Init, TypeOK

(* Type correctness of the call stack, the window list and the flags.      *)
THEOREM TypeCorrect == Spec => []TypeOK
  BY TypeInit, TypeStep, PTL DEF Spec

-----------------------------------------------------------------------------
(* The inductive invariant.  A quit or exit that has run out of windows is *)
(* followed up by a frame of the stack: one that calls Shutdown(), or a    *)
(* "will-quit" that may still cancel a quit, never an exit.  For this to   *)
(* hold at an idle moment nothing may be said of the top of the stack      *)
(* alone, as JavaScript may be running above the frame.                    *)
Loops == {"CloseAllWindows", "DestroyAllWindows"}

QuitFollowers == {"OnWindowAllClosed", "NotifyAndShutdown", "will-quit", "Shutdown"}
ExitFollowers == {"OnWindowAllClosed", "Shutdown"}

Pending(fns) == \E i \in 1..Len(stack) : stack[i].fn \in fns

QuitFollowedUp ==
    windows = <<>> /\ ~is_shutdown =>
      /\ is_quitting => Pending(QuitFollowers)
      /\ is_exiting => Pending(ExitFollowers)

(* Handlers run, and loops call, above a frame; other C++ functions are    *)
(* modelled up to their next call, so they are only ever on top.           *)
CallsOnTop ==
    \A i \in 1..Len(stack) : stack[i].fn \in Calls \ Loops => i = Len(stack)

(* After an exit NotifyAndShutdown() is reached only once shut down.       *)
NotifiedOnlyOnceDown ==
    is_exiting => \A i \in 1..Len(stack) :
                    stack[i].fn = "NotifyAndShutdown" => is_shutdown

IInv == TypeOK /\ QuitFollowedUp /\ CallsOnTop /\ NotifiedOnlyOnceDown

LEMMA PendingKept ==
    ASSUME stack \in Seq(Frames), NEW fns, Pending(fns)
    PROVE  /\ UNCHANGED stack => Pending(fns)'
           /\ \A f \in Frames : Push(f) => Pending(fns)'
           /\ stack # <<>> /\ Top.fn \notin fns /\ Return => Pending(fns)'
           /\ \A f \in Frames :
                stack # <<>> /\ Top.fn \notin fns /\ Become(f) => Pending(fns)'
           /\ \A loop \in Loops, call \in {"Close", "CloseImmediately"} :
                loop \notin fns /\ ForEachWindow(loop, call) => Pending(fns)'
<1>1. PICK i \in 1..Len(stack) : stack[i].fn \in fns
  BY DEF Pending
<1>2. Len(stack) \in Nat
  BY StackSteps
<1>3. ASSUME Top.fn \notin fns
      PROVE  i \in 1..(Len(stack) - 1)
  BY <1>1, <1>2, <1>3 DEF Top
<1>4. UNCHANGED stack => Pending(fns)'
  BY DEF Pending
<1>5. ASSUME NEW f \in Frames, Push(f)
      PROVE  Pending(fns)'
  <2>1. Len(stack') = Len(stack) + 1 /\ stack'[i] = stack[i]
    BY <1>1, <1>5, StackSteps
  <2>2. i \in 1..Len(stack')
    BY <1>2, <2>1
  <2> QED
    BY <1>1, <2>1, <2>2 DEF Pending
<1>6. ASSUME stack # <<>>, Top.fn \notin fns,
             Return \/ \E f \in Frames : Become(f)
      PROVE  Pending(fns)'
  <2>1. /\ Len(stack') \in {Len(stack) - 1, Len(stack)}
        /\ stack'[i] = stack[i]
    BY <1>3, <1>6, StackSteps
  <2>2. i \in 1..Len(stack')
    BY <1>2, <1>3, <1>6, <2>1
  <2> QED
    BY <1>1, <2>1, <2>2 DEF Pending
<1>7. ASSUME NEW loop \in Loops, NEW call \in {"Close", "CloseImmediately"},
             loop \notin fns, ForEachWindow(loop, call)
      PROVE  Pending(fns)'
  <2>1. stack # <<>> /\ Top.fn \notin fns
    BY <1>7 DEF ForEachWindow, At
  <2>2. i \in 1..(Len(stack) - 1)
    BY <1>3, <2>1
  <2>3. \/ Return
        \/ \E f \in Frames : Become(f)
        \/ Len(stack') = Len(stack) + 1 /\ stack'[i] = stack[i]
    BY <1>7, <2>2, LoopSteps, FrameType DEF Loops, Calls
  <2>4. CASE Len(stack') = Len(stack) + 1 /\ stack'[i] = stack[i]
    <3>1. i \in 1..Len(stack')
      BY <1>2, <2>2, <2>4
    <3> QED
      BY <1>1, <2>4, <3>1 DEF Pending
  <2> QED
    BY <1>6, <2>1, <2>3, <2>4
<1> QED
  BY <1>4, <1>5, <1>6, <1>7

(* A frame put on the stack is pending.                                    *)
LEMMA PendingPut ==
    ASSUME stack \in Seq(Frames), NEW fns, NEW f \in Frames, f.fn \in fns,
           Push(f) \/ (stack # <<>> /\ Become(f))
    PROVE  Pending(fns)'
<1>1. CASE Push(f)
  <2>1. Len(stack') = Len(stack) + 1 /\ stack'[Len(stack) + 1] = f
    BY <1>1, StackSteps
  <2>2. Len(stack) + 1 \in 1..Len(stack')
    BY <2>1, StackSteps
  <2> QED
    BY <2>1, <2>2 DEF Pending
<1>2. CASE stack # <<>> /\ Become(f)
  <2>1. Len(stack') = Len(stack) /\ stack'[Len(stack)] = f
    BY <1>2, StackSteps
  <2>2. Len(stack) \in 1..Len(stack')
    BY <1>2, <2>1, StackSteps
  <2> QED
    BY <2>1, <2>2 DEF Pending
<1> QED
  BY <1>1, <1>2

-----------------------------------------------------------------------------
(* Where an action may leave the stack, as far as CallsOnTop can tell.     *)
LEMMA StackShapes ==
    ASSUME TypeOK, Next
    PROVE  \/ UNCHANGED stack
           \/ /\ stack # <<>> => Top.fn \in Handlers
              /\ \E f \in Frames : Push(f)
           \/ stack # <<>> /\ Return
           \/ stack # <<>> /\ \E f \in Frames : Become(f)
           \/ \E loop \in Loops, call \in {"Close", "CloseImmediately"} :
                ForEachWindow(loop, call)
<1>0. stack \in Seq(Frames) /\ windows \in Seq(Windows)
  BY DEF TypeOK
<1>1. CASE Startup \/ MessageLoopQuits
  BY <1>1 DEF Startup, DidFinishLaunching, SetMainMessageLoopQuitClosure,
              MessageLoopQuits
<1>2. CASE JavaScript
  <2>1. CASE AppQuit
    BY <2>1, FrameType DEF AppQuit, JSCalls, JSRuns, Calls
  <2>2. CASE ExitProcess
    BY <2>2 DEF ExitProcess
  <2>3. CASE ExitWithCode
    BY <1>0, <2>3, FrameType DEF ExitWithCode, JSCalls, JSRuns, Calls
  <2>4. ASSUME NEW w \in Windows, OpenWindow(w) \/ WebContentsClose(w)
        PROVE  UNCHANGED stack
    BY <2>4 DEF OpenWindow, WebContentsClose
  <2>5. ASSUME NEW w \in Windows, WinClose(w) \/ WinDestroy(w)
        PROVE  /\ stack # <<>> => Top.fn \in Handlers
               /\ \E f \in Frames : Push(f)
    BY <2>5, FrameType DEF WinClose, WinDestroy, JSCalls, JSRuns, Calls
  <2> QED
    BY <1>2, <2>1, <2>2, <2>3, <2>4, <2>5 DEF JavaScript
<1>3. CASE Native
  <2>1. CASE Quit
    BY <2>1, FrameType DEF Quit, At, Handlers
  <2>2. CASE NotifyAndShutdown
    BY <2>2, FrameType DEF NotifyAndShutdown, At, Handlers
  <2>3. CASE Shutdown
    BY <2>3, FrameType DEF Shutdown, At, Handlers
  <2>4. CASE OnWindowAllClosed
    <3>1. \E fn \in Calls \cup Handlers : Become(Frame(fn))
      BY <2>4 DEF OnWindowAllClosed, Calls, Handlers
    <3> QED
      BY <2>4, <3>1, FrameType DEF OnWindowAllClosed, At
  <2>5. CASE CloseAllWindows \/ DestroyAllWindows
    BY <2>5 DEF CloseAllWindows, DestroyAllWindows, Loops
  <2>6. CASE Close
    <3>1. stack # <<>> /\ Top.win \in Windows \cup {NoWindow}
      BY <1>0, <2>6, StackSteps DEF Close, At, Frames
    <3> QED
      BY <2>6, <3>1, FrameType DEF Close, Handlers
  <2>7. CASE CloseImmediately
    <3>1. stack # <<>> /\ Top.win \in Windows \cup {NoWindow}
      BY <1>0, <2>7, StackSteps DEF CloseImmediately, At, Frames
    <3> QED
      BY <2>7, <3>1, FrameType DEF CloseImmediately, Handlers
  <2> QED
    BY <1>3, <2>1, <2>2, <2>3, <2>4, <2>5, <2>6, <2>7 DEF Native
<1>4. CASE HandlerReturns
  <2>1. ASSUME NEW prevented \in BOOLEAN, BeforeQuitReturns(prevented)
        PROVE  stack # <<>> /\ (Return \/ \E f \in Frames : Become(f))
    BY <1>0, <2>1, FrameType DEF BeforeQuitReturns, At, Calls
  <2>2. ASSUME NEW prevented \in BOOLEAN, WillQuitReturns(prevented)
        PROVE  stack # <<>> /\ (Return \/ \E f \in Frames : Become(f))
    BY <2>2, FrameType DEF WillQuitReturns, At, Calls
  <2>3. ASSUME NEW prevented \in BOOLEAN, CloseReturns(prevented)
        PROVE  stack # <<>> /\ (Return \/ \E f \in Frames : Become(f))
    <3>1. stack # <<>> /\ Top.win \in Windows \cup {NoWindow}
      BY <1>0, <2>3, StackSteps DEF CloseReturns, At, Frames
    <3> QED
      BY <2>3, <3>1, FrameType DEF CloseReturns, Calls
  <2>4. ASSUME NEW prevented \in BOOLEAN, WillPreventUnloadReturns(prevented)
        PROVE  stack # <<>> /\ Return
    BY <2>4 DEF WillPreventUnloadReturns, At
  <2>5. CASE QuitReturns \/ WindowAllClosedReturns
    BY <2>5 DEF QuitReturns, WindowAllClosedReturns, At
  <2>6. CASE ClosedReturns
    BY <2>6, FrameType DEF ClosedReturns, At, Calls
  <2> QED
    BY <1>4, <2>1, <2>2, <2>3, <2>4, <2>5, <2>6 DEF HandlerReturns
<1>5. ASSUME NEW w \in Windows, PageTask(w)
      PROVE  UNCHANGED stack \/ (stack = <<>> /\ \E f \in Frames : Push(f))
  <2>1. WindowFrame("will-prevent-unload", w) \in Frames
        /\ WindowFrame("CloseImmediately", w) \in Frames
    BY FrameType DEF Calls, Handlers
  <2> QED
    BY <1>5, <2>1 DEF PageTask, BeforeUnloadFired, RunBeforeUnloadDialog,
                      WebContentsDestroyed, DestroyClosure, Idle
<1> QED
  BY <1>1, <1>2, <1>3, <1>4, <1>5 DEF Next

LEMMA CallsOnTopStep == TypeOK /\ CallsOnTop /\ [Next]_vars => CallsOnTop'
<1> SUFFICES ASSUME TypeOK, CallsOnTop, [Next]_vars
             PROVE  CallsOnTop'
  OBVIOUS
<1>0. stack \in Seq(Frames) /\ Len(stack) \in Nat
  BY StackSteps DEF TypeOK
<1>1. CASE UNCHANGED stack
  BY <1>1 DEF CallsOnTop
<1>2. ASSUME stack # <<>> => Top.fn \in Handlers, NEW f \in Frames, Push(f)
      PROVE  CallsOnTop'
  <2>1. /\ Len(stack') = Len(stack) + 1
        /\ \A i \in 1..Len(stack) : stack'[i] = stack[i]
    BY <1>0, <1>2, StackSteps
  <2>2. ASSUME NEW i \in 1..Len(stack)
        PROVE  stack[i].fn \notin Calls \ Loops
    <3>1. stack # <<>>
      BY <1>0, EmptySeq
    <3> QED
      BY <1>0, <1>2, <3>1 DEF CallsOnTop, Top, Handlers, Calls
  <2> QED
    BY <1>0, <2>1, <2>2 DEF CallsOnTop
<1>3. ASSUME stack # <<>>, Return \/ \E f \in Frames : Become(f)
      PROVE  CallsOnTop'
  <2>1. /\ Len(stack') \in {Len(stack) - 1, Len(stack)}
        /\ \A i \in 1..(Len(stack) - 1) : stack'[i] = stack[i]
    BY <1>0, <1>3, StackSteps
  <2> QED
    BY <1>0, <2>1 DEF CallsOnTop
<1>4. ASSUME NEW loop \in Loops, NEW call \in {"Close", "CloseImmediately"},
             ForEachWindow(loop, call)
      PROVE  CallsOnTop'
  <2>1. stack # <<>> /\ loop \in Calls
    BY <1>4 DEF ForEachWindow, At, Loops, Calls
  <2>2. CASE Return \/ \E f \in Frames : Become(f)
    BY <1>3, <2>1, <2>2
  <2>3. ASSUME NEW s \in Seq(Windows),
               Len(stack') = Len(stack) + 1,
               stack'[Len(stack)] = ListFrame(loop, s),
               \A i \in 1..(Len(stack) - 1) : stack'[i] = stack[i]
        PROVE  CallsOnTop'
    <3>1. stack'[Len(stack)].fn = loop
      BY <2>1, <2>3, FrameType
    <3> QED
      BY <1>0, <2>3, <3>1 DEF CallsOnTop
  <2> QED
    BY <1>0, <1>4, <2>1, <2>2, <2>3, LoopSteps, FrameType DEF Loops
<1> QED
  BY <1>1, <1>2, <1>3, <1>4, StackShapes DEF vars

LEMMA QuitFollowedUpStep ==
    TypeOK /\ QuitFollowedUp /\ [Next]_vars => QuitFollowedUp'
<1> SUFFICES ASSUME TypeOK, QuitFollowedUp, [Next]_vars,
                    windows' = <<>>, ~is_shutdown'
             PROVE  /\ is_quitting' => Pending(QuitFollowers)'
                    /\ is_exiting' => Pending(ExitFollowers)'
  BY DEF QuitFollowedUp
<1> USE DEF browser
<1>0. stack \in Seq(Frames) /\ windows \in Seq(Windows)
  BY DEF TypeOK
<1>1. ASSUME UNCHANGED <<windows, is_shutdown, is_quitting, is_exiting, stack>>
      PROVE  QuitFollowedUp'
  BY <1>1 DEF QuitFollowedUp, Pending
(* A push leaves what was pending pending.                                 *)
<1>2. ASSUME UNCHANGED <<windows, is_shutdown, is_quitting, is_exiting>>,
             NEW f \in Frames, Push(f)
      PROVE  QuitFollowedUp'
  BY <1>0, <1>2, PendingKept DEF QuitFollowedUp
(* So does the end of a frame that is not a follower itself.               *)
<1>3. ASSUME windows = <<>> => UNCHANGED windows, UNCHANGED is_shutdown,
             windows' = <<>> => windows = <<>>,
             is_quitting' => is_quitting, UNCHANGED is_exiting,
             stack # <<>>, Top.fn \notin QuitFollowers,
             Return \/ \E f \in Frames : Become(f)
      PROVE  QuitFollowedUp'
  <2>1. Top.fn \notin ExitFollowers
    BY <1>3 DEF QuitFollowers, ExitFollowers
  <2> QED
    BY <1>0, <1>3, <2>1, PendingKept DEF QuitFollowedUp
<1>4. CASE UNCHANGED vars
  BY <1>1, <1>4 DEF vars, QuitFollowedUp
<1>5. CASE Startup \/ MessageLoopQuits
  BY <1>1, <1>5 DEF Startup, DidFinishLaunching, SetMainMessageLoopQuitClosure,
                    MessageLoopQuits, QuitFollowedUp
<1>6. ASSUME NEW w \in Windows, OpenWindow(w)
      PROVE  FALSE
  BY <1>0, <1>6, AppendProperties DEF OpenWindow
<1>7. CASE AppQuit
  BY <1>2, <1>7, FrameType DEF AppQuit, Calls, QuitFollowedUp
<1>8. CASE ExitProcess
  BY <1>1, <1>8 DEF ExitProcess, QuitFollowedUp
<1>9. CASE ExitWithCode
  <2>1. Frame("Shutdown") \in Frames /\ Frame("Shutdown").fn = "Shutdown"
    BY FrameType DEF Calls
  <2>2. Push(Frame("Shutdown"))
    BY <1>9 DEF ExitWithCode
  <2> QED
    BY <1>0, <2>1, <2>2, PendingPut DEF QuitFollowers, ExitFollowers
<1>10. ASSUME NEW w \in Windows, WinClose(w) \/ WinDestroy(w)
       PROVE  QuitFollowedUp'
  BY <1>2, <1>10, FrameType DEF WinClose, WinDestroy, Calls
<1>11. ASSUME NEW w \in Windows, WebContentsClose(w)
       PROVE  QuitFollowedUp'
  BY <1>1, <1>11 DEF WebContentsClose
<1>12. CASE Quit
  BY <1>3, <1>12, FrameType DEF Quit, At, Handlers, QuitFollowers, QuitFollowedUp
<1>13. CASE NotifyAndShutdown
  <2>1. /\ Frame("will-quit") \in Frames
        /\ Frame("will-quit").fn = "will-quit"
        /\ stack # <<>> /\ Become(Frame("will-quit"))
        /\ Top.fn \notin ExitFollowers
    BY <1>13, FrameType DEF NotifyAndShutdown, At, Handlers, ExitFollowers
  <2>2. Pending(QuitFollowers)'
    BY <1>0, <2>1, PendingPut DEF QuitFollowers
  <2>3. is_exiting' => Pending(ExitFollowers)'
    BY <1>0, <1>13, <2>1, PendingKept DEF NotifyAndShutdown, QuitFollowedUp
  <2> QED
    BY <2>2, <2>3
<1>14. CASE Shutdown
  BY <1>14 DEF Shutdown
<1>15. CASE OnWindowAllClosed
  <2>1. stack # <<>> /\ UNCHANGED <<is_exiting, is_quitting>>
    BY <1>15 DEF OnWindowAllClosed, At
  <2>2. CASE is_exiting
    <3>1. /\ Become(Frame("Shutdown"))
          /\ Frame("Shutdown") \in Frames /\ Frame("Shutdown").fn = "Shutdown"
      BY <1>15, <2>2, FrameType DEF OnWindowAllClosed, Calls
    <3> QED
      BY <1>0, <2>1, <3>1, PendingPut DEF QuitFollowers, ExitFollowers
  <2>3. CASE ~is_exiting /\ is_quitting
    <3>1. /\ Become(Frame("NotifyAndShutdown"))
          /\ Frame("NotifyAndShutdown") \in Frames
          /\ Frame("NotifyAndShutdown").fn = "NotifyAndShutdown"
      BY <1>15, <2>3, FrameType DEF OnWindowAllClosed, Calls
    <3>2. Pending(QuitFollowers)'
      BY <1>0, <2>1, <3>1, PendingPut DEF QuitFollowers
    <3> QED
      BY <2>1, <2>3, <3>2
  <2> QED
    BY <2>1, <2>2, <2>3
<1>16. CASE CloseAllWindows \/ DestroyAllWindows
  <2>1. PICK loop \in Loops, call \in {"Close", "CloseImmediately"} :
                ForEachWindow(loop, call)
    BY <1>16 DEF CloseAllWindows, DestroyAllWindows, Loops
  <2>2. loop \notin QuitFollowers /\ loop \notin ExitFollowers
    BY DEF Loops, QuitFollowers, ExitFollowers
  <2>3. UNCHANGED <<windows, is_shutdown, is_quitting, is_exiting>>
    BY <2>1 DEF ForEachWindow
  <2> QED
    BY <1>0, <2>1, <2>2, <2>3, PendingKept DEF QuitFollowedUp
<1>17. CASE Close
  <2>1. stack # <<>> /\ Top.win \in Windows \cup {NoWindow}
    BY <1>0, <1>17, StackSteps DEF Close, At, Frames
  <2> QED
    BY <1>3, <1>17, <2>1, FrameType DEF Close, At, Handlers, QuitFollowers,
                                        WindowCloseCancelled, QuitFollowedUp
<1>18. CASE CloseImmediately
  <2>1. stack # <<>> /\ Top.win \in Windows \cup {NoWindow}
    BY <1>0, <1>18, StackSteps DEF CloseImmediately, At, Frames
  <2> QED
    BY <1>3, <1>18, <2>1, FrameType DEF CloseImmediately, At, Handlers,
                                        QuitFollowers, QuitFollowedUp
<1>19. ASSUME NEW prevented \in BOOLEAN, BeforeQuitReturns(prevented)
       PROVE  /\ is_quitting' => Pending(QuitFollowers)'
              /\ is_exiting' => Pending(ExitFollowers)'
  <2>1. /\ stack # <<>> /\ Top.fn \notin ExitFollowers
        /\ windows = <<>> /\ ~is_shutdown /\ UNCHANGED is_exiting
    BY <1>19 DEF BeforeQuitReturns, At, ExitFollowers
  <2>2. CASE prevented
    <3>1. Return /\ ~is_quitting'
      BY <1>19, <2>2 DEF BeforeQuitReturns
    <3> QED
      BY <1>0, <2>1, <3>1, PendingKept DEF QuitFollowedUp
  <2>3. CASE ~prevented
    <3>1. /\ Become(Frame("NotifyAndShutdown"))
          /\ Frame("NotifyAndShutdown") \in Frames
          /\ Frame("NotifyAndShutdown").fn = "NotifyAndShutdown"
      BY <1>19, <2>1, <2>3, FrameType DEF BeforeQuitReturns, Calls
    <3>2. Pending(QuitFollowers)'
      BY <1>0, <2>1, <3>1, PendingPut DEF QuitFollowers
    <3>3. is_exiting' => Pending(ExitFollowers)'
      BY <1>0, <2>1, <3>1, PendingKept DEF QuitFollowedUp
    <3> QED
      BY <3>2, <3>3
  <2> QED
    BY <2>2, <2>3
<1>20. ASSUME NEW prevented \in BOOLEAN, WillQuitReturns(prevented)
       PROVE  /\ is_quitting' => Pending(QuitFollowers)'
              /\ is_exiting' => Pending(ExitFollowers)'
  <2>1. /\ stack # <<>> /\ Top.fn \notin ExitFollowers
        /\ windows = <<>> /\ ~is_shutdown /\ UNCHANGED is_exiting
    BY <1>20 DEF WillQuitReturns, At, ExitFollowers
  <2>2. CASE prevented
    <3>1. Return /\ ~is_quitting'
      BY <1>20, <2>2 DEF WillQuitReturns
    <3> QED
      BY <1>0, <2>1, <3>1, PendingKept DEF QuitFollowedUp
  <2>3. CASE ~prevented
    <3>1. /\ Become(Frame("Shutdown"))
          /\ Frame("Shutdown") \in Frames /\ Frame("Shutdown").fn = "Shutdown"
      BY <1>20, <2>3, FrameType DEF WillQuitReturns, Calls
    <3> QED
      BY <1>0, <2>1, <3>1, PendingPut DEF QuitFollowers, ExitFollowers
  <2> QED
    BY <2>2, <2>3
<1>21. ASSUME NEW prevented \in BOOLEAN, CloseReturns(prevented)
       PROVE  QuitFollowedUp'
  <2>1. stack # <<>> /\ Top.win \in Windows \cup {NoWindow}
    BY <1>0, <1>21, StackSteps DEF CloseReturns, At, Frames
  <2>2. Top.fn \notin QuitFollowers /\ UNCHANGED <<windows, is_shutdown, is_exiting>>
    BY <1>21 DEF CloseReturns, At, QuitFollowers, WindowCloseCancelled
  <2>3. is_quitting' => is_quitting
    BY <1>21 DEF CloseReturns, WindowCloseCancelled
  <2>4. Return \/ \E f \in Frames : Become(f)
    BY <1>21, <2>1, FrameType DEF CloseReturns, Calls
  <2> QED
    BY <1>3, <2>1, <2>2, <2>3, <2>4
<1>22. ASSUME NEW prevented \in BOOLEAN, WillPreventUnloadReturns(prevented)
       PROVE  QuitFollowedUp'
  BY <1>3, <1>22 DEF WillPreventUnloadReturns, At, QuitFollowers,
                     WindowCloseCancelled, QuitFollowedUp
<1>23. CASE QuitReturns \/ WindowAllClosedReturns
  BY <1>3, <1>23 DEF QuitReturns, WindowAllClosedReturns, At, QuitFollowers,
                     QuitFollowedUp
<1>24. CASE ClosedReturns
  <2>1. /\ stack # <<>> /\ Become(Frame("OnWindowAllClosed"))
        /\ Frame("OnWindowAllClosed") \in Frames
        /\ Frame("OnWindowAllClosed").fn = "OnWindowAllClosed"
    BY <1>24, FrameType DEF ClosedReturns, At, Calls
  <2> QED
    BY <1>0, <2>1, PendingPut DEF QuitFollowers, ExitFollowers
<1>25. ASSUME NEW w \in Windows, PageTask(w)
       PROVE  QuitFollowedUp'
  <2>1. WindowFrame("will-prevent-unload", w) \in Frames
        /\ WindowFrame("CloseImmediately", w) \in Frames
    BY FrameType DEF Calls, Handlers
  <2>2. UNCHANGED <<windows, is_shutdown, is_quitting, is_exiting>>
    BY <1>25 DEF PageTask, BeforeUnloadFired, RunBeforeUnloadDialog,
                 WebContentsDestroyed, DestroyClosure
  <2>3. UNCHANGED stack \/ \E f \in Frames : Push(f)
    BY <1>25, <2>1 DEF PageTask, BeforeUnloadFired, RunBeforeUnloadDialog,
                       WebContentsDestroyed, DestroyClosure
  <2> QED
    BY <1>1, <1>2, <2>2, <2>3
<1> QED
  BY <1>4, <1>5, <1>6, <1>7, <1>8, <1>9, <1>10, <1>11, <1>12, <1>13, <1>14, <1>15,
     <1>16, <1>17, <1>18, <1>19, <1>20, <1>21, <1>22, <1>23, <1>24, <1>25
     DEF Next, JavaScript, Native, HandlerReturns, QuitFollowedUp

-----------------------------------------------------------------------------
(* A step that puts no NotifyAndShutdown frame on the stack only keeps     *)
(* those that are there.                                                   *)
LEMMA NotifiedKept ==
    ASSUME stack \in Seq(Frames),
           NEW i \in 1..Len(stack'), stack'[i].fn = "NotifyAndShutdown",
           \/ UNCHANGED stack
           \/ \E f \in Frames : f.fn # "NotifyAndShutdown" /\ Push(f)
           \/ stack # <<>> /\ Return
           \/ /\ stack # <<>>
              /\ \E f \in Frames : f.fn # "NotifyAndShutdown" /\ Become(f)
    PROVE  i \in 1..Len(stack) /\ stack[i].fn = "NotifyAndShutdown"
<1>1. Len(stack) \in Nat
  BY StackSteps
<1>2. ASSUME NEW f \in Frames, f.fn # "NotifyAndShutdown", Push(f)
      PROVE  i \in 1..Len(stack) /\ stack[i].fn = "NotifyAndShutdown"
  <2>1. /\ Len(stack') = Len(stack) + 1
        /\ stack'[Len(stack) + 1] = f
        /\ \A j \in 1..Len(stack) : stack'[j] = stack[j]
    BY <1>2, StackSteps
  <2> QED
    BY <1>1, <1>2, <2>1
<1>3. ASSUME stack # <<>>, Return
      PROVE  i \in 1..Len(stack) /\ stack[i].fn = "NotifyAndShutdown"
  <2>1. /\ Len(stack') = Len(stack) - 1
        /\ \A j \in 1..(Len(stack) - 1) : stack'[j] = stack[j]
    BY <1>3, StackSteps
  <2> QED
    BY <1>1, <2>1
<1>4. ASSUME stack # <<>>, NEW f \in Frames, f.fn # "NotifyAndShutdown", Become(f)
      PROVE  i \in 1..Len(stack) /\ stack[i].fn = "NotifyAndShutdown"
  <2>1. /\ Len(stack') = Len(stack)
        /\ stack'[Len(stack)] = f
        /\ \A j \in 1..(Len(stack) - 1) : stack'[j] = stack[j]
    BY <1>4, StackSteps
  <2> QED
    BY <1>1, <1>4, <2>1
<1> QED
  BY <1>2, <1>3, <1>4

LEMMA NotifiedStep ==
    IInv /\ [Next]_vars => NotifiedOnlyOnceDown'
<1> SUFFICES ASSUME IInv, [Next]_vars, is_exiting',
                    NEW i \in 1..Len(stack'), stack'[i].fn = "NotifyAndShutdown"
             PROVE  is_shutdown'
  BY DEF NotifiedOnlyOnceDown
<1> USE DEF browser
<1>0. stack \in Seq(Frames) /\ Len(stack) \in Nat /\ windows \in Seq(Windows)
  BY StackSteps DEF IInv, TypeOK
<1>1. ASSUME is_exiting, is_shutdown => is_shutdown',
             i \in 1..Len(stack) /\ stack[i].fn = "NotifyAndShutdown"
      PROVE  is_shutdown'
  BY <1>1 DEF IInv, NotifiedOnlyOnceDown
<1>2. ASSUME UNCHANGED <<is_exiting, is_shutdown>>,
             \/ UNCHANGED stack
             \/ \E f \in Frames : f.fn # "NotifyAndShutdown" /\ Push(f)
             \/ stack # <<>> /\ Return
             \/ /\ stack # <<>>
                /\ \E f \in Frames : f.fn # "NotifyAndShutdown" /\ Become(f)
      PROVE  is_shutdown'
  BY <1>0, <1>1, <1>2, NotifiedKept
<1>3. CASE UNCHANGED vars
  BY <1>2, <1>3 DEF vars
<1>4. CASE Startup \/ MessageLoopQuits
  BY <1>2, <1>4 DEF Startup, DidFinishLaunching, SetMainMessageLoopQuitClosure,
                    MessageLoopQuits
<1>5. ASSUME NEW w \in Windows, OpenWindow(w) \/ WebContentsClose(w)
      PROVE  is_shutdown'
  BY <1>2, <1>5 DEF OpenWindow, WebContentsClose
<1>6. CASE AppQuit
  <2>1. Frame("Quit") \in Frames /\ Frame("Quit").fn = "Quit"
    BY FrameType DEF Calls
  <2> QED
    BY <1>2, <1>6, <2>1 DEF AppQuit
<1>7. CASE ExitProcess
  BY <1>2, <1>7 DEF ExitProcess
(* An exit is called from a handler: no C++ function is below it but the   *)
(* loops, so the frame i would be the one it has just pushed.              *)
<1>8. CASE ExitWithCode
  <2>1. PICK f \in Frames : f.fn # "NotifyAndShutdown" /\ Push(f)
    BY <1>0, <1>8, FrameType DEF ExitWithCode, Calls
  <2>2. i \in 1..Len(stack) /\ stack[i].fn = "NotifyAndShutdown"
    BY <1>0, <2>1, NotifiedKept
  <2>3. i = Len(stack)
    BY <2>2 DEF IInv, CallsOnTop, Calls, Loops
  <2>4. stack # <<>>
    BY <1>0, <2>2, EmptySeq
  <2> QED
    BY <1>8, <2>2, <2>3, <2>4 DEF ExitWithCode, JSCalls, JSRuns, Top, Handlers
<1>9. ASSUME NEW w \in Windows, WinClose(w) \/ WinDestroy(w)
      PROVE  is_shutdown'
  <2>1. /\ WindowFrame("Close", w) \in Frames
        /\ WindowFrame("Close", w).fn = "Close"
        /\ WindowFrame("CloseImmediately", w) \in Frames
        /\ WindowFrame("CloseImmediately", w).fn = "CloseImmediately"
    BY FrameType DEF Calls
  <2> QED
    BY <1>2, <1>9, <2>1 DEF WinClose, WinDestroy
<1>10. CASE Quit
  BY <1>2, <1>10, FrameType DEF Quit, At, Handlers
<1>11. CASE NotifyAndShutdown
  BY <1>2, <1>11, FrameType DEF NotifyAndShutdown, At, Handlers
<1>12. CASE Shutdown
  BY <1>2, <1>12 DEF Shutdown, At
<1>13. CASE OnWindowAllClosed
  <2>1. \E fn \in {"Shutdown", "window-all-closed"} : Become(Frame(fn))
    BY <1>13 DEF OnWindowAllClosed
  <2> QED
    BY <1>2, <1>13, <2>1, FrameType DEF OnWindowAllClosed, At, Calls, Handlers
<1>14. CASE CloseAllWindows \/ DestroyAllWindows
  <2>1. PICK loop \in Loops, call \in {"Close", "CloseImmediately"} :
                ForEachWindow(loop, call)
    BY <1>14 DEF CloseAllWindows, DestroyAllWindows, Loops
  <2>2. stack # <<>> /\ UNCHANGED <<is_exiting, is_shutdown>>
    BY <2>1 DEF ForEachWindow, At
  <2>3. CASE Return \/ \E s \in Seq(Windows) : Become(ListFrame(loop, s))
    BY <1>2, <2>2, <2>3, FrameType DEF Loops, Calls
  <2>4. ASSUME NEW s \in Seq(Windows), NEW w \in Windows,
               Len(stack') = Len(stack) + 1,
               stack'[Len(stack) + 1] = WindowFrame(call, w),
               stack'[Len(stack)] = ListFrame(loop, s),
               \A j \in 1..(Len(stack) - 1) : stack'[j] = stack[j]
        PROVE  is_shutdown'
    <3>1. /\ stack'[Len(stack)].fn # "NotifyAndShutdown"
          /\ stack'[Len(stack) + 1].fn # "NotifyAndShutdown"
      BY <2>4, FrameType DEF Loops, Calls
    <3>2. i \in 1..(Len(stack) - 1)
      BY <1>0, <2>4, <3>1
    <3>3. i \in 1..Len(stack) /\ stack[i].fn = "NotifyAndShutdown"
      BY <1>0, <2>4, <3>2
    <3> QED
      BY <1>1, <2>2, <3>3
  <2> QED
    BY <1>0, <2>1, <2>3, <2>4, LoopSteps DEF Loops
<1>15. CASE Close
  <2>1. stack # <<>> /\ Top.win \in Windows \cup {NoWindow}
    BY <1>0, <1>15, StackSteps DEF Close, At, Frames
  <2>2. /\ WindowFrame("close", Top.win) \in Frames
        /\ WindowFrame("close", Top.win).fn = "close"
    BY <2>1, FrameType DEF Handlers
  <2> QED
    BY <1>2, <1>15, <2>1, <2>2 DEF Close, WindowCloseCancelled
<1>16. CASE CloseImmediately
  <2>1. stack # <<>> /\ Top.win \in Windows \cup {NoWindow}
    BY <1>0, <1>16, StackSteps DEF CloseImmediately, At, Frames
  <2> QED
    BY <1>2, <1>16, <2>1, FrameType DEF CloseImmediately, Handlers
(* Quit() finds no window and no shutdown after an exit: the exit would be *)
(* pending above or below its "before-quit", but that frame is on top.     *)
<1>17. ASSUME NEW prevented \in BOOLEAN, BeforeQuitReturns(prevented)
       PROVE  is_shutdown'
  <2>1. stack # <<>> /\ UNCHANGED <<is_exiting, is_shutdown>>
    BY <1>17 DEF BeforeQuitReturns, At
  <2>2. CASE prevented \/ windows # <<>>
    <3>1. /\ ListFrame("CloseAllWindows", windows) \in Frames
          /\ ListFrame("CloseAllWindows", windows).fn = "CloseAllWindows"
      BY <1>0, FrameType DEF Calls
    <3> QED
      BY <1>2, <1>17, <2>1, <2>2, <3>1 DEF BeforeQuitReturns
  <2>3. CASE windows = <<>>
    <3>1. ASSUME ~is_shutdown
          PROVE  FALSE
      <4>1. PICK j \in 1..Len(stack) : stack[j].fn \in ExitFollowers
        BY <2>1, <2>3, <3>1 DEF IInv, QuitFollowedUp, Pending
      <4>2. j = Len(stack)
        BY <4>1 DEF IInv, CallsOnTop, ExitFollowers, Calls, Loops
      <4> QED
        BY <1>17, <4>1, <4>2 DEF BeforeQuitReturns, At, Top, ExitFollowers
    <3> QED
      BY <2>1, <3>1
  <2> QED
    BY <2>2, <2>3
<1>18. ASSUME NEW prevented \in BOOLEAN, WillQuitReturns(prevented)
       PROVE  is_shutdown'
  BY <1>2, <1>18, FrameType DEF WillQuitReturns, At, Calls
<1>19. ASSUME NEW prevented \in BOOLEAN, CloseReturns(prevented)
       PROVE  is_shutdown'
  <2>1. stack # <<>> /\ Top.win \in Windows \cup {NoWindow}
    BY <1>0, <1>19, StackSteps DEF CloseReturns, At, Frames
  <2>2. Return \/ Become(WindowFrame("CloseImmediately", Top.win))
    BY <1>19 DEF CloseReturns
  <2>3. UNCHANGED <<is_exiting, is_shutdown>>
    BY <1>19 DEF CloseReturns, WindowCloseCancelled
  <2>4. /\ WindowFrame("CloseImmediately", Top.win) \in Frames
        /\ WindowFrame("CloseImmediately", Top.win).fn = "CloseImmediately"
    BY <2>1, FrameType DEF Calls
  <2> QED
    BY <1>2, <2>1, <2>2, <2>3, <2>4
<1>20. ASSUME NEW prevented \in BOOLEAN, WillPreventUnloadReturns(prevented)
       PROVE  is_shutdown'
  BY <1>2, <1>20 DEF WillPreventUnloadReturns, At, WindowCloseCancelled
<1>21. CASE QuitReturns \/ WindowAllClosedReturns
  BY <1>2, <1>21 DEF QuitReturns, WindowAllClosedReturns, At
<1>22. CASE ClosedReturns
  BY <1>2, <1>22, FrameType DEF ClosedReturns, At, Calls
<1>23. ASSUME NEW w \in Windows, PageTask(w)
       PROVE  is_shutdown'
  <2>1. /\ WindowFrame("will-prevent-unload", w) \in Frames
        /\ WindowFrame("will-prevent-unload", w).fn = "will-prevent-unload"
        /\ WindowFrame("CloseImmediately", w) \in Frames
        /\ WindowFrame("CloseImmediately", w).fn = "CloseImmediately"
    BY FrameType DEF Calls, Handlers
  <2> QED
    BY <1>2, <1>23, <2>1 DEF PageTask, BeforeUnloadFired, RunBeforeUnloadDialog,
                             WebContentsDestroyed, DestroyClosure
<1> QED
  BY <1>3, <1>4, <1>5, <1>6, <1>7, <1>8, <1>9, <1>10, <1>11, <1>12, <1>13, <1>14,
     <1>15, <1>16, <1>17, <1>18, <1>19, <1>20, <1>21, <1>22, <1>23
     DEF Next, JavaScript, Native, HandlerReturns

-----------------------------------------------------------------------------
LEMMA Inductive == Spec => []IInv
<1>1. Init => IInv
  <2>1. Init => TypeOK
    BY TypeInit
  <2>2. Init => stack = <<>> /\ ~is_quitting /\ ~is_exiting
    BY DEF Init
  <2> QED
    BY <2>1, <2>2 DEF IInv, QuitFollowedUp, CallsOnTop, NotifiedOnlyOnceDown
<1>2. IInv /\ [Next]_vars => IInv'
  BY TypeStep, QuitFollowedUpStep, CallsOnTopStep, NotifiedStep DEF IInv
<1> QED
  BY <1>1, <1>2, PTL DEF Spec

(* No quit or exit is ever forgotten: whenever the UI thread is idle, one  *)
(* that is in progress and has no window left has reached Shutdown().      *)
THEOREM QuitNeverStuck == Spec => []NoStuckQuit
<1>1. IInv => NoStuckQuit
  <2> SUFFICES ASSUME IInv, stack = <<>>, is_quitting \/ is_exiting,
                      ~is_shutdown, windows = <<>>
               PROVE  FALSE
    BY DEF NoStuckQuit, Idle
  <2>1. Len(stack) = 0
    BY EmptySeq
  <2> QED
    BY <2>1 DEF IInv, QuitFollowedUp, Pending
<1> QED
  BY <1>1, Inductive, PTL

(* When NotifyAndShutdown() is on top it is what the step executes.        *)
LEMMA OnlyNotifyActs ==
    ASSUME stack \in Seq(Frames), stack # <<>>, Top.fn = "NotifyAndShutdown",
           Next, Len(stack') = Len(stack), is_shutdown
    PROVE  stack'[Len(stack)].fn # "will-quit"
<1>1. CASE NotifyAndShutdown
  <2>1. Return
    BY <1>1 DEF NotifyAndShutdown
  <2> QED
    BY <2>1, StackSteps
<1>2. CASE UNCHANGED stack
  BY <1>2 DEF Top
<1> QED
  BY <1>1, <1>2
     DEF Next, Startup, DidFinishLaunching, SetMainMessageLoopQuitClosure,
         MessageLoopQuits, JavaScript, AppQuit, ExitProcess, ExitWithCode,
         OpenWindow, WinClose, WinDestroy, WebContentsClose, JSCalls, JSRuns,
         Native, Quit, Shutdown, OnWindowAllClosed, CloseAllWindows,
         DestroyAllWindows, ForEachWindow, Close, CloseImmediately,
         HandlerReturns, BeforeQuitReturns, WillQuitReturns, CloseReturns,
         WillPreventUnloadReturns, QuitReturns, WindowAllClosedReturns,
         ClosedReturns, PageTask, BeforeUnloadFired, RunBeforeUnloadDialog,
         WebContentsDestroyed, DestroyClosure, At, Idle, Handlers

(* After app.exit() no step of Browser emits "will-quit".                  *)
THEOREM ExitIsSilent == Spec => ExitSkipsWillQuit
<1>1. IInv /\ [Next]_vars => [~(is_exiting /\ EmitsWillQuit)]_vars
  <2> SUFFICES ASSUME IInv, Next, is_exiting, EmitsWillQuit
               PROVE  FALSE
    OBVIOUS
  <2>1. /\ stack \in Seq(Frames) /\ stack # <<>>
        /\ Top.fn = "NotifyAndShutdown"
        /\ Len(stack') = Len(stack)
    BY DEF IInv, TypeOK, EmitsWillQuit, At
  <2>2. Len(stack) \in Nat /\ Len(stack) >= 1
    BY <2>1, StackSteps
  <2>3. is_shutdown
    BY <2>1, <2>2 DEF IInv, NotifiedOnlyOnceDown, Top
  <2>4. stack'[Len(stack)].fn = "will-quit"
    BY DEF EmitsWillQuit
  <2> QED
    BY <2>1, <2>2, <2>3, <2>4, OnlyNotifyActs
<1> QED
  BY <1>1, Inductive, PTL DEF Spec, ExitSkipsWillQuit

-----------------------------------------------------------------------------
(* The second inductive invariant: what the frames of the stack know about *)
(* the windows they are about.                                             *)
WindowCalls == {"Close", "close", "CloseImmediately", "closed", "will-prevent-unload"}

(* A frame is about windows that have been opened, and the handlers of     *)
(* "closed" run for closed windows.                                        *)
KnowsWindows(f) ==
    /\ f.fn \in WindowCalls => f.win \in Windows /\ life[f.win] # "unborn"
    /\ f.fn = "closed" => life[f.win] = "closed"
    /\ \A k \in 1..Len(f.todo) : life[f.todo[k]] # "unborn"

FramesKnow == \A i \in 1..Len(stack) : KnowsWindows(stack[i])

PagesKnow == \A w \in Windows : page[w] # "none" => life[w] # "unborn"

(* The frame that will destroy a window, and those that will ask it or     *)
(* destroy it.                                                             *)
Destroys(f, w) ==
    \/ f.fn \in {"CloseImmediately", "closed"} /\ f.win = w
    \/ f.fn = "DestroyAllWindows" /\ \E k \in 1..Len(f.todo) : f.todo[k] = w

Reaches(f, w) ==
    \/ Destroys(f, w)
    \/ f.fn \in {"Close", "close"} /\ f.win = w
    \/ f.fn = "CloseAllWindows" /\ \E k \in 1..Len(f.todo) : f.todo[k] = w

Closing(w) == \E i \in 1..Len(stack) : stack[i].fn = "closed" /\ stack[i].win = w

ClosedOnce ==
    \A i, j \in 1..Len(stack) :
      /\ stack[i].fn = "closed"
      /\ stack[j].fn = "closed"
      /\ stack[i].win = stack[j].win
      => i = j

Elements(s) == {s[i] : i \in 1..Len(s)}

NoDuplicates(s) == \A i, j \in 1..Len(s) : s[i] = s[j] => i = j

(* A window is listed while it is open and until its "closed" returns.     *)
ListedAre == \A w \in Windows : w \in Listed <=> life[w] = "open" \/ Closing(w)

(* What the two sequences still owe every window that was listed when they *)
(* began: a frame that is about it, or the answer of its page.             *)
ExitGoesOn ==
    is_exiting =>
      \A w \in Listed \ fresh : \E i \in 1..Len(stack) : Destroys(stack[i], w)

Asked == {"asking", "closing"}

QuitGoesOn ==
    is_quitting /\ ~is_shutdown =>
      \A w \in Listed \ fresh :
        page[w] \in Asked \/ \E i \in 1..Len(stack) : Reaches(stack[i], w)

WindowsInv ==
    /\ FramesKnow
    /\ PagesKnow
    /\ ClosedOnce
    /\ NoDuplicates(windows)
    /\ ListedAre
    /\ ExitGoesOn
    /\ QuitGoesOn

-----------------------------------------------------------------------------
(* A list without duplicates has as many places as elements.               *)
LEMMA DistinctLength ==
    ASSUME NEW S, NEW s \in Seq(S), NoDuplicates(s)
    PROVE  Len(s) = Cardinality({s[i] : i \in DOMAIN s})
<1>1. /\ Len(s) \in Nat
      /\ DOMAIN s = 1..Len(s)
      /\ s \in [1..Len(s) -> S]
  BY LenProperties
<1>2. PICK n \in Nat : n = Len(s)
  BY <1>1
<1> DEFINE E == {s[i] : i \in 1..n}
           f == [i \in 1..n |-> s[i]]
<1>3. f \in [1..n -> E]
  OBVIOUS
<1>4. \A i, j \in 1..n : f[i] = f[j] => i = j
  BY <1>2 DEF NoDuplicates
<1>5. \A x \in E : \E i \in 1..n : f[i] = x
  OBVIOUS
<1>6. f \in Bijection(1..n, E)
  BY <1>3, <1>4, <1>5 DEF Bijection, Injection, Surjection, IsInjective
<1>7. ExistsBijection(1..n, E)
  BY <1>6 DEF ExistsBijection
<1>8. Cardinality(E) = n
  BY <1>7, FS_CountingElements, Zenon
<1> QED
  BY <1>1, <1>2, <1>8

(* push_back of a window that is not in the list.                          *)
LEMMA AppendDistinct ==
    ASSUME NEW S, NEW s \in Seq(S), NEW x \in S, NoDuplicates(s),
           \A i \in 1..Len(s) : s[i] # x
    PROVE  /\ NoDuplicates(Append(s, x))
           /\ Elements(Append(s, x)) = Elements(s) \cup {x}
<1>1. PICK t : t = Append(s, x)
  OBVIOUS
<1>2. /\ Len(t) = Len(s) + 1
      /\ t[Len(s) + 1] = x
      /\ \A i \in 1..Len(s) : t[i] = s[i]
  BY <1>1, PushType
<1>3. PICK n \in Nat : n = Len(s)
  BY LenProperties
<1>4. \A i \in 1..(n + 1) : i \in 1..n \/ i = n + 1
  BY <1>3
<1>5. 1..n \subseteq 1..(n + 1) /\ n + 1 \in 1..(n + 1) /\ n + 1 \notin 1..n
  BY <1>3
<1>6. NoDuplicates(t)
  BY <1>2, <1>3, <1>4 DEF NoDuplicates
<1>7. \A y : (\E i \in 1..Len(t) : t[i] = y) <=> y = x \/ \E i \in 1..Len(s) : s[i] = y
  BY <1>2, <1>3, <1>4, <1>5
<1>8. Elements(t) = Elements(s) \cup {x}
  BY <1>7 DEF Elements
<1> QED
  BY <1>1, <1>6, <1>8

(* std::erase of a window from a list without duplicates.                  *)
LEMMA EraseDistinct ==
    ASSUME NEW S, NEW s \in Seq(S), NEW w, NoDuplicates(s)
    PROVE  /\ NoDuplicates(Erase(s, w))
           /\ Elements(Erase(s, w)) = Elements(s) \ {w}
<1>1. CASE \E i \in 1..Len(s) : s[i] = w
  <2>1. PICK n \in Nat : n = Len(s)
    BY LenProperties
  <2>2. PICK p \in 1..n : p = (CHOOSE i \in 1..n : s[i] = w) /\ s[p] = w
    BY <1>1, <2>1
  <2>3. PICK a : a = SubSeq(s, 1, p - 1)
    OBVIOUS
  <2>4. PICK b : b = SubSeq(s, p + 1, n)
    OBVIOUS
  <2>5. Erase(s, w) = a \o b
    BY <1>1, <2>1, <2>2, <2>3, <2>4 DEF Erase
  <2>6. \A i \in 1..n : s[i] \in S
    BY <2>1, ElementOfSeq
  <2>7. /\ p \in Int /\ n \in Int /\ 1 \in Int /\ p - 1 \in Int /\ p + 1 \in Int
        /\ p >= 1 /\ p <= n
    BY <2>1, <2>2
  <2>8. \A i \in 1..(p - 1) : s[i] \in S
    BY <2>6, <2>7
  <2>9. \A i \in (p + 1)..n : s[i] \in S
    BY <2>6, <2>7
  <2>10. /\ a \in Seq(S)
         /\ Len(a) = p - 1
         /\ \A i \in 1..(p - 1) : a[i] = s[i]
    <3>1. /\ SubSeq(s, 1, p - 1) \in Seq(S)
          /\ Len(SubSeq(s, 1, p - 1)) = IF 1 <= p - 1 THEN p - 1 - 1 + 1 ELSE 0
          /\ \A i \in 1..(p - 1 - 1 + 1) : SubSeq(s, 1, p - 1)[i] = s[1 + i - 1]
      BY <2>7, <2>8, SubSeqProperties
    <3>2. (IF 1 <= p - 1 THEN p - 1 - 1 + 1 ELSE 0) = p - 1 /\ p - 1 - 1 + 1 = p - 1
      BY <2>7
    <3>3. \A i \in 1..(p - 1) : 1 + i - 1 = i
      BY <2>7
    <3> QED
      BY <2>3, <3>1, <3>2, <3>3
  <2>11. /\ b \in Seq(S)
         /\ Len(b) = n - p
         /\ \A i \in 1..(n - p) : b[i] = s[p + i]
    <3>1. /\ SubSeq(s, p + 1, n) \in Seq(S)
          /\ Len(SubSeq(s, p + 1, n)) = IF p + 1 <= n THEN n - (p + 1) + 1 ELSE 0
          /\ \A i \in 1..(n - (p + 1) + 1) : SubSeq(s, p + 1, n)[i] = s[p + 1 + i - 1]
      BY <2>7, <2>9, SubSeqProperties
    <3>2. (IF p + 1 <= n THEN n - (p + 1) + 1 ELSE 0) = n - p /\ n - (p + 1) + 1 = n - p
      BY <2>7
    <3>3. \A i \in 1..(n - p) : p + 1 + i - 1 = p + i
      BY <2>7
    <3> QED
      BY <2>4, <3>1, <3>2, <3>3
  <2>12. PICK t : t = a \o b
    OBVIOUS
  <2>13. /\ Len(t) = n - 1
         /\ \A i \in 1..(n - 1) : t[i] = IF i <= p - 1 THEN a[i] ELSE b[i - (p - 1)]
    <3>1. /\ Len(t) = Len(a) + Len(b)
          /\ \A i \in 1..(Len(a) + Len(b)) : t[i] = IF i <= Len(a) THEN a[i] ELSE b[i - Len(a)]
      BY <2>10, <2>11, <2>12, ConcatProperties
    <3>2. Len(a) + Len(b) = n - 1
      BY <2>7, <2>10, <2>11
    <3> QED
      BY <2>10, <3>1, <3>2
  <2>14. \A i \in 1..(n - 1) : t[i] = IF i <= p - 1 THEN s[i] ELSE s[i + 1]
    <3> TAKE i \in 1..(n - 1)
    <3>1. CASE i <= p - 1
      <4>1. i \in 1..(p - 1)
        BY <2>7, <3>1
      <4> QED
        BY <2>10, <2>13, <3>1, <4>1
    <3>2. CASE ~(i <= p - 1)
      <4>1. i - (p - 1) \in 1..(n - p) /\ p + (i - (p - 1)) = i + 1
        BY <2>7, <3>2
      <4>2. t[i] = b[i - (p - 1)]
        BY <2>13, <3>2
      <4>3. b[i - (p - 1)] = s[p + (i - (p - 1))]
        BY <2>11, <4>1
      <4> QED
        BY <3>2, <4>1, <4>2, <4>3
    <3> QED
      BY <3>1, <3>2
  <2>15. NoDuplicates(t)
    <3>1. SUFFICES ASSUME NEW i \in 1..(n - 1), NEW j \in 1..(n - 1), t[i] = t[j]
                   PROVE  i = j
      BY <2>13 DEF NoDuplicates
    <3>2. i \in 1..n /\ i + 1 \in 1..n /\ j \in 1..n /\ j + 1 \in 1..n
      BY <2>7
    <3>3. \A k, l \in 1..n : s[k] = s[l] => k = l
      BY <2>1 DEF NoDuplicates
    <3>4. PICK k \in 1..n : t[i] = s[k] /\ k = IF i <= p - 1 THEN i ELSE i + 1
      BY <2>14, <3>2
    <3>5. PICK l \in 1..n : t[j] = s[l] /\ l = IF j <= p - 1 THEN j ELSE j + 1
      BY <2>14, <3>2
    <3>6. k = l
      BY <3>1, <3>3, <3>4, <3>5
    <3> QED
      BY <2>7, <3>4, <3>5, <3>6
  <2>16. ASSUME NEW i \in 1..(n - 1)
         PROVE  \E k \in 1..n : k # p /\ t[i] = s[k]
    <3>1. CASE i <= p - 1
      BY <2>7, <2>14, <3>1
    <3>2. CASE ~(i <= p - 1)
      <4>1. i + 1 \in 1..n /\ i + 1 # p
        BY <2>7, <3>2
      <4> QED
        BY <2>14, <3>2, <4>1
    <3> QED
      BY <3>1, <3>2
  <2>17. ASSUME NEW k \in 1..n, k # p
         PROVE  \E i \in 1..(n - 1) : t[i] = s[k]
    <3>1. CASE k <= p - 1
      <4>1. k \in 1..(n - 1)
        BY <2>7, <3>1
      <4> QED
        BY <2>14, <3>1, <4>1
    <3>2. CASE ~(k <= p - 1)
      <4>1. k - 1 \in 1..(n - 1) /\ ~(k - 1 <= p - 1) /\ k - 1 + 1 = k
        BY <2>7, <2>17, <3>2
      <4>2. t[k - 1] = s[k - 1 + 1]
        BY <2>14, <4>1
      <4> QED
        BY <4>1, <4>2
    <3> QED
      BY <3>1, <3>2
  <2>18. \A k \in 1..n : k # p <=> s[k] # w
    BY <2>1, <2>2 DEF NoDuplicates
  <2>19. \A y : (\E i \in 1..Len(t) : t[i] = y) <=> y # w /\ \E i \in 1..Len(s) : s[i] = y
    <3> SUFFICES ASSUME NEW y
                 PROVE  (\E i \in 1..Len(t) : t[i] = y) <=> y # w /\ \E i \in 1..Len(s) : s[i] = y
      OBVIOUS
    <3>1. ASSUME NEW i \in 1..(n - 1), t[i] = y
          PROVE  y # w /\ \E k \in 1..n : s[k] = y
      BY <2>16, <2>18, <3>1
    <3>2. ASSUME y # w, NEW k \in 1..n, s[k] = y
          PROVE  \E i \in 1..(n - 1) : t[i] = y
      BY <2>17, <2>18, <3>2
    <3> QED
      BY <2>1, <2>13, <3>1, <3>2
  <2>20. Elements(t) = Elements(s) \ {w}
    BY <2>19 DEF Elements
  <2> QED
    BY <2>5, <2>12, <2>15, <2>20
<1>2. CASE ~ \E i \in 1..Len(s) : s[i] = w
  <2>1. Erase(s, w) = s
    BY <1>2 DEF Erase
  <2>2. w \notin Elements(s)
    BY <1>2 DEF Elements
  <2> QED
    BY <2>1, <2>2
<1> QED
  BY <1>1, <1>2

-----------------------------------------------------------------------------
(* All but the top of the stack is as it was: m frames of it.              *)
Kept(m) ==
    /\ m \in Nat
    /\ m \in {Len(stack) - 1, Len(stack)}
    /\ m <= Len(stack')
    /\ \A i \in 1..m : stack'[i] = stack[i]

(* Where a frame of the new stack is, and where one of the old stack is.   *)
LEMMA KeptFrames ==
    ASSUME stack \in Seq(Frames), stack' \in Seq(Frames), NEW m, Kept(m)
    PROVE  /\ \A i \in 1..Len(stack') :
                \/ i \in 1..m /\ i \in 1..Len(stack) /\ stack'[i] = stack[i]
                \/ i \in (m + 1)..Len(stack')
           /\ \A i \in 1..Len(stack) :
                \/ i \in 1..m /\ i \in 1..Len(stack') /\ stack'[i] = stack[i]
                \/ i = Len(stack) /\ m = Len(stack) - 1 /\ stack[i] = Top
           /\ \A i \in (m + 1)..Len(stack') : i \in 1..Len(stack')
<1>1. PICK n \in Nat, l \in Nat : n = Len(stack) /\ l = Len(stack')
  BY LenProperties
<1>2. /\ m \in Nat /\ m \in {n - 1, n} /\ m <= l
      /\ \A i \in 1..m : stack'[i] = stack[i]
  BY <1>1 DEF Kept
<1>3. \A i \in 1..l : \/ i \in 1..m /\ i \in 1..n
                      \/ i \in (m + 1)..l
  BY <1>1, <1>2
<1>4. \A i \in 1..n : \/ i \in 1..m /\ i \in 1..l
                      \/ i = n /\ m = n - 1
  BY <1>1, <1>2
<1>5. \A i \in (m + 1)..l : i \in 1..l
  BY <1>1, <1>2
<1> QED
  BY <1>1, <1>2, <1>3, <1>4, <1>5 DEF Top

(* A step that neither changes the list nor the windows, and neither       *)
(* begins nor ends the handlers of a "closed".                             *)
LEMMA ListStep ==
    ASSUME stack \in Seq(Frames), stack' \in Seq(Frames),
           FramesKnow, ClosedOnce, NoDuplicates(windows), ListedAre,
           UNCHANGED <<windows, life>>,
           NEW m, Kept(m),
           m = Len(stack) - 1 => Top.fn # "closed",
           \A i \in (m + 1)..Len(stack') :
             KnowsWindows(stack'[i]) /\ stack'[i].fn # "closed"
    PROVE  /\ FramesKnow'
           /\ ClosedOnce'
           /\ NoDuplicates(windows)'
           /\ ListedAre'
<1>1. \A i \in 1..Len(stack') :
        \/ i \in 1..m /\ i \in 1..Len(stack) /\ stack'[i] = stack[i]
        \/ KnowsWindows(stack'[i]) /\ stack'[i].fn # "closed"
  BY KeptFrames
<1>2. FramesKnow'
  BY <1>1 DEF FramesKnow, KnowsWindows
<1>3. ClosedOnce'
  BY <1>1 DEF ClosedOnce
<1>4. \A w : Closing(w)' <=> Closing(w)
  <2> TAKE w
  <2>1. Closing(w)' => Closing(w)
    BY <1>1 DEF Closing
  <2>2. Closing(w) => Closing(w)'
    BY KeptFrames DEF Closing
  <2> QED
    BY <2>1, <2>2
<1>5. NoDuplicates(windows)'
  BY DEF NoDuplicates
<1>6. Listed' = Listed
  BY DEF Listed
<1>7. ListedAre'
  BY <1>4, <1>6 DEF ListedAre
<1> QED
  BY <1>2, <1>3, <1>5, <1>7

(* A window that is listed though it is closed has its handlers running.   *)
LEMMA ListedClosed ==
    ASSUME TypeOK, ListedAre, NEW w \in Listed, life[w] = "closed"
    PROVE  Closing(w)
<1>1. w \in Windows
  BY LenProperties, ElementOfSeq DEF TypeOK, Listed
<1> QED
  BY <1>1 DEF ListedAre

(* A step of that kind leaves every window to be destroyed to somebody:    *)
(* what the frame on top owed a window is done, or owed by a new frame.    *)
LEMMA ExitStep ==
    ASSUME TypeOK, TypeOK', ListedAre, ExitGoesOn,
           UNCHANGED <<windows, life, fresh, is_exiting>>,
           NEW m, Kept(m),
           m = Len(stack) - 1 => Top.fn # "closed",
           \A w \in Listed :
             m = Len(stack) - 1 /\ Destroys(Top, w) =>
               \/ life[w] = "closed"
               \/ \E i \in (m + 1)..Len(stack') : Destroys(stack'[i], w)
    PROVE  ExitGoesOn'
<1> SUFFICES ASSUME is_exiting, NEW w \in Listed \ fresh
             PROVE  \E i \in 1..Len(stack') : Destroys(stack'[i], w)
  BY DEF ExitGoesOn, Listed, Destroys
<1>1. stack \in Seq(Frames) /\ stack' \in Seq(Frames)
  BY DEF TypeOK
<1>2. PICK i \in 1..Len(stack) : Destroys(stack[i], w)
  BY DEF ExitGoesOn
<1>3. CASE i \in 1..Len(stack') /\ stack'[i] = stack[i]
  BY <1>2, <1>3
<1>4. CASE m = Len(stack) - 1 /\ stack[i] = Top
  <2>1. CASE life[w] = "closed"
    <3>1. PICK j \in 1..Len(stack) : stack[j].fn = "closed" /\ stack[j].win = w
      BY <2>1, ListedClosed DEF Closing
    <3>2. j \in 1..Len(stack') /\ stack'[j] = stack[j]
      BY <1>1, <1>4, <3>1, KeptFrames
    <3> QED
      BY <3>1, <3>2 DEF Destroys
  <2>2. CASE \E j \in (m + 1)..Len(stack') : Destroys(stack'[j], w)
    BY <1>1, <2>2, KeptFrames
  <2> QED
    BY <1>2, <1>4, <2>1, <2>2
<1> QED
  BY <1>1, <1>3, <1>4, KeptFrames

LEMMA QuitStep ==
    ASSUME TypeOK, TypeOK', ListedAre, QuitGoesOn,
           UNCHANGED <<windows, life, fresh>>,
           is_quitting' /\ ~is_shutdown' => is_quitting /\ ~is_shutdown,
           NEW m, Kept(m),
           m = Len(stack) - 1 => Top.fn # "closed",
           is_quitting' /\ ~is_shutdown' =>
             \A w \in Listed :
               page[w] \in Asked \/ (m = Len(stack) - 1 /\ Reaches(Top, w)) =>
                 \/ life[w] = "closed"
                 \/ page'[w] \in Asked
                 \/ \E i \in (m + 1)..Len(stack') : Reaches(stack'[i], w)
    PROVE  QuitGoesOn'
<1> SUFFICES ASSUME is_quitting', ~is_shutdown', NEW w \in Listed \ fresh
             PROVE  page'[w] \in Asked \/ \E i \in 1..Len(stack') : Reaches(stack'[i], w)
  BY DEF QuitGoesOn, Listed, Reaches, Destroys, Asked
<1>1. stack \in Seq(Frames) /\ stack' \in Seq(Frames)
  BY DEF TypeOK
<1>2. CASE life[w] = "closed" /\ (page[w] \in Asked \/ (m = Len(stack) - 1 /\ Reaches(Top, w)))
  <2>1. PICK j \in 1..Len(stack) : stack[j].fn = "closed" /\ stack[j].win = w
    BY <1>2, ListedClosed DEF Closing
  <2>2. j \in 1..Len(stack') /\ stack'[j] = stack[j]
    BY <1>1, <2>1, KeptFrames
  <2> QED
    BY <2>1, <2>2 DEF Destroys, Reaches
<1>3. CASE \E i \in (m + 1)..Len(stack') : Reaches(stack'[i], w)
  BY <1>1, <1>3, KeptFrames
<1>4. CASE \E i \in 1..Len(stack) : Reaches(stack[i], w)
  <2>1. PICK i \in 1..Len(stack) : Reaches(stack[i], w)
    BY <1>4
  <2>2. \/ i \in 1..Len(stack') /\ stack'[i] = stack[i]
        \/ m = Len(stack) - 1 /\ stack[i] = Top
    BY <1>1, KeptFrames
  <2> QED
    BY <1>2, <1>3, <2>1, <2>2
<1>5. page[w] \in Asked \/ \E i \in 1..Len(stack) : Reaches(stack[i], w)
  BY DEF QuitGoesOn
<1> QED
  BY <1>2, <1>3, <1>4, <1>5

-----------------------------------------------------------------------------
(* The stack keeps m frames and gets the frames of F on top of them.       *)
Replaces(m, F) ==
    /\ Kept(m)
    /\ {stack'[i] : i \in (m + 1)..Len(stack')} = F

LEMMA Replacements ==
    ASSUME stack \in Seq(Frames)
    PROVE  /\ UNCHANGED stack => Replaces(Len(stack), {})
           /\ \A f \in Frames : Push(f) => Replaces(Len(stack), {f})
           /\ stack # <<>> /\ Return => Replaces(Len(stack) - 1, {})
           /\ \A f \in Frames :
                stack # <<>> /\ Become(f) => Replaces(Len(stack) - 1, {f})
<1>1. Len(stack) \in Nat /\ (stack # <<>> => Len(stack) >= 1)
  BY StackSteps
<1>2. PICK n \in Nat : n = Len(stack)
  BY <1>1
<1>3. (n + 1)..n = {} /\ (n - 1 + 1)..(n - 1) = {}
  BY <1>2
<1>4. (n + 1)..(n + 1) = {n + 1} /\ (n - 1 + 1)..n = {n}
  BY <1>2
<1>5. UNCHANGED stack => Replaces(n, {})
  BY <1>2, <1>3 DEF Replaces, Kept
<1>6. ASSUME NEW f \in Frames, Push(f)
      PROVE  Replaces(n, {f})
  <2>1. Len(stack') = n + 1 /\ stack'[n + 1] = f /\ \A i \in 1..n : stack'[i] = stack[i]
    BY <1>2, <1>6, StackSteps
  <2>2. Kept(n)
    BY <1>2, <2>1 DEF Kept
  <2>3. {stack'[i] : i \in (n + 1)..Len(stack')} = {f}
    BY <1>4, <2>1
  <2> QED
    BY <2>2, <2>3 DEF Replaces
<1>7. ASSUME stack # <<>>, Return
      PROVE  Replaces(n - 1, {})
  <2>1. Len(stack') = n - 1 /\ (\A i \in 1..(n - 1) : stack'[i] = stack[i]) /\ n - 1 \in Nat
    BY <1>1, <1>2, <1>7, StackSteps
  <2>2. Kept(n - 1)
    BY <1>2, <2>1 DEF Kept
  <2>3. {stack'[i] : i \in (n - 1 + 1)..Len(stack')} = {}
    BY <1>3, <2>1
  <2> QED
    BY <2>2, <2>3 DEF Replaces
<1>8. ASSUME NEW f \in Frames, stack # <<>>, Become(f)
      PROVE  Replaces(n - 1, {f})
  <2>1. /\ Len(stack') = n /\ stack'[n] = f
        /\ \A i \in 1..(n - 1) : stack'[i] = stack[i]
        /\ n - 1 \in Nat
    BY <1>1, <1>2, <1>8, StackSteps
  <2>2. Kept(n - 1)
    BY <1>2, <2>1 DEF Kept
  <2>3. {stack'[i] : i \in (n - 1 + 1)..Len(stack')} = {f}
    BY <1>4, <2>1
  <2> QED
    BY <2>2, <2>3 DEF Replaces
<1> QED
  BY <1>2, <1>5, <1>6, <1>7, <1>8

(* A turn of a loop over the windows.                                      *)
LEMMA LoopReplacements ==
    ASSUME stack \in Seq(Frames),
           NEW loop \in {"CloseAllWindows", "DestroyAllWindows"},
           NEW call \in {"Close", "CloseImmediately"},
           ForEachWindow(loop, call),
           Top.todo # <<>>
    PROVE  LET w == Head(Top.todo)
               f == ListFrame(loop, Tail(Top.todo))
           IN /\ w \in Windows
              /\ f \in Frames
              /\ IF life[w] = "closed"
                   THEN Replaces(Len(stack) - 1, {f})
                   ELSE Replaces(Len(stack) - 1, {f, WindowFrame(call, w)})
<1>1. stack # <<>> /\ Top \in Frames /\ Len(stack) \in Nat /\ Len(stack) >= 1
  BY StackSteps DEF ForEachWindow, At
<1>2. PICK n \in Nat : n = Len(stack) /\ n >= 1 /\ n - 1 \in Nat
  BY <1>1
<1>3. Top.todo \in Seq(Windows)
  BY <1>1 DEF Frames
<1>4. PICK w \in Windows, s \in Seq(Windows) : w = Head(Top.todo) /\ s = Tail(Top.todo)
  BY <1>3, HeadTailProperties
<1>5. PICK f \in Frames : f = ListFrame(loop, s)
  BY FrameType DEF Calls
<1>6. PICK g \in Frames : g = WindowFrame(call, w)
  BY FrameType DEF Calls
<1>7. PICK rest : rest = [stack EXCEPT ![Len(stack)] = f]
  OBVIOUS
<1>8. /\ rest \in Seq(Frames)
      /\ Len(rest) = n
      /\ rest[n] = f
      /\ \A i \in 1..(n - 1) : rest[i] = stack[i]
  BY <1>1, <1>2, <1>7, BecomeType
<1>9. stack' = IF life[w] = "closed" THEN rest ELSE Append(rest, g)
  BY <1>4, <1>5, <1>6, <1>7 DEF ForEachWindow
<1>10. CASE life[w] = "closed"
  <2>1. Become(f)
    BY <1>7, <1>9, <1>10 DEF Become
  <2>2. Replaces(Len(stack) - 1, {f})
    BY <1>1, <2>1, Replacements
  <2> QED
    BY <1>4, <1>5, <1>10, <2>2
<1>11. CASE life[w] # "closed"
  <2>1. stack' = Append(rest, g)
    BY <1>9, <1>11
  <2>2. /\ Len(stack') = n + 1
        /\ stack'[n + 1] = g
        /\ \A i \in 1..n : stack'[i] = rest[i]
    BY <1>8, <2>1, PushType
  <2>3. stack'[n] = f /\ \A i \in 1..(n - 1) : stack'[i] = stack[i]
    BY <1>2, <1>8, <2>2
  <2>4. (n - 1 + 1)..(n + 1) = {n, n + 1}
    BY <1>2
  <2>5. {stack'[i] : i \in (n - 1 + 1)..Len(stack')} = {f, g}
    BY <2>2, <2>3, <2>4
  <2>6. Kept(n - 1)
    BY <1>2, <2>2, <2>3 DEF Kept
  <2> QED
    BY <1>2, <1>4, <1>5, <1>6, <1>11, <2>5, <2>6 DEF Replaces
<1> QED
  BY <1>10, <1>11

(* A step that leaves the windows and their list alone preserves the       *)
(* invariant if the new frames are about windows that exist, and if        *)
(* whatever the top frame, or the page, was to do for a window is done or  *)
(* taken over.                                                             *)
LEMMA WindowsKept ==
    ASSUME TypeOK, TypeOK', WindowsInv,
           UNCHANGED <<windows, life, fresh, is_exiting>>,
           PagesKnow',
           is_quitting' /\ ~is_shutdown' => is_quitting /\ ~is_shutdown,
           NEW m, NEW F, Replaces(m, F),
           m = Len(stack) - 1 => Top.fn # "closed",
           \A f \in F : KnowsWindows(f) /\ f.fn # "closed",
           \A w \in Listed :
             m = Len(stack) - 1 /\ Destroys(Top, w) =>
               life[w] = "closed" \/ \E f \in F : Destroys(f, w),
           is_quitting' /\ ~is_shutdown' =>
             \A w \in Listed :
               page[w] \in Asked \/ (m = Len(stack) - 1 /\ Reaches(Top, w)) =>
                 \/ life[w] = "closed"
                 \/ page'[w] \in Asked
                 \/ \E f \in F : Reaches(f, w)
    PROVE  WindowsInv'
<1>1. stack \in Seq(Frames) /\ stack' \in Seq(Frames)
  BY DEF TypeOK
<1>2. Kept(m)
  BY DEF Replaces
<1>3. \A f : f \in F <=> \E i \in (m + 1)..Len(stack') : stack'[i] = f
  BY DEF Replaces
<1>4. \A i \in (m + 1)..Len(stack') : KnowsWindows(stack'[i]) /\ stack'[i].fn # "closed"
  BY <1>3
<1>5. FramesKnow' /\ ClosedOnce' /\ NoDuplicates(windows)' /\ ListedAre'
  BY <1>1, <1>2, <1>4, ListStep DEF WindowsInv
<1>6. ExitGoesOn'
  <2>1. \A w \in Listed :
          m = Len(stack) - 1 /\ Destroys(Top, w) =>
            \/ life[w] = "closed"
            \/ \E i \in (m + 1)..Len(stack') : Destroys(stack'[i], w)
    BY <1>3
  <2> QED
    BY <1>2, <2>1, ExitStep DEF WindowsInv
<1>7. QuitGoesOn'
  <2>1. is_quitting' /\ ~is_shutdown' =>
          \A w \in Listed :
            page[w] \in Asked \/ (m = Len(stack) - 1 /\ Reaches(Top, w)) =>
              \/ life[w] = "closed"
              \/ page'[w] \in Asked
              \/ \E i \in (m + 1)..Len(stack') : Reaches(stack'[i], w)
    BY <1>3
  <2> QED
    BY <1>2, <2>1, QuitStep DEF WindowsInv
<1> QED
  BY <1>5, <1>6, <1>7 DEF WindowsInv

LEMMA NewFramesKnow ==
    /\ \A fn : fn \notin WindowCalls => KnowsWindows(Frame(fn)) /\ Frame(fn).fn = fn
    /\ \A fn, w : w \in Windows /\ life[w] # "unborn" /\ fn # "closed" =>
         KnowsWindows(WindowFrame(fn, w)) /\ WindowFrame(fn, w).fn = fn
    /\ \A fn, s : fn \in Loops /\ (\A k \in 1..Len(s) : life[s[k]] # "unborn") =>
         KnowsWindows(ListFrame(fn, s)) /\ ListFrame(fn, s).fn = fn
<1>1. 1..Len(<<>>) = {}
  OBVIOUS
<1>2. \A fn \in Loops : fn \notin WindowCalls
  BY DEF Loops, WindowCalls
<1>3. "closed" \in WindowCalls
  BY DEF WindowCalls
<1>4. ASSUME NEW fn, fn \notin WindowCalls
      PROVE  KnowsWindows(Frame(fn)) /\ Frame(fn).fn = fn
  BY <1>1, <1>3, <1>4 DEF KnowsWindows, Frame
<1>5. ASSUME NEW fn, NEW w \in Windows, life[w] # "unborn", fn # "closed"
      PROVE  KnowsWindows(WindowFrame(fn, w)) /\ WindowFrame(fn, w).fn = fn
  BY <1>1, <1>5 DEF KnowsWindows, WindowFrame
<1>6. ASSUME NEW fn \in Loops, NEW s, \A k \in 1..Len(s) : life[s[k]] # "unborn"
      PROVE  KnowsWindows(ListFrame(fn, s)) /\ ListFrame(fn, s).fn = fn
  BY <1>2, <1>3, <1>6 DEF KnowsWindows, ListFrame
<1> QED
  BY <1>4, <1>5, <1>6

(* The frames that owe something to a window.                              *)
Owing == {"CloseAllWindows", "DestroyAllWindows",
          "Close", "close", "CloseImmediately", "closed"}

(* A step that is about no window at all.                                  *)
LEMMA QuietStep ==
    ASSUME TypeOK, TypeOK', WindowsInv,
           UNCHANGED <<windows, life, page, fresh, is_exiting>>,
           is_quitting' /\ ~is_shutdown' => is_quitting /\ ~is_shutdown,
           NEW m, NEW F, Replaces(m, F),
           m = Len(stack) - 1 => Top.fn \notin Owing,
           \A f \in F : KnowsWindows(f) /\ f.fn # "closed"
    PROVE  WindowsInv'
<1>1. PagesKnow'
  BY DEF WindowsInv, PagesKnow
<1>2. m = Len(stack) - 1 => Top.fn # "closed" /\ \A w : ~Destroys(Top, w) /\ ~Reaches(Top, w)
  BY DEF Owing, Destroys, Reaches
<1>3. \A w \in Listed : page[w] \in Asked => page'[w] \in Asked
  OBVIOUS
<1> QED
  BY <1>1, <1>2, <1>3, WindowsKept

(* The steps of the process and of the quit itself.                        *)
LEMMA ProcessSteps ==
    ASSUME TypeOK, TypeOK', WindowsInv,
           \/ UNCHANGED vars
           \/ Startup
           \/ MessageLoopQuits
           \/ ExitProcess
    PROVE  WindowsInv'
<1>1. stack \in Seq(Frames)
  BY DEF TypeOK
<1>2. /\ UNCHANGED <<windows, life, page, fresh, is_exiting>>
      /\ UNCHANGED <<is_quitting, is_shutdown>>
      /\ UNCHANGED stack
  BY DEF vars, Startup, DidFinishLaunching, SetMainMessageLoopQuitClosure,
         MessageLoopQuits, ExitProcess
<1>3. Replaces(Len(stack), {})
  BY <1>1, <1>2, Replacements
<1>4. Len(stack) # Len(stack) - 1
  BY <1>1, LenProperties
<1> QED
  BY <1>2, <1>3, <1>4, QuietStep

LEMMA QuitSteps ==
    ASSUME TypeOK, TypeOK', WindowsInv,
           \/ AppQuit
           \/ Quit
           \/ BeforeQuitReturns(TRUE)
           \/ NotifyAndShutdown
           \/ \E prevented \in BOOLEAN : WillQuitReturns(prevented)
           \/ Shutdown
           \/ QuitReturns
           \/ OnWindowAllClosed
           \/ WindowAllClosedReturns
    PROVE  WindowsInv'
<1> USE DEF browser
<1>1. stack \in Seq(Frames) /\ Len(stack) # Len(stack) - 1
  BY LenProperties DEF TypeOK
<1>2. \A fn \in Calls \cup Handlers : Frame(fn) \in Frames
  BY FrameType
<1>3. CASE AppQuit
  <2>1. Replaces(Len(stack), {Frame("Quit")})
    BY <1>1, <1>2, <1>3, Replacements DEF AppQuit, Calls
  <2>2. KnowsWindows(Frame("Quit")) /\ Frame("Quit").fn = "Quit"
    BY NewFramesKnow DEF WindowCalls
  <2> QED
    BY <1>1, <1>3, <2>1, <2>2, QuietStep DEF AppQuit
<1>4. ASSUME stack # <<>>,
             Top.fn \notin Owing,
             UNCHANGED <<windows, life, page, fresh, is_exiting>>,
             is_quitting' /\ ~is_shutdown' => is_quitting /\ ~is_shutdown,
             \/ Return
             \/ \E fn \in (Calls \cup Handlers) \ WindowCalls : Become(Frame(fn))
      PROVE  WindowsInv'
  <2>1. CASE Return
    <3>1. Replaces(Len(stack) - 1, {})
      BY <1>1, <1>4, <2>1, Replacements
    <3> QED
      BY <1>4, <3>1, QuietStep
  <2>2. CASE \E fn \in (Calls \cup Handlers) \ WindowCalls : Become(Frame(fn))
    <3>1. PICK fn \in (Calls \cup Handlers) \ WindowCalls : Become(Frame(fn))
      BY <2>2
    <3>2. Replaces(Len(stack) - 1, {Frame(fn)})
      BY <1>1, <1>2, <1>4, <3>1, Replacements
    <3>3. KnowsWindows(Frame(fn)) /\ Frame(fn).fn # "closed"
      BY <3>1, NewFramesKnow DEF WindowCalls
    <3> QED
      BY <1>4, <3>2, <3>3, QuietStep
  <2> QED
    BY <1>4, <2>1, <2>2
<1>5. CASE Quit
  BY <1>4, <1>5 DEF Quit, At, Owing, Calls, Handlers, WindowCalls
<1>6. CASE BeforeQuitReturns(TRUE)
  BY <1>4, <1>6 DEF BeforeQuitReturns, At, Owing
<1>7. CASE NotifyAndShutdown
  BY <1>4, <1>7 DEF NotifyAndShutdown, At, Owing, Calls, Handlers, WindowCalls
<1>8. ASSUME NEW prevented \in BOOLEAN, WillQuitReturns(prevented)
      PROVE  WindowsInv'
  BY <1>4, <1>8 DEF WillQuitReturns, At, Owing, Calls, Handlers, WindowCalls
<1>9. CASE Shutdown
  BY <1>4, <1>9 DEF Shutdown, At, Owing, Calls, Handlers, WindowCalls
<1>10. CASE QuitReturns
  BY <1>4, <1>10 DEF QuitReturns, At, Owing
<1>11. CASE OnWindowAllClosed
  BY <1>4, <1>11 DEF OnWindowAllClosed, At, Owing, Calls, Handlers, WindowCalls
<1>12. CASE WindowAllClosedReturns
  BY <1>4, <1>12 DEF WindowAllClosedReturns, At, Owing
<1> QED
  BY <1>3, <1>5, <1>6, <1>7, <1>8, <1>9, <1>10, <1>11, <1>12

-----------------------------------------------------------------------------
(* What the type invariant and the frames say of the window on top.        *)
LEMMA TopKnows ==
    ASSUME TypeOK, WindowsInv, stack # <<>>
    PROVE  KnowsWindows(Top) /\ Top \in Frames
<1>1. Len(stack) \in 1..Len(stack) /\ Top \in Frames
  BY StackSteps DEF TypeOK
<1> QED
  BY <1>1 DEF Top, WindowsInv, FramesKnow

LEMMA ListedWindows ==
    ASSUME TypeOK
    PROVE  /\ Listed \subseteq Windows
           /\ \A w : w \in Listed <=> \E i \in 1..Len(windows) : windows[i] = w
<1>1. windows \in Seq(Windows) /\ DOMAIN windows = 1..Len(windows)
  BY LenProperties DEF TypeOK
<1> QED
  BY <1>1, ElementOfSeq DEF Listed

(* What becomes of one page, and of the others.                            *)
LEMMA PageOf ==
    ASSUME TypeOK, NEW w \in Windows, NEW p, page' = [page EXCEPT ![w] = p]
    PROVE  page'[w] = p /\ \A v \in Windows : v # w => page'[v] = page[v]
BY DEF TypeOK

LEMMA WindowFrameReaches ==
    \A w : /\ Reaches(WindowFrame("Close", w), w)
           /\ Reaches(WindowFrame("close", w), w)
           /\ Reaches(WindowFrame("CloseImmediately", w), w)
           /\ Destroys(WindowFrame("CloseImmediately", w), w)
BY DEF Reaches, Destroys, WindowFrame

(* JavaScript and the pages' tasks.                                        *)
LEMMA PageSteps ==
    ASSUME TypeOK, TypeOK', WindowsInv, NEW w \in Windows,
           \/ WinClose(w)
           \/ WinDestroy(w)
           \/ WebContentsClose(w)
           \/ PageTask(w)
    PROVE  WindowsInv'
<1> USE DEF browser
<1>1. stack \in Seq(Frames) /\ Len(stack) # Len(stack) - 1
  BY LenProperties DEF TypeOK
<1>2. \A fn \in Calls \cup Handlers : WindowFrame(fn, w) \in Frames
  BY FrameType
<1>3. Listed \subseteq Windows
  BY ListedWindows
<1>4. CASE WinClose(w)
  <2>1. Replaces(Len(stack), {WindowFrame("Close", w)})
    BY <1>1, <1>2, <1>4, Replacements DEF WinClose, Calls
  <2>2. KnowsWindows(WindowFrame("Close", w)) /\ WindowFrame("Close", w).fn = "Close"
    BY <1>4, NewFramesKnow DEF WinClose
  <2> QED
    BY <1>1, <1>4, <2>1, <2>2, QuietStep DEF WinClose
<1>5. CASE RunBeforeUnloadDialog(w)
  <2> DEFINE f == WindowFrame("will-prevent-unload", w)
  <2>1. Replaces(Len(stack), {f})
    BY <1>1, <1>2, <1>5, Replacements DEF RunBeforeUnloadDialog, Handlers
  <2>2. life[w] # "unborn"
    BY <1>5 DEF RunBeforeUnloadDialog, WindowsInv, PagesKnow
  <2>3. KnowsWindows(f) /\ f.fn = "will-prevent-unload"
    BY <2>2, NewFramesKnow
  <2> HIDE DEF f
  <2> QED
    BY <1>1, <1>5, <2>1, <2>3, QuietStep DEF RunBeforeUnloadDialog
<1>6. ASSUME UNCHANGED <<windows, life, fresh, is_exiting, is_quitting, is_shutdown>>,
             NEW p \in {"none", "closing"},
             page' = [page EXCEPT ![w] = p],
             life[w] # "unborn",
             \/ UNCHANGED stack /\ (p = "closing" \/ life[w] = "closed")
             \/ Push(WindowFrame("CloseImmediately", w))
      PROVE  WindowsInv'
  <2>1. page'[w] = p /\ \A v \in Windows : v # w => page'[v] = page[v]
    BY <1>6, PageOf
  <2>2. PagesKnow'
    BY <1>6, <2>1 DEF WindowsInv, PagesKnow
  <2>3. CASE UNCHANGED stack /\ (p = "closing" \/ life[w] = "closed")
    <3>1. Replaces(Len(stack), {})
      BY <1>1, <2>3, Replacements
    <3>2. \A v \in Listed : page[v] \in Asked => life[v] = "closed" \/ page'[v] \in Asked
      BY <1>3, <2>1, <2>3 DEF Asked
    <3> QED
      BY <1>1, <1>6, <2>2, <3>1, <3>2, WindowsKept
  <2>4. CASE Push(WindowFrame("CloseImmediately", w))
    <3>1. PICK f : f = WindowFrame("CloseImmediately", w)
      OBVIOUS
    <3>2. KnowsWindows(f) /\ f.fn # "closed" /\ f \in Frames
      BY <1>2, <1>6, <3>1, NewFramesKnow DEF Calls
    <3>3. Replaces(Len(stack), {f})
      BY <1>1, <2>4, <3>1, <3>2, Replacements
    <3>4. Reaches(f, w)
      BY <3>1, WindowFrameReaches
    <3>5. \A v \in Listed : page[v] \in Asked => page'[v] \in Asked \/ Reaches(f, v)
      BY <1>3, <2>1, <3>4
    <3> QED
      BY <1>1, <1>6, <2>2, <3>2, <3>3, <3>5, WindowsKept
  <2> QED
    BY <1>6, <2>3, <2>4
<1>7. CASE WinDestroy(w)
  BY <1>6, <1>7 DEF WinDestroy
<1>8. CASE WebContentsClose(w)
  BY <1>6, <1>8 DEF WebContentsClose
<1>9. page[w] # "none" => life[w] # "unborn"
  BY DEF WindowsInv, PagesKnow
<1>10. CASE BeforeUnloadFired(w)
  BY <1>6, <1>9, <1>10 DEF BeforeUnloadFired
<1>11. CASE WebContentsDestroyed(w)
  BY <1>6, <1>9, <1>11 DEF WebContentsDestroyed
<1>12. CASE DestroyClosure(w)
  BY <1>6, <1>9, <1>12 DEF DestroyClosure
<1> QED
  BY <1>4, <1>5, <1>7, <1>8, <1>10, <1>11, <1>12 DEF PageTask

(* The answer of a dialog about leaving a page.                            *)
LEMMA DialogStep ==
    ASSUME TypeOK, TypeOK', WindowsInv,
           NEW prevented \in BOOLEAN, WillPreventUnloadReturns(prevented)
    PROVE  WindowsInv'
<1> USE DEF browser
<1>1. stack \in Seq(Frames) /\ stack # <<>> /\ Top.fn = "will-prevent-unload"
  BY DEF TypeOK, WillPreventUnloadReturns, At
<1>2. PICK w \in Windows : w = Top.win /\ life[w] # "unborn"
  BY <1>1, TopKnows DEF KnowsWindows, WindowCalls
<1>3. Replaces(Len(stack) - 1, {})
  BY <1>1, Replacements DEF WillPreventUnloadReturns
<1>4. Top.fn # "closed" /\ \A v : ~Destroys(Top, v) /\ ~Reaches(Top, v)
  BY <1>1 DEF Destroys, Reaches
<1>5. UNCHANGED <<windows, life, fresh, is_exiting>>
  BY DEF WillPreventUnloadReturns, WindowCloseCancelled
<1>6. Listed \subseteq Windows
  BY ListedWindows
<1>7. /\ \A v \in Windows : v # w => page'[v] = page[v]
      /\ \/ page'[w] = page[w] /\ UNCHANGED <<is_quitting, is_shutdown>>
         \/ page'[w] = "closing" /\ UNCHANGED <<is_quitting, is_shutdown>>
         \/ ~is_quitting'
  <2>1. CASE UNCHANGED <<browser, page>>
    BY <2>1
  <2>2. CASE page' = [page EXCEPT ![w] = "closing"] /\ UNCHANGED browser
    BY <2>2, PageOf
  <2>3. CASE page' = [page EXCEPT ![w] = "loaded"] /\ WindowCloseCancelled
    BY <2>3, PageOf DEF WindowCloseCancelled
  <2> QED
    BY <1>2, <2>1, <2>2, <2>3 DEF WillPreventUnloadReturns
<1>8. PagesKnow'
  BY <1>2, <1>5, <1>7 DEF WindowsInv, PagesKnow
<1>9. is_quitting' /\ ~is_shutdown' =>
        /\ is_quitting /\ ~is_shutdown
        /\ \A v \in Listed : page[v] \in Asked => page'[v] \in Asked
  BY <1>6, <1>7 DEF Asked
<1> QED
  BY <1>3, <1>4, <1>5, <1>8, <1>9, WindowsKept

(* A window that is told to close.                                         *)
LEMMA CloseStep ==
    ASSUME TypeOK, TypeOK', WindowsInv, Close
    PROVE  WindowsInv'
<1> USE DEF browser
<1>1. stack \in Seq(Frames) /\ stack # <<>> /\ Top.fn = "Close"
  BY DEF TypeOK, Close, At
<1>2. PICK w \in Windows : w = Top.win /\ life[w] # "unborn"
  BY <1>1, TopKnows DEF KnowsWindows, WindowCalls
<1>3. Top.fn # "closed" /\ (\A v : ~Destroys(Top, v)) /\ \A v : Reaches(Top, v) => v = w
  BY <1>1, <1>2 DEF Destroys, Reaches
<1>4. UNCHANGED <<windows, life, page, fresh, is_exiting>>
  BY DEF Close, WindowCloseCancelled
<1>5. PagesKnow'
  BY <1>4 DEF WindowsInv, PagesKnow
<1>6. CASE WindowCloseCancelled /\ Return
  <2>1. Replaces(Len(stack) - 1, {})
    BY <1>1, <1>6, Replacements
  <2>2. ~is_quitting'
    BY <1>6 DEF WindowCloseCancelled
  <2> QED
    BY <1>3, <1>4, <1>5, <2>1, <2>2, WindowsKept
<1>7. CASE Become(WindowFrame("close", w)) /\ UNCHANGED browser
  <2>1. PICK f \in Frames : f = WindowFrame("close", w)
    BY FrameType DEF Handlers
  <2>2. KnowsWindows(f) /\ f.fn # "closed"
    BY <1>2, <2>1, NewFramesKnow
  <2>3. Replaces(Len(stack) - 1, {f})
    BY <1>1, <1>7, <2>1, Replacements
  <2>4. Reaches(f, w)
    BY <2>1, WindowFrameReaches
  <2>5. \A v \in Listed : page[v] \in Asked \/ Reaches(Top, v) =>
          page'[v] \in Asked \/ Reaches(f, v)
    BY <1>3, <1>4, <2>4
  <2> QED
    BY <1>3, <1>4, <1>5, <1>7, <2>2, <2>3, <2>5, WindowsKept
<1> QED
  BY <1>2, <1>6, <1>7 DEF Close

(* The handlers of "close" return.                                         *)
LEMMA CloseReturnsStep ==
    ASSUME TypeOK, TypeOK', WindowsInv,
           NEW prevented \in BOOLEAN, CloseReturns(prevented)
    PROVE  WindowsInv'
<1> USE DEF browser
<1>1. stack \in Seq(Frames) /\ stack # <<>> /\ Top.fn = "close"
  BY DEF TypeOK, CloseReturns, At
<1>2. PICK w \in Windows : w = Top.win /\ life[w] # "unborn"
  BY <1>1, TopKnows DEF KnowsWindows, WindowCalls
<1>3. Top.fn # "closed" /\ (\A v : ~Destroys(Top, v)) /\ \A v : Reaches(Top, v) => v = w
  BY <1>1, <1>2 DEF Destroys, Reaches
<1>4. UNCHANGED <<windows, life, fresh, is_exiting>>
  BY DEF CloseReturns, WindowCloseCancelled
<1>5. Listed \subseteq Windows
  BY ListedWindows
<1>6. CASE WindowCloseCancelled /\ Return /\ UNCHANGED page
  <2>1. Replaces(Len(stack) - 1, {})
    BY <1>1, <1>6, Replacements
  <2>2. ~is_quitting' /\ PagesKnow'
    BY <1>4, <1>6 DEF WindowCloseCancelled, WindowsInv, PagesKnow
  <2> QED
    BY <1>3, <1>4, <2>1, <2>2, WindowsKept
<1>7. CASE Become(WindowFrame("CloseImmediately", w)) /\ UNCHANGED <<browser, page>>
  <2>1. PICK f \in Frames : f = WindowFrame("CloseImmediately", w)
    BY FrameType DEF Calls
  <2>2. KnowsWindows(f) /\ f.fn # "closed"
    BY <1>2, <2>1, NewFramesKnow
  <2>3. Replaces(Len(stack) - 1, {f})
    BY <1>1, <1>7, <2>1, Replacements
  <2>4. Reaches(f, w)
    BY <2>1, WindowFrameReaches
  <2>5. \A v \in Listed : page[v] \in Asked \/ Reaches(Top, v) =>
          page'[v] \in Asked \/ Reaches(f, v)
    BY <1>3, <1>7, <2>4
  <2>6. PagesKnow'
    BY <1>4, <1>7 DEF WindowsInv, PagesKnow
  <2> QED
    BY <1>3, <1>4, <1>7, <2>2, <2>3, <2>5, <2>6, WindowsKept
<1>8. ASSUME page[w] # "none", Return, UNCHANGED browser,
             NEW p \in Asked,
             page' = [page EXCEPT ![w] = IF page[w] = "loaded" THEN p ELSE @]
      PROVE  WindowsInv'
  <2>1. Replaces(Len(stack) - 1, {})
    BY <1>1, <1>8, Replacements
  <2>2. page[w] \in {"loaded", "asking", "closing"}
    BY <1>8 DEF TypeOK
  <2>3. page'[w] = (IF page[w] = "loaded" THEN p ELSE page[w])
        /\ \A v \in Windows : v # w => page'[v] = page[v]
    BY <1>8 DEF TypeOK
  <2>4. page'[w] \in Asked
    BY <2>2, <2>3 DEF Asked
  <2>5. \A v \in Listed : page[v] \in Asked \/ Reaches(Top, v) => page'[v] \in Asked
    BY <1>3, <1>5, <2>3, <2>4
  <2>6. PagesKnow'
    BY <1>2, <1>4, <2>3 DEF WindowsInv, PagesKnow
  <2> QED
    BY <1>3, <1>4, <1>8, <2>1, <2>5, <2>6, WindowsKept
<1>9. CASE prevented
  BY <1>6, <1>9 DEF CloseReturns
<1>10. CASE ~prevented /\ (page[w] = "none" \/ life[w] = "closed")
  BY <1>2, <1>7, <1>10 DEF CloseReturns
<1>11. CASE ~prevented /\ ~(page[w] = "none" \/ life[w] = "closed")
  <2>1. /\ Return
        /\ UNCHANGED browser
        /\ \E p \in Asked : page' = [page EXCEPT ![w] = IF page[w] = "loaded" THEN p ELSE @]
    BY <1>2, <1>11 DEF CloseReturns, Asked
  <2> QED
    BY <1>8, <1>11, <2>1
<1> QED
  BY <1>9, <1>10, <1>11

-----------------------------------------------------------------------------
(* The loops: the window at the head is passed to a call, or is closed.    *)
LEMMA LoopStep ==
    ASSUME TypeOK, TypeOK', WindowsInv, CloseAllWindows \/ DestroyAllWindows
    PROVE  WindowsInv'
<1> USE DEF browser
<1>1. PICK loop \in Loops, call \in {"Close", "CloseImmediately"} :
        /\ ForEachWindow(loop, call)
        /\ \/ loop = "CloseAllWindows" /\ call = "Close"
           \/ loop = "DestroyAllWindows" /\ call = "CloseImmediately"
  BY DEF CloseAllWindows, DestroyAllWindows, Loops
<1>2. stack \in Seq(Frames) /\ stack # <<>> /\ Top.fn = loop /\ loop # "closed"
  BY <1>1 DEF TypeOK, ForEachWindow, At, Loops
<1>3. KnowsWindows(Top) /\ Top \in Frames
  BY <1>2, TopKnows
<1>4. UNCHANGED <<windows, life, page, fresh, is_exiting, is_quitting, is_shutdown>>
  BY <1>1 DEF ForEachWindow
<1>5. PagesKnow'
  BY <1>4 DEF WindowsInv, PagesKnow
<1>6. PICK todo \in Seq(Windows) : todo = Top.todo
  BY <1>3 DEF Frames
<1>7. \A v : /\ Destroys(Top, v) => loop = "DestroyAllWindows" /\ \E k \in 1..Len(todo) : todo[k] = v
             /\ Reaches(Top, v) => \E k \in 1..Len(todo) : todo[k] = v
  BY <1>2, <1>6 DEF Destroys, Reaches, Loops
<1>8. CASE todo = <<>>
  <2>1. Return
    BY <1>1, <1>6, <1>8 DEF ForEachWindow
  <2>2. Replaces(Len(stack) - 1, {})
    BY <1>2, <2>1, Replacements
  <2>3. 1..Len(todo) = {}
    BY <1>8
  <2>4. \A v : ~Destroys(Top, v) /\ ~Reaches(Top, v)
    BY <1>7, <2>3
  <2> QED
    BY <1>2, <1>4, <1>5, <2>2, <2>4, WindowsKept
<1>9. CASE todo # <<>>
  <2>1. PICK w \in Windows, s \in Seq(Windows) : w = Head(todo) /\ s = Tail(todo)
    BY <1>9, HeadTailProperties
  <2>2. PICK f \in Frames : f = ListFrame(loop, s)
    BY FrameType DEF Calls, Loops
  <2>3. PICK g : g = WindowFrame(call, w)
    OBVIOUS
  <2>4. IF life[w] = "closed" THEN Replaces(Len(stack) - 1, {f})
                              ELSE Replaces(Len(stack) - 1, {f, g})
    BY <1>1, <1>2, <1>6, <1>9, <2>1, <2>2, <2>3, LoopReplacements DEF Loops
  <2>5. \A k \in 1..Len(todo) : todo[k] = w \/ \E j \in 1..Len(s) : s[j] = todo[k]
    <3>1. PICK n \in Nat : n = Len(todo)
      BY LenProperties
    <3>2. Len(s) = n - 1 /\ \A j \in 1..Len(s) : s[j] = todo[j + 1]
      BY <1>9, <2>1, <3>1, HeadTailProperties
    <3>3. todo[1] = w
      BY <1>9, <2>1, HeadIsElement
    <3>4. \A k \in 1..n : k = 1 \/ (k - 1 \in 1..(n - 1) /\ k - 1 + 1 = k)
      BY <3>1
    <3> QED
      BY <3>1, <3>2, <3>3, <3>4
  <2>6. \A k \in 1..Len(todo) : life[todo[k]] # "unborn"
    BY <1>3, <1>6 DEF KnowsWindows
  <2>7. life[w] # "unborn"
    BY <1>9, <2>1, <2>6, HeadIsElement
  <2>8. \A j \in 1..Len(s) : life[s[j]] # "unborn"
    BY <1>9, <2>1, <2>6, TailElements
  <2>9. KnowsWindows(f) /\ f.fn # "closed"
    BY <1>2, <2>2, <2>8, NewFramesKnow
  <2>10. KnowsWindows(g) /\ g.fn # "closed"
    BY <2>3, <2>7, NewFramesKnow
  <2>12. /\ call = "CloseImmediately" => Destroys(g, w)
         /\ Reaches(g, w)
    BY <1>1, <2>3, WindowFrameReaches
  <2>13. \A v : (\E j \in 1..Len(s) : s[j] = v) =>
           /\ loop = "DestroyAllWindows" => Destroys(f, v)
           /\ Reaches(f, v)
    BY <1>1, <2>2 DEF Destroys, Reaches, ListFrame
  <2>14. \A v : Destroys(Top, v) => v = w \/ Destroys(f, v)
    BY <1>7, <2>5, <2>13
  <2>15. \A v : Reaches(Top, v) => v = w \/ Reaches(f, v)
    BY <1>7, <2>5, <2>13
  <2>16. Destroys(Top, w) => Destroys(g, w)
    BY <1>1, <1>7, <2>12
  <2>17. CASE life[w] = "closed"
    <3>1. Replaces(Len(stack) - 1, {f})
      BY <2>4, <2>17
    <3> QED
      BY <1>2, <1>4, <1>5, <2>9, <2>14, <2>15, <2>17, <3>1, WindowsKept
  <2>18. CASE life[w] # "closed"
    <3>1. Replaces(Len(stack) - 1, {f, g})
      BY <2>4, <2>18
    <3>2. \A h \in {f, g} : KnowsWindows(h) /\ h.fn # "closed"
      BY <2>9, <2>10
    <3>3. \A v : Destroys(Top, v) => \E h \in {f, g} : Destroys(h, v)
      BY <2>14, <2>16
    <3>4. \A v : Reaches(Top, v) => \E h \in {f, g} : Reaches(h, v)
      BY <2>12, <2>15
    <3> QED
      BY <1>2, <1>4, <1>5, <3>1, <3>2, <3>3, <3>4, WindowsKept
  <2> QED
    BY <2>17, <2>18
<1> QED
  BY <1>8, <1>9

-----------------------------------------------------------------------------
(* A quit or an exit takes its snapshot of the list: every window of it is *)
(* in the new loop's hands.                                                *)
LEMMA SnapshotStep ==
    ASSUME TypeOK, TypeOK', WindowsInv,
           UNCHANGED <<windows, life, page>>,
           NEW m, NEW f, Replaces(m, {f}),
           m = Len(stack) - 1 => Top.fn \notin Owing,
           \/ windows = <<>> /\ f.fn \notin WindowCalls /\ f.todo = <<>>
           \/ windows # <<>> /\ f \in {ListFrame(loop, windows) : loop \in Loops},
           \/ UNCHANGED <<is_exiting, fresh>>
           \/ ~is_exiting'
           \/ windows = <<>>
           \/ f.fn = "DestroyAllWindows"
    PROVE  WindowsInv'
<1>1. stack \in Seq(Frames) /\ stack' \in Seq(Frames)
  BY DEF TypeOK
<1>2. Kept(m) /\ \A i : stack'[i] = f \/ i \notin (m + 1)..Len(stack')
  BY DEF Replaces
<1>3. \A i \in 1..Len(windows) : windows[i] \in Windows /\ life[windows[i]] # "unborn"
  <2>1. TAKE i \in 1..Len(windows)
  <2>2. windows[i] \in Windows /\ windows[i] \in Listed
    BY ElementOfSeq, ListedWindows DEF TypeOK
  <2>3. life[windows[i]] = "open" \/ Closing(windows[i])
    BY <2>2 DEF WindowsInv, ListedAre
  <2> QED
    BY <2>2, <2>3 DEF Closing, WindowsInv, FramesKnow, KnowsWindows
<1>4. KnowsWindows(f) /\ f.fn # "closed"
  <2>1. CASE windows = <<>> /\ f.fn \notin WindowCalls /\ f.todo = <<>>
    <3>1. 1..Len(f.todo) = {}
      BY <2>1
    <3> QED
      BY <2>1, <3>1 DEF KnowsWindows, WindowCalls
  <2>2. CASE windows # <<>> /\ f \in {ListFrame(loop, windows) : loop \in Loops}
    <3>1. PICK loop \in Loops : f = ListFrame(loop, windows)
      BY <2>2
    <3>2. loop # "closed"
      BY DEF Loops
    <3> QED
      BY <1>3, <3>1, <3>2, NewFramesKnow
  <2> QED
    BY <2>1, <2>2
<1>5. FramesKnow' /\ ClosedOnce' /\ NoDuplicates(windows)' /\ ListedAre'
  <2>1. m = Len(stack) - 1 => Top.fn # "closed"
    BY DEF Owing
  <2>2. \A i \in (m + 1)..Len(stack') : KnowsWindows(stack'[i]) /\ stack'[i].fn # "closed"
    BY <1>2, <1>4
  <2> QED
    BY <1>1, <1>2, <2>1, <2>2, ListStep DEF WindowsInv
<1>6. PagesKnow'
  BY DEF WindowsInv, PagesKnow
<1>7. Listed' = Listed
  BY DEF Listed
<1>8. PICK t \in 1..Len(stack') : stack'[t] = f
  BY <1>1, KeptFrames DEF Replaces
<1>9. \A w \in Listed : Reaches(f, w) /\ (f.fn = "DestroyAllWindows" => Destroys(f, w))
  <2> TAKE w \in Listed
  <2>1. PICK k \in 1..Len(windows) : windows[k] = w
    BY ListedWindows
  <2>2. windows # <<>>
    BY <2>1
  <2>3. PICK loop \in Loops : f = ListFrame(loop, windows)
    BY <2>2
  <2> QED
    BY <2>1, <2>3 DEF Loops, ListFrame, Destroys, Reaches
<1>10. QuitGoesOn'
  BY <1>7, <1>8, <1>9 DEF QuitGoesOn, Reaches, Destroys
<1>11. ExitGoesOn'
  <2>1. CASE UNCHANGED <<is_exiting, fresh>>
    <3>1. \A w : m = Len(stack) - 1 => ~Destroys(Top, w)
      BY DEF Owing, Destroys
    <3>2. m = Len(stack) - 1 => Top.fn # "closed"
      BY DEF Owing
    <3> QED
      BY <1>2, <2>1, <3>1, <3>2, ExitStep DEF WindowsInv
  <2>2. CASE ~is_exiting'
    BY <2>2 DEF ExitGoesOn
  <2>3. CASE windows = <<>>
    <3>1. 1..Len(windows) = {}
      BY <2>3
    <3>2. Listed = {}
      BY <3>1, ListedWindows
    <3> QED
      BY <1>7, <3>2 DEF ExitGoesOn
  <2>4. CASE f.fn = "DestroyAllWindows"
    BY <1>7, <1>8, <1>9, <2>4 DEF ExitGoesOn, Destroys
  <2> QED
    BY <2>1, <2>2, <2>3, <2>4
<1> QED
  BY <1>5, <1>6, <1>10, <1>11 DEF WindowsInv

LEMMA SnapshotSteps ==
    ASSUME TypeOK, TypeOK', WindowsInv, BeforeQuitReturns(FALSE) \/ ExitWithCode
    PROVE  WindowsInv'
<1>1. stack \in Seq(Frames) /\ windows \in Seq(Windows) /\ Len(stack) # Len(stack) - 1
  BY LenProperties DEF TypeOK
<1>2. ASSUME NEW fn \in {"NotifyAndShutdown", "Shutdown"}
      PROVE  /\ Frame(fn) \in Frames
             /\ Frame(fn).fn \notin WindowCalls
             /\ Frame(fn).todo = <<>>
  <2>1. Frame(fn) \in Frames /\ Frame(fn).fn = fn
    BY FrameType DEF Calls
  <2>2. Frame(fn).todo = <<>>
    BY DEF Frame
  <2> QED
    BY <2>1, <2>2 DEF WindowCalls
<1>3. \A loop \in Loops : /\ ListFrame(loop, windows) \in Frames
                          /\ ListFrame(loop, windows).fn = loop
  BY <1>1, FrameType DEF Loops, Calls
<1>4. CASE BeforeQuitReturns(FALSE)
  <2>1. PICK f : f = IF windows = <<>> THEN Frame("NotifyAndShutdown")
                                       ELSE ListFrame("CloseAllWindows", windows)
    OBVIOUS
  <2>2. f \in Frames
    BY <1>2, <1>3, <2>1 DEF Loops
  <2>3. stack # <<>> /\ Top.fn \notin Owing /\ Become(f)
    BY <1>4, <2>1 DEF BeforeQuitReturns, At, Owing
  <2>4. Replaces(Len(stack) - 1, {f})
    BY <1>1, <2>2, <2>3, Replacements
  <2>5. \/ windows = <<>> /\ f.fn \notin WindowCalls /\ f.todo = <<>>
        \/ windows # <<>> /\ f \in {ListFrame(loop, windows) : loop \in Loops}
    BY <1>2, <2>1 DEF Loops
  <2>6. /\ UNCHANGED <<windows, life, page>>
        /\ UNCHANGED <<is_exiting, fresh>> \/ ~is_exiting'
    BY <1>4 DEF BeforeQuitReturns, TypeOK
  <2> QED
    BY <2>3, <2>4, <2>5, <2>6, SnapshotStep
<1>5. CASE ExitWithCode
  <2>1. PICK f : f = IF windows = <<>> THEN Frame("Shutdown")
                                       ELSE ListFrame("DestroyAllWindows", windows)
    OBVIOUS
  <2>2. f \in Frames /\ (windows = <<>> \/ f.fn = "DestroyAllWindows")
    BY <1>2, <1>3, <2>1 DEF Loops
  <2>3. Push(f)
    BY <1>5, <2>1 DEF ExitWithCode
  <2>4. Replaces(Len(stack), {f})
    BY <1>1, <2>2, <2>3, Replacements
  <2>5. \/ windows = <<>> /\ f.fn \notin WindowCalls /\ f.todo = <<>>
        \/ windows # <<>> /\ f \in {ListFrame(loop, windows) : loop \in Loops}
    BY <1>2, <2>1 DEF Loops
  <2>6. UNCHANGED <<windows, life, page>>
    BY <1>5 DEF ExitWithCode
  <2> QED
    BY <1>1, <2>2, <2>4, <2>5, <2>6, SnapshotStep
<1> QED
  BY <1>4, <1>5

-----------------------------------------------------------------------------
(* A new window is listed, and nobody owes it anything.                    *)
LEMMA OpenStep ==
    ASSUME TypeOK, TypeOK', WindowsInv, NEW w \in Windows, OpenWindow(w)
    PROVE  WindowsInv'
<1>1. /\ life' = [life EXCEPT ![w] = "open"]
      /\ windows' = Append(windows, w)
      /\ fresh' = fresh \cup {w}
      /\ UNCHANGED <<stack, is_exiting, is_quitting, is_shutdown>>
      /\ life[w] = "unborn"
  BY DEF OpenWindow, browser
<1>2. windows \in Seq(Windows) /\ life \in [Windows -> {"unborn", "open", "closed"}]
  BY DEF TypeOK
<1>3. life'[w] = "open" /\ \A v : v # w => life'[v] = life[v]
  <2>1. \A v : v # w => life'[v] = life[v]
    <3>1. DOMAIN life = Windows /\ DOMAIN life' = Windows
      BY DEF TypeOK
    <3> QED
      BY <1>1, <1>2, <3>1
  <2> QED
    BY <1>1, <1>2, <2>1
<1>4. ~Closing(w)
  BY <1>1 DEF Closing, WindowsInv, FramesKnow, KnowsWindows
<1>5. w \notin Listed
  BY <1>1, <1>4 DEF WindowsInv, ListedAre
<1>6. /\ NoDuplicates(windows)'
      /\ \A v : v \in Listed' <=> v = w \/ v \in Listed
  <2>1. \A i \in 1..Len(windows) : windows[i] # w
    BY <1>5, ListedWindows
  <2>2. NoDuplicates(windows)
    BY DEF WindowsInv
  <2>3. /\ NoDuplicates(Append(windows, w))
        /\ Elements(Append(windows, w)) = Elements(windows) \cup {w}
    BY <1>2, <2>1, <2>2, AppendDistinct
  <2>4. DOMAIN windows = 1..Len(windows) /\ DOMAIN windows' = 1..Len(windows')
    BY <1>2, LenProperties DEF TypeOK
  <2>5. Listed = Elements(windows) /\ Listed' = Elements(windows')
    BY <2>4 DEF Listed, Elements
  <2> QED
    BY <1>1, <2>3, <2>4, <2>5 DEF NoDuplicates
<1>7. \A v : Closing(v)' <=> Closing(v)
  BY <1>1 DEF Closing
<1>8. FramesKnow'
  <2>1. \A i \in 1..Len(stack) : KnowsWindows(stack[i])
    BY DEF WindowsInv, FramesKnow
  <2>2. /\ \A v : life[v] # "unborn" => life'[v] # "unborn"
        /\ \A v : life[v] = "closed" => life'[v] = "closed"
    BY <1>1, <1>3
  <2>3. \A i \in 1..Len(stack) : KnowsWindows(stack[i])'
    BY <1>1, <2>1, <2>2 DEF KnowsWindows
  <2> QED
    BY <1>1, <2>3 DEF FramesKnow
<1>9. ClosedOnce'
  BY <1>1 DEF WindowsInv, ClosedOnce
<1>10. \A v \in Windows : v # w => page'[v] = page[v]
  BY DEF OpenWindow, TypeOK
<1>11. PagesKnow'
  BY <1>3, <1>10 DEF WindowsInv, PagesKnow
<1>12. ListedAre'
  BY <1>3, <1>4, <1>6, <1>7 DEF WindowsInv, ListedAre
<1>13. Listed \subseteq Windows
  BY ListedWindows
<1>14. \A v : v \in Listed' \ fresh' => v \in Listed \ fresh /\ page'[v] = page[v]
  BY <1>1, <1>6, <1>10, <1>13
<1>15. ExitGoesOn'
  BY <1>1, <1>14 DEF WindowsInv, ExitGoesOn, Destroys
<1>16. QuitGoesOn'
  BY <1>1, <1>14 DEF WindowsInv, QuitGoesOn, Reaches, Destroys
<1> QED
  BY <1>6, <1>8, <1>9, <1>11, <1>12, <1>15, <1>16 DEF WindowsInv

(* A window is destroyed: the handlers of "closed" begin, unless it was    *)
(* closed before.                                                          *)
LEMMA DestroyStep ==
    ASSUME TypeOK, TypeOK', WindowsInv, CloseImmediately
    PROVE  WindowsInv'
<1> USE DEF browser
<1>1. stack \in Seq(Frames) /\ stack # <<>> /\ Top.fn = "CloseImmediately"
  BY DEF TypeOK, CloseImmediately, At
<1>2. PICK w \in Windows : w = Top.win /\ life[w] # "unborn"
  BY <1>1, TopKnows DEF KnowsWindows, WindowCalls
<1>3. Top.fn # "closed" /\ \A v : Destroys(Top, v) \/ Reaches(Top, v) => v = w
  BY <1>1, <1>2 DEF Destroys, Reaches
<1>4. UNCHANGED <<windows, page, fresh, is_exiting, is_quitting, is_shutdown>>
  BY DEF CloseImmediately
<1>5. CASE life[w] = "closed"
  <2>1. Return /\ UNCHANGED life
    BY <1>2, <1>5 DEF CloseImmediately
  <2>2. Replaces(Len(stack) - 1, {})
    BY <1>1, <2>1, Replacements
  <2>3. PagesKnow'
    BY <1>4, <2>1 DEF WindowsInv, PagesKnow
  <2> QED
    BY <1>3, <1>4, <1>5, <2>1, <2>2, <2>3, WindowsKept
<1>6. CASE life[w] # "closed"
  <2>1. PICK g \in Frames : g = WindowFrame("closed", w)
    BY FrameType DEF Handlers
  <2>2. Become(g) /\ life' = [life EXCEPT ![w] = "closed"]
    BY <1>2, <1>6, <2>1 DEF CloseImmediately
  <2>3. life[w] = "open"
    BY <1>2, <1>6 DEF TypeOK
  <2>4. life'[w] = "closed" /\ \A v : v # w => life'[v] = life[v]
    <3>1. DOMAIN life = Windows /\ DOMAIN life' = Windows
      BY DEF TypeOK
    <3> QED
      BY <2>2, <3>1 DEF TypeOK
  <2>5. g.fn = "closed" /\ g.win = w /\ 1..Len(g.todo) = {}
    BY <2>1 DEF WindowFrame
  <2>6. PICK n \in Nat : n = Len(stack) /\ n >= 1 /\ Top = stack[n]
    BY <1>1, StackSteps DEF Top
  <2>7. /\ Len(stack') = n
        /\ stack'[n] = g
        /\ \A i \in 1..(n - 1) : stack'[i] = stack[i]
    BY <1>1, <2>2, <2>6, StackSteps
  <2>8. \A i \in 1..n : i = n \/ i \in 1..(n - 1)
    BY <2>6
  <2>9. n \in 1..n /\ \A i \in 1..(n - 1) : i \in 1..n
    BY <2>6
  <2>10. FramesKnow'
    <3>1. \A i \in 1..n : KnowsWindows(stack[i])
      BY <2>6 DEF WindowsInv, FramesKnow
    <3>2. KnowsWindows(stack[n])'
      BY <2>4, <2>5, <2>7 DEF KnowsWindows
    <3>3. \A i \in 1..(n - 1) : KnowsWindows(stack[i])'
      BY <2>4, <2>7, <2>9, <3>1 DEF KnowsWindows
    <3> QED
      BY <2>7, <2>8, <3>2, <3>3 DEF FramesKnow, KnowsWindows
  <2>11. ~Closing(w)
    BY <2>3 DEF Closing, WindowsInv, FramesKnow, KnowsWindows
  <2>12. \A i \in 1..n : ~(stack[i].fn = "closed" /\ stack[i].win = w)
    BY <2>6, <2>11 DEF Closing
  <2>13. ClosedOnce'
    <3>1. \A i, j \in 1..n :
            /\ stack[i].fn = "closed" /\ stack[j].fn = "closed"
            /\ stack[i].win = stack[j].win
            => i = j
      BY <2>6 DEF WindowsInv, ClosedOnce
    <3> QED
      BY <2>5, <2>7, <2>8, <2>9, <2>12, <3>1 DEF ClosedOnce
  <2>14. Closing(w)'
    BY <2>5, <2>7, <2>9 DEF Closing
  <2>15. \A v : v # w => (Closing(v)' <=> Closing(v))
    <3> SUFFICES ASSUME NEW v, v # w
                 PROVE  Closing(v)' <=> Closing(v)
      OBVIOUS
    <3>1. Closing(v)' => Closing(v)
      BY <2>5, <2>6, <2>7, <2>8, <2>9 DEF Closing
    <3>2. Closing(v) => Closing(v)'
      BY <1>3, <2>6, <2>7, <2>8, <2>9 DEF Closing
    <3> QED
      BY <3>1, <3>2
  <2>16. Listed' = Listed /\ NoDuplicates(windows)'
    BY <1>4 DEF Listed, WindowsInv, NoDuplicates
  <2>17. ListedAre'
    BY <2>3, <2>4, <2>14, <2>15, <2>16 DEF WindowsInv, ListedAre
  <2>18. PagesKnow'
    BY <1>4, <2>4 DEF WindowsInv, PagesKnow
  <2>19. Destroys(g, w) /\ Reaches(g, w)
    BY <2>5 DEF Destroys, Reaches
  <2>20. ASSUME NEW v, NEW i \in 1..n, Destroys(stack[i], v)
         PROVE  \E j \in 1..n : Destroys(stack'[j], v)
    BY <1>3, <2>6, <2>7, <2>8, <2>9, <2>19, <2>20
  <2>21. ASSUME NEW v, NEW i \in 1..n, Reaches(stack[i], v)
         PROVE  \E j \in 1..n : Reaches(stack'[j], v)
    BY <1>3, <2>6, <2>7, <2>8, <2>9, <2>19, <2>21
  <2>22. ExitGoesOn'
    <3> SUFFICES ASSUME is_exiting', NEW v \in Listed' \ fresh'
                 PROVE  \E j \in 1..n : Destroys(stack'[j], v)
      BY <2>7 DEF ExitGoesOn, Destroys
    <3>1. \E i \in 1..n : Destroys(stack[i], v)
      BY <1>4, <2>6, <2>16 DEF WindowsInv, ExitGoesOn
    <3> QED
      BY <2>20, <3>1
  <2>23. QuitGoesOn'
    <3> SUFFICES ASSUME is_quitting', ~is_shutdown', NEW v \in Listed' \ fresh'
                 PROVE  page'[v] \in Asked \/ \E j \in 1..n : Reaches(stack'[j], v)
      BY <2>7 DEF QuitGoesOn, Reaches, Destroys, Asked
    <3>1. page[v] \in Asked \/ \E i \in 1..n : Reaches(stack[i], v)
      BY <1>4, <2>6, <2>16 DEF WindowsInv, QuitGoesOn
    <3> QED
      BY <1>4, <2>21, <3>1
  <2> QED
    BY <2>10, <2>13, <2>16, <2>17, <2>18, <2>22, <2>23 DEF WindowsInv
<1> QED
  BY <1>5, <1>6

(* The handlers of "closed" return and the window leaves the list.         *)
LEMMA RemoveStep ==
    ASSUME TypeOK, TypeOK', WindowsInv, ClosedReturns
    PROVE  WindowsInv'
<1> USE DEF browser
<1>1. stack \in Seq(Frames) /\ stack # <<>> /\ Top.fn = "closed"
  BY DEF TypeOK, ClosedReturns, At
<1>2. PICK w \in Windows : w = Top.win /\ life[w] = "closed"
  BY <1>1, TopKnows DEF KnowsWindows, WindowCalls
<1>3. \A v : Destroys(Top, v) \/ Reaches(Top, v) => v = w
  BY <1>1, <1>2 DEF Destroys, Reaches
<1>4. UNCHANGED <<life, page, fresh, is_exiting, is_quitting, is_shutdown>>
  BY DEF ClosedReturns
<1>5. PICK n \in Nat : n = Len(stack) /\ n >= 1 /\ Top = stack[n] /\ n - 1 \in Nat
  BY <1>1, StackSteps DEF Top
<1>6. PICK F : Replaces(n - 1, F) /\ \A f \in F : KnowsWindows(f) /\ f.fn = "OnWindowAllClosed"
  <2>1. Frame("OnWindowAllClosed") \in Frames
    BY FrameType DEF Calls
  <2>2. /\ KnowsWindows(Frame("OnWindowAllClosed"))
        /\ Frame("OnWindowAllClosed").fn = "OnWindowAllClosed"
    BY NewFramesKnow DEF WindowCalls
  <2>3. Return \/ Become(Frame("OnWindowAllClosed"))
    BY DEF ClosedReturns
  <2>4. Replaces(n - 1, {}) \/ Replaces(n - 1, {Frame("OnWindowAllClosed")})
    BY <1>1, <1>5, <2>1, <2>3, Replacements
  <2> QED
    BY <2>2, <2>4
<1>7. stack' \in Seq(Frames) /\ Kept(n - 1)
  BY <1>6 DEF TypeOK, Replaces
<1>8. \A i \in (n - 1 + 1)..Len(stack') :
        KnowsWindows(stack'[i]) /\ stack'[i].fn = "OnWindowAllClosed"
  BY <1>6 DEF Replaces
<1>9. \A i \in 1..Len(stack') :
        \/ i \in 1..(n - 1) /\ i \in 1..n /\ stack'[i] = stack[i]
        \/ KnowsWindows(stack'[i]) /\ stack'[i].fn # "closed"
  BY <1>1, <1>5, <1>7, <1>8, KeptFrames
<1>10. \A i \in 1..n : \/ i \in 1..Len(stack') /\ stack'[i] = stack[i]
                       \/ i = n
  BY <1>1, <1>5, <1>7, KeptFrames
<1>11. n \in 1..n /\ \A i \in 1..(n - 1) : i # n
  BY <1>5
<1>12. FramesKnow'
  <2>1. \A i \in 1..Len(stack') : KnowsWindows(stack'[i])
    BY <1>5, <1>9 DEF WindowsInv, FramesKnow
  <2> QED
    BY <1>4, <2>1 DEF FramesKnow, KnowsWindows
<1>13. ClosedOnce'
  BY <1>5, <1>9 DEF WindowsInv, ClosedOnce
<1>14. ~Closing(w)'
  <2>1. \A i \in 1..n : stack[i].fn = "closed" /\ stack[i].win = w => i = n
    BY <1>1, <1>2, <1>5, <1>11 DEF WindowsInv, ClosedOnce
  <2> QED
    BY <1>9, <1>11, <2>1 DEF Closing
<1>15. \A v : v # w => (Closing(v)' <=> Closing(v))
  <2> SUFFICES ASSUME NEW v, v # w
               PROVE  Closing(v)' <=> Closing(v)
    OBVIOUS
  <2>1. Closing(v)' => Closing(v)
    BY <1>5, <1>9 DEF Closing
  <2>2. Closing(v) => Closing(v)'
    BY <1>2, <1>5, <1>10 DEF Closing
  <2> QED
    BY <2>1, <2>2
<1>16. /\ NoDuplicates(windows)'
       /\ \A v : v \in Listed' <=> v # w /\ v \in Listed
  <2>1. NoDuplicates(windows) /\ windows \in Seq(Windows) /\ windows' \in Seq(Windows)
    BY DEF WindowsInv, TypeOK
  <2>2. windows' = Erase(windows, w)
    BY <1>2 DEF ClosedReturns
  <2>3. NoDuplicates(Erase(windows, w))
    BY <2>1, EraseDistinct
  <2>4. Elements(Erase(windows, w)) = Elements(windows) \ {w}
    BY <2>1, EraseDistinct
  <2>5. DOMAIN windows = 1..Len(windows) /\ DOMAIN windows' = 1..Len(windows')
    BY <2>1, LenProperties
  <2>6. Listed = Elements(windows) /\ Listed' = Elements(windows')
    BY <2>5 DEF Listed, Elements
  <2> QED
    BY <2>2, <2>3, <2>4, <2>6 DEF NoDuplicates
<1>17. ListedAre'
  BY <1>2, <1>4, <1>14, <1>15, <1>16 DEF WindowsInv, ListedAre
<1>18. PagesKnow'
  BY <1>4 DEF WindowsInv, PagesKnow
<1>19. ExitGoesOn'
  <2> SUFFICES ASSUME is_exiting', NEW v \in Listed' \ fresh'
               PROVE  \E j \in 1..Len(stack') : Destroys(stack'[j], v)
    BY DEF ExitGoesOn, Destroys
  <2>1. v # w /\ \E i \in 1..n : Destroys(stack[i], v)
    BY <1>4, <1>5, <1>16 DEF WindowsInv, ExitGoesOn
  <2> QED
    BY <1>3, <1>5, <1>10, <2>1
<1>20. QuitGoesOn'
  <2> SUFFICES ASSUME is_quitting', ~is_shutdown', NEW v \in Listed' \ fresh'
               PROVE  page'[v] \in Asked \/ \E j \in 1..Len(stack') : Reaches(stack'[j], v)
    BY DEF QuitGoesOn, Reaches, Destroys, Asked
  <2>1. v # w /\ (page[v] \in Asked \/ \E i \in 1..n : Reaches(stack[i], v))
    BY <1>4, <1>5, <1>16 DEF WindowsInv, QuitGoesOn
  <2> QED
    BY <1>3, <1>4, <1>5, <1>10, <2>1
<1> QED
  BY <1>12, <1>13, <1>16, <1>17, <1>18, <1>19, <1>20 DEF WindowsInv

-----------------------------------------------------------------------------
LEMMA WindowsInit == Init => WindowsInv
<1> SUFFICES ASSUME Init
             PROVE  WindowsInv
  OBVIOUS
<1>1. 1..Len(stack) = {} /\ 1..Len(windows) = {}
  BY DEF Init
<1>2. DOMAIN windows = 1..Len(windows)
  BY EmptySeq, LenProperties DEF Init
<1>3. \A w \in Windows : life[w] = "unborn" /\ page[w] = "none"
  BY DEF Init
<1>4. FramesKnow /\ ClosedOnce /\ NoDuplicates(windows)
  BY <1>1 DEF FramesKnow, ClosedOnce, NoDuplicates
<1>5. Listed = {} /\ \A w : ~Closing(w)
  BY <1>1, <1>2 DEF Listed, Closing
<1>6. ~is_exiting /\ ~is_quitting
  BY DEF Init
<1> QED
  BY <1>3, <1>4, <1>5, <1>6 DEF WindowsInv, PagesKnow, ListedAre, ExitGoesOn, QuitGoesOn

LEMMA WindowsNext == TypeOK /\ WindowsInv /\ [Next]_vars => WindowsInv'
<1> SUFFICES ASSUME TypeOK, WindowsInv, [Next]_vars
             PROVE  WindowsInv'
  OBVIOUS
<1>1. TypeOK'
  BY TypeStep
<1>2. CASE UNCHANGED vars \/ Startup \/ MessageLoopQuits
  BY <1>1, <1>2, ProcessSteps
<1>3. CASE JavaScript
  <2>1. CASE ExitProcess
    BY <1>1, <2>1, ProcessSteps
  <2>2. CASE AppQuit
    BY <1>1, <2>2, QuitSteps
  <2>3. CASE ExitWithCode
    BY <1>1, <2>3, SnapshotSteps
  <2>4. ASSUME NEW w \in Windows, OpenWindow(w)
        PROVE  WindowsInv'
    BY <1>1, <2>4, OpenStep
  <2>5. ASSUME NEW w \in Windows, WinClose(w) \/ WinDestroy(w) \/ WebContentsClose(w)
        PROVE  WindowsInv'
    BY <1>1, <2>5, PageSteps
  <2> QED
    BY <1>3, <2>1, <2>2, <2>3, <2>4, <2>5 DEF JavaScript
<1>4. CASE Native
  <2>1. CASE Quit \/ NotifyAndShutdown \/ Shutdown \/ OnWindowAllClosed
    BY <1>1, <2>1, QuitSteps
  <2>2. CASE CloseAllWindows \/ DestroyAllWindows
    BY <1>1, <2>2, LoopStep
  <2>3. CASE Close
    BY <1>1, <2>3, CloseStep
  <2>4. CASE CloseImmediately
    BY <1>1, <2>4, DestroyStep
  <2> QED
    BY <1>4, <2>1, <2>2, <2>3, <2>4 DEF Native
<1>5. CASE HandlerReturns
  <2>1. ASSUME NEW prevented \in BOOLEAN, BeforeQuitReturns(prevented)
        PROVE  WindowsInv'
    <3>1. CASE prevented = TRUE
      BY <1>1, <2>1, <3>1, QuitSteps
    <3>2. CASE prevented = FALSE
      BY <1>1, <2>1, <3>2, SnapshotSteps
    <3> QED
      BY <3>1, <3>2
  <2>2. ASSUME NEW prevented \in BOOLEAN, WillQuitReturns(prevented)
        PROVE  WindowsInv'
    BY <1>1, <2>2, QuitSteps
  <2>3. ASSUME NEW prevented \in BOOLEAN, CloseReturns(prevented)
        PROVE  WindowsInv'
    BY <1>1, <2>3, CloseReturnsStep
  <2>4. ASSUME NEW prevented \in BOOLEAN, WillPreventUnloadReturns(prevented)
        PROVE  WindowsInv'
    BY <1>1, <2>4, DialogStep
  <2>5. CASE QuitReturns \/ WindowAllClosedReturns
    BY <1>1, <2>5, QuitSteps
  <2>6. CASE ClosedReturns
    BY <1>1, <2>6, RemoveStep
  <2> QED
    BY <1>5, <2>1, <2>2, <2>3, <2>4, <2>5, <2>6 DEF HandlerReturns
<1>6. ASSUME NEW w \in Windows, PageTask(w)
      PROVE  WindowsInv'
  BY <1>1, <1>6, PageSteps
<1> QED
  BY <1>2, <1>3, <1>4, <1>5, <1>6 DEF Next

LEMMA WindowsInductive == Spec => [](TypeOK /\ WindowsInv)
<1>1. Init => TypeOK /\ WindowsInv
  BY TypeInit, WindowsInit
<1>2. TypeOK /\ WindowsInv /\ [Next]_vars => (TypeOK /\ WindowsInv)'
  BY TypeStep, WindowsNext
<1> QED
  BY <1>1, <1>2, PTL DEF Spec

(* The window list holds each window from its opening until the handlers   *)
(* of its "closed" have returned, once.                                    *)
THEOREM ListIsExact == Spec => []WindowListExact
<1>1. TypeOK /\ WindowsInv => WindowListExact
  <2> SUFFICES ASSUME TypeOK, WindowsInv
               PROVE  WindowListExact
    OBVIOUS
  <2>1. Len(windows) = Cardinality({windows[i] : i \in DOMAIN windows})
    BY DistinctLength DEF TypeOK, WindowsInv
  <2>2. Len(windows) = Cardinality(Listed)
    BY <2>1, Zenon DEF Listed
  <2>3. DOMAIN stack = 1..Len(stack)
    BY LenProperties DEF TypeOK
  <2>4. \A w \in Windows : w \in Listed <=>
          \/ life[w] = "open"
          \/ \E i \in DOMAIN stack : stack[i].fn = "closed" /\ stack[i].win = w
    BY <2>3 DEF WindowsInv, ListedAre, Closing
  <2> QED
    BY <2>2, <2>4 DEF WindowListExact
<1> QED
  BY <1>1, WindowsInductive, PTL

(* app.exit() leaves none of the windows it found.                         *)
THEOREM ExitIsComplete == Spec => []ExitDestroysAll
<1>1. TypeOK /\ WindowsInv => ExitDestroysAll
  <2> SUFFICES ASSUME WindowsInv, stack = <<>>, is_exiting
               PROVE  Listed \subseteq fresh
    BY DEF ExitDestroysAll, Idle
  <2>1. 1..Len(stack) = {}
    OBVIOUS
  <2> QED
    BY <2>1 DEF WindowsInv, ExitGoesOn
<1> QED
  BY <1>1, WindowsInductive, PTL

(* A quit that returns without having been cancelled has asked everybody.  *)
THEOREM QuitAsksEverybody == Spec => []QuitReachesEveryWindow
<1>1. TypeOK /\ WindowsInv => QuitReachesEveryWindow
  <2> SUFFICES ASSUME WindowsInv, stack = <<>>, is_quitting, ~is_shutdown
               PROVE  \A w \in Listed \ fresh : page[w] \in {"asking", "closing"}
    BY DEF QuitReachesEveryWindow, Idle
  <2>1. 1..Len(stack) = {}
    OBVIOUS
  <2> QED
    BY <2>1 DEF WindowsInv, QuitGoesOn, Asked
<1> QED
  BY <1>1, WindowsInductive, PTL

=============================================================================
