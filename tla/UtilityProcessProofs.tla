------------------------- MODULE UtilityProcessProofs -------------------------
(***************************************************************************)
(* Theorems about UtilityProcess, for any messages and any number of them: *)
(* it implements ChildProcess, and the end of the child is never forgotten.*)
(***************************************************************************)
EXTENDS UtilityProcess, SequenceTheorems, TLAPS

-----------------------------------------------------------------------------
(* What a sequence of one element becomes.                                 *)
LEMMA AppendToOne ==
    ASSUME NEW S, NEW s \in Seq(S), NEW x \in S
    PROVE  \A u \in Seq(S) :
             Len(s) = 1 /\ Len(u) = 2 /\ u[1] = s[1] /\ u[2] = x => Append(s, x) = u
<1>1. /\ Append(s, x) \in Seq(S)
      /\ Len(Append(s, x)) = Len(s) + 1
      /\ Append(s, x)[Len(s) + 1] = x
      /\ \A i \in 1..Len(s) : Append(s, x)[i] = s[i]
  BY AppendProperties
<1>2. PICK t \in Seq(S) :
        /\ t = Append(s, x)
        /\ Len(t) = Len(s) + 1
        /\ t[Len(s) + 1] = x
        /\ \A i \in 1..Len(s) : t[i] = s[i]
  BY <1>1
<1> SUFFICES ASSUME NEW u \in Seq(S), Len(s) = 1, Len(u) = 2, u[1] = s[1], u[2] = x
             PROVE  t = u
  BY <1>2
<1>3. Len(t) = Len(u) /\ \A i \in 1..Len(t) : t[i] = u[i]
  BY <1>2
<1> QED
  BY <1>3, SeqEqual

(* The head of a queue is one of its elements.                             *)
LEMMA HeadIsElement ==
    ASSUME NEW S, NEW s \in Seq(S), s # <<>>
    PROVE  1 \in 1..Len(s) /\ Head(s) = s[1]
BY EmptySeq, LenProperties

(* What is put in front of a sequence.                                     *)
LEMMA ConcatOne ==
    ASSUME NEW S, NEW one \in Seq(S), NEW t \in Seq(S), Len(one) = 1
    PROVE  /\ one \o t \in Seq(S)
           /\ Len(one \o t) = 1 + Len(t)
           /\ (one \o t)[1] = one[1]
           /\ \A i \in 1..Len(t) : (one \o t)[i + 1] = t[i]
<1>1. Len(t) \in Nat
  BY LenProperties
<1>2. \A i \in 1..Len(t) : i + 1 \in 1..(1 + Len(t)) /\ ~(i + 1 <= 1) /\ i + 1 - 1 = i
  BY <1>1
<1>3. 1 \in 1..(1 + Len(t))
  BY <1>1
<1>4. /\ one \o t \in Seq(S)
      /\ Len(one \o t) = Len(one) + Len(t)
      /\ \A i \in 1..(Len(one) + Len(t)) :
           (one \o t)[i] = IF i <= Len(one) THEN one[i] ELSE t[i - Len(one)]
  BY ConcatProperties
<1> QED
  BY <1>1, <1>2, <1>3, <1>4

(* A sequence is its head followed by its tail.                            *)
LEMMA HeadThenTail ==
    ASSUME NEW S, NEW s \in Seq(S), s # <<>>, NEW one \in Seq(S),
           Len(one) = 1, one[1] = Head(s)
    PROVE  s = one \o Tail(s)
<1>1. PICK t \in Seq(S) : t = Tail(s)
  BY HeadTailProperties
<1>2. /\ Len(t) = Len(s) - 1
      /\ \A i \in 1..Len(t) : t[i] = s[i + 1]
  BY <1>1, HeadTailProperties
<1>3. Len(s) \in Nat /\ Len(s) # 0 /\ Head(s) = s[1]
  BY LenProperties, EmptySeq, HeadIsElement
<1>4. PICK u \in Seq(S) :
        /\ u = one \o t
        /\ Len(u) = 1 + Len(t)
        /\ u[1] = one[1]
        /\ \A i \in 1..Len(t) : u[i + 1] = t[i]
  <2>1. /\ one \o t \in Seq(S)
        /\ Len(one \o t) = 1 + Len(t)
        /\ (one \o t)[1] = one[1]
        /\ \A i \in 1..Len(t) : (one \o t)[i + 1] = t[i]
    BY ConcatOne
  <2> QED
    BY <2>1
<1>5. Len(u) = Len(s)
  BY <1>2, <1>3, <1>4
<1>6. ASSUME NEW i \in 1..Len(u) PROVE u[i] = s[i]
  <2>1. CASE i = 1
    BY <1>3, <1>4, <2>1
  <2>2. CASE i # 1
    <3>1. i - 1 \in 1..Len(t) /\ i - 1 + 1 = i
      BY <1>2, <1>3, <1>5, <1>6, <2>2
    <3> QED
      BY <1>2, <1>4, <3>1
  <2> QED
    BY <2>1, <2>2
<1>7. u = s
  BY <1>5, <1>6, SeqEqual
<1> QED
  BY <1>1, <1>4, <1>7

(* A message that enters a pipe: what was sent is still what was received  *)
(* and what is on its way.                                                 *)
LEMMA PipeSend ==
    ASSUME NEW S, NEW before \in Seq(S), NEW queue \in Seq(S), NEW m \in S
    PROVE  \A all : all = before \o queue => Append(all, m) = before \o Append(queue, m)
<1>1. <<m>> \in Seq(S) /\ before \o queue \in Seq(S)
  BY ConcatProperties
<1>2. /\ Append(before \o queue, m) = (before \o queue) \o <<m>>
      /\ Append(queue, m) = queue \o <<m>>
  BY <1>1, AppendIsConcat
<1>3. Append(before \o queue, m) = before \o Append(queue, m)
  BY <1>1, <1>2, ConcatAssociative
<1> QED
  BY <1>3, Zenon

(* A message that leaves the pipe is the next of those sent.               *)
LEMMA PipeReceive ==
    ASSUME NEW S, NEW before \in Seq(S), NEW queue \in Seq(S), queue # <<>>
    PROVE  /\ before \o queue = Append(before, Head(queue)) \o Tail(queue)
           /\ Len(before) < Len(before \o queue)
           /\ Head(queue) = (before \o queue)[Len(before) + 1]
<1>1. PICK t \in Seq(S) : t = Tail(queue)
  BY HeadTailProperties
<1>2. PICK h \in S : h = Head(queue)
  BY HeadTailProperties
<1>3. PICK one \in Seq(S) : one = <<h>> /\ Len(one) = 1 /\ one[1] = h
  <2>1. <<h>> \in Seq(S) /\ Len(<<h>>) = 1 /\ <<h>>[1] = h
    OBVIOUS
  <2> QED
    BY <2>1, Zenon
<1>4. queue = one \o t
  BY <1>1, <1>2, <1>3, HeadThenTail
<1>5. Append(before, h) = before \o one
  BY <1>3, AppendIsConcat
<1>6. before \o (one \o t) = (before \o one) \o t
  BY ConcatAssociative
<1>7. before \o queue = Append(before, h) \o t
  BY <1>4, <1>5, <1>6
<1>8. Len(queue) \in Nat /\ Len(before) \in Nat /\ Len(queue) # 0 /\ h = queue[1]
  BY <1>2, LenProperties, EmptySeq, HeadIsElement
<1>9. /\ Len(before \o queue) = Len(before) + Len(queue)
      /\ \A i \in 1..(Len(before) + Len(queue)) :
            (before \o queue)[i] = IF i <= Len(before) THEN before[i] ELSE queue[i - Len(before)]
  BY ConcatProperties
<1>10. Len(before) + 1 \in 1..(Len(before) + Len(queue)) /\ ~(Len(before) + 1 <= Len(before))
       /\ Len(before) + 1 - Len(before) = 1
  BY <1>8
<1>11. (before \o queue)[Len(before) + 1] = queue[1]
  BY <1>9, <1>10
<1>12. Len(before) < Len(before \o queue)
  BY <1>8, <1>9
<1> QED
  BY <1>1, <1>2, <1>7, <1>8, <1>11, <1>12

-----------------------------------------------------------------------------
Ended == child \in {"none", "exiting", "dead"}

(* How far the wrapper is, and what has been emitted by then.              *)
Progress ==
    /\ pid_ => ~terminated_
    /\ ~terminated_ => pc = "idle" /\ events = IF pid_ THEN <<"spawn">> ELSE <<>>
    /\ pc \in {"draining", "handling"} => events \in {<<>>, <<"spawn">>}
    /\ terminated_ /\ pc \notin {"draining", "handling"} =>
         \/ \E c \in Codes : events = <<c>>
         \/ \E c \in Codes : events = <<"spawn", c>>

(* The read end has an owner as soon as the launch or the end is known.    *)
StdioGiven == pid_ \/ Exited => stdio # "wrapper"

(* What was sent is what was emitted and what is in the pipe.              *)
InOrder ==
    /\ connector # "open" => toHost = <<>>
    /\ ~quitting => sent = got \o toHost

(* When the ends of the pipe are closed.                                   *)
Ports ==
    /\ ~quitting /\ connector # "open" => parent_port = "closed"
    /\ ~quitting /\ parent_port = "closed" => Ended
    /\ Ended => parent_port = "closed"
    /\ quitting /\ pc \in {"draining", "handling"} => connector # "open"
    /\ terminated_ /\ pc \notin {"draining", "handling"} => connector # "open"

(* What content still owes the wrapper, by the state of the process.       *)
Owed ==
    /\ child = "launching" => ~pid_ /\ ~launch_task /\ ~terminated_
    /\ child \in {"launching", "running"} /\ ~quitting => service = "open"
    /\ child \in {"running", "exiting"} => notice
    /\ launch_task \/ pid_ => notice
    /\ launch_task => ~pid_
    /\ child \in {"running", "exiting", "dead"} /\ ~terminated_ => launch_task \/ pid_
    /\ fail_task => Ended
    /\ ~quitting /\ service \notin {"open", "gone"} => Ended
    /\ ~quitting /\ terminated_ => Ended
    /\ reaped => child = "dead"

(* The last kill() failed only after waitpid.                              *)
Signals ==
    /\ signalled => killed_ \/ reaped
    /\ signalled /\ terminated_ /\ exit_code = "signal" => killed_
    /\ ~terminated_ => exit_code = "zero"

IInv ==
    /\ TypeOK
    /\ Progress
    /\ StdioGiven
    /\ InOrder
    /\ Ports
    /\ Owed
    /\ Signals
    /\ KilledIsGraceful
    /\ DeathWillBeReported

-----------------------------------------------------------------------------
(* The only lists of events there are.                                     *)
LEMMA EventLists ==
    /\ Append(<<>>, "spawn") = <<"spawn">>
    /\ \A c \in Codes : Append(<<>>, c) = <<c>> /\ Append(<<"spawn">>, c) = <<"spawn", c>>
    /\ <<>> \in Seq({"spawn"} \cup Codes) /\ <<"spawn">> \in Seq({"spawn"} \cup Codes)
    /\ \A c \in Codes : /\ <<c>> \in Seq({"spawn"} \cup Codes)
                         /\ <<"spawn", c>> \in Seq({"spawn"} \cup Codes)
<1>1. Append(<<>>, "spawn") = <<"spawn">>
  OBVIOUS
<1>2. ASSUME NEW c \in Codes
      PROVE  /\ Append(<<>>, c) = <<c>>
             /\ Append(<<"spawn">>, c) = <<"spawn", c>>
             /\ <<c>> \in Seq({"spawn"} \cup Codes)
             /\ <<"spawn", c>> \in Seq({"spawn"} \cup Codes)
  <2>1. Append(<<>>, c) = <<c>>
    OBVIOUS
  <2>3. <<c>> \in Seq({"spawn"} \cup Codes)
    OBVIOUS
  <2>4. <<"spawn", c>> \in Seq({"spawn"} \cup Codes)
    OBVIOUS
  <2>2. Append(<<"spawn">>, c) = <<"spawn", c>>
    <3>1. PICK s \in Seq({"spawn"} \cup Codes) : s = <<"spawn">> /\ Len(s) = 1 /\ s[1] = "spawn"
      <4>1. <<"spawn">> \in Seq({"spawn"} \cup Codes) /\ Len(<<"spawn">>) = 1
        OBVIOUS
      <4> QED
        BY <4>1
    <3>2. PICK u \in Seq({"spawn"} \cup Codes) :
            u = <<"spawn", c>> /\ Len(u) = 2 /\ u[1] = "spawn" /\ u[2] = c
      <4>1. Len(<<"spawn", c>>) = 2
        OBVIOUS
      <4> QED
        BY <2>4, <4>1
    <3>3. Append(s, c) = u
      BY <3>1, <3>2, AppendToOne
    <3> QED
      BY <3>1, <3>2, <3>3
  <2> QED
    BY <2>1, <2>2, <2>3, <2>4
<1>3. <<>> \in Seq({"spawn"} \cup Codes)
  OBVIOUS
<1>4. <<"spawn">> \in Seq({"spawn"} \cup Codes)
  OBVIOUS
<1> QED
  BY <1>1, <1>2, <1>3, <1>4

(* Which of them end in 'exit'.                                            *)
LEMMA EventEnds ==
    ASSUME NEW c \in Codes
    PROVE  /\ events \in {<<>>, <<"spawn">>} => ~Exited
           /\ events \in {<<c>>, <<"spawn", c>>} => Exited
<1>1. c # "spawn"
  BY DEF Codes, OwnCodes
<1>2. events = <<>> => ~Exited
  BY DEF Exited
<1>3. events = <<"spawn">> => ~Exited
  BY DEF Exited
<1>4. events = <<c>> => Exited
  BY <1>1 DEF Exited
<1>5. events = <<"spawn", c>> => Exited
  BY <1>1 DEF Exited
<1> QED
  BY <1>2, <1>3, <1>4, <1>5

(* Pipes and histories.                                                    *)
LEMMA PipesType == ASSUME QueuesOK, Next PROVE QueuesOK'
<1> USE DEF QueuesOK, wrapper, owed, os, pipe, history
<1>1. <<>> \in Seq(Messages)
  BY EmptySeq
<1>2. \A q \in Seq(Messages) : q # <<>> => Head(q) \in Messages /\ Tail(q) \in Seq(Messages)
  BY HeadTailProperties
<1>3. \A q \in Seq(Messages), m \in Messages : Append(q, m) \in Seq(Messages)
  BY AppendProperties
<1>4. CASE Browser
  BY <1>1, <1>2, <1>3, <1>4
     DEF Browser, OnServiceProcessLaunch, OnServiceProcessDisconnected,
         OnServiceProcessTerminated, LaunchFailed, PostMainMessageLoopRun, Shutdown,
         DispatchMessage, Accept, ConnectionError, CloseConnectorPort
<1>5. CASE Frames
  BY <1>1, <1>2, <1>3, <1>5
     DEF Frames, DispatchPending, Accept, HandlerReturns, EmitExit, ExitReturns,
         CloseConnectorPort
<1>6. CASE Application
  BY <1>3, <1>6 DEF Application, Kill, PostMessage, Send
<1>7. CASE System
  BY <1>1, <1>7 DEF System, Launches, LaunchFails, ProcessExit, ProcessEnds, Reap
<1>8. CASE ParentPort
  BY <1>2, <1>3, <1>8
     DEF ParentPort, ParentPortStart, ParentPortPause, ParentPortAccept,
         ParentPortError, ParentPortPostMessage
<1> QED
  BY <1>4, <1>5, <1>6, <1>7, <1>8 DEF Next

-----------------------------------------------------------------------------
LEMMA InitIInv == Init => IInv
<1> SUFFICES ASSUME Init PROVE IInv
  OBVIOUS
<1>1. <<>> \in Seq(Messages) /\ <<>> \in Seq({"spawn"} \cup Codes)
  BY EmptySeq
<1>2. <<>> \o <<>> = <<>>
  OBVIOUS
<1>3. TypeOK
  BY <1>1 DEF Init, TypeOK, ScalarsOK, QueuesOK, Codes, OwnCodes
<1>4. ~Exited
  BY DEF Init, Exited
<1>5. Progress /\ StdioGiven /\ Ports /\ Owed /\ Signals
  BY <1>4 DEF Init, Progress, StdioGiven, Ports, Owed, Signals, Ended
<1>6. InOrder
  BY <1>2 DEF Init, InOrder
<1>7. KilledIsGraceful /\ DeathWillBeReported
  BY DEF Init, KilledIsGraceful, DeathWillBeReported, OwnCodes
<1> QED
  BY <1>3, <1>5, <1>6, <1>7 DEF IInv

(* What every action does to the events, by the name of the action.        *)
LEMMA EventsGrow ==
    ASSUME IInv, Next
    PROVE  \/ UNCHANGED events
           \/ OnServiceProcessLaunch /\ ~terminated_ /\ events' = Append(events, "spawn")
           \/ EmitExit
<1> USE DEF wrapper, owed, os, pipe, history
<1>1. CASE Browser
  BY <1>1 DEF Browser, OnServiceProcessLaunch, OnServiceProcessDisconnected,
         OnServiceProcessTerminated, LaunchFailed, PostMainMessageLoopRun,
         DispatchMessage, ConnectionError
<1>2. CASE Frames
  BY <1>2 DEF Frames, DispatchPending, HandlerReturns, ExitReturns
<1>3. CASE Application
  BY <1>3 DEF Application, Kill, PostMessage
<1>4. CASE System
  BY <1>4 DEF System, Launches, LaunchFails, ProcessExit, ProcessEnds, Reap
<1>5. CASE ParentPort
  BY <1>5
     DEF ParentPort, ParentPortStart, ParentPortPause, ParentPortAccept,
         ParentPortError, ParentPortPostMessage
<1> QED
  BY <1>1, <1>2, <1>3, <1>4, <1>5 DEF Next

LEMMA TerminationType ==
    ASSUME ScalarsOK, NEW code \in Codes,
           \/ HandleTermination(code)
           \/ UNCHANGED <<terminated_, pid_, exit_code, pc>>
    PROVE  /\ terminated_' \in BOOLEAN /\ pid_' \in BOOLEAN
           /\ exit_code' \in Codes /\ pc' \in {"idle", "draining", "handling", "exiting"}
<1>1. CASE UNCHANGED <<terminated_, pid_, exit_code, pc>>
  BY <1>1 DEF ScalarsOK
<1>2. CASE HandleTermination(code) /\ terminated_
  BY <1>2 DEF ScalarsOK, HandleTermination
<1>3. CASE HandleTermination(code) /\ ~terminated_
  <2>1. terminated_' = TRUE /\ pid_' = FALSE /\ exit_code' = code /\ pc' = "draining"
    BY <1>3 DEF HandleTermination
  <2>2. terminated_' \in BOOLEAN /\ pid_' \in BOOLEAN
    BY <2>1, Zenon
  <2> QED
    BY <2>1, <2>2
<1> QED
  BY <1>1, <1>2, <1>3

LEMMA ScalarsStep == ASSUME ScalarsOK, Next PROVE ScalarsOK'
<1> USE DEF ScalarsOK, wrapper, owed, os, pipe, history
<1>0. /\ \A c \in OwnCodes : c \in Codes
      /\ "zero" \in Codes /\ "launch failure" \in Codes
      /\ "signal" \in Codes /\ "other" \in Codes
  BY DEF Codes, OwnCodes
<1>1. CASE Browser
  <2> HIDE DEF ScalarsOK
  <2>1. CASE OnServiceProcessLaunch
    <3>1. launch_task' \in BOOLEAN /\ pid_' \in BOOLEAN
      BY <2>1, Zenon DEF OnServiceProcessLaunch, ScalarsOK
    <3>2. stdio' \in {stdio, "JavaScript"} /\
          UNCHANGED <<terminated_, killed_, connector, pc, exit_code, handle, fail_task,
                      service, notice, os, pipe, quitting>>
      BY <2>1 DEF OnServiceProcessLaunch
    <3> QED
      BY <3>1, <3>2 DEF ScalarsOK
  <2>2. CASE OnServiceProcessDisconnected
    <3>1. PipeCode \in Codes \/ ~PipeCounts \/ service \notin OwnCodes \cup {"dropped"}
      BY <1>0 DEF PipeCode
    <3>2. service \in OwnCodes \cup {"dropped"} /\ service' = "gone" /\
          UNCHANGED <<killed_, connector, stdio, handle, fail_task, launch_task,
                      notice, os, pipe, quitting>>
      BY <2>2 DEF OnServiceProcessDisconnected, ScalarsOK
    <3>3. /\ terminated_' \in BOOLEAN /\ pid_' \in BOOLEAN
          /\ exit_code' \in Codes /\ pc' \in {"idle", "draining", "handling", "exiting"}
      BY <1>0, <2>2, <3>1, <3>2, TerminationType DEF OnServiceProcessDisconnected
    <3> QED
      BY <3>2, <3>3 DEF ScalarsOK
  <2>3. CASE OnServiceProcessTerminated
    <3>1. notice' \in BOOLEAN /\ reaped' \in BOOLEAN
      BY <2>3, Zenon DEF OnServiceProcessTerminated
    <3>2. UNCHANGED <<killed_, connector, stdio, handle, fail_task, launch_task,
                      service, child, status, signalled, pipe, quitting>>
      BY <2>3 DEF OnServiceProcessTerminated
    <3>3. status \in Codes
      BY DEF ScalarsOK
    <3>4. /\ terminated_' \in BOOLEAN /\ pid_' \in BOOLEAN
          /\ exit_code' \in Codes /\ pc' \in {"idle", "draining", "handling", "exiting"}
      BY <1>0, <2>3, <3>3, TerminationType DEF OnServiceProcessTerminated
    <3> QED
      BY <3>1, <3>2, <3>4 DEF ScalarsOK
  <2>4. CASE LaunchFailed
    <3>1. fail_task' \in BOOLEAN
      BY <2>4, Zenon DEF LaunchFailed
    <3>2. UNCHANGED <<killed_, connector, stdio, handle, launch_task, service,
                      notice, os, pipe, quitting>>
      BY <2>4 DEF LaunchFailed
    <3>3. /\ terminated_' \in BOOLEAN /\ pid_' \in BOOLEAN
          /\ exit_code' \in Codes /\ pc' \in {"idle", "draining", "handling", "exiting"}
      BY <1>0, <2>4, TerminationType DEF LaunchFailed
    <3> QED
      BY <3>1, <3>2, <3>3 DEF ScalarsOK
  <2>5. CASE PostMainMessageLoopRun
    <3>1. quitting' \in BOOLEAN
      BY <2>5, Zenon DEF PostMainMessageLoopRun
    <3>2. UNCHANGED <<killed_, stdio, handle, fail_task, launch_task, notice, os,
                      parent_port>>
      BY <2>5 DEF PostMainMessageLoopRun
    <3>3. service' \in {"gone", service} /\ connector' \in {"closed", connector}
      BY <2>5 DEF PostMainMessageLoopRun, Shutdown, CloseConnectorPort
    <3>4. /\ terminated_' \in BOOLEAN /\ pid_' \in BOOLEAN
          /\ exit_code' \in Codes /\ pc' \in {"idle", "draining", "handling", "exiting"}
      BY <1>0, <2>5, TerminationType DEF PostMainMessageLoopRun, Shutdown
    <3> QED
      BY <3>1, <3>2, <3>3, <3>4 DEF ScalarsOK
  <2>6. CASE DispatchMessage
    BY <2>6 DEF DispatchMessage, ScalarsOK
  <2>7. CASE ConnectionError
    BY <2>7 DEF ConnectionError, CloseConnectorPort, ScalarsOK
  <2> QED
    BY <1>1, <2>1, <2>2, <2>3, <2>4, <2>5, <2>6, <2>7 DEF Browser
<1>2. CASE DispatchPending
  BY <1>2 DEF DispatchPending
<1>3. CASE HandlerReturns
  BY <1>3 DEF HandlerReturns
<1>4. CASE EmitExit
  BY <1>4 DEF EmitExit, CloseConnectorPort, CloseStdioReadFds
<1>5. CASE ExitReturns
  <2>1. handle' \in BOOLEAN
    BY <1>5, Zenon DEF ExitReturns
  <2>2. pc' = "idle" /\ UNCHANGED <<terminated_, pid_, killed_, connector, stdio,
                                   exit_code, owed, os, pipe, history, quitting>>
    BY <1>5 DEF ExitReturns
  <2> QED
    BY <2>1, <2>2
<1>6. CASE Kill
  <2>1. killed_' \in BOOLEAN /\ reaped' \in BOOLEAN /\ signalled' \in BOOLEAN
    BY <1>6, Zenon DEF Kill
  <2>2. UNCHANGED <<terminated_, pid_, connector, stdio, pc, exit_code, handle,
                    owed, child, status, pipe, history, quitting>>
    BY <1>6 DEF Kill
  <2> QED
    BY <2>1, <2>2
<1>7. ASSUME NEW m \in Messages, PostMessage(m) PROVE ScalarsOK'
  BY <1>7 DEF PostMessage
<1>8. CASE System
  <2>1. CASE Launches
    BY <2>1 DEF Launches
  <2>2. CASE LaunchFails
    BY <2>2 DEF LaunchFails
  <2>3. CASE ProcessExit
    <3>1. status' \in Codes /\ service' \in {service} \cup OwnCodes
      BY <1>0, <2>3 DEF ProcessExit
    <3>2. UNCHANGED <<wrapper, fail_task, launch_task, notice, reaped, signalled, quitting>>
          /\ child' = "exiting" /\ parent_port' = "closed"
      BY <2>3 DEF ProcessExit
    <3> QED
      BY <3>1, <3>2
  <2>4. CASE ProcessEnds
    <3>1. status' \in Codes
      BY <1>0, <2>4 DEF ProcessEnds
    <3>2. UNCHANGED <<wrapper, fail_task, launch_task, notice, reaped, signalled, quitting>>
          /\ child' = "dead" /\ parent_port' = "closed" /\ service' \in {service, "dropped"}
      BY <2>4 DEF ProcessEnds
    <3> QED
      BY <3>1, <3>2
  <2>5. CASE Reap
    BY <2>5 DEF Reap
  <2> HIDE DEF ScalarsOK
  <2> QED
    BY <1>8, <2>1, <2>2, <2>3, <2>4, <2>5 DEF System
<1>9. CASE ParentPortStart
  BY <1>9 DEF ParentPortStart
<1>10. CASE ParentPortPause
  BY <1>10 DEF ParentPortPause
<1>11. CASE ParentPortAccept
  BY <1>11 DEF ParentPortAccept
<1>12. CASE ParentPortError
  BY <1>12 DEF ParentPortError
<1>13. ASSUME NEW m \in Messages, ParentPortPostMessage(m) PROVE ScalarsOK'
  BY <1>13 DEF ParentPortPostMessage
<1> HIDE DEF ScalarsOK
<1> QED
  BY <1>1, <1>2, <1>3, <1>4, <1>5, <1>6, <1>7, <1>8, <1>9, <1>10, <1>11, <1>12, <1>13
     DEF Next, Frames, Application, ParentPort

LEMMA TypeStep == ASSUME IInv, Next PROVE TypeOK'
<1>1. ScalarsOK /\ QueuesOK /\ events \in Seq({"spawn"} \cup Codes)
  BY DEF IInv, TypeOK
<1>2. events' \in Seq({"spawn"} \cup Codes)
  <2>1. ReportedCode \in Codes
    BY <1>1 DEF ScalarsOK, ReportedCode, Codes, OwnCodes
  <2>2. \A s \in Seq({"spawn"} \cup Codes), e \in {"spawn"} \cup Codes :
          Append(s, e) \in Seq({"spawn"} \cup Codes)
    BY AppendProperties
  <2> QED
    BY <1>1, <2>1, <2>2, EventsGrow DEF EmitExit
<1>3. QueuesOK'
  BY <1>1, PipesType
<1>4. ScalarsOK'
  BY <1>1, ScalarsStep
<1> QED
  BY <1>2, <1>3, <1>4 DEF TypeOK

(* Owed, Signals and DeathWillBeReported speak of no sequence.             *)
LEMMA OwedStep == ASSUME IInv, Next PROVE Owed'
<1> USE DEF IInv, Owed, Progress, Ended, TypeOK, ScalarsOK, wrapper, owed, os, pipe, history
<1>1. CASE Browser
  <2>1. CASE OnServiceProcessLaunch
    BY <2>1
       DEF OnServiceProcessLaunch, Task
  <2>2. CASE OnServiceProcessDisconnected
    BY <2>2
       DEF OnServiceProcessDisconnected, Task, PipeCounts, PipeCode, HandleTermination
  <2>3. CASE OnServiceProcessTerminated
    BY <2>3
       DEF OnServiceProcessTerminated, Task, Observes, HandleTermination
  <2>4. CASE LaunchFailed
    BY <2>4
       DEF LaunchFailed, Task, HandleTermination
  <2>5. CASE PostMainMessageLoopRun
    BY <2>5
       DEF PostMainMessageLoopRun, Task, Shutdown, CloseConnectorPort, HandleTermination
  <2>6. CASE DispatchMessage \/ ConnectionError
    BY <2>6
       DEF DispatchMessage, ConnectionError, Accept, CloseConnectorPort, Task
  <2> QED
    BY <1>1, <2>1, <2>2, <2>3, <2>4, <2>5, <2>6 DEF Browser
<1>2. CASE Frames
  BY <1>2 DEF Frames, DispatchPending, HandlerReturns, EmitExit, ExitReturns
<1>3. CASE Application
  BY <1>3 DEF Application, Kill, PostMessage
<1>4. CASE System
  BY <1>4 DEF System, Launches, LaunchFails, ProcessExit, ProcessEnds, Reap, OwnCodes
<1>5. CASE ParentPort
  BY <1>5
     DEF ParentPort, ParentPortStart, ParentPortPause, ParentPortAccept,
         ParentPortError, ParentPortPostMessage
<1> QED
  BY <1>1, <1>2, <1>3, <1>4, <1>5 DEF Next

LEMMA SignalsStep == ASSUME IInv, Next PROVE Signals'
<1> USE DEF IInv, Owed, Signals, Progress, Ended, TypeOK, ScalarsOK, wrapper, owed, os, pipe, history
<1>1. CASE Browser
  <2>1. CASE OnServiceProcessLaunch
    BY <2>1
       DEF Codes, OwnCodes, OnServiceProcessLaunch, Task
  <2>2. CASE OnServiceProcessDisconnected
    BY <2>2
       DEF Codes, OwnCodes, OnServiceProcessDisconnected, Task, PipeCounts, PipeCode, HandleTermination
  <2>3. CASE OnServiceProcessTerminated
    BY <2>3
       DEF Codes, OwnCodes, OnServiceProcessTerminated, Task, Observes, HandleTermination
  <2>4. CASE LaunchFailed
    BY <2>4
       DEF Codes, OwnCodes, LaunchFailed, Task, HandleTermination
  <2>5. CASE PostMainMessageLoopRun
    BY <2>5
       DEF Codes, OwnCodes, PostMainMessageLoopRun, Task, Shutdown, CloseConnectorPort, HandleTermination
  <2>6. CASE DispatchMessage \/ ConnectionError
    BY <2>6
       DEF DispatchMessage, ConnectionError, Accept, CloseConnectorPort, Task
  <2> QED
    BY <1>1, <2>1, <2>2, <2>3, <2>4, <2>5, <2>6 DEF Browser
<1>2. CASE Frames
  BY <1>2 DEF Frames, DispatchPending, HandlerReturns, EmitExit, ExitReturns
<1>3. CASE Application
  BY <1>3 DEF Application, Kill, PostMessage
<1>4. CASE System
  BY <1>4 DEF System, Launches, LaunchFails, ProcessExit, ProcessEnds, Reap, OwnCodes
<1>5. CASE ParentPort
  BY <1>5
     DEF ParentPort, ParentPortStart, ParentPortPause, ParentPortAccept,
         ParentPortError, ParentPortPostMessage
<1> QED
  BY <1>1, <1>2, <1>3, <1>4, <1>5 DEF Next

LEMMA DeathStep == ASSUME IInv, Next PROVE DeathWillBeReported'
<1> USE DEF IInv, Owed, DeathWillBeReported, Progress, Ended, TypeOK, ScalarsOK,
            wrapper, owed, os, pipe, history
<1>1. CASE Browser
  <2>1. CASE OnServiceProcessLaunch
    BY <2>1
       DEF Codes, OwnCodes, OnServiceProcessLaunch, Task
  <2>2. CASE OnServiceProcessDisconnected
    BY <2>2
       DEF Codes, OwnCodes, OnServiceProcessDisconnected, Task, PipeCounts, PipeCode, HandleTermination
  <2>3. CASE OnServiceProcessTerminated
    BY <2>3
       DEF Codes, OwnCodes, OnServiceProcessTerminated, Task, Observes, HandleTermination
  <2>4. CASE LaunchFailed
    BY <2>4
       DEF Codes, OwnCodes, LaunchFailed, Task, HandleTermination
  <2>5. CASE PostMainMessageLoopRun
    BY <2>5
       DEF Codes, OwnCodes, PostMainMessageLoopRun, Task, Shutdown, CloseConnectorPort, HandleTermination
  <2>6. CASE DispatchMessage \/ ConnectionError
    BY <2>6
       DEF DispatchMessage, ConnectionError, Accept, CloseConnectorPort, Task
  <2> QED
    BY <1>1, <2>1, <2>2, <2>3, <2>4, <2>5, <2>6 DEF Browser
<1>2. CASE Frames
  BY <1>2 DEF Frames, DispatchPending, HandlerReturns, EmitExit, ExitReturns
<1>3. CASE Application
  BY <1>3 DEF Application, Kill, PostMessage
<1>4. CASE System
  BY <1>4 DEF System, Launches, LaunchFails, ProcessExit, ProcessEnds, Reap, OwnCodes
<1>5. CASE ParentPort
  BY <1>5
     DEF ParentPort, ParentPortStart, ParentPortPause, ParentPortAccept,
         ParentPortError, ParentPortPostMessage
<1> QED
  BY <1>1, <1>2, <1>3, <1>4, <1>5 DEF Next

(* A step reports the launch, emits 'exit', begins HandleTermination, or   *)
(* goes on with what the wrapper is doing.                                 *)
Begins ==
    /\ ~terminated_
    /\ terminated_'
    /\ ~pid_'
    /\ pc' = "draining"
    /\ UNCHANGED <<events, stdio>>

GoesOn ==
    /\ UNCHANGED <<terminated_, pid_, events, stdio>>
    /\ \/ pc' = pc
       \/ pc \in {"draining", "handling"} /\ pc' \in {"draining", "handling"}
       \/ pc = "exiting" /\ pc' = "idle"

LEMMA StepKinds ==
    ASSUME IInv, Next
    PROVE  \/ OnServiceProcessLaunch /\ ~terminated_
           \/ EmitExit
           \/ Begins
           \/ GoesOn
<1> USE DEF wrapper, owed, os, pipe, history
<1>1. CASE OnServiceProcessLaunch
  BY <1>1 DEF OnServiceProcessLaunch, GoesOn
<1>2. CASE OnServiceProcessDisconnected
  BY <1>2 DEF OnServiceProcessDisconnected, HandleTermination, Begins, GoesOn
<1>3. CASE OnServiceProcessTerminated
  BY <1>3 DEF OnServiceProcessTerminated, HandleTermination, Begins, GoesOn
<1>4. CASE LaunchFailed
  BY <1>4 DEF LaunchFailed, HandleTermination, Begins, GoesOn
<1>5. CASE PostMainMessageLoopRun
  BY <1>5 DEF PostMainMessageLoopRun, Shutdown, HandleTermination, Begins, GoesOn
<1>6. CASE DispatchMessage \/ ConnectionError
  BY <1>6 DEF DispatchMessage, ConnectionError, GoesOn
<1>7. CASE Frames
  BY <1>7 DEF Frames, DispatchPending, HandlerReturns, ExitReturns, GoesOn
<1>8. CASE Application
  BY <1>8 DEF Application, Kill, PostMessage, GoesOn
<1>9. CASE System
  BY <1>9 DEF System, Launches, LaunchFails, ProcessExit, ProcessEnds, Reap, GoesOn
<1>10. CASE ParentPort
  BY <1>10
     DEF ParentPort, ParentPortStart, ParentPortPause, ParentPortAccept,
         ParentPortError, ParentPortPostMessage, GoesOn
<1> QED
  BY <1>1, <1>2, <1>3, <1>4, <1>5, <1>6, <1>7, <1>8, <1>9, <1>10 DEF Next, Browser

LEMMA ProgressStep == ASSUME IInv, Next PROVE Progress'
<1>1. Progress
  BY DEF IInv
<1>2. CASE OnServiceProcessLaunch /\ ~terminated_
  <2>1. ~pid_
    BY <1>2 DEF OnServiceProcessLaunch, IInv, Owed
  <2>2. events = <<>>
    BY <1>1, <1>2, <2>1 DEF Progress
  <2>3. events' = <<"spawn">>
    BY <1>2, <2>2, EventLists DEF OnServiceProcessLaunch
  <2>4. pid_' /\ ~terminated_' /\ pc' = "idle"
    BY <1>2 DEF OnServiceProcessLaunch, Task
  <2> QED
    BY <2>3, <2>4 DEF Progress
<1>3. CASE EmitExit
  <2>1. pc = "draining" /\ events \in {<<>>, <<"spawn">>} /\ terminated_ /\ ~pid_
    BY <1>1, <1>3 DEF EmitExit, Progress
  <2>2. ReportedCode \in Codes
    BY DEF IInv, TypeOK, ScalarsOK, ReportedCode, Codes, OwnCodes
  <2>3. events' = <<ReportedCode>> \/ events' = <<"spawn", ReportedCode>>
    BY <1>3, <2>1, <2>2, EventLists DEF EmitExit
  <2>4. terminated_' /\ ~pid_' /\ pc' = "exiting"
    BY <1>3, <2>1 DEF EmitExit
  <2> QED
    BY <2>2, <2>3, <2>4 DEF Progress
<1>4. CASE Begins
  BY <1>1, <1>4 DEF Progress, Begins
<1>5. CASE GoesOn
  BY <1>1, <1>5 DEF Progress, GoesOn
<1> QED
  BY <1>2, <1>3, <1>4, <1>5, StepKinds

(* 'exit' has been emitted exactly when HandleTermination is that far.     *)
LEMMA ExitedWhen == Progress => (Exited <=> terminated_ /\ pc \notin {"draining", "handling"})
<1> SUFFICES ASSUME Progress
             PROVE  Exited <=> terminated_ /\ pc \notin {"draining", "handling"}
  OBVIOUS
<1>1. CASE ~terminated_ \/ pc \in {"draining", "handling"}
  <2>1. events \in {<<>>, <<"spawn">>}
    BY <1>1 DEF Progress
  <2>2. "zero" \in Codes
    BY DEF Codes, OwnCodes
  <2> QED
    BY <1>1, <2>1, <2>2, EventEnds
<1>2. CASE terminated_ /\ pc \notin {"draining", "handling"}
  <2>1. PICK c \in Codes : events = <<c>> \/ events = <<"spawn", c>>
    BY <1>2 DEF Progress
  <2> QED
    BY <1>2, <2>1, EventEnds
<1> QED
  BY <1>1, <1>2

LEMMA StdioStep == ASSUME IInv, Next PROVE StdioGiven'
<1>1. StdioGiven /\ Progress
  BY DEF IInv
<1>2. Progress'
  BY ProgressStep
<1>3. Exited <=> terminated_ /\ pc \notin {"draining", "handling"}
  BY <1>1, ExitedWhen
<1>4. Exited' <=> terminated_' /\ pc' \notin {"draining", "handling"}
  <2>1. (Progress => (Exited <=> terminated_ /\ pc \notin {"draining", "handling"}))'
    BY ExitedWhen, PTL
  <2> QED
    BY <1>2, <2>1
<1>5. CASE OnServiceProcessLaunch /\ ~terminated_
  BY <1>5 DEF OnServiceProcessLaunch, StdioGiven
<1>6. CASE EmitExit
  BY <1>6 DEF EmitExit, CloseStdioReadFds, StdioGiven
<1>7. CASE Begins
  BY <1>4, <1>7 DEF Begins, StdioGiven
<1>8. CASE GoesOn
  BY <1>1, <1>3, <1>4, <1>8 DEF GoesOn, StdioGiven, Progress
<1> QED
  BY <1>5, <1>6, <1>7, <1>8, StepKinds

LEMMA PortsStep == ASSUME IInv, Next PROVE Ports'
<1> USE DEF IInv, Owed, Ports, Progress, Ended, TypeOK, ScalarsOK,
            wrapper, owed, os, pipe, history
<1>1. CASE OnServiceProcessLaunch
  BY <1>1 DEF OnServiceProcessLaunch, Task
<1>2. CASE OnServiceProcessDisconnected
  BY <1>2 DEF OnServiceProcessDisconnected, HandleTermination, Task
<1>3. CASE OnServiceProcessTerminated
  BY <1>3 DEF OnServiceProcessTerminated, HandleTermination, Task
<1>4. CASE LaunchFailed
  BY <1>4 DEF LaunchFailed, HandleTermination, Task
<1>5. CASE PostMainMessageLoopRun
  BY <1>5 DEF PostMainMessageLoopRun, Shutdown, CloseConnectorPort, HandleTermination, Task
<1>6. CASE DispatchMessage \/ ConnectionError
  BY <1>6 DEF DispatchMessage, ConnectionError, CloseConnectorPort, Accept, Task
<1>7. CASE Frames
  <2>1. CASE DispatchPending
    BY <2>1 DEF DispatchPending, Accept
  <2>2. CASE HandlerReturns
    <3>1. pc = "handling" /\ pc' = "draining"
          /\ UNCHANGED <<terminated_, connector, child, parent_port, quitting>>
      BY <2>2 DEF HandlerReturns
    <3> QED
      BY <3>1
  <2>3. CASE EmitExit
    BY <2>3 DEF EmitExit, CloseConnectorPort
  <2>4. CASE ExitReturns
    BY <2>4 DEF ExitReturns
  <2> QED
    BY <1>7, <2>1, <2>2, <2>3, <2>4 DEF Frames
<1>8. CASE Application
  BY <1>8 DEF Application, Kill, PostMessage
<1>9. CASE System
  BY <1>9 DEF System, Launches, LaunchFails, ProcessExit, ProcessEnds, Reap
<1>10. CASE ParentPort
  BY <1>10
     DEF ParentPort, ParentPortStart, ParentPortPause, ParentPortAccept,
         ParentPortError, ParentPortPostMessage
<1> QED
  BY <1>1, <1>2, <1>3, <1>4, <1>5, <1>6, <1>7, <1>8, <1>9, <1>10 DEF Next, Browser

(* What a step does to the pipe from the child.                            *)
Sends(m) ==
    /\ sent' = Append(sent, m)
    /\ toHost' = IF connector = "open" THEN Append(toHost, m) ELSE toHost
    /\ UNCHANGED <<got, connector>>
    /\ quitting => quitting'

LEMMA PipeKinds ==
    ASSUME IInv, Next
    PROVE  \/ \E m \in Messages : ParentPortPostMessage(m) /\ Sends(m)
           \/ Accept /\ UNCHANGED <<sent, connector, quitting>>
           \/ CloseConnectorPort /\ UNCHANGED <<sent, got>>
              /\ (quitting' \/ NothingPending) /\ (quitting => quitting')
           \/ UNCHANGED <<sent, got, toHost, connector>> /\ (quitting => quitting')
<1> USE DEF wrapper, owed, os, pipe, history
<1>1. CASE OnServiceProcessLaunch
  BY <1>1 DEF OnServiceProcessLaunch
<1>2. CASE OnServiceProcessDisconnected
  BY <1>2 DEF OnServiceProcessDisconnected
<1>3. CASE OnServiceProcessTerminated
  BY <1>3 DEF OnServiceProcessTerminated
<1>4. CASE LaunchFailed
  BY <1>4 DEF LaunchFailed
<1>5. CASE PostMainMessageLoopRun
  BY <1>5 DEF PostMainMessageLoopRun, Shutdown
<1>6. CASE DispatchMessage \/ ConnectionError
  BY <1>6 DEF DispatchMessage, ConnectionError, NothingPending
<1>7. CASE Frames
  BY <1>7 DEF Frames, DispatchPending, HandlerReturns, EmitExit, ExitReturns
<1>8. CASE Application
  BY <1>8 DEF Application, Kill, PostMessage
<1>9. CASE System
  BY <1>9 DEF System, Launches, LaunchFails, ProcessExit, ProcessEnds, Reap
<1>10. CASE ParentPort
  BY <1>10
     DEF ParentPort, ParentPortStart, ParentPortPause, ParentPortAccept,
         ParentPortError, ParentPortPostMessage, Sends
<1> QED
  BY <1>1, <1>2, <1>3, <1>4, <1>5, <1>6, <1>7, <1>8, <1>9, <1>10 DEF Next, Browser

LEMMA InOrderStep == ASSUME IInv, Next PROVE InOrder'
<1>1. InOrder /\ got \in Seq(Messages) /\ toHost \in Seq(Messages) /\ sent \in Seq(Messages)
  BY DEF IInv, TypeOK, QueuesOK
<1>2. ASSUME NEW m \in Messages, ParentPortPostMessage(m), Sends(m) PROVE InOrder'
  <2>1. quitting \/ connector = "open"
    <3>1. Ports
      BY DEF IInv
    <3>2. parent_port # "closed"
      BY <1>2 DEF ParentPortPostMessage
    <3> QED
      BY <3>1, <3>2, Zenon DEF Ports
  <2>2. \A q, r \in Seq(Messages) : q \o Append(r, m) = Append(q \o r, m)
    BY PipeSend
  <2>3. CASE quitting
    <3>1. quitting' /\ connector' = connector
          /\ toHost' = IF connector = "open" THEN Append(toHost, m) ELSE toHost
      BY <1>2, <2>3 DEF Sends
    <3> QED
      BY <1>1, <3>1 DEF InOrder
  <2>4. CASE ~quitting
    <3>1. sent = got \o toHost /\ sent' = Append(sent, m) /\ toHost' = Append(toHost, m) /\ got' = got
          /\ connector' = "open"
      BY <1>1, <1>2, <2>1, <2>4 DEF InOrder, Sends
    <3>2. got \o Append(toHost, m) = Append(got \o toHost, m)
      BY <1>1, <2>2
    <3> QED
      BY <3>1, <3>2 DEF InOrder
  <2> QED
    BY <2>3, <2>4
<1>3. CASE Accept /\ UNCHANGED <<sent, connector, quitting>>
  <2>1. got \o toHost = Append(got, Head(toHost)) \o Tail(toHost)
    BY <1>1, <1>3, PipeReceive DEF Accept
  <2> QED
    BY <1>1, <1>3, <2>1 DEF InOrder, Accept
<1>4. CASE CloseConnectorPort /\ UNCHANGED <<sent, got>> /\ (quitting' \/ NothingPending)
           /\ (quitting => quitting')
  <2>1. toHost' = <<>>
    BY <1>4 DEF CloseConnectorPort
  <2>2. quitting' \/ toHost = <<>>
    BY <1>1, <1>4 DEF NothingPending, InOrder
  <2> QED
    BY <1>1, <1>4, <2>1, <2>2 DEF InOrder
<1>5. CASE UNCHANGED <<sent, got, toHost, connector>> /\ (quitting => quitting')
  BY <1>1, <1>5 DEF InOrder
<1> QED
  BY <1>2, <1>3, <1>4, <1>5, PipeKinds

(* kill() sends a signal only to a process it knows.                       *)
LEMMA SignalsOnlyKnown == ASSUME IInv, Next PROVE signalled' = signalled \/ pid_
<1> USE DEF owed, os
<1>1. CASE Browser
  BY <1>1 DEF Browser, OnServiceProcessLaunch, OnServiceProcessDisconnected,
         OnServiceProcessTerminated, LaunchFailed, PostMainMessageLoopRun,
         DispatchMessage, ConnectionError
<1>2. CASE Frames
  BY <1>2 DEF Frames, DispatchPending, HandlerReturns, EmitExit, ExitReturns
<1>3. CASE Application
  BY <1>3 DEF Application, Kill, PostMessage
<1>4. CASE System
  BY <1>4 DEF System, Launches, LaunchFails, ProcessExit, ProcessEnds, Reap
<1>5. CASE ParentPort
  BY <1>5
     DEF ParentPort, ParentPortStart, ParentPortPause, ParentPortAccept,
         ParentPortError, ParentPortPostMessage
<1> QED
  BY <1>1, <1>2, <1>3, <1>4, <1>5 DEF Next

(* Once it does not know the process any more, no signal is sent to it.   *)
LEMMA GracefulStep == ASSUME IInv, Next PROVE KilledIsGraceful'
<1>1. CASE Exited'
  <2>1. terminated_' /\ pc' \notin {"draining", "handling"}
    <3>1. (Progress => (Exited <=> terminated_ /\ pc \notin {"draining", "handling"}))'
      BY ExitedWhen, PTL
    <3> QED
      BY <1>1, <3>1, ProgressStep
  <2>2. CASE EmitExit
    <3>1. signalled' = signalled /\ pc = "draining" /\ events' = Append(events, ReportedCode)
      BY <2>2 DEF EmitExit, os
    <3>2. terminated_ /\ events \in {<<>>, <<"spawn">>}
      BY <3>1 DEF IInv, Progress
    <3>3. ReportedCode \in Codes
      BY DEF IInv, TypeOK, ScalarsOK, ReportedCode, Codes, OwnCodes
    <3>4. signalled => ReportedCode # "signal"
      BY <3>2 DEF IInv, Signals, ReportedCode
    <3>5. events' = <<ReportedCode>> \/ events' = <<"spawn", ReportedCode>>
      BY <3>1, <3>2, <3>3, EventLists
    <3>6. signalled => \A i \in 1..Len(events') : events'[i] # "signal"
      BY <3>4, <3>5
    <3> QED
      BY <3>1, <3>6 DEF KilledIsGraceful
  <2>3. CASE GoesOn
    <3>1. UNCHANGED events /\ terminated_ /\ ~pid_
      BY <2>1, <2>3 DEF GoesOn, IInv, Progress
    <3>2. signalled' => signalled
      BY <3>1, SignalsOnlyKnown
    <3> QED
      BY <3>1, <3>2 DEF IInv, KilledIsGraceful
  <2> QED
    BY <2>1, <2>2, <2>3, StepKinds DEF Begins, OnServiceProcessLaunch
<1>2. CASE ~Exited'
  <2>1. ~(terminated_' /\ pc' \notin {"draining", "handling"})
    <3>1. (Progress => (Exited <=> terminated_ /\ pc \notin {"draining", "handling"}))'
      BY ExitedWhen, PTL
    <3> QED
      BY <1>2, <3>1, ProgressStep
  <2>2. events' = <<>> \/ events' = <<"spawn">>
    BY <2>1, ProgressStep DEF Progress
  <2>3. \A i \in 1..Len(events') : events'[i] # "signal"
    BY <2>2
  <2> QED
    BY <2>3 DEF KilledIsGraceful
<1> QED
  BY <1>1, <1>2

LEMMA IInvStep == IInv /\ [Next]_vars => IInv'
<1>1. ASSUME IInv, Next PROVE IInv'
  BY <1>1, TypeStep, ProgressStep, StdioStep, InOrderStep, PortsStep, OwedStep,
     SignalsStep, GracefulStep, DeathStep DEF IInv
<1>2. ASSUME IInv, UNCHANGED vars PROVE IInv'
  BY <1>2 DEF IInv, TypeOK, ScalarsOK, QueuesOK, Progress, StdioGiven, Exited, InOrder, Ports,
              Owed, Ended, Signals, KilledIsGraceful, DeathWillBeReported,
              vars, wrapper, owed, os, pipe, history
<1> QED
  BY <1>1, <1>2

THEOREM Invariant == Spec => []IInv
<1>1. Init => IInv
  BY InitIInv
<1>2. IInv /\ [Next]_vars => IInv'
  BY IInvStep
<1> QED
  BY <1>1, <1>2, PTL DEF Spec

-----------------------------------------------------------------------------
(* Every variable of UtilityProcess has its type.                          *)
THEOREM TypeCorrect == Spec => []TypeOK
<1>1. IInv => TypeOK
  BY DEF IInv
<1> QED
  BY <1>1, Invariant, PTL

(* HandleTermination (electron_api_utility_process.cc): however many ways  *)
(* the death is reported, 'exit' is emitted once and nothing follows it.   *)
THEOREM NothingAfterExit == Spec => []ExitIsLast
<1>1. IInv => ExitIsLast
  <2> SUFFICES ASSUME IInv PROVE ExitIsLast
    OBVIOUS
  <2>1. \/ events = <<>> \/ events = <<"spawn">>
        \/ \E c \in Codes : events = <<c>> \/ events = <<"spawn", c>>
    BY DEF IInv, Progress
  <2>2. events = <<>> => ExitIsLast
    BY DEF ExitIsLast
  <2>3. events = <<"spawn">> => ExitIsLast
    BY DEF ExitIsLast
  <2>4. ASSUME NEW c \in Codes, events = <<c>> PROVE ExitIsLast
    BY <2>4 DEF ExitIsLast
  <2>5. ASSUME NEW c \in Codes, events = <<"spawn", c>> PROVE ExitIsLast
    BY <2>5 DEF ExitIsLast
  <2> QED
    BY <2>1, <2>2, <2>3, <2>4, <2>5
<1> QED
  BY <1>1, Invariant, PTL

(* CloseStdioReadFds: no read end of a pipe is left without an owner.      *)
THEOREM StdioOwned == Spec => []StdioHasOwner
<1>1. IInv => StdioHasOwner
  BY DEF IInv, StdioGiven, StdioHasOwner
<1> QED
  BY <1>1, Invariant, PTL

(* OnServiceProcessDisconnected and the observer's notifications each      *)
(* ignore a report; they never ignore the last one.                        *)
THEOREM DeathReported == Spec => []DeathWillBeReported
<1>1. IInv => DeathWillBeReported
  BY DEF IInv
<1> QED
  BY <1>1, Invariant, PTL

(* Kill and HandleTermination: a process that was sent a signal by kill()  *)
(* never exits with the code of a signal.                                  *)
THEOREM KillIsGraceful == Spec => []KilledIsGraceful
<1>1. IInv => KilledIsGraceful
  BY DEF IInv
<1> QED
  BY <1>1, Invariant, PTL

-----------------------------------------------------------------------------
(* The refinement: every step is one of ChildProcess, or changes nothing   *)
(* that an application sees.                                               *)
Phase == IF Exited THEN "gone" ELSE IF events # <<>> THEN "running" ELSE "starting"

LEMMA PhaseWhen ==
    Progress => Phase = IF terminated_ /\ pc \notin {"draining", "handling"} THEN "gone"
                        ELSE IF events = <<>> THEN "starting" ELSE "running"
BY ExitedWhen DEF Phase

LEMMA InitMaps == Init => Promise!Init
BY DEF Init, Promise!Init, Exited

(* The launch is reported in time, and the end once.                       *)
LEMMA PhaseSteps ==
    ASSUME IInv, Next
    PROVE  /\ OnServiceProcessLaunch /\ ~terminated_ =>
                Phase = "starting" /\ Phase' = "running"
           /\ EmitExit => Phase # "gone" /\ Phase' = "gone"
<1>1. Phase = IF terminated_ /\ pc \notin {"draining", "handling"} THEN "gone"
              ELSE IF events = <<>> THEN "starting" ELSE "running"
  BY PhaseWhen DEF IInv
<1>2. Phase' = IF terminated_' /\ pc' \notin {"draining", "handling"} THEN "gone"
               ELSE IF events' = <<>> THEN "starting" ELSE "running"
  <2>1. (Progress => Phase = IF terminated_ /\ pc \notin {"draining", "handling"} THEN "gone"
                        ELSE IF events = <<>> THEN "starting" ELSE "running")'
    BY PhaseWhen, PTL
  <2> QED
    BY <2>1, ProgressStep
<1>3. ASSUME OnServiceProcessLaunch, ~terminated_
      PROVE  Phase = "starting" /\ Phase' = "running"
  <2>1. ~pid_ /\ events = <<>>
    BY <1>3 DEF OnServiceProcessLaunch, IInv, Owed, Progress
  <2>2. ~terminated_' /\ events' = <<"spawn">>
    BY <1>3, <2>1, EventLists DEF OnServiceProcessLaunch
  <2>3. <<"spawn">> # <<>>
    OBVIOUS
  <2> QED
    BY <1>1, <1>2, <1>3, <2>1, <2>2, <2>3
<1>4. ASSUME EmitExit PROVE Phase # "gone" /\ Phase' = "gone"
  <2>1. pc = "draining" /\ pc' = "exiting" /\ terminated_' = terminated_
    BY <1>4 DEF EmitExit
  <2>2. terminated_
    BY <2>1 DEF IInv, Progress
  <2> QED
    BY <1>1, <1>2, <1>4, <2>1, <2>2
<1> QED
  BY <1>3, <1>4

(* A message that is taken from the pipe is the next one to deliver.       *)
LEMMA AcceptMaps ==
    ASSUME IInv, Accept, ~quitting \/ pc = "draining",
           UNCHANGED <<sent, events, child, quitting>>
    PROVE  Promise!Deliver
<1>1. connector = "open" /\ toHost # <<>> /\ got' = Append(got, Head(toHost))
  BY DEF Accept
<1>2. ~quitting
  BY <1>1 DEF IInv, Ports
<1>3. ~Exited
  BY <1>1, ExitedWhen DEF IInv, Ports
<1>4. sent = got \o toHost
  BY <1>2 DEF IInv, InOrder
<1>5. got \in Seq(Messages) /\ toHost \in Seq(Messages)
  BY DEF IInv, TypeOK, QueuesOK
<1>6. Len(got) < Len(got \o toHost) /\ Head(toHost) = (got \o toHost)[Len(got) + 1]
  BY <1>1, <1>5, PipeReceive
<1>7. Len(got) < Len(sent) /\ got' = Append(got, sent[Len(got) + 1])
  BY <1>1, <1>4, <1>6
<1> QED
  BY <1>2, <1>3, <1>7 DEF Promise!Deliver, Exited

(* An 'exit' is emitted after everything else, unless the browser quits.   *)
LEMMA ExitMaps ==
    ASSUME IInv, Next, EmitExit
    PROVE  Promise!ExitAfterEnd \/ Promise!ExitOnQuit
<1>1. Phase # "gone" /\ Phase' = "gone" /\ UNCHANGED <<child, quitting, sent, got>>
  BY PhaseSteps DEF EmitExit, os
<1>2. CASE quitting
  BY <1>1, <1>2 DEF Promise!ExitOnQuit, Phase
<1>3. CASE ~quitting
  <2>1. terminated_ /\ toHost = <<>>
    BY DEF EmitExit, NothingPending, IInv, InOrder, Progress
  <2>2. Ended
    BY <1>3, <2>1 DEF IInv, Owed
  <2>3. sent = got \o <<>>
    BY <1>3, <2>1 DEF IInv, InOrder
  <2>4. got \o <<>> = got
    BY ConcatEmptySeq DEF IInv, TypeOK, QueuesOK
  <2> QED
    BY <1>1, <2>2, <2>3, <2>4 DEF Promise!ExitAfterEnd, Phase, Ended
<1> QED
  BY <1>2, <1>3

LEMMA StepMaps == IInv /\ [Next]_vars => [Promise!Next]_Promise!vars
<1> SUFFICES ASSUME IInv, [Next]_vars PROVE [Promise!Next]_Promise!vars
  OBVIOUS
<1>0. ASSUME UNCHANGED <<sent, got, events, quitting>>, Ended' = Ended
      PROVE  UNCHANGED Promise!vars
  BY <1>0 DEF Promise!vars, Exited, Ended
<1>1. CASE OnServiceProcessLaunch
  <2>1. UNCHANGED <<child, quitting, sent, got>>
    BY <1>1 DEF OnServiceProcessLaunch, os
  <2>2. CASE terminated_
    BY <1>0, <1>1, <2>1, <2>2 DEF OnServiceProcessLaunch, Ended
  <2>3. CASE ~terminated_
    <3>1. Next
      BY <1>1 DEF Next, Browser
    <3>2. Promise!Spawn
      BY <1>1, <2>1, <2>3, <3>1, PhaseSteps DEF Promise!Spawn, Phase
    <3> QED
      BY <3>2 DEF Promise!Next
  <2> QED
    BY <2>2, <2>3
<1>2. CASE OnServiceProcessDisconnected \/ OnServiceProcessTerminated \/ LaunchFailed
  BY <1>0, <1>2
     DEF OnServiceProcessDisconnected, OnServiceProcessTerminated, LaunchFailed,
         os, history, Ended
<1>3. CASE PostMainMessageLoopRun
  <2>1. ~quitting /\ quitting' = TRUE /\ UNCHANGED <<child, sent, got, events>>
    BY <1>3 DEF PostMainMessageLoopRun, Task, os, history
  <2>2. Promise!Quit
    BY <2>1 DEF Promise!Quit, Exited
  <2> QED
    BY <2>2 DEF Promise!Next
<1>4. CASE DispatchMessage
  <2>1. Accept /\ ~quitting /\ UNCHANGED <<sent, events, child, quitting>>
    BY <1>4 DEF DispatchMessage, Task, os
  <2> QED
    BY <2>1, AcceptMaps DEF Promise!Next
<1>5. CASE ConnectionError \/ HandlerReturns \/ ExitReturns
  BY <1>0, <1>5 DEF ConnectionError, HandlerReturns, ExitReturns, os, history, Ended
<1>6. CASE DispatchPending
  <2>1. Accept /\ pc = "draining" /\ UNCHANGED <<sent, events, child, quitting>>
    BY <1>6 DEF DispatchPending, os
  <2> QED
    BY <2>1, AcceptMaps DEF Promise!Next
<1>7. CASE EmitExit
  <2>1. Next
    BY <1>7 DEF Next, Frames
  <2> QED
    BY <1>7, <2>1, ExitMaps DEF Promise!Next
<1>8. CASE Application
  BY <1>0, <1>8 DEF Application, Kill, PostMessage, os, history, Ended
<1>9. CASE Launches \/ Reap
  BY <1>0, <1>9 DEF Launches, Reap, os, history, Ended
<1>10. CASE LaunchFails \/ ProcessExit \/ ProcessEnds
  <2>1. Ended' /\ UNCHANGED <<sent, got, events, quitting>>
    BY <1>10 DEF LaunchFails, ProcessExit, ProcessEnds, history, Ended
  <2>2. CASE Ended
    BY <1>0, <2>1, <2>2
  <2>3. CASE ~Ended
    <3>1. Promise!End
      BY <2>1, <2>3 DEF Promise!End, Exited, Ended
    <3> QED
      BY <3>1 DEF Promise!Next
  <2> QED
    BY <2>2, <2>3
<1>11. CASE ParentPortStart \/ ParentPortPause \/ ParentPortAccept \/ ParentPortError
  BY <1>0, <1>11
     DEF ParentPortStart, ParentPortPause, ParentPortAccept, ParentPortError,
         os, history, Ended
<1>12. ASSUME NEW m \in Messages, ParentPortPostMessage(m)
       PROVE  Promise!Next
  <2>1. Promise!Post(m)
    BY <1>12 DEF ParentPortPostMessage, Promise!Post, os, Exited
  <2> QED
    BY <2>1 DEF Promise!Next
<1>13. CASE UNCHANGED vars
  BY <1>0, <1>13 DEF vars, os, history, Ended
<1> QED
  BY <1>1, <1>2, <1>3, <1>4, <1>5, <1>6, <1>7, <1>8, <1>9, <1>10, <1>11, <1>12, <1>13
     DEF Next, Browser, Frames, System, ParentPort

(* The wrapper keeps the safety part of what fork() promises, for any      *)
(* messages: each is emitted once and in order, 'spawn' and 'exit' come at *)
(* most once, and 'exit' comes after all else or when the browser quits.   *)
THEOREM Implements == Spec => Promise!Spec
<1>1. Init => Promise!Init
  BY InitMaps
<1>2. IInv /\ [Next]_vars => [Promise!Next]_Promise!vars
  BY StepMaps
<1> QED
  BY <1>1, <1>2, Invariant, PTL DEF Spec, Promise!Spec

=============================================================================
