---------------------------- MODULE UtilityProcess ----------------------------
(***************************************************************************)
(* A utility process: UtilityProcessWrapper in the browser process, the    *)
(* JavaScript object in front of it, and the child with its parentPort.    *)
(*                                                                         *)
(* The death of the child reaches the wrapper along several ways, in any   *)
(* order: the service pipe is closed with a reason (process.exit() ran) or *)
(* without one, the service process host reports it, the launch fails, the *)
(* browser shuts down.  The first one that counts must emit what the child *)
(* had posted, then 'exit', and nothing may follow.  Emitting runs         *)
(* JavaScript, which may call kill() and postMessage() there.              *)
(*                                                                         *)
(* The browser side is one thread.  Mojo pipes, the service process host   *)
(* and the operating system are external: what a process writes before it  *)
(* closes a pipe or dies is readable before its end is noticed, and the    *)
(* host reports the end of a process only after its launch.  Signals and   *)
(* exit codes are those of POSIX.                                          *)
(***************************************************************************)
EXTENDS Naturals, Sequences

CONSTANTS
    Messages, \* what either side may post
    MaxPosts  \* bound: how many messages each side posts

ASSUME MaxPostsAssumption == MaxPosts \in Nat

VARIABLES
    terminated_, \* HandleTermination has begun
    pid_,        \* pid_ is not kNullProcessId; the wrapper is registered by it
    killed_,     \* the last kill() succeeded
    connector,   \* the wrapper's end of the message pipe
    stdio,       \* who owns the read end of a piped stdout
    pc,          \* what HandleTermination is doing
    exit_code,   \* its argument
    handle,      \* JavaScript: #handle is not null
    fail_task,   \* the task that fail_launch posted is to run
    launch_task, \* content owes the wrapper OnServiceProcessLaunch
    service,     \* the service pipe: open; closed, with process.exit()'s code
                 \* or without a reason, which the wrapper is to hear; gone
    notice,      \* content owes the observers a termination
    child,       \* external: the process
    status,      \* external: what waitpid says of it
    reaped,      \* external: waitpid has been called
    signalled,   \* external: it has been sent a signal by kill()
    parent_port, \* the child's end of the message pipe
    toHost,      \* the message pipe, child to browser
    toChild,     \* the message pipe, browser to child
    sent,        \* history: the messages the child posted
    got,         \* history: 'message' events
    told,        \* history: the messages that entered toChild
    heard,       \* history: the messages the child's listeners got
    events,      \* history: 'spawn' and, by their codes, 'exit' events
    quitting     \* the browser's message loop has ended

wrapper == <<terminated_, pid_, killed_, connector, stdio, pc, exit_code, handle>>
owed    == <<fail_task, launch_task, service, notice>>
os      == <<child, status, reaped, signalled>>
pipe    == <<parent_port, toHost, toChild>>
history == <<sent, got, told, heard, events>>
vars    == <<wrapper, owed, os, pipe, history, quitting>>

OwnCodes == {"zero", "other"} \* what the child calls process.exit() with
Codes    == OwnCodes \cup {"launch failure", "signal"}

ScalarsOK ==
    /\ terminated_ \in BOOLEAN
    /\ pid_ \in BOOLEAN
    /\ killed_ \in BOOLEAN
    /\ connector \in {"none", "open", "closed"}
    /\ stdio \in {"wrapper", "JavaScript", "closed"}
    /\ pc \in {"idle", "draining", "handling", "exiting"}
    /\ exit_code \in Codes
    /\ handle \in BOOLEAN
    /\ fail_task \in BOOLEAN
    /\ launch_task \in BOOLEAN
    /\ service \in {"open", "dropped", "gone"} \cup OwnCodes
    /\ notice \in BOOLEAN
    /\ child \in {"none", "launching", "running", "exiting", "dead"}
    /\ status \in Codes
    /\ reaped \in BOOLEAN
    /\ signalled \in BOOLEAN
    /\ parent_port \in {"paused", "started", "closed"}
    /\ quitting \in BOOLEAN

QueuesOK ==
    /\ toHost \in Seq(Messages)
    /\ toChild \in Seq(Messages)
    /\ sent \in Seq(Messages)
    /\ got \in Seq(Messages)
    /\ told \in Seq(Messages)
    /\ heard \in Seq(Messages)

TypeOK ==
    /\ ScalarsOK
    /\ QueuesOK
    /\ events \in Seq({"spawn"} \cup Codes)

(* The constructor: no pipe for stdio, and fail_launch; or all is set up   *)
(* and Initialize, with the child's port, is under way.                    *)
Init ==
    /\ terminated_ = FALSE
    /\ pid_ = FALSE
    /\ killed_ = FALSE
    /\ pc = "idle"
    /\ exit_code = "zero"
    /\ handle = TRUE
    /\ launch_task = FALSE
    /\ notice = FALSE
    /\ status = "zero"
    /\ reaped = FALSE
    /\ signalled = FALSE
    /\ toHost = <<>>
    /\ toChild = <<>>
    /\ sent = <<>>
    /\ got = <<>>
    /\ told = <<>>
    /\ heard = <<>>
    /\ events = <<>>
    /\ quitting = FALSE
    /\ \/ /\ fail_task = TRUE
          /\ connector = "none"
          /\ stdio = "closed"
          /\ service = "gone"
          /\ child = "none"
          /\ parent_port = "closed"
       \/ /\ fail_task = FALSE
          /\ connector = "open"
          /\ stdio = "wrapper"
          /\ service = "open"
          /\ child = "launching"
          /\ parent_port = "paused"

-----------------------------------------------------------------------------
(* UtilityProcessWrapper.                                                  *)

Task == pc = "idle" /\ ~quitting

(* Up to the messages that wait in the pipe.                               *)
HandleTermination(code) ==
    IF terminated_
      THEN UNCHANGED <<terminated_, pid_, exit_code, pc>>
      ELSE /\ terminated_' = TRUE
           /\ pid_' = FALSE
           /\ exit_code' = code
           /\ pc' = "draining"

(* What is still in the pipe is lost.                                      *)
CloseConnectorPort ==
    /\ connector' = IF connector = "open" THEN "closed" ELSE connector
    /\ toHost' = <<>>

OnServiceProcessLaunch ==
    /\ Task
    /\ launch_task
    /\ launch_task' = FALSE
    /\ IF terminated_ THEN UNCHANGED <<pid_, stdio, events>>
       ELSE /\ pid_' = TRUE
            /\ stdio' = "JavaScript"
            /\ events' = Append(events, "spawn")
    /\ UNCHANGED <<terminated_, killed_, connector, pc, exit_code, handle,
                   fail_task, service, notice, os, pipe,
                   sent, got, told, heard, quitting>>

(* Fault: a pipe dropped before the launch is known does not count.        *)
OnlyReasonCounts == service # "dropped"

(* The end of the service pipe counts if it has a reason, or if the launch *)
(* is not known; otherwise the end of the process will be reported.        *)
PipeCounts == service # "dropped" \/ ~pid_
PipeCode   == IF service = "dropped" THEN "launch failure" ELSE service

OnServiceProcessDisconnected ==
    /\ Task
    /\ service \notin {"open", "gone"}
    /\ service' = "gone"
    /\ IF PipeCounts THEN HandleTermination(PipeCode)
       ELSE UNCHANGED <<terminated_, pid_, exit_code, pc>>
    /\ UNCHANGED <<killed_, connector, stdio, handle, fail_task, launch_task,
                   notice, os, pipe, history, quitting>>

(* Fault: a process that was killed is not waited for.                     *)
ObservesUnkilled == pid_ /\ ~killed_

(* The observer compares the process with its own.                         *)
Observes == pid_

(* OnServiceProcessTerminatedNormally, OnServiceProcessCrashed: with the   *)
(* code that waitpid returns, or 0 if somebody has called that before.     *)
OnServiceProcessTerminated ==
    /\ Task
    /\ notice
    /\ child = "dead"
    /\ ~launch_task
    /\ notice' = FALSE
    /\ reaped' = TRUE
    /\ IF Observes THEN HandleTermination(IF reaped THEN "zero" ELSE status)
       ELSE UNCHANGED <<terminated_, pid_, exit_code, pc>>
    /\ UNCHANGED <<killed_, connector, stdio, handle, fail_task, launch_task,
                   service, child, status, signalled, pipe, history, quitting>>

(* The task of fail_launch.                                                *)
LaunchFailed ==
    /\ Task
    /\ fail_task
    /\ fail_task' = FALSE
    /\ HandleTermination("launch failure")
    /\ UNCHANGED <<killed_, connector, stdio, handle, launch_task, service,
                   notice, os, pipe, history, quitting>>

Shutdown ==
    /\ service' = "gone"
    /\ CloseConnectorPort
    /\ HandleTermination("zero")

(* The processes that are registered are shut down; no task runs after it. *)
PostMainMessageLoopRun ==
    /\ Task
    /\ quitting' = TRUE
    /\ IF pid_ THEN Shutdown
       ELSE UNCHANGED <<service, connector, toHost, terminated_, pid_, exit_code, pc>>
    /\ UNCHANGED <<killed_, stdio, handle, fail_task, launch_task, notice, os,
                   parent_port, toChild, history>>

Accept ==
    /\ connector = "open"
    /\ toHost # <<>>
    /\ got' = Append(got, Head(toHost))
    /\ toHost' = Tail(toHost)

(* The connector dispatches one message per task.                          *)
DispatchMessage ==
    /\ Task
    /\ Accept
    /\ UNCHANGED <<wrapper, owed, os, parent_port, toChild,
                   sent, told, heard, events, quitting>>

(* The child's end is closed and nothing is left to read.                  *)
ConnectionError ==
    /\ Task
    /\ connector = "open"
    /\ toHost = <<>>
    /\ parent_port = "closed"
    /\ CloseConnectorPort
    /\ UNCHANGED <<terminated_, pid_, killed_, stdio, pc, exit_code, handle,
                   owed, os, parent_port, toChild, history, quitting>>

(* One round of DispatchPendingMessages.                                   *)
DispatchPending ==
    /\ pc = "draining"
    /\ Accept
    /\ pc' = "handling"
    /\ UNCHANGED <<terminated_, pid_, killed_, connector, stdio, exit_code,
                   handle, owed, os, parent_port, toChild,
                   sent, told, heard, events, quitting>>

HandlerReturns ==
    /\ pc = "handling"
    /\ pc' = "draining"
    /\ UNCHANGED <<terminated_, pid_, killed_, connector, stdio, exit_code,
                   handle, owed, os, pipe, history, quitting>>

(* Fault: messages that are left in the pipe do not hold up 'exit'.        *)
NobodyWaits == TRUE

NothingPending == connector = "open" => toHost = <<>>

CloseStdioReadFds == stdio' = IF stdio = "wrapper" THEN "closed" ELSE stdio

(* A process that was killed as asked has exited with 0.                   *)
ReportedCode == IF killed_ /\ exit_code = "signal" THEN "zero" ELSE exit_code

(* The rest of HandleTermination.                                          *)
EmitExit ==
    /\ pc = "draining"
    /\ NothingPending
    /\ CloseConnectorPort
    /\ CloseStdioReadFds
    /\ events' = Append(events, ReportedCode)
    /\ pc' = "exiting"
    /\ UNCHANGED <<terminated_, pid_, killed_, exit_code, handle, owed, os,
                   parent_port, toChild, sent, got, told, heard, quitting>>

(* The emit function of ForkUtilityProcess, after the 'exit' handlers.     *)
ExitReturns ==
    /\ pc = "exiting"
    /\ handle' = FALSE
    /\ pc' = "idle"
    /\ UNCHANGED <<terminated_, pid_, killed_, connector, stdio, exit_code,
                   owed, os, pipe, history, quitting>>

-----------------------------------------------------------------------------
(* The application's JavaScript: in tasks of its own and in the handlers.  *)

JSRuns == handle /\ pc # "draining" /\ (pc = "idle" => ~quitting)

(* Fault: messages posted before the launch are dropped.                   *)
SendIfLaunched(m) ==
    /\ told' = Append(told, m)
    /\ toChild' = IF parent_port # "closed" /\ pid_ THEN Append(toChild, m) ELSE toChild

Send(m) ==
    IF parent_port = "closed" THEN UNCHANGED <<toChild, told>>
    ELSE /\ toChild' = Append(toChild, m)
         /\ told' = Append(told, m)

(* Without an open connector postMessage() does nothing.                   *)
PostMessage(m) ==
    /\ JSRuns
    /\ connector = "open"
    /\ Len(told) < MaxPosts
    /\ Send(m)
    /\ UNCHANGED <<wrapper, owed, os, parent_port, toHost,
                   sent, got, heard, events, quitting>>

(* While the process is not known kill() returns FALSE.  Terminate() fails *)
(* when somebody has called waitpid; EnsureProcessTerminated calls it.     *)
Kill ==
    /\ JSRuns
    /\ pid_
    /\ killed_' = ~reaped
    /\ IF child = "dead" THEN reaped' = TRUE /\ UNCHANGED signalled
       ELSE signalled' = TRUE /\ UNCHANGED reaped
    /\ UNCHANGED <<terminated_, pid_, connector, stdio, pc, exit_code, handle,
                   owed, child, status, pipe, history, quitting>>

-----------------------------------------------------------------------------
(* The operating system and the child.                                     *)

Launches ==
    /\ child = "launching"
    /\ child' = "running"
    /\ launch_task' = TRUE
    /\ notice' = TRUE
    /\ UNCHANGED <<wrapper, fail_task, service, status, reaped, signalled,
                   pipe, history, quitting>>

(* The host is deleted, with both pipes, and notifies nobody.              *)
LaunchFails ==
    /\ child = "launching"
    /\ child' = "none"
    /\ service' = "dropped"
    /\ parent_port' = "closed"
    /\ toChild' = <<>>
    /\ UNCHANGED <<wrapper, fail_task, launch_task, notice, status, reaped,
                   signalled, toHost, history, quitting>>

(* The first 'message' listener of parentPort, and the last one's removal. *)
ParentPortStart ==
    /\ child = "running"
    /\ parent_port = "paused"
    /\ parent_port' = "started"
    /\ UNCHANGED <<wrapper, owed, os, toHost, toChild, history, quitting>>

ParentPortPause ==
    /\ child = "running"
    /\ parent_port = "started"
    /\ parent_port' = "paused"
    /\ UNCHANGED <<wrapper, owed, os, toHost, toChild, history, quitting>>

ParentPortAccept ==
    /\ child = "running"
    /\ parent_port = "started"
    /\ toChild # <<>>
    /\ heard' = Append(heard, Head(toChild))
    /\ toChild' = Tail(toChild)
    /\ UNCHANGED <<wrapper, owed, os, parent_port, toHost,
                   sent, got, told, events, quitting>>

(* The browser's end is closed.                                            *)
ParentPortError ==
    /\ child = "running"
    /\ parent_port = "started"
    /\ toChild = <<>>
    /\ connector = "closed"
    /\ parent_port' = "closed"
    /\ UNCHANGED <<wrapper, owed, os, toHost, toChild, history, quitting>>

ParentPortPostMessage(m) ==
    /\ child = "running"
    /\ parent_port # "closed"
    /\ Len(sent) < MaxPosts
    /\ sent' = Append(sent, m)
    /\ toHost' = IF connector = "open" THEN Append(toHost, m) ELSE toHost
    /\ UNCHANGED <<wrapper, owed, os, parent_port, toChild,
                   got, told, heard, events, quitting>>

(* The handler of process.exit(): no JavaScript runs in the child after it.*)
ProcessExit ==
    /\ child = "running"
    /\ child' = "exiting"
    /\ status' \in OwnCodes
    /\ parent_port' = "closed"
    /\ toChild' = <<>>
    /\ service' = IF service = "open" THEN status' ELSE service
    /\ UNCHANGED <<wrapper, fail_task, launch_task, notice, reaped, signalled,
                   toHost, history, quitting>>

(* The process ends: by itself, by a signal, by a crash.                   *)
ProcessEnds ==
    /\ child \in {"running", "exiting"}
    /\ child' = "dead"
    /\ status' \in {"signal", "other"} \cup (IF child = "exiting" THEN {status} ELSE {})
    /\ parent_port' = "closed"
    /\ toChild' = <<>>
    /\ service' = IF service = "open" THEN "dropped" ELSE service
    /\ UNCHANGED <<wrapper, fail_task, launch_task, notice, reaped, signalled,
                   toHost, history, quitting>>

(* The reaper of EnsureProcessTerminated.                                  *)
Reap ==
    /\ child = "dead"
    /\ signalled
    /\ ~reaped
    /\ reaped' = TRUE
    /\ UNCHANGED <<wrapper, owed, child, status, signalled, pipe, history, quitting>>

-----------------------------------------------------------------------------
Browser == \/ OnServiceProcessLaunch
           \/ OnServiceProcessDisconnected
           \/ OnServiceProcessTerminated
           \/ LaunchFailed
           \/ PostMainMessageLoopRun
           \/ DispatchMessage
           \/ ConnectionError

Frames == \/ DispatchPending
          \/ HandlerReturns
          \/ EmitExit
          \/ ExitReturns

Application == Kill \/ \E m \in Messages : PostMessage(m)

System == \/ Launches
          \/ LaunchFails
          \/ ProcessExit
          \/ ProcessEnds
          \/ Reap

ParentPort == \/ ParentPortStart
              \/ ParentPortPause
              \/ ParentPortAccept
              \/ ParentPortError
              \/ \E m \in Messages : ParentPortPostMessage(m)

Next == Browser \/ Frames \/ Application \/ System \/ ParentPort

Spec == Init /\ [][Next]_vars

(* Tasks run and handlers return, a launch comes to an end, content        *)
(* reports what happens, the child reads its pipe, and a process that is   *)
(* exiting or was sent a signal ends (EnsureProcessTerminated sees to it). *)
Fairness ==
    /\ WF_vars(OnServiceProcessLaunch)
    /\ WF_vars(OnServiceProcessDisconnected)
    /\ WF_vars(OnServiceProcessTerminated)
    /\ WF_vars(LaunchFailed)
    /\ WF_vars(DispatchMessage)
    /\ WF_vars(Frames)
    /\ WF_vars(ParentPortAccept)
    /\ WF_vars(ProcessEnds /\ (signalled \/ child = "exiting"))

FairSpec == Spec /\ Fairness

-----------------------------------------------------------------------------
(* The specification of what an application sees, and the state it is in.  *)
Exited  == events # <<>> /\ events[Len(events)] # "spawn"
Promise == INSTANCE ChildProcess WITH
    phase   <- IF Exited THEN "gone" ELSE IF events # <<>> THEN "running" ELSE "starting",
    ended   <- child \in {"none", "exiting", "dead"},
    dropped <- quitting

(* The wrapper keeps what fork() promises: every message the child posted  *)
(* is emitted, in order and before 'exit', which comes once and last, and  *)
(* comes when the child has ended.                                         *)
KeepsPromise == Promise!FairSpec

(* 'exit' is the last event, however many reports of the death come in and *)
(* however late the launch is reported.                                    *)
ExitIsLast == \A i \in 1..Len(events) : events[i] # "spawn" => i = Len(events)

(* electron_api_utility_process.cc:363: a dropped pipe is ignored once the *)
(* process is known, and a notification until it is.  Whatever came first  *)
(* and was ignored, a report that will count is still to come.             *)
DeathWillBeReported ==
    child \in {"none", "exiting", "dead"} /\ ~terminated_ /\ ~quitting =>
      \/ fail_task
      \/ service \in OwnCodes \/ (service = "dropped" /\ ~pid_)
      \/ notice /\ (pid_ \/ launch_task)

(* A live process that kill() was called for exits with 0, never with the  *)
(* code of the signal, whatever later calls of kill() return.              *)
KilledIsGraceful == signalled => \A i \in 1..Len(events) : events[i] # "signal"

(* The read ends of stdout and stderr end up with JavaScript or are closed.*)
StdioHasOwner == Exited => stdio # "wrapper"

(* What the application posts, before the launch or later, reaches a child *)
(* that keeps listening.                                                   *)
PostedIsHeard ==
    \A n \in 1..MaxPosts :
      Len(told) = n ~> Len(heard) >= n \/ parent_port # "started"

(* A kill() that succeeds ends in 'exit', and so does a quit: utility      *)
(* processes are shut down before Node.js is stopped "so that exit events  *)
(* can be emitted" (electron_browser_main_parts.cc:732).                   *)
ExitComes ==
    killed_ \/ (quitting /\ "spawn" \in {events[i] : i \in 1..Len(events)}) ~> Exited

=============================================================================
