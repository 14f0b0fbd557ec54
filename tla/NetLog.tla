-------------------------------- MODULE NetLog --------------------------------
(***************************************************************************)
(* session.netLog: recording network events to a file.  startLogging()     *)
(* binds a new exporter in the network service, opens the file on another  *)
(* sequence, and only then tells the exporter to start; stopLogging()      *)
(* gives the exporter away to the callback of its own reply.               *)
(*                                                                         *)
(* NetLog has one slot for the exporter and one for the promise of the     *)
(* start in progress, and none of the three answers it waits for (the file *)
(* opened, the exporter started, the pipe disconnected) says which start   *)
(* it belongs to.  The hazard is an answer that comes when the slots hold  *)
(* something else.  The exporters are external.                            *)
(***************************************************************************)
EXTENDS Naturals, Sequences

CONSTANTS
    MaxStarts,  \* bound: how often startLogging() is called
    MaxCrashes  \* bound: how often the network service dies

ASSUME MaxStartsAssumption == MaxStarts \in Nat
ASSUME MaxCrashesAssumption == MaxCrashes \in Nat

Starts == 1..MaxStarts  \* the calls of startLogging(), each with its exporter
None   == 0

VARIABLES
    patient,  \* the application awaits each promise before its next call
    exporter, \* net_log_exporter_: the start that bound it, or None
    pending,  \* pending_start_promise_: the start that made it, or None
    start,    \* the promise of each startLogging()
    stop,     \* the promise of the stopLogging() that took each exporter
    opening,  \* the starts whose file is being opened, in order
    service,  \* external: each exporter in the network service and its pipe
    crashes,  \* how often the network service has died
    dead      \* the browser process has crashed

vars == <<patient, exporter, pending, start, stop, opening, service, crashes, dead>>

Outcomes == {"unmade", "pending", "resolved", "rejected"}
Requests == {"start", "stop"}
Replies  == [of : Requests, ok : BOOLEAN]
Exporter == [state : {"none", "idle", "waiting", "running", "lost", "gone"},
             asked : Seq(Requests),
             told  : Seq(Replies)]
In(state) == [state |-> state, asked |-> <<>>, told |-> <<>>]

TypeOK ==
    /\ patient \in BOOLEAN
    /\ exporter \in Starts \cup {None}
    /\ pending \in Starts \cup {None}
    /\ start \in [Starts -> Outcomes]
    /\ stop \in [Starts -> Outcomes]
    /\ opening \in Seq(Starts)
    /\ service \in [Starts -> Exporter]
    /\ crashes \in 0..MaxCrashes
    /\ dead \in BOOLEAN

Init ==
    /\ patient \in BOOLEAN
    /\ exporter = None
    /\ pending = None
    /\ start = [i \in Starts |-> "unmade"]
    /\ stop = [i \in Starts |-> "unmade"]
    /\ opening = <<>>
    /\ service = [i \in Starts |-> In("none")]
    /\ crashes = 0
    /\ dead = FALSE

-----------------------------------------------------------------------------
(* The application.                                                        *)

Settled == \A i \in Starts : start[i] # "pending" /\ stop[i] # "pending"
JSCalls == ~dead /\ (patient => Settled)

(* A promise that is still in the slot is dropped, for ever unsettled.     *)
StartLogging(i) ==
    /\ JSCalls
    /\ exporter = None
    /\ start[i] = "unmade"
    /\ \A j \in 1..i - 1 : start[j] # "unmade"
    /\ start' = [start EXCEPT ![i] = "pending"]
    /\ pending' = i
    /\ exporter' = i
    /\ service' = [service EXCEPT ![i] = In("idle")]
    /\ opening' = Append(opening, i)
    /\ UNCHANGED <<stop, crashes, dead>>

(* Without an exporter, stopLogging() is refused and nothing changes.      *)
StopLogging ==
    /\ JSCalls
    /\ exporter # None
    /\ stop' = [stop EXCEPT ![exporter] = "pending"]
    /\ service' = [service EXCEPT ![exporter].asked = Append(@, "stop")]
    /\ exporter' = None
    /\ UNCHANGED <<pending, start, opening, crashes, dead>>

-----------------------------------------------------------------------------
(* The answers.                                                            *)

(* The promise is moved out of the optional: out of an empty one, a crash. *)
SettlePending(outcome) ==
    IF pending = None
      THEN dead' = TRUE /\ UNCHANGED <<start, pending>>
      ELSE /\ start' = [start EXCEPT ![pending] = outcome]
           /\ pending' = None
           /\ UNCHANGED dead

FileReply == ~dead /\ opening # <<>> /\ opening' = Tail(opening)

(* StartNetLogAfterCreateFile, by case: nothing is logged any more, ...    *)
FileTooLate ==
    /\ FileReply
    /\ exporter = None
    /\ UNCHANGED <<exporter, pending, start, stop, service, crashes, dead>>

(* Fault: after a refusal the exporter is started all the same.            *)
FileRefusedStartsAnyway ==
    /\ FileReply
    /\ exporter # None
    /\ SettlePending("rejected")
    /\ service' = [service EXCEPT ![exporter].asked = Append(@, "start")]
    /\ UNCHANGED <<exporter, stop, crashes>>

(* ... the file could not be opened, ...                                   *)
FileRefused ==
    /\ FileReply
    /\ exporter # None
    /\ SettlePending("rejected")
    /\ service' = [service EXCEPT ![exporter] = In("gone")]
    /\ exporter' = None
    /\ UNCHANGED <<stop, crashes>>

(* Fault: the promise is resolved when the file is open.                   *)
FileOpenedResolves ==
    /\ FileReply
    /\ exporter # None
    /\ SettlePending("resolved")
    /\ service' = [service EXCEPT ![exporter].asked = Append(@, "start")]
    /\ UNCHANGED <<exporter, stop, crashes>>

(* ... or the exporter that is in the slot is told to write to it.         *)
FileOpened ==
    /\ FileReply
    /\ exporter # None
    /\ service' = [service EXCEPT ![exporter].asked = Append(@, "start")]
    /\ UNCHANGED <<exporter, pending, start, stop, crashes, dead>>

Told(i, request) ==
    /\ ~dead
    /\ service[i].told # <<>>
    /\ Head(service[i].told).of = request
Outcome(i) == IF Head(service[i].told).ok THEN "resolved" ELSE "rejected"

NetLogStarted(i) ==
    /\ Told(i, "start")
    /\ service' = [service EXCEPT ![i].told = Tail(@)]
    /\ SettlePending(Outcome(i))
    /\ UNCHANGED <<exporter, stop, opening, crashes>>

(* The reply to stop, which owns the remote and destroys it.               *)
Stopped(i) ==
    /\ Told(i, "stop")
    /\ stop' = [stop EXCEPT ![i] = Outcome(i)]
    /\ service' = [service EXCEPT ![i] = In("gone")]
    /\ UNCHANGED <<exporter, pending, start, opening, crashes, dead>>

(* Fault: the reply to stop is dropped with its pipe.                      *)
StopReplyDropped(i) ==
    /\ ~dead
    /\ service[i].state = "lost"
    /\ service[i].told = <<>>
    /\ service' = [j \in Starts |->
                     IF j \in {i, exporter} THEN In("gone") ELSE service[j]]
    /\ exporter' = None
    /\ pending' = None
    /\ start' = [j \in Starts |-> IF j = pending THEN "rejected" ELSE start[j]]
    /\ UNCHANGED <<stop, opening, crashes, dead>>

(* OnConnectionError, for the exporter in the slot or for one that was     *)
(* given away; it clears the slot in either case.  Then the pipe's own     *)
(* callbacks go, and a promise to stop is rejected.                        *)
OnConnectionError(i) ==
    /\ ~dead
    /\ service[i].state = "lost"
    /\ service[i].told = <<>>
    /\ service' = [j \in Starts |->
                     IF j \in {i, exporter} THEN In("gone") ELSE service[j]]
    /\ exporter' = None
    /\ pending' = None
    /\ start' = [j \in Starts |-> IF j = pending THEN "rejected" ELSE start[j]]
    /\ stop' = [stop EXCEPT ![i] = IF @ = "pending" THEN "rejected" ELSE @]
    /\ UNCHANGED <<opening, crashes, dead>>

-----------------------------------------------------------------------------
(* External: the network service.                                          *)

Live(i) == service[i].state \in {"idle", "waiting", "running"}
Asked(i, request) ==
    /\ ~dead
    /\ Live(i)
    /\ service[i].asked # <<>>
    /\ Head(service[i].asked) = request

(* The exporter i changes state, after or without the request it handled,  *)
(* and sends these replies.                                                *)
ExporterStep(i, state, asked, replies) ==
    /\ service' = [service EXCEPT ![i] =
                     [state |-> state, asked |-> asked, told |-> @.told \o replies]]
    /\ UNCHANGED <<exporter, pending, start, stop, opening, crashes, dead>>

(* An exporter that is idle prepares its directory before it records.      *)
ExporterStarts(i) ==
    /\ Asked(i, "start")
    /\ IF service[i].state = "idle"
         THEN ExporterStep(i, "waiting", Tail(service[i].asked), <<>>)
         ELSE ExporterStep(i, service[i].state, Tail(service[i].asked),
                           <<[of |-> "start", ok |-> FALSE]>>)

DirectoryReady(i) ==
    /\ ~dead
    /\ service[i].state = "waiting"
    /\ \E ok \in BOOLEAN :
         ExporterStep(i, IF ok THEN "running" ELSE "idle", service[i].asked,
                      <<[of |-> "start", ok |-> ok]>>)

ExporterStops(i) ==
    /\ Asked(i, "stop")
    /\ IF service[i].state = "running"
         THEN ExporterStep(i, "idle", Tail(service[i].asked),
                           <<[of |-> "stop", ok |-> TRUE]>>)
         ELSE ExporterStep(i, service[i].state, Tail(service[i].asked),
                           <<[of |-> "stop", ok |-> FALSE]>>)

(* What was not answered by then is lost, with every pipe.                 *)
NetworkServiceCrashes ==
    /\ ~dead
    /\ crashes < MaxCrashes
    /\ crashes' = crashes + 1
    /\ service' = [i \in Starts |->
                     IF Live(i) THEN [service[i] EXCEPT !.state = "lost", !.asked = <<>>]
                                ELSE service[i]]
    /\ UNCHANGED <<patient, exporter, pending, start, stop, opening, dead>>

-----------------------------------------------------------------------------
Application ==
    /\ StopLogging \/ \E i \in Starts : StartLogging(i)
    /\ UNCHANGED patient

Files ==
    /\ FileTooLate \/ FileRefused \/ FileOpened
    /\ UNCHANGED patient

Browser(i) ==
    /\ NetLogStarted(i) \/ Stopped(i) \/ OnConnectionError(i)
    /\ UNCHANGED patient

Service(i) ==
    /\ ExporterStarts(i) \/ DirectoryReady(i) \/ ExporterStops(i)
    /\ UNCHANGED patient

Next ==
    \/ Application
    \/ Files
    \/ NetworkServiceCrashes
    \/ \E i \in Starts : Browser(i) \/ Service(i)

Spec == Init /\ [][Next]_vars

(* Files are opened or refused, and the message loop of each process runs. *)
FairSpec ==
    /\ Spec
    /\ WF_vars(Files)
    /\ \A i \in Starts : WF_vars(Browser(i)) /\ WF_vars(Service(i))

-----------------------------------------------------------------------------
(* Whatever answers an application that awaits its promises finds the      *)
(* promise it settles, as long as the network service lives.               *)
AnswersFindTheirPromise == patient /\ crashes = 0 => ~dead

(* Each promise is settled once: the slot never holds one that has been.   *)
PendingIsUnsettled == pending # None => start[pending] = "pending"

(* The exporter that was given away has a live pipe, or lost one that is   *)
(* still to be noticed: the promise to stop has somebody to settle it.     *)
StopWillBeAnswered ==
    \A i \in Starts : stop[i] = "pending" =>
        /\ i # exporter
        /\ service[i].state \notin {"none", "gone"}

(* The promise of startLogging() settles for an application that awaits    *)
(* it, also when the file is refused, the exporter refuses or it dies, and *)
(* that of stopLogging() always does, also when it overtakes the start or  *)
(* the network service dies.                                               *)
PromisesSettle ==
    \A i \in Starts :
      /\ start[i] = "pending" /\ patient ~> start[i] # "pending" \/ dead
      /\ stop[i] = "pending" ~> stop[i] # "pending" \/ dead

(* docs/api/net-log.md:38: the promise of startLogging() "resolves when    *)
(* the net log has begun recording": its own one, if calls do not overlap. *)
ResolvedMeansRecording ==
    [][patient /\ crashes = 0 =>
         \A i \in Starts : start[i] = "pending" /\ start'[i] = "resolved" =>
           service[i].state = "running"]_vars

(* net_log.cc:187: DCHECK(pending_start_promise_), for an application that *)
(* awaits every promise: the promise that an answer settles is there.      *)
PromiseIsThere == patient => ~dead

(* net_log.cc:166: "the mojo pipe could have been closed by the time we    *)
(* get here ...  If so, the promise has already been resolved".            *)
LateFileIsSettled ==
    opening # <<>> /\ exporter = None => start[Head(opening)] # "pending"

=============================================================================
