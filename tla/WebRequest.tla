------------------------------- MODULE WebRequest -------------------------------
(***************************************************************************)
(* A network request on its way through session.webRequest: the            *)
(* InProgressRequest of ProxyingURLLoaderFactory between its client (a     *)
(* page) and the loader of the network service, and the listeners of       *)
(* WebRequest, which are asked at three stages and answer at once, later   *)
(* or never.  There are three kinds of requests:                           *)
(*   "plain"          listeners are asked before the loader is started     *)
(*   "header client"  the loader is started and asks for headers itself,   *)
(*                    over a second pipe                                   *)
(*   "preflight"      a CORS preflight: a header client and no client      *)
(*                                                                         *)
(* A handler runs to its end on the main thread, through a chain of calls  *)
(* that ends in several places.  The state is therefore one record, and an *)
(* operator named for a function gives the record, or the set of records,  *)
(* that the function leaves.  Each event may or may not find a listener,   *)
(* as JavaScript sets and removes them and their filters look at URLs.     *)
(* What a listener says is carried by the task that it posts.              *)
(*                                                                         *)
(* The client and the network service are external.                        *)
(***************************************************************************)
EXTENDS Naturals, Sequences, FiniteSets

CONSTANTS
    MaxRounds, \* bound: redirects and authentications of a request
    Recreates  \* a redirect gives a new loader, as it may with CORS

ASSUME RoundsAssumption    == MaxRounds \in Nat
ASSUME RecreatesAssumption == Recreates \in BOOLEAN

VARIABLES
    q,      \* the request, its pipes, and its entry in blocked_requests_
    posted, \* answers of listeners: tasks to be run
    rounds  \* how many redirects and authentications there were

vars == <<q, posted, rounds>>

Modes    == {"plain", "header client", "preflight"}
Stages   == {"onBeforeRequest", "onBeforeSendHeaders", "onHeadersReceived"}
Events   == Stages \cup {"onSendHeaders", "onResponseStarted", "onBeforeRedirect",
                         "onCompleted", "onErrorOccurred", "cancel"}
Answers  == {"ok", "cancel", "redirect"}
Nexts    == {"start", "send", "override", "response", "redirect"}
Pipe     == {"unbound", "open", "paused"}
Loader   == {"idle", "created", "connecting", "asking", "sending", "headers",
             "received", "redirected", "responding", "done", "dead"}

Message  == {"redirect", "response", "complete", "error"}
Mail     == Seq(Message)
Log      == Seq(Events)

NoEntry  == [stage |-> "none", then |-> "none", at |-> 0]
Callback == [stage : Stages, at : Nat]
Entry    == [stage : Stages, then : Nexts, at : Nat]

Request == [mode        : Modes,
            state       : {"none", "live", "gone", "crashed"},
            blocked     : Entry \cup {NoEntry}, \* of blocked_requests_
            callbacks   : SUBSET Callback, \* JavaScript has them, and they answered nothing
            spent       : SUBSET Callback, \* those that a call without an argument used up
            client      : Pipe,     \* proxied_client_receiver_; target_loader_ with it
            header      : Pipe,     \* header_client_receiver_
            held        : {"none", "onBeforeSendHeaders", "onHeadersReceived"},
                                    \* the callback of the loader that is kept
            pending     : BOOLEAN,  \* pending_follow_redirect_params_
            redirecting : BOOLEAN,  \* the client has a redirect to follow
            factory     : {"bound", "unbound", "deleted"}, \* and target_factory_
            loader      : Loader,   \* the URLLoader of the network service
            mail        : Mail,
            ask         : {"none", "onBeforeSendHeaders", "onHeadersReceived"},
                                    \* what is in the two pipes
            log         : Log, \* history: events, heard or not, and cancels
            told        : Mail]
                                    \* history: what the client was told

Bound(pipe) == pipe # "unbound"

(* Types, and: a preflight has no client.                                  *)
TypeOK ==
    /\ q \in Request
    /\ q.mode = "preflight" => ~Bound(q.client) /\ q.told = <<>>
    /\ posted \in Seq([then : Nexts, answer : Answers])
    /\ rounds \in 0..MaxRounds

Init ==
    /\ \E m \in Modes :
         q = [mode |-> m, state |-> "none", blocked |-> NoEntry, callbacks |-> {},
              spent |-> {}, client |-> "unbound", header |-> "unbound",
              held |-> "none", pending |-> FALSE, redirecting |-> FALSE,
              factory |-> "bound", loader |-> "idle", mail |-> <<>>, ask |-> "none",
              log |-> <<>>, told |-> <<>>]
    /\ posted = <<>>
    /\ rounds = 0

-----------------------------------------------------------------------------
(* The end of a request.                                                   *)
Live == q.state = "live"
UsesHeaderClient(r) == r.mode # "plain"
Emit(r, event)      == [r EXCEPT !.log = Append(@, event)]
Tell(r, message)    == IF r.mode = "preflight" THEN r
                       ELSE [r EXCEPT !.told = Append(@, message)]

(* Fault: a request that failed is counted by the factory for ever.        *)
NeverDeleteThis(r) == r

MaybeDeleteThis(r) ==
    [r EXCEPT !.factory = IF @ = "unbound" /\ r.state # "live" THEN "deleted" ELSE @]

(* Fault: the loader goes on with the request that was redirected.         *)
StayAttached(r) == r

(* Closes the pipes to the loader, which is then gone.                     *)
Detach(r) == [r EXCEPT !.client = "unbound", !.header = "unbound",
                       !.loader = "idle", !.mail = <<>>, !.ask = "none"]

(* Fault: the entry is kept.                                               *)
Keep(r) == r

(* OnRequestWillBeDestroyed, and the same line of the two last events.     *)
Forget(r) == [r EXCEPT !.blocked = NoEntry]

(* Fault: the callbacks of the loader are dropped.                         *)
DropHeld(r) == r

(* The callbacks that are kept are run with ERR_ABORTED.                   *)
ReleaseHeld(r) == [r EXCEPT !.held = "none"]

RemoveRequest(r) ==
    MaybeDeleteThis([ReleaseHeld(Forget(Detach(r))) EXCEPT
                       !.state = "gone", !.pending = FALSE, !.redirecting = FALSE])

OnRequestError(r) == RemoveRequest(Emit(Tell(r, "error"), "onErrorOccurred"))

-----------------------------------------------------------------------------
(* The chain of calls.  What a loader does next; one that ended does not.  *)
Proceed(r, loader) ==
    [r EXCEPT !.loader = IF @ \in {"done", "dead"} THEN @ ELSE loader]

(* Fault: a paused receiver stays paused.                                  *)
StaysPaused(pipe) == pipe

Resume(pipe) == IF pipe = "paused" THEN "open" ELSE pipe

(* Fault: the receiver is not paused.                                      *)
Runs(pipe) == pipe

Pause(pipe) == IF pipe = "open" THEN "paused" ELSE pipe

(* A matching listener is run: ERR_IO_PENDING.                             *)
Block(r, stage, then) ==
    [r EXCEPT !.blocked = [stage |-> stage, then |-> then, at |-> Len(r.log)],
              !.callbacks = @ \cup {[stage |-> stage, at |-> Len(r.log)]}]

(* Fault: the client is told of the redirect, JavaScript is not.           *)
SilentRedirect(r) ==
    Tell([r EXCEPT !.client = Resume(@), !.redirecting = TRUE], "redirect")

ContinueToBeforeRedirect(r) ==
    Tell(Emit([r EXCEPT !.client = Resume(@), !.redirecting = TRUE],
              "onBeforeRedirect"),
         "redirect")

HandleBeforeRequestRedirect(r) ==
    IF r.mode = "preflight" THEN OnRequestError(r)
    ELSE ContinueToBeforeRedirect(Detach(r))

HasLoader(r) == r.mode = "preflight" \/ Bound(r.client)

ContinueToStartRequest(r) ==
    LET s == [r EXCEPT !.client = Resume(@), !.header = Resume(@)] IN
    IF HasLoader(s) \/ s.factory # "bound" THEN s
    ELSE [s EXCEPT !.client = "open",
                   !.loader = IF UsesHeaderClient(s) THEN "created" ELSE "sending"]

ContinueToSendHeaders(r) ==
    LET sent == IF UsesHeaderClient(r) THEN Proceed([r EXCEPT !.held = "none"], "sending")
                ELSE IF r.pending /\ Bound(r.client)
                  THEN Proceed([r EXCEPT !.pending = FALSE], "sending")
                ELSE [r EXCEPT !.pending = FALSE]
        told == Emit([sent EXCEPT !.client = Resume(@)], "onSendHeaders")
    IN IF UsesHeaderClient(r) THEN told ELSE ContinueToStartRequest(told)

(* The client receiver is resumed, also to wait for a listener.            *)
ContinueToBeforeSendHeaders(r) ==
    LET s == Emit([r EXCEPT !.client = Resume(@)], "onBeforeSendHeaders") IN
    {Block(s, "onBeforeSendHeaders", "send"), ContinueToSendHeaders(s)}

AfterBeforeRequest(r) ==
    IF UsesHeaderClient(r) THEN {ContinueToStartRequest(r)}
    ELSE ContinueToBeforeSendHeaders(r)

RestartInternal(r) ==
    LET s == Emit(r, "onBeforeRequest") IN
    {[Block(s, "onBeforeRequest", "start") EXCEPT
        !.client = Pause(@), !.header = Pause(@)]} \cup AfterBeforeRequest(s)

ContinueToResponseStarted(r) ==
    Tell(Emit([r EXCEPT !.client = Resume(@)], "onResponseStarted"), "response")

(* A preflight ends here, unless the proxy wants to know who asks.         *)
ContinueToHandleOverrideHeaders(r) ==
    LET s == Proceed([r EXCEPT !.held = "none"], "received") IN
    IF s.mode = "preflight"
      THEN {s, RemoveRequest(Emit(Emit(s, "onResponseStarted"), "onCompleted"))}
      ELSE {[s EXCEPT !.client = Resume(@)]}

AfterHeadersReceived(r, then) ==
    CASE then = "override" -> ContinueToHandleOverrideHeaders(r)
      [] then = "response" -> {ContinueToResponseStarted(r)}
      [] then = "redirect" -> {ContinueToBeforeRedirect(r)}

HandleResponseOrRedirectHeaders(r, then) ==
    LET s == Emit(r, "onHeadersReceived") IN
    {[Block(s, "onHeadersReceived", then) EXCEPT !.client = Pause(@)]}
      \cup AfterHeadersReceived(s, then)

(* The posted task.  A listener of onBeforeRequest redirects by a URL, one *)
(* of onHeadersReceived by the headers that it overrides.                  *)
Continue(r, task) ==
    CASE task.answer = "cancel" -> {OnRequestError(r)}
      [] task.answer = "redirect" -> {HandleBeforeRequestRedirect(r)}
      [] task.answer = "ok" /\ task.then = "start" -> AfterBeforeRequest(r)
      [] task.answer = "ok" /\ task.then = "send" -> {ContinueToSendHeaders(r)}
      [] OTHER -> AfterHeadersReceived(r, task.then)

-----------------------------------------------------------------------------
(* The main thread: the client, JavaScript and its tasks.                  *)
CreateLoaderAndStart ==
    /\ q.state = "none"
    /\ q.mode # "preflight"
    /\ q' \in RestartInternal([q EXCEPT !.state = "live"])
    /\ UNCHANGED <<posted, rounds>>

(* The loader of a preflight is there already, and waits to be asked.      *)
OnLoaderForCorsPreflightCreated ==
    /\ q.state = "none"
    /\ q.mode = "preflight"
    /\ q' \in RestartInternal([q EXCEPT !.state = "live", !.header = "open",
                                        !.loader = "connecting"])
    /\ UNCHANGED <<posted, rounds>>

(* On…ListenerResult.  An entry has the callback of its own stage only.    *)
Extract(c, answer) ==
    LET used  == [q EXCEPT !.callbacks = @ \ {c}]
        taken == Forget(used)
    IN IF q.blocked = NoEntry THEN used
       ELSE IF q.blocked.stage # c.stage THEN [used EXCEPT !.state = "crashed"]
       ELSE IF answer = "cancel" THEN Emit(taken, "cancel")
       ELSE taken

ListenerResult(c, answer) ==
    /\ q.state # "crashed"
    /\ c \in q.callbacks \ q.spent
    /\ answer = "redirect" => /\ rounds < MaxRounds
                              /\ \/ c.stage = "onBeforeRequest"
                                 \/ q.blocked.then = "response"
    /\ q' = Extract(c, answer)
    /\ posted' = IF q.blocked.stage = c.stage
                   THEN Append(posted, [then |-> q.blocked.then, answer |-> answer])
                   ELSE posted
    /\ rounds' = IF answer = "redirect" THEN rounds + 1 ELSE rounds

(* CallTranslator: a callback that is called without an argument counts as *)
(* called, and throws before it gets to the listener's result.             *)
CallWithoutArgument(c) ==
    /\ q.state # "crashed"
    /\ c \in q.callbacks \ q.spent
    /\ q' = [q EXCEPT !.spent = @ \cup {c}]
    /\ UNCHANGED <<posted, rounds>>

(* The task holds a weak pointer.                                          *)
RunPosted ==
    /\ q.state # "crashed"
    /\ posted # <<>>
    /\ posted' = Tail(posted)
    /\ IF Live THEN q' \in Continue(q, Head(posted)) ELSE UNCHANGED q
    /\ UNCHANGED rounds

FollowRedirect ==
    /\ Live
    /\ q.redirecting
    /\ LET r == [q EXCEPT !.redirecting = FALSE]
           s == IF ~Bound(r.client) THEN r
                ELSE IF UsesHeaderClient(r)
                  THEN Proceed(r, IF Recreates THEN "created" ELSE "connecting")
                ELSE [r EXCEPT !.pending = TRUE]
       IN q' \in RestartInternal(s)
    /\ UNCHANGED <<posted, rounds>>

(* The disconnect handlers of the two pipes to the client.                 *)
ClientGone ==
    /\ Live
    /\ q.mode # "preflight"
    /\ q' = OnRequestError(q)
    /\ UNCHANGED <<posted, rounds>>

OnProxyBindingError ==
    /\ q.state # "crashed"
    /\ q.factory = "bound"
    /\ q.state # "none"
    /\ q' = MaybeDeleteThis([q EXCEPT !.factory = "unbound"])
    /\ UNCHANGED <<posted, rounds>>

-----------------------------------------------------------------------------
(* The main thread: messages of the loader.  A paused pipe keeps its own.  *)
OnLoaderCreated ==
    /\ Live
    /\ q.loader = "created"
    /\ q' = [q EXCEPT !.header = "open", !.loader = "connecting"]
    /\ UNCHANGED <<posted, rounds>>

OnBeforeSendHeaders ==
    /\ Live
    /\ q.header = "open"
    /\ q.ask = "onBeforeSendHeaders"
    /\ q' \in ContinueToBeforeSendHeaders([q EXCEPT !.ask = "none", !.held = q.ask])
    /\ UNCHANGED <<posted, rounds>>

OnHeadersReceived ==
    /\ Live
    /\ q.header = "open"
    /\ q.ask = "onHeadersReceived"
    /\ q' \in HandleResponseOrRedirectHeaders([q EXCEPT !.ask = "none", !.held = q.ask],
                                              "override")
    /\ UNCHANGED <<posted, rounds>>

Receive(message) ==
    /\ Live
    /\ q.client = "open"
    /\ q.mail # <<>>
    /\ Head(q.mail) = message
    /\ UNCHANGED <<posted, rounds>>

Received == [q EXCEPT !.mail = Tail(@)]

OnReceiveResponse ==
    /\ Receive("response")
    /\ IF UsesHeaderClient(q) THEN q' = ContinueToResponseStarted(Received)
       ELSE q' \in HandleResponseOrRedirectHeaders(Received, "response")

OnReceiveRedirect ==
    /\ Receive("redirect")
    /\ IF UsesHeaderClient(q) THEN q' = ContinueToBeforeRedirect(Received)
       ELSE q' \in HandleResponseOrRedirectHeaders(Received, "redirect")

OnComplete ==
    \/ /\ Receive("complete")
       /\ q' = RemoveRequest(Emit(Tell(Received, "complete"), "onCompleted"))
    \/ /\ Receive("error")
       /\ q' = OnRequestError(Received)

(* A preflight has no other pipe that would tell of an error.              *)
HeaderClientGone ==
    /\ Live
    /\ q.mode = "preflight"
    /\ q.header = "open"
    /\ q.ask = "none"
    /\ q.loader \in {"done", "dead"}
    /\ q' = OnRequestError(q)
    /\ UNCHANGED <<posted, rounds>>

-----------------------------------------------------------------------------
(* The loader of the network service.  A file, a handler of a protocol or  *)
(* an HSTS upgrade answers before headers are asked for; a redirect comes  *)
(* after OnLoaderCreated.                                                  *)
Answering == IF UsesHeaderClient(q) THEN {"created", "connecting", "received"}
             ELSE {"sending"}

LoaderAsks ==
    /\ q.ask = "none"
    /\ \/ /\ q.loader = "connecting"
          /\ q' = [q EXCEPT !.ask = "onBeforeSendHeaders", !.loader = "asking"]
       \/ /\ q.loader = "sending"
          /\ UsesHeaderClient(q)
          /\ q' = [q EXCEPT !.ask = "onHeadersReceived", !.loader = "headers"]
    /\ UNCHANGED <<posted, rounds>>

LoaderResponds ==
    /\ q.mode # "preflight"
    /\ q.loader \in Answering
    /\ q' = [q EXCEPT !.mail = Append(@, "response"), !.loader = "responding"]
    /\ UNCHANGED <<posted, rounds>>

LoaderRedirects ==
    /\ q.mode # "preflight"
    /\ q.loader \in Answering
    /\ q.loader # "created"
    /\ rounds < MaxRounds
    /\ q' = [q EXCEPT !.mail = Append(@, "redirect"), !.loader = "redirected"]
    /\ rounds' = rounds + 1
    /\ UNCHANGED posted

Working == {"created", "connecting", "sending", "received", "responding"}

(* An authentication: headers are sent again.                              *)
LoaderRetries ==
    /\ q.loader = "received"
    /\ rounds < MaxRounds
    /\ q' = [q EXCEPT !.loader = "connecting"]
    /\ rounds' = rounds + 1
    /\ UNCHANGED posted

LoaderCompletes ==
    /\ q.loader = "responding"
    /\ q' = [q EXCEPT !.mail = Append(@, "complete"), !.loader = "done"]
    /\ UNCHANGED <<posted, rounds>>

LoaderFails ==
    /\ q.loader \notin {"idle", "done", "dead"}
    /\ q' = [q EXCEPT !.mail = IF q.mode = "preflight" THEN @ ELSE Append(@, "error"),
                      !.loader = "done"]
    /\ UNCHANGED <<posted, rounds>>

(* OnTargetFactoryError: with the factory the loader is gone.              *)
NetworkServiceDies ==
    /\ q.state \in {"live", "gone"}
    /\ q.factory = "bound"
    /\ q' = MaybeDeleteThis([q EXCEPT !.factory = "unbound",
                                      !.loader = IF @ \in {"idle", "done"} THEN @
                                                 ELSE "dead"])
    /\ UNCHANGED <<posted, rounds>>

-----------------------------------------------------------------------------
Listeners == \E c \in q.callbacks, answer \in Answers : ListenerResult(c, answer)

Mistakes == \E c \in q.callbacks : CallWithoutArgument(c)

Client == CreateLoaderAndStart \/ FollowRedirect \/ ClientGone \/ OnProxyBindingError

Messages ==
    \/ OnLoaderForCorsPreflightCreated
    \/ OnLoaderCreated
    \/ OnBeforeSendHeaders
    \/ OnHeadersReceived
    \/ OnReceiveResponse
    \/ OnReceiveRedirect
    \/ OnComplete
    \/ HeaderClientGone

NetworkService ==
    \/ LoaderAsks
    \/ LoaderResponds
    \/ LoaderRedirects
    \/ LoaderRetries
    \/ LoaderCompletes
    \/ LoaderFails
    \/ NetworkServiceDies

Next == Listeners \/ Mistakes \/ RunPosted \/ Client \/ Messages \/ NetworkService

(* Tasks and messages are run, listeners answer, as the documentation asks *)
(* them to, a client follows redirects, and a loader that has the next     *)
(* move and does nothing else fails, by its timeout.                       *)
Fairness ==
    /\ WF_vars(Listeners)
    /\ WF_vars(RunPosted)
    /\ WF_vars(Messages)
    /\ WF_vars(FollowRedirect)
    /\ WF_vars(LoaderFails /\ q.loader \in Working)

Spec == Init /\ [][Next]_vars /\ Fairness

-----------------------------------------------------------------------------
(* What may come after an event.  With a header client an answer that does *)
(* not come from the network skips events, and headers may be sent again.  *)
Follows(mode, event) ==
    LET skips(events) == IF mode = "plain" THEN {} ELSE events IN
    {"onErrorOccurred"} \cup
    CASE event = "onBeforeRequest" ->
           {"cancel", "onBeforeRedirect", "onBeforeSendHeaders"}
             \cup skips({"onResponseStarted"})
      [] event = "onBeforeSendHeaders" -> {"cancel", "onSendHeaders"}
      [] event = "onSendHeaders" -> {"onHeadersReceived"}
      [] event = "onHeadersReceived" ->
           {"cancel", "onBeforeRedirect", "onResponseStarted"}
             \cup skips({"onBeforeSendHeaders"})
      [] event = "onBeforeRedirect" -> {"onBeforeRequest"}
      [] event = "onResponseStarted" -> {"onCompleted"}
      [] event = "cancel" -> {}

Final == {"onCompleted", "onErrorOccurred"}

(* The events of a request come in their order, with redirects and         *)
(* retries, none is skipped that the network is asked for, nothing comes   *)
(* after the last one, and after a listener cancelled the request there is *)
(* only its error.  (RestartInternal to OnRequestError)                    *)
EventsInOrder ==
    \A i \in 2..Len(q.log) :
       /\ q.log[i - 1] \notin Final
       /\ q.log[i] \in Follows(q.mode, q.log[i - 1])

Seen == [e \in {"onBeforeRedirect", "onResponseStarted", "onCompleted", "onErrorOccurred"} |->
           CASE e = "onBeforeRedirect"  -> "redirect"
             [] e = "onResponseStarted" -> "response"
             [] e = "onCompleted"       -> "complete"
             [] e = "onErrorOccurred"   -> "error"]

(* A page sees of its request what JavaScript is told, in the same order:  *)
(* no response or redirect before the listeners let it pass, one end, and  *)
(* never an end that is not reported.  (target_client_)                    *)
ClientAgrees ==
    LET visible == {i \in DOMAIN q.log : q.log[i] \in DOMAIN Seen} IN
    q.mode # "preflight" =>
      /\ Len(q.told) = Cardinality(visible)
      /\ \A i \in visible :
           q.told[Cardinality({j \in visible : j <= i})] = Seen[q.log[i]]

(* There is one question at a time: while a request lives, JavaScript has  *)
(* no callback but that of the entry, so that no answer is taken for that  *)
(* of another stage, and no entry outlives the request it points into.     *)
(* (blocked_requests_, which knows a request by its id only)               *)
OneQuestion ==
    /\ q.state # "crashed"
    /\ q.blocked # NoEntry => q.state = "live" /\ posted = <<>>
    /\ Live => q.callbacks = IF q.blocked = NoEntry THEN {}
                             ELSE {[stage |-> q.blocked.stage, at |-> q.blocked.at]}
    /\ Len(posted) <= 1

(* The loader waits for a callback as long as it is kept, and over a pipe  *)
(* that is open: it is run before the request goes.                        *)
(* (on_before_send_headers_callback_, on_headers_received_callback_)       *)
HeldIsAwaited ==
    q.held # "none" =>
      /\ Live
      /\ Bound(q.header)
      /\ q.loader \in {"done", "dead",
                       IF q.held = "onBeforeSendHeaders" THEN "asking" ELSE "headers"}

(* A factory that lost its pipes stays for its request, and no longer.     *)
(* (MaybeDeleteThis)                                                       *)
FactoryStaysForRequest ==
    /\ TypeOK
    /\ q.factory # "bound" => (q.factory = "deleted") = ~Live

(* While a listener is asked, nothing happens to the request but that it   *)
(* is cancelled or fails.  (RestartInternal pauses both pipes)             *)
FutureEventsWait ==
    [][q.blocked # NoEntry =>
         q'.log \in {q.log, Append(q.log, "cancel"), Append(q.log, "onErrorOccurred")}]_vars

(* Every request ends, if its factory stays and listeners answer.  One     *)
(* that is asked about with a callback that was used up in vain has nobody *)
(* left to answer.  (blocked_requests_, CallTranslator)                    *)
RequestEnds == Live ~> (~Live \/ q.factory # "bound" \/ q.spent # {})
=============================================================================
