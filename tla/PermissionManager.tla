--------------------------- MODULE PermissionManager ---------------------------
(***************************************************************************)
(* ElectronPermissionManager: the permission requests of web pages, and    *)
(* the handler of session.setPermissionRequestHandler() that decides them. *)
(*                                                                         *)
(* A page asks for one or more permissions at a time.  The handler is run  *)
(* once for each of them, with a callback to be called at once, later or   *)
(* never; when all were called the page is answered.  In the handler and,  *)
(* by events such as 'enter-html-full-screen', while a page is answered,   *)
(* JavaScript may call callbacks, remove the handler or set another one:   *)
(* the calls in progress are the variable frames, innermost first.         *)
(*                                                                         *)
(* One thread.  Pages and the content layer, which ask and are answered,   *)
(* are external.  What a permission is for does not matter here.           *)
(***************************************************************************)
EXTENDS Naturals, Sequences, FiniteSets

CONSTANTS
    Requests,    \* the requests of pages
    WebContents, \* the pages
    MaxBatch,    \* bound: how many permissions a page asks for at a time
    MaxDepth     \* bound: how many calls are in progress

ASSUME PageAssumption  == "none" \notin WebContents
ASSUME BatchAssumption == MaxBatch \in Nat
ASSUME DepthAssumption == MaxDepth \in Nat \ {0}

VARIABLES
    request_handler_,  \* is not null
    pending_requests_, \* by their ids
    next_id,           \* of pending_requests_
    frames,            \* the calls in progress, innermost first
    callbacks,         \* those JavaScript was given and that have decided nothing
    spent,             \* of these, the ones that a call without an argument used up
    crashed,           \* a null handler was run
    page,              \* the page of a request, or "none" before it is made
    alive,             \* the pages that exist
    gone,              \* the requests whose frame was deleted
    replies,           \* history: what a request was answered with, and why
    decisions          \* history: what the callbacks of a request were called with

manager == <<request_handler_, pending_requests_, next_id>>
vars    == <<manager, frames, callbacks, spent, crashed, page, alive, gone,
             replies, decisions>>

Ids      == Nat \ {0}
Pending  == DOMAIN pending_requests_
Statuses == {"granted", "denied"}
Batches  == {results \in Seq(Statuses) : Len(results) <= MaxBatch}
Reasons  == {"handler", "no handler", "cleared", "fenced frame"}

PendingRequest == [request : Requests, results_ : Batches, callback_ : BOOLEAN,
                   remaining_results_ : 0..MaxBatch]
Callback       == [request : Requests, id : Ids, i : 1..MaxBatch]
Frame          == [call : {"request"}, id : Ids, request : Requests, n : 1..MaxBatch,
                   i : 1..MaxBatch]
                    \cup [call : {"response"}, id : Ids]
                    \cup [call : {"reply"}]
                    \cup [call : {"clear"}, todo : SUBSET Ids]

TypeOK ==
    /\ request_handler_ \in BOOLEAN
    /\ Pending \subseteq Ids
    /\ \A id \in Pending : pending_requests_[id] \in PendingRequest
    /\ next_id \in Ids
    /\ frames \in Seq(Frame)
    /\ callbacks \subseteq Callback
    /\ spent \subseteq callbacks
    /\ crashed \in BOOLEAN
    /\ page \in [Requests -> WebContents \cup {"none"}]
    /\ alive \subseteq WebContents
    /\ gone \subseteq Requests
    /\ replies \in [Requests -> Seq([results : Batches, reason : Reasons])]
    /\ decisions \in [Requests -> [1..MaxBatch -> Statuses \cup {"none"}]]

Init ==
    /\ request_handler_ = FALSE
    /\ pending_requests_ = <<>>
    /\ next_id = 1
    /\ frames = <<>>
    /\ callbacks = {}
    /\ spent = {}
    /\ crashed = FALSE
    /\ page = [r \in Requests |-> "none"]
    /\ alive = WebContents
    /\ gone = {}
    /\ replies = [r \in Requests |-> <<>>]
    /\ decisions = [r \in Requests |-> [i \in 1..MaxBatch |-> "none"]]

-----------------------------------------------------------------------------
(* The call that goes on.  JavaScript runs in the handler, in what the     *)
(* answer to a page sets off, and in tasks.                                *)
Task       == frames = <<>> /\ ~crashed
In(call)   == frames # <<>> /\ ~crashed /\ Head(frames).call = call
JSRuns     == Task \/ In("request") \/ In("reply")
Enter(new) == Len(frames) < MaxDepth /\ frames' = new \o frames
Return     == frames' = Tail(frames)

With(id, request) ==
    [k \in Pending \cup {id} |-> IF k = id THEN request ELSE pending_requests_[k]]
Without(ids) == [id \in Pending \ ids |-> pending_requests_[id]]

(* The callback of the content layer.                                      *)
Reply(r, results, reason) ==
    replies' = [replies EXCEPT ![r] = Append(@, [results |-> results, reason |-> reason])]

(* Fault: ids are given again.                                             *)
SmallestId == CHOOSE id \in 1..next_id : /\ id \notin Pending
                                         /\ \A k \in 1..(id - 1) : k \in Pending

NewId == next_id

(* One turn of the loop of RequestPermissionsWithDetails.                  *)
RunHandler(id, r, i) ==
    callbacks' = callbacks \cup {[request |-> r, id |-> id, i |-> i]}

AnswerAtOnce(r, n, status, reason) ==
    /\ Reply(r, [i \in 1..n |-> status], reason)
    /\ Enter(<<[call |-> "reply"]>>)
    /\ UNCHANGED <<manager, callbacks>>

AskHandler(r, n) ==
    /\ next_id' = next_id + 1
    /\ pending_requests_' = With(NewId, [request |-> r,
                                         results_ |-> [i \in 1..n |-> "denied"],
                                         callback_ |-> TRUE,
                                         remaining_results_ |-> n])
    /\ RunHandler(NewId, r, 1)
    /\ Enter(<<[call |-> "request", id |-> NewId, request |-> r, n |-> n, i |-> 1]>>)
    /\ UNCHANGED <<request_handler_, replies>>

RequestPermissions(r, w, n) ==
    /\ Task
    /\ page[r] = "none"
    /\ w \in alive
    /\ page' = [page EXCEPT ![r] = w]
    /\ \/ AnswerAtOnce(r, n, "denied", "fenced frame")
       \/ /\ n = 0 \/ ~request_handler_
          /\ AnswerAtOnce(r, n, "granted", "no handler")
       \/ /\ n > 0 /\ request_handler_
          /\ AskHandler(r, n)
    /\ UNCHANGED <<spent, crashed, alive, gone, decisions>>

(* The loop goes on with the handler there is now.                         *)
HandlerReturns ==
    /\ In("request")
    /\ LET top == Head(frames) IN
         IF top.i = top.n THEN Return /\ UNCHANGED <<callbacks, crashed>>
         ELSE IF request_handler_
                THEN /\ RunHandler(top.id, top.request, top.i + 1)
                     /\ frames' = <<[top EXCEPT !.i = @ + 1]>> \o Tail(frames)
                     /\ UNCHANGED crashed
                ELSE crashed' = TRUE /\ UNCHANGED <<frames, callbacks>>
    /\ UNCHANGED <<manager, spent, page, alive, gone, replies, decisions>>

(* CallTranslator: a second call throws, whatever the first one came to.   *)
Use(c) == c \in callbacks \ spent /\ callbacks' = callbacks \ {c}

(* JavaScript calls a callback without an argument.  It counts as called   *)
(* before the argument is missed: the call throws, nothing is decided, and *)
(* the callback is used up.                                                *)
CallWithoutArgument(c) ==
    /\ JSRuns
    /\ c \in callbacks \ spent
    /\ spent' = spent \cup {c}
    /\ UNCHANGED <<manager, frames, callbacks, crashed, page, alive, gone, replies,
                   decisions>>

(* Fault: only what is granted is counted.                                 *)
CountGranted(request, i, status) ==
    [request EXCEPT !.results_[i] = status,
                    !.remaining_results_ = IF status = "granted" THEN @ - 1 ELSE @]

SetPermissionStatus(request, i, status) ==
    [request EXCEPT !.results_[i] = status, !.remaining_results_ = @ - 1]

IsComplete(request) == request.remaining_results_ = 0

(* Fault: the callback of the page can be run again.                       *)
KeepCallback(request) == request

MoveCallback(request) == [request EXCEPT !.callback_ = FALSE]

(* JavaScript calls a callback that the handler was given.                 *)
OnPermissionResponse(c, status) ==
    /\ JSRuns
    /\ Use(c)
    /\ decisions' = [decisions EXCEPT ![c.request][c.i] = status]
    /\ IF c.id \notin Pending
         THEN UNCHANGED <<frames, pending_requests_, replies>>
         ELSE LET decided == SetPermissionStatus(pending_requests_[c.id], c.i, status) IN
                 IF ~IsComplete(decided)
                   THEN /\ pending_requests_' = [pending_requests_ EXCEPT ![c.id] = decided]
                        /\ UNCHANGED <<frames, replies>>
                 ELSE IF decided.callback_
                   THEN /\ pending_requests_' =
                             [pending_requests_ EXCEPT ![c.id] = MoveCallback(decided)]
                        /\ Reply(decided.request, decided.results_, "handler")
                        /\ Enter(<<[call |-> "reply"], [call |-> "response", id |-> c.id]>>)
                   ELSE /\ pending_requests_' = Without({c.id})
                        /\ UNCHANGED <<frames, replies>>
    /\ UNCHANGED <<request_handler_, next_id, spent, crashed, page, alive, gone>>

ReplyReturns ==
    /\ In("reply")
    /\ Return
    /\ UNCHANGED <<manager, callbacks, spent, crashed, page, alive, gone, replies,
                   decisions>>

ResponseReturns ==
    /\ In("response")
    /\ pending_requests_' = Without({Head(frames).id})
    /\ Return
    /\ UNCHANGED <<request_handler_, next_id, callbacks, spent, crashed, page, alive,
                   gone, replies, decisions>>

SetHandler ==
    /\ JSRuns
    /\ request_handler_' = TRUE
    /\ UNCHANGED <<pending_requests_, next_id, frames, callbacks, spent, crashed, page,
                   alive, gone, replies, decisions>>

(* SetPermissionRequestHandler(null).                                      *)
ClearHandler ==
    /\ JSRuns
    /\ IF Pending = {}
         THEN request_handler_' = FALSE /\ UNCHANGED frames
         ELSE /\ Enter(<<[call |-> "clear", todo |-> Pending]>>)
              /\ UNCHANGED request_handler_
    /\ UNCHANGED <<pending_requests_, next_id, callbacks, spent, crashed, page, alive,
                   gone, replies, decisions>>

(* One turn of its loop, in no certain order.                              *)
ClearNext ==
    /\ In("clear")
    /\ \E id \in Head(frames).todo :
         LET rest == <<[Head(frames) EXCEPT !.todo = @ \ {id}]>> \o Tail(frames) IN
         IF /\ id \in Pending
            /\ pending_requests_[id].callback_
            /\ pending_requests_[id].request \notin gone
           THEN /\ pending_requests_' =
                     [pending_requests_ EXCEPT ![id] = MoveCallback(pending_requests_[id])]
                /\ Reply(pending_requests_[id].request, pending_requests_[id].results_, "cleared")
                /\ frames' = <<[call |-> "reply"]>> \o rest
           ELSE /\ frames' = rest
                /\ UNCHANGED <<pending_requests_, replies>>
    /\ UNCHANGED <<request_handler_, next_id, callbacks, spent, crashed, page, alive,
                   gone, decisions>>

Clear == <<>>

ClearReturns ==
    /\ In("clear")
    /\ Head(frames).todo = {}
    /\ pending_requests_' = Clear
    /\ request_handler_' = FALSE
    /\ Return
    /\ UNCHANGED <<next_id, callbacks, spent, crashed, page, alive, gone, replies,
                   decisions>>

(* Fault: the requests of other pages are cancelled too.                   *)
CancelAll(w) == pending_requests_' = <<>>

CancelPendingRequests(w) ==
    pending_requests_' = Without({id \in Pending :
                                    LET r == pending_requests_[id].request
                                    IN r \in gone \/ page[r] = w})

(* With the object that wraps them, or, having lost it, without.           *)
WebContentsDestroyed(w) ==
    /\ Task
    /\ w \in alive
    /\ alive' = alive \ {w}
    /\ gone' = gone \cup {r \in Requests : page[r] = w}
    /\ CancelPendingRequests(w) \/ UNCHANGED pending_requests_
    /\ UNCHANGED <<request_handler_, next_id, frames, callbacks, spent, crashed, page,
                   replies, decisions>>

FrameDeleted(r) ==
    /\ Task
    /\ page[r] # "none"
    /\ gone' = gone \cup {r}
    /\ UNCHANGED <<manager, frames, callbacks, spent, crashed, page, alive, replies,
                   decisions>>

-----------------------------------------------------------------------------
Page == \/ \E r \in Requests, w \in WebContents, n \in 0..MaxBatch :
             RequestPermissions(r, w, n)
        \/ \E w \in WebContents : WebContentsDestroyed(w)
        \/ \E r \in Requests : FrameDeleted(r)

JavaScript == \/ SetHandler
              \/ ClearHandler
              \/ \E c \in callbacks : CallWithoutArgument(c)
              \/ \E c \in callbacks, status \in Statuses : OnPermissionResponse(c, status)

Returns == \/ HandlerReturns
           \/ ReplyReturns
           \/ ResponseReturns
           \/ ClearNext
           \/ ClearReturns

Next == Page \/ JavaScript \/ Returns

Spec == Init /\ [][Next]_vars

-----------------------------------------------------------------------------
(* electron_permission_manager.cc:99: the page is answered once, whether   *)
(* the last callback, setPermissionRequestHandler(null) or both at a time  *)
(* get there.                                                              *)
AnsweredOnce == \A r \in Requests : Len(replies[r]) <= 1

(* OnPermissionResponse: the page hears of each permission what the        *)
(* callback of that permission was called with, and a permission nobody    *)
(* has decided is not granted.  Callbacks of requests that were cleared or *)
(* cancelled, and are called late, decide nothing.                         *)
DecidedByItsOwn ==
    \A r \in Requests : \A k \in 1..Len(replies[r]) :
      LET reply == replies[r][k] IN \A i \in 1..Len(reply.results) :
        /\ reply.reason = "handler" => reply.results[i] = decisions[r][i]
        /\ reply.reason = "cleared" /\ reply.results[i] = "granted" =>
             decisions[r][i] = "granted"

(* What has still to be decided: callbacks that JavaScript holds, or has   *)
(* used up in vain, or that the loop has still to give it.                 *)
InProgress    == {frames[k] : k \in 1..Len(frames)}
Asking        == {f \in InProgress : f.call = "request"}
Undecided(id) ==
    {c.i : c \in {c \in callbacks : c.id = id}} \cup
    UNION {f.i + 1 .. f.n : f \in {f \in Asking : f.id = id}}

(* remaining_results_ counts these callbacks, whatever was answered, while *)
(* the loop went on, or after the entry was cleared and another one made.  *)
(* A request cannot complete early, and it waits for nobody only when each *)
(* callback it lacks was called without an argument.  (CallTranslator has  *)
(* marked it as called by the time that the conversion fails.)             *)
CountsUndecided == TypeOK /\
    \A id \in Pending :
      pending_requests_[id].remaining_results_ = Cardinality(Undecided(id))

(* A page whose request is decided, or cleared, hears of it, as long as    *)
(* its frame exists: if it has heard nothing, there is a handler, and its  *)
(* request is pending.  Without a handler nobody is left waiting.          *)
(* (SetPermissionRequestHandler, CancelPendingRequests)                    *)
DecidedIsHeard ==
    Task =>
      /\ Pending # {} => request_handler_
      /\ \A r \in Requests :
           page[r] # "none" /\ r \notin gone /\ replies[r] = <<>> =>
             \E id \in Pending : pending_requests_[id].request = r

(* spec/api-session.spec.ts:1994: the handler may remove the handler ("    *)
(* cancels any pending requests when cleared"), and what is run after that *)
(* is not the null handler.                                                *)
HandlerIsThere == ~crashed

=============================================================================
