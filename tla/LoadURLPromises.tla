--------------------------- MODULE LoadURLPromises ---------------------------
(***************************************************************************)
(* The promises that webContents.loadURL() returns.  LoadURLPromises keeps *)
(* the pending ones and settles them from the navigation events of the     *)
(* WebContents, right before each event is emitted.  An event does not     *)
(* say which loadURL() it is about: every pending promise hears every      *)
(* event, and two flags and an error tell it what the event means to it.   *)
(*                                                                         *)
(* Everything runs on the UI thread.  The hazards are the order in which   *)
(* content reports navigations that replace each other, and JavaScript     *)
(* that calls loadURL() while an event is emitted.  Handlers that matter   *)
(* are frames of the stack; in all others a loadURL() has the effect of    *)
(* one made by a task of the message loop.  Content's main frame is        *)
(* external and modelled from the events this code is sent.                *)
(***************************************************************************)
EXTENDS Naturals, Sequences

CONSTANTS
    Promises, \* the promises loadURL() may make
    Page,     \* the author of a navigation the page itself starts
    MaxActs   \* bound: what page, network and renderer do on their own

ASSUME PromisesAssumption == Page \notin Promises
ASSUME MaxActsAssumption == MaxActs \in Nat

VARIABLES
    outcome,  \* "pending": in pending_; otherwise how it was settled
    started,  \* navigation_started
    inpage,   \* browser_initiated_in_page_navigation
    error,    \* error: the reason a rejection would give
    posted,   \* the loads posted to the message loop by loadURL()
    stack,    \* the events being emitted, innermost last
    nav,      \* external: the main frame's navigation that has not committed
    doc,      \* external: the main frame's document
    loading,  \* external: DidStopLoading is owed
    unload_url, \* pending_unload_url_ is set
    alive,    \* the WebContents exists
    begun,    \* history: promises whose own cross-document load has started
    replaced, \* history: those whose load was then replaced by another
    acts      \* how much was done that nobody asked for

pending_ == <<outcome, started, inpage, error>>
content == <<nav, doc, loading, unload_url>>
vars == <<pending_, posted, stack, content, alive, begun, replaced, acts>>

Authors == Promises \cup {Page}
Errors  == {"failed", "aborted", "stopped"}
Events  == {"navigation", "routing", "did-frame-finish-load",
            "did-stop-loading", "stop in renderer teardown"}
NoNav   == [by |-> Page, same |-> FALSE, at |-> "none"]

TypeOK ==
    /\ outcome \in [Promises -> {"unmade", "pending", "resolved"} \cup Errors]
    /\ started \in [Promises -> BOOLEAN]
    /\ inpage \in [Promises -> BOOLEAN]
    /\ error \in [Promises -> {"none"} \cup Errors]
    /\ posted \in Seq([by : Promises, same : BOOLEAN])
    /\ stack \in Seq(Events)
    /\ nav \in [by : Authors, same : BOOLEAN, at : {"none", "waiting", "started"}]
    /\ doc \in [by : Authors, at : {"none", "loading", "failing", "loaded", "stopped"}]
    /\ loading \in BOOLEAN
    /\ unload_url \in BOOLEAN
    /\ alive \in BOOLEAN
    /\ begun \subseteq Promises
    /\ replaced \subseteq Promises
    /\ acts \in 0..MaxActs

Init ==
    /\ outcome = [p \in Promises |-> "unmade"]
    /\ started = [p \in Promises |-> FALSE]
    /\ inpage = [p \in Promises |-> FALSE]
    /\ error = [p \in Promises |-> "none"]
    /\ posted = <<>>
    /\ stack = <<>>
    /\ nav = NoNav
    /\ doc = [by |-> Page, at |-> "none"]
    /\ loading = FALSE
    /\ unload_url = FALSE
    /\ alive = TRUE
    /\ begun = {}
    /\ replaced = {}
    /\ acts = 0

-----------------------------------------------------------------------------
(* LoadURLPromises.                                                        *)

Pending == {p \in Promises : outcome[p] = "pending"}

(* Take and Settle, with resolve = !error: a promise without an error is   *)
(* resolved, one with an error rejected with it.  Settling runs no         *)
(* JavaScript: reactions are microtasks of the emit that follows.          *)
Settle(S, err) ==
    outcome' = [p \in Promises |->
                  IF p \in S THEN IF err[p] = "none" THEN "resolved" ELSE err[p]
                             ELSE outcome[p]]

(* The error of a promise is the first one, except for ERR_ABORTED.        *)
FirstError(S, e) ==
    [p \in Promises |-> IF p \in S /\ error[p] = "none" THEN e ELSE error[p]]

PromisesFinish == Settle(Pending, error) /\ UNCHANGED <<started, inpage, error>>

(* DidFailLoad, for the main frame, of the promises S.                     *)
PromisesFail(S) ==
    LET err == FirstError(S, "failed") IN
    /\ error' = err
    /\ outcome' = [p \in Promises |->
                     IF p \in S THEN IF started[p] THEN "pending" ELSE err[p]
                                ELSE outcome[p]]
    /\ UNCHANGED <<started, inpage>>

(* Fault: a second navigation does not abort the first one's promise.      *)
PromisesNavigateOn(same) ==
    /\ started' = [p \in Promises |-> started[p] \/ p \in Pending]
    /\ inpage' = [p \in Promises |->
                    IF p \in Pending THEN started[p] /\ same ELSE inpage[p]]
    /\ UNCHANGED <<outcome, error>>

(* Fault: an in-page navigation of a page that loads is not noted.         *)
PromisesForgetRouting(same) ==
    LET lost == {p \in Pending : started[p] /\ ~same} IN
    /\ error' = [p \in Promises |-> IF p \in lost THEN "aborted" ELSE error[p]]
    /\ Settle(lost, error')
    /\ started' = [p \in Promises |-> started[p] \/ p \in Pending \ lost]
    /\ UNCHANGED inpage

(* DidStartNavigation, for the main frame.                                 *)
PromisesNavigate(same) ==
    LET lost == {p \in Pending : started[p] /\ ~same}
        kept == Pending \ lost
    IN /\ error' = [p \in Promises |-> IF p \in lost THEN "aborted" ELSE error[p]]
       /\ Settle(lost, error')
       /\ started' = [p \in Promises |-> started[p] \/ p \in kept]
       /\ inpage' = [p \in Promises |->
                       IF p \in kept THEN started[p] /\ same ELSE inpage[p]]

PromisesRoute ==
    /\ Settle({p \in Pending : ~inpage[p]}, error)
    /\ UNCHANGED <<started, inpage, error>>

(* Fault: only promises that have failed are settled when loading stops.   *)
PromisesStopFailed ==
    /\ Settle({p \in Pending : error[p] # "none"}, error)
    /\ UNCHANGED <<started, inpage, error>>

PromisesStop ==
    /\ error' = FirstError(Pending, "stopped")
    /\ Settle(Pending, error')
    /\ UNCHANGED <<started, inpage>>

-----------------------------------------------------------------------------
(* The WebContents.                                                        *)

(* A page that has no document cannot keep a navigation waiting: nothing   *)
(* happens between its loadURL() and DidStartNavigation.                   *)
JSRuns == alive /\ (nav.at = "waiting" => doc.at # "none")
Idle   == stack = <<>> /\ JSRuns
Top  == stack[Len(stack)]
Emitting(event) == stack # <<>> /\ Top = event
Emit(event) == stack' = Append(stack, event)

(* is_safe_to_delete_ is FALSE while a navigation event is emitted.        *)
Refused == \E i \in DOMAIN stack : stack[i] \in {"navigation", "routing"}

(* in_renderer_teardown_: the value the innermost DidStopLoading gave it.  *)
InTeardown == \E i \in DOMAIN stack :
                 /\ stack[i] = "stop in renderer teardown"
                 /\ \A j \in i + 1..Len(stack) : stack[j] # "did-stop-loading"

Spontaneous == acts < MaxActs /\ acts' = acts + 1

(* A new navigation takes the place of one that has not committed.         *)
Navigate(author, same) ==
    /\ nav' = [by |-> author, same |-> same, at |-> "waiting"]
    /\ loading' = TRUE
    /\ UNCHANGED doc

(* A document with a beforeunload handler will be asked first.             *)
LoadURLWithParams(p, same) ==
    /\ Navigate(p, same)
    /\ unload_url' \in {unload_url, unload_url \/ doc.at # "none"}

(* LoadURL of an invalid URL, or while a navigation event is emitted.      *)
LoadURLFails(p) ==
    /\ JSRuns
    /\ outcome[p] = "unmade"
    /\ PromisesFail(Pending \cup {p})
    /\ UNCHANGED <<posted, stack, content, alive, begun, replaced, acts>>

(* LoadURL of a valid URL.  Only a document can be navigated within.       *)
LoadURL(p) ==
    /\ JSRuns
    /\ ~Refused
    /\ outcome[p] = "unmade"
    /\ outcome' = [outcome EXCEPT ![p] = "pending"]
    /\ \E same \in BOOLEAN :
         /\ same => doc.at # "none"
         /\ IF InTeardown
              THEN /\ posted' = Append(posted, [by |-> p, same |-> same])
                   /\ UNCHANGED content
              ELSE /\ LoadURLWithParams(p, same)
                   /\ UNCHANGED posted
    /\ UNCHANGED <<started, inpage, error, stack, alive, begun, replaced, acts>>

PostedLoad ==
    /\ Idle
    /\ posted # <<>>
    /\ LoadURLWithParams(Head(posted).by, Head(posted).same)
    /\ posted' = Tail(posted)
    /\ UNCHANGED <<pending_, stack, alive, begun, replaced, acts>>

(* DidStartNavigation of nav: within LoadURLWithParams, or later when the  *)
(* page has a beforeunload handler.                                        *)
DidStartNavigation ==
    /\ alive
    /\ ~Refused
    /\ nav.at = "waiting"
    /\ nav' = [nav EXCEPT !.at = "started"]
    /\ PromisesNavigate(nav.same)
    /\ IF nav.same THEN UNCHANGED <<begun, replaced>>
       ELSE /\ begun' = begun \cup ({nav.by} \cap Pending)
            /\ replaced' = replaced \cup (begun \cap Pending)
    /\ Emit("navigation")
    /\ UNCHANGED <<posted, doc, loading, unload_url, alive, acts>>

(* DidRedirectNavigation, ReadyToCommitNavigation.                         *)
DidRedirectNavigation ==
    /\ Idle
    /\ Spontaneous
    /\ nav.at = "started"
    /\ Emit("navigation")
    /\ UNCHANGED <<pending_, posted, content, alive, begun, replaced>>

(* The page routes (pushState, location.hash): DidStartNavigation ...      *)
PageRoutes ==
    /\ Idle
    /\ Spontaneous
    /\ doc.at # "none"
    /\ PromisesNavigate(TRUE)
    /\ Emit("routing")
    /\ UNCHANGED <<posted, content, alive, begun, replaced>>

(* ... and, its handlers done, DidFinishNavigation of the same call.       *)
RoutingReturns ==
    /\ Emitting("routing")
    /\ stack' = SubSeq(stack, 1, Len(stack) - 1)
    /\ PromisesRoute
    /\ UNCHANGED <<posted, content, alive, begun, replaced, acts>>

(* DidFinishNavigation of a same-document navigation of a subframe.        *)
SubframeRoutes ==
    /\ Idle
    /\ Spontaneous
    /\ doc.at # "none"
    /\ PromisesRoute
    /\ UNCHANGED <<posted, stack, content, alive, begun, replaced>>

PageNavigates ==
    /\ Idle
    /\ Spontaneous
    /\ doc.at # "none"
    /\ Navigate(Page, FALSE)
    /\ UNCHANGED <<pending_, posted, stack, unload_url, alive, begun, replaced>>

(* The page's beforeunload handler objects: to the navigation, or to       *)
(* being closed.  pending_unload_url_ is the URL of the last loadURL() of  *)
(* a page with such a handler, whichever of the two this is about.         *)
RunBeforeUnloadDialog ==
    /\ Idle
    /\ Spontaneous
    /\ doc.at # "none"
    /\ \/ nav.at = "waiting" /\ nav' = NoNav
       \/ UNCHANGED nav
    /\ IF unload_url THEN PromisesFail(Pending) ELSE UNCHANGED pending_
    /\ unload_url' = FALSE
    /\ UNCHANGED <<posted, stack, doc, loading, alive, begun, replaced>>

-----------------------------------------------------------------------------
(* DidFinishNavigation, by outcome.                                        *)

CommitNavigation ==
    /\ Idle
    /\ nav.at = "started"
    /\ nav' = NoNav
    /\ IF nav.same
         THEN PromisesRoute /\ UNCHANGED doc
         ELSE doc' = [by |-> nav.by, at |-> "loading"] /\ UNCHANGED pending_
    /\ UNCHANGED <<posted, stack, loading, unload_url, alive, begun, replaced, acts>>

(* An error page commits: EmitDidFailLoad.                                 *)
NavigationFails ==
    /\ Idle
    /\ Spontaneous
    /\ nav.at = "started"
    /\ nav' = NoNav
    /\ doc' = [by |-> nav.by, at |-> "failing"]
    /\ PromisesFail(Pending)
    /\ UNCHANGED <<posted, stack, loading, unload_url, alive, begun, replaced>>

(* A download, a 204, an unhandled scheme: nothing commits, nothing fails. *)
NavigationDropped ==
    /\ Idle
    /\ Spontaneous
    /\ nav.at = "started"
    /\ nav' = NoNav
    /\ UNCHANGED <<pending_, posted, stack, doc, loading, unload_url,
                   alive, begun, replaced>>

-----------------------------------------------------------------------------
(* The document.                                                           *)

(* DidFinishLoad emits "did-frame-finish-load" first.                      *)
DidFinishLoad ==
    /\ Idle
    /\ doc.at \in {"loading", "failing"}
    /\ doc' = [doc EXCEPT !.at = IF @ = "loading" THEN "loaded" ELSE "stopped"]
    /\ Emit("did-frame-finish-load")
    /\ UNCHANGED <<pending_, posted, nav, loading, unload_url,
                   alive, begun, replaced, acts>>

FrameFinishReturns ==
    /\ Emitting("did-frame-finish-load")
    /\ stack' = SubSeq(stack, 1, Len(stack) - 1)
    /\ IF alive THEN PromisesFinish ELSE UNCHANGED pending_
    /\ UNCHANGED <<posted, content, alive, begun, replaced, acts>>

(* DidFailLoad; the aborted load of a media document is not reported.      *)
DidFailLoad ==
    /\ Idle
    /\ Spontaneous
    /\ doc.at = "loading"
    /\ doc' = [doc EXCEPT !.at = "stopped"]
    /\ PromisesFail(Pending) \/ UNCHANGED pending_
    /\ UNCHANGED <<posted, stack, nav, loading, unload_url, alive, begun, replaced>>

DidStopLoading ==
    /\ Idle
    /\ loading
    /\ nav.at = "none"
    /\ doc.at \notin {"loading", "failing"}
    /\ loading' = FALSE
    /\ PromisesStop
    /\ Emit("did-stop-loading")
    /\ UNCHANGED <<posted, nav, doc, unload_url, alive, begun, replaced, acts>>

(* The document's renderer dies, or only the one chosen for a navigation:  *)
(* DidStopLoading from inside content's teardown.                          *)
RenderProcessGone ==
    /\ Idle
    /\ Spontaneous
    /\ loading
    /\ loading' = FALSE
    /\ nav' = NoNav
    /\ \/ doc' = [doc EXCEPT !.at = "stopped"]
       \/ doc.at \notin {"loading", "failing"} /\ UNCHANGED doc
    /\ PromisesStop
    /\ Emit("stop in renderer teardown")
    /\ UNCHANGED <<posted, unload_url, alive, begun, replaced>>

(* Nothing follows these events.                                           *)
HandlerReturns ==
    /\ stack # <<>>
    /\ Top \in {"navigation", "did-stop-loading", "stop in renderer teardown"}
    /\ stack' = SubSeq(stack, 1, Len(stack) - 1)
    /\ UNCHANGED <<pending_, posted, content, alive, begun, replaced, acts>>

(* Fault: a WebContents takes its pending promises with it.                *)
WebContentsGone ==
    /\ JSRuns
    /\ stack # <<>> => Top = "did-frame-finish-load"
    /\ alive' = FALSE
    /\ nav' = NoNav
    /\ loading' = FALSE
    /\ posted' = <<>>
    /\ UNCHANGED <<pending_, doc, unload_url, stack, begun, replaced, acts>>

(* A task, or a guest's handler of "did-frame-finish-load".  The posted    *)
(* loads hold weak pointers.                                               *)
WebContentsDestroyed ==
    /\ JSRuns
    /\ stack # <<>> => Top = "did-frame-finish-load"
    /\ alive' = FALSE
    /\ nav' = NoNav
    /\ loading' = FALSE
    /\ posted' = <<>>
    /\ PromisesStop
    /\ UNCHANGED <<doc, unload_url, stack, begun, replaced, acts>>

-----------------------------------------------------------------------------
Application == WebContentsDestroyed \/ \E p \in Promises : LoadURL(p) \/ LoadURLFails(p)

Unasked == \/ DidRedirectNavigation \/ PageRoutes \/ SubframeRoutes
           \/ PageNavigates \/ RunBeforeUnloadDialog \/ NavigationFails
           \/ NavigationDropped \/ DidFailLoad \/ RenderProcessGone

Returns == RoutingReturns \/ FrameFinishReturns \/ HandlerReturns

Next == \/ Application
        \/ Unasked
        \/ Returns
        \/ PostedLoad
        \/ DidStartNavigation
        \/ CommitNavigation
        \/ DidFinishLoad
        \/ DidStopLoading

Spec == Init /\ [][Next]_vars

(* Handlers return, posted tasks run, and content brings every navigation  *)
(* and every document to an end (its timers see to it) and says so.        *)
Fairness ==
    /\ WF_vars(Returns)
    /\ WF_vars(PostedLoad)
    /\ WF_vars(DidStartNavigation)
    /\ WF_vars(CommitNavigation)
    /\ WF_vars(DidFinishLoad)
    /\ WF_vars(DidStopLoading)

FairSpec == Spec /\ Fairness

-----------------------------------------------------------------------------
(* No promise is left behind: one that is pending still has a load posted  *)
(* or loading to stop, which will settle it; nobody else would.            *)
NoneLeftBehind == Pending # {} => loading \/ posted # <<>>

(* A load that another cross-document load replaced is rejected with       *)
(* ERR_ABORTED, whatever finishes or stops afterwards.                     *)
ReplacedAreAborted == \A p \in replaced : outcome[p] = "aborted"

(* load_url_promises.cc:86: "a page may route while it loads": its own     *)
(* in-page navigation settles no promise whose document is on its way.     *)
MainFrameRoutes == Emitting("routing") /\ Len(stack') < Len(stack)
RoutingSettlesNoLoad ==
    [][MainFrameRoutes => \A p \in begun : outcome'[p] = outcome[p]]_vars

(* Every promise is settled.                                               *)
EveryPromiseSettles ==
    \A p \in Promises : outcome[p] = "pending" ~> outcome[p] # "pending"

(* docs/api/web-contents.md:1130: "the promise will resolve when the page  *)
(* has finished loading": not before the load it began has finished.       *)
ResolvedMeansLoaded ==
    \A p \in begun : outcome[p] = "resolved" =>
      nav.by # p /\ doc # [by |-> p, at |-> "loading"]

=============================================================================
