------------------------ MODULE LoadURLPromisesProofs ------------------------
(***************************************************************************)
(* Theorems about LoadURLPromises, for any number of promises and whatever *)
(* page, network and renderer do.                                          *)
(***************************************************************************)
EXTENDS LoadURLPromises, SequenceTheorems, TLAPS

-----------------------------------------------------------------------------
(* A call: an element is put on top.                                       *)
LEMMA PushType ==
    ASSUME NEW S, NEW s \in Seq(S), NEW x \in S
    PROVE  /\ Append(s, x) \in Seq(S)
           /\ Len(Append(s, x)) = Len(s) + 1
           /\ Append(s, x)[Len(s) + 1] = x
           /\ \A i \in 1..Len(s) : Append(s, x)[i] = s[i]
BY AppendProperties

(* A return: the last element is dropped.                                  *)
LEMMA ReturnType ==
    ASSUME NEW S, NEW s \in Seq(S), s # <<>>
    PROVE  /\ SubSeq(s, 1, Len(s) - 1) \in Seq(S)
           /\ Len(SubSeq(s, 1, Len(s) - 1)) = Len(s) - 1
           /\ \A i \in 1..(Len(s) - 1) : SubSeq(s, 1, Len(s) - 1)[i] = s[i]
<1>1. Len(s) \in Nat /\ Len(s) >= 1
  BY EmptySeq, LenProperties
<1>2. \A i \in 1..(Len(s) - 1) : s[i] \in S
  BY <1>1, ElementOfSeq
<1>3. PICK n \in Nat : n = Len(s) - 1
  BY <1>1
<1> DEFINE t == SubSeq(s, 1, n)
<1>4. /\ t \in Seq(S)
      /\ Len(t) = IF 1 <= n THEN n - 1 + 1 ELSE 0
      /\ \A i \in 1..(n - 1 + 1) : t[i] = s[1 + i - 1]
  <2>1. \A i \in 1..n : s[i] \in S
    BY <1>2, <1>3
  <2> QED
    BY <2>1, SubSeqProperties, Z3
<1> HIDE DEF t
<1>5. Len(t) = n
  BY <1>4
<1>6. \A i \in 1..n : t[i] = s[i]
  BY <1>4
<1> QED
  BY <1>3, <1>4, <1>5, <1>6 DEF t

-----------------------------------------------------------------------------
PromisesTypeOK ==
    /\ outcome \in [Promises -> {"unmade", "pending", "resolved"} \cup Errors]
    /\ started \in [Promises -> BOOLEAN]
    /\ inpage \in [Promises -> BOOLEAN]
    /\ error \in [Promises -> {"none"} \cup Errors]

(* A promise that was not made has heard no event; one whose own load has  *)
(* started knows it.                                                       *)
FlagsKnown ==
    /\ \A p \in Promises : outcome[p] = "unmade" => ~started[p]
    /\ \A p \in begun : /\ outcome[p] # "unmade"
                        /\ outcome[p] = "pending" => started[p]

(* While the page routes, nothing else is being emitted, and the promises  *)
(* whose load has started are marked to sit it out.                        *)
RoutingAlone ==
    \A i \in 1..Len(stack) : stack[i] = "routing" =>
      /\ Len(stack) = 1
      /\ \A p \in begun : outcome[p] = "pending" => inpage[p]

IInv == /\ TypeOK
        /\ NoneLeftBehind
        /\ ReplacedAreAborted
        /\ FlagsKnown
        /\ RoutingAlone

-----------------------------------------------------------------------------
(* What every event does to the promises, whichever event it is: nothing   *)
(* becomes pending, what is settled or not made stays so, and a flag that  *)
(* a pending promise needs is not taken back.                              *)
Effect ==
    /\ PromisesTypeOK'
    /\ \A p \in Promises : outcome[p] # "pending" => outcome'[p] = outcome[p]
    /\ \A p \in Promises : outcome[p] = "pending" => outcome'[p] # "unmade"
    /\ \A p \in Promises : started[p] => started'[p]
    /\ \A p \in Promises : started'[p] => started[p] \/ outcome[p] = "pending"

LEMMA FinishEffect ==
    ASSUME PromisesTypeOK, PromisesFinish
    PROVE  Effect
BY DEF PromisesTypeOK, PromisesFinish, Settle, Pending, Errors, Effect

LEMMA RouteEffect ==
    ASSUME PromisesTypeOK, PromisesRoute
    PROVE  Effect
BY DEF PromisesTypeOK, PromisesRoute, Settle, Pending, Errors, Effect

LEMMA StopEffect ==
    ASSUME PromisesTypeOK, PromisesStop
    PROVE  Effect /\ Pending' = {}
<1>1. error' \in [Promises -> {"none"} \cup Errors]
  BY DEF PromisesTypeOK, PromisesStop, FirstError, Errors
<1>2. \A p \in Promises : outcome[p] = "pending" => error'[p] \in Errors
  BY DEF PromisesTypeOK, PromisesStop, FirstError, Pending, Errors
<1>3. outcome' = [p \in Promises |-> IF outcome[p] = "pending" THEN error'[p] ELSE outcome[p]]
  BY <1>2 DEF PromisesStop, Settle, Pending, Errors
<1>4. outcome' \in [Promises -> {"unmade", "pending", "resolved"} \cup Errors]
  BY <1>2, <1>3 DEF PromisesTypeOK
<1>5. UNCHANGED <<started, inpage>>
  BY DEF PromisesStop
<1> QED
  BY <1>1, <1>2, <1>3, <1>4, <1>5 DEF PromisesTypeOK, Effect, Pending, Errors

LEMMA FailEffect ==
    ASSUME PromisesTypeOK, PromisesFail(Pending)
    PROVE  Effect
<1>1. /\ error' \in [Promises -> {"none"} \cup Errors]
      /\ \A p \in Promises : outcome[p] = "pending" => error'[p] \in Errors
  BY DEF PromisesTypeOK, PromisesFail, FirstError, Pending, Errors
<1>2. \A p \in Promises : outcome'[p] = IF outcome[p] = "pending"
                                          THEN IF started[p] THEN "pending" ELSE error'[p]
                                          ELSE outcome[p]
  BY DEF PromisesFail, Pending
<1>3. outcome' \in [Promises -> {"unmade", "pending", "resolved"} \cup Errors]
  <2>1. outcome' = [p \in Promises |-> outcome'[p]]
    BY DEF PromisesFail
  <2> QED
    BY <1>1, <1>2, <2>1 DEF PromisesTypeOK
<1>4. UNCHANGED <<started, inpage>>
  BY DEF PromisesFail
<1> QED
  BY <1>1, <1>2, <1>3, <1>4 DEF PromisesTypeOK, Effect, Errors

LEMMA NavigateEffect ==
    ASSUME PromisesTypeOK, NEW same \in BOOLEAN, PromisesNavigate(same)
    PROVE  /\ Effect
           /\ \A p \in Promises : outcome[p] = "pending" /\ started[p] =>
                IF same THEN outcome'[p] = "pending" /\ inpage'[p]
                        ELSE outcome'[p] = "aborted"
           /\ \A p \in Promises : outcome'[p] = "pending" => started'[p]
<1> DEFINE lost == {p \in Pending : started[p] /\ ~same}
<1>1. /\ error' = [p \in Promises |-> IF p \in lost THEN "aborted" ELSE error[p]]
      /\ outcome' = [p \in Promises |->
                       IF p \in lost THEN IF error'[p] = "none" THEN "resolved" ELSE error'[p]
                                     ELSE outcome[p]]
      /\ started' = [p \in Promises |-> started[p] \/ p \in Pending \ lost]
      /\ inpage' = [p \in Promises |->
                      IF p \in Pending \ lost THEN started[p] /\ same ELSE inpage[p]]
  BY DEF PromisesNavigate, Settle
<1>2. \A p \in Promises : outcome'[p] = IF p \in lost THEN "aborted" ELSE outcome[p]
  BY <1>1
<1>3. error' \in [Promises -> {"none"} \cup Errors]
  BY <1>1 DEF PromisesTypeOK, Errors
<1>4. outcome' \in [Promises -> {"unmade", "pending", "resolved"} \cup Errors]
  <2>1. outcome' = [p \in Promises |-> outcome'[p]]
    BY <1>1
  <2> QED
    BY <1>2, <2>1 DEF PromisesTypeOK, Errors
<1>5. started' \in [Promises -> BOOLEAN] /\ inpage' \in [Promises -> BOOLEAN]
  BY <1>1 DEF PromisesTypeOK
<1>6. \A p \in Promises : started'[p] <=> started[p] \/ p \in Pending \ lost
  BY <1>1
<1>7. \A p \in Promises : p \in Pending \ lost => (inpage'[p] <=> started[p] /\ same)
  BY <1>1
<1>8. Effect
  BY <1>2, <1>3, <1>4, <1>5, <1>6 DEF Effect, PromisesTypeOK, Pending
<1> QED
  BY <1>2, <1>6, <1>7, <1>8 DEF Pending

-----------------------------------------------------------------------------
LEMMA UnchangedEffect ==
    ASSUME PromisesTypeOK, UNCHANGED pending_
    PROVE  Effect
BY DEF PromisesTypeOK, Effect, pending_

(* loadURL() that fails at once: its own promise is settled too.           *)
LEMMA LoadURLFailsEffect ==
    ASSUME PromisesTypeOK, NEW p \in Promises, ~started[p], outcome[p] = "unmade",
           PromisesFail(Pending \cup {p})
    PROVE  /\ PromisesTypeOK'
           /\ UNCHANGED <<started, inpage>>
           /\ outcome'[p] \in Errors
           /\ \A q \in Promises \ {p} :
                /\ outcome[q] # "pending" => outcome'[q] = outcome[q]
                /\ outcome[q] = "pending" => outcome'[q] # "unmade"
<1>1. /\ error' \in [Promises -> {"none"} \cup Errors]
      /\ \A q \in Pending \cup {p} : error'[q] \in Errors
  BY DEF PromisesTypeOK, PromisesFail, FirstError, Pending, Errors
<1>2. \A q \in Promises : outcome'[q] = IF q \in Pending \cup {p}
                                          THEN IF started[q] THEN "pending" ELSE error'[q]
                                          ELSE outcome[q]
  BY DEF PromisesFail
<1>3. outcome' \in [Promises -> {"unmade", "pending", "resolved"} \cup Errors]
  <2>1. outcome' = [q \in Promises |-> outcome'[q]]
    BY DEF PromisesFail
  <2> QED
    BY <1>1, <1>2, <2>1 DEF PromisesTypeOK
<1>4. UNCHANGED <<started, inpage>>
  BY DEF PromisesFail
<1> QED
  BY <1>1, <1>2, <1>3, <1>4 DEF PromisesTypeOK, Pending, Errors

(* loadURL() that begins a load.                                           *)
LEMMA LoadURLEffect ==
    ASSUME PromisesTypeOK, NEW p \in Promises, LoadURL(p)
    PROVE  /\ PromisesTypeOK'
           /\ UNCHANGED <<started, inpage>>
           /\ outcome'[p] = "pending"
           /\ \A q \in Promises \ {p} : outcome'[q] = outcome[q]
<1>1. outcome' = [outcome EXCEPT ![p] = "pending"] /\ UNCHANGED <<started, inpage, error>>
  BY DEF LoadURL
<1> QED
  BY <1>1 DEF PromisesTypeOK

(* Every other step has an effect.                                         *)
LEMMA StepEffect ==
    ASSUME TypeOK, Next, \A p \in Promises : ~LoadURL(p) /\ ~LoadURLFails(p)
    PROVE  Effect
<1> USE DEF TypeOK
<1>0. PromisesTypeOK /\ nav.same \in BOOLEAN
  BY DEF PromisesTypeOK
<1>1. CASE WebContentsDestroyed \/ DidStopLoading \/ RenderProcessGone
  <2>1. PromisesStop
    BY <1>1 DEF WebContentsDestroyed, DidStopLoading, RenderProcessGone
  <2> QED
    BY <1>0, <2>1, StopEffect
<1>2. CASE \/ DidRedirectNavigation \/ PageNavigates \/ NavigationDropped
           \/ HandlerReturns \/ PostedLoad \/ DidFinishLoad
  <2>1. UNCHANGED pending_
    BY <1>2 DEF DidRedirectNavigation, PageNavigates, NavigationDropped,
                HandlerReturns, PostedLoad, DidFinishLoad
  <2> QED
    BY <1>0, <2>1, UnchangedEffect
<1>3. CASE SubframeRoutes \/ RoutingReturns
  BY <1>0, <1>3, RouteEffect DEF SubframeRoutes, RoutingReturns
<1>4. CASE FrameFinishReturns
  BY <1>0, <1>4, FinishEffect, UnchangedEffect DEF FrameFinishReturns
<1>5. CASE CommitNavigation
  BY <1>0, <1>5, RouteEffect, UnchangedEffect DEF CommitNavigation
<1>6. CASE NavigationFails \/ RunBeforeUnloadDialog \/ DidFailLoad
  BY <1>0, <1>6, FailEffect, UnchangedEffect
     DEF NavigationFails, RunBeforeUnloadDialog, DidFailLoad
<1>7. CASE PageRoutes
  BY <1>0, <1>7, NavigateEffect DEF PageRoutes
<1>8. CASE DidStartNavigation
  BY <1>0, <1>8, NavigateEffect DEF DidStartNavigation
<1> QED
  BY <1>1, <1>2, <1>3, <1>4, <1>5, <1>6, <1>7, <1>8
     DEF Next, Application, Unasked, Returns

-----------------------------------------------------------------------------
LEMMA InitIInv == Init => IInv
<1> SUFFICES ASSUME Init PROVE IInv
  OBVIOUS
<1>1. stack = <<>> /\ posted = <<>> /\ begun = {} /\ replaced = {}
  BY DEF Init
<1>2. Len(stack) = 0 /\ stack \in Seq(Events) /\ posted \in Seq([by : Promises, same : BOOLEAN])
  BY <1>1, EmptySeq
<1>3. PromisesTypeOK /\ Pending = {} /\ \A p \in Promises : ~started[p]
  BY DEF Init, PromisesTypeOK, Pending
<1>4. /\ nav \in [by : Authors, same : BOOLEAN, at : {"none", "waiting", "started"}]
      /\ doc \in [by : Authors, at : {"none", "loading", "failing", "loaded", "stopped"}]
      /\ loading \in BOOLEAN /\ unload_url \in BOOLEAN /\ alive \in BOOLEAN
  BY DEF Init, NoNav, Authors
<1>5. acts \in 0..MaxActs
  BY MaxActsAssumption DEF Init
<1>6. TypeOK
  BY <1>1, <1>2, <1>3, <1>4, <1>5 DEF TypeOK, PromisesTypeOK
<1> QED
  BY <1>1, <1>2, <1>3, <1>6
     DEF IInv, NoneLeftBehind, ReplacedAreAborted, FlagsKnown, RoutingAlone

LEMMA PromisesStepType ==
    ASSUME IInv, Next
    PROVE  PromisesTypeOK'
<1>1. PromisesTypeOK
  BY DEF IInv, TypeOK, PromisesTypeOK
<1>2. ASSUME NEW p \in Promises, LoadURL(p)
      PROVE  PromisesTypeOK'
  BY <1>1, <1>2, LoadURLEffect
<1>3. ASSUME NEW p \in Promises, LoadURLFails(p)
      PROVE  PromisesTypeOK'
  BY <1>1, <1>3, LoadURLFailsEffect DEF LoadURLFails, IInv, FlagsKnown
<1> QED
  BY <1>2, <1>3, StepEffect DEF IInv, Effect

(* The stack, and the sequence of posted loads.                            *)
LEMMA StackStepType ==
    ASSUME TypeOK, Next
    PROVE  stack' \in Seq(Events) /\ posted' \in Seq([by : Promises, same : BOOLEAN])
<1> USE DEF TypeOK
<1>1. \A e \in Events : Emit(e) => stack' \in Seq(Events)
  BY PushType DEF Emit
<1>2. stack # <<>> /\ stack' = SubSeq(stack, 1, Len(stack) - 1) => stack' \in Seq(Events)
  BY ReturnType
<1>3. stack' \in Seq(Events)
  <2>1. CASE Returns
    BY <1>2, <2>1 DEF Returns, RoutingReturns, FrameFinishReturns, HandlerReturns, Emitting
  <2>2. CASE \/ DidStartNavigation \/ DidRedirectNavigation \/ PageRoutes
             \/ DidFinishLoad \/ DidStopLoading \/ RenderProcessGone
    BY <1>1, <2>2 DEF DidStartNavigation, DidRedirectNavigation, PageRoutes,
                      DidFinishLoad, DidStopLoading, RenderProcessGone, Events
  <2>3. CASE Application
    BY <2>3 DEF Application, LoadURL, LoadURLFails, WebContentsDestroyed
  <2>4. CASE \/ SubframeRoutes \/ PageNavigates \/ RunBeforeUnloadDialog
             \/ NavigationFails \/ NavigationDropped \/ DidFailLoad
             \/ PostedLoad \/ CommitNavigation
    BY <2>4 DEF SubframeRoutes, PageNavigates, RunBeforeUnloadDialog, NavigationFails,
                NavigationDropped, DidFailLoad, PostedLoad, CommitNavigation
  <2> QED
    BY <2>1, <2>2, <2>3, <2>4 DEF Next, Unasked
<1>4. posted' \in Seq([by : Promises, same : BOOLEAN])
  <2>1. CASE PostedLoad
    BY <2>1, HeadTailProperties DEF PostedLoad
  <2>2. ASSUME NEW p \in Promises, LoadURL(p)
        PROVE  posted' \in Seq([by : Promises, same : BOOLEAN])
    <3>1. ASSUME NEW same \in BOOLEAN, posted' = Append(posted, [by |-> p, same |-> same])
          PROVE  posted' \in Seq([by : Promises, same : BOOLEAN])
      BY <3>1, AppendProperties
    <3> QED
      BY <2>2, <3>1 DEF LoadURL
  <2>3. CASE WebContentsDestroyed
    BY <2>3, EmptySeq DEF WebContentsDestroyed
  <2>4. CASE UNCHANGED posted
    BY <2>4
  <2> QED
    BY <2>1, <2>2, <2>3, <2>4
       DEF Next, Application, LoadURLFails, Unasked, DidRedirectNavigation, PageRoutes,
           SubframeRoutes, PageNavigates, RunBeforeUnloadDialog, NavigationFails,
           NavigationDropped, DidFailLoad, RenderProcessGone, Returns, RoutingReturns,
           FrameFinishReturns, HandlerReturns, DidStartNavigation, CommitNavigation,
           DidFinishLoad, DidStopLoading
<1> QED
  BY <1>3, <1>4

Navigations == [by : Authors, same : BOOLEAN, at : {"none", "waiting", "started"}]
Documents   == [by : Authors, at : {"none", "loading", "failing", "loaded", "stopped"}]

(* Content's main frame: each navigation begins in one of three ways ...   *)
LEMMA NavigationStepType ==
    ASSUME TypeOK, Next
    PROVE  nav' \in Navigations
<1>0. nav \in Navigations
  BY DEF TypeOK, Navigations
<1>1. NoNav \in Navigations
  BY DEF NoNav, Navigations, Authors
<1>2. \A a \in Authors, b \in BOOLEAN : [by |-> a, same |-> b, at |-> "waiting"] \in Navigations
  BY DEF Navigations
<1>3. [nav EXCEPT !.at = "started"] \in Navigations
  BY <1>0 DEF Navigations
<1>4. CASE PostedLoad
  <2>1. Head(posted) \in [by : Promises, same : BOOLEAN]
    BY <1>4, HeadTailProperties DEF PostedLoad, TypeOK
  <2>2. Head(posted).by \in Authors /\ Head(posted).same \in BOOLEAN
    BY <2>1 DEF Authors
  <2> QED
    BY <1>2, <1>4, <2>2 DEF PostedLoad, LoadURLWithParams, Navigate
<1>5. ASSUME NEW p \in Promises, LoadURL(p)
      PROVE  nav' \in Navigations
  <2>1. \A b \in BOOLEAN : LoadURLWithParams(p, b) => nav' \in Navigations
    BY <1>2 DEF LoadURLWithParams, Navigate, Authors
  <2> QED
    BY <1>0, <1>5, <2>1 DEF LoadURL, content
<1>6. CASE PageNavigates
  BY <1>2, <1>6, Zenon DEF PageNavigates, Navigate, Authors
<1>7. CASE DidStartNavigation
  BY <1>3, <1>7 DEF DidStartNavigation
<1>8. CASE nav' = nav \/ nav' = NoNav
  BY <1>0, <1>1, <1>8
<1> QED
  BY <1>4, <1>5, <1>6, <1>7, <1>8
     DEF Next, Application, LoadURLFails, WebContentsDestroyed, Unasked,
         DidRedirectNavigation, PageRoutes, SubframeRoutes, RunBeforeUnloadDialog,
         NavigationFails, NavigationDropped, DidFailLoad, RenderProcessGone, Returns,
         RoutingReturns, FrameFinishReturns, HandlerReturns, CommitNavigation,
         DidFinishLoad, DidStopLoading, content

(* ... and each document comes from one.                                   *)
LEMMA DocumentStepType ==
    ASSUME TypeOK, Next
    PROVE  doc' \in Documents
<1>0. doc \in Documents /\ nav.by \in Authors
  BY DEF TypeOK, Documents
<1>1. \A at \in {"loading", "failing", "loaded", "stopped"} :
        [doc EXCEPT !.at = at] \in Documents /\ [by |-> nav.by, at |-> at] \in Documents
  BY <1>0 DEF Documents
<1>2. CASE CommitNavigation \/ NavigationFails
  BY <1>0, <1>1, <1>2 DEF CommitNavigation, NavigationFails
<1>3. CASE DidFinishLoad \/ DidFailLoad \/ RenderProcessGone
  BY <1>0, <1>1, <1>3 DEF DidFinishLoad, DidFailLoad, RenderProcessGone
<1>4. CASE doc' = doc
  BY <1>0, <1>4
<1> QED
  BY <1>2, <1>3, <1>4
     DEF Next, Application, LoadURL, LoadURLFails, WebContentsDestroyed, Unasked,
         DidRedirectNavigation, PageRoutes, SubframeRoutes, PageNavigates,
         RunBeforeUnloadDialog, NavigationDropped, Returns, RoutingReturns,
         FrameFinishReturns, HandlerReturns, PostedLoad, DidStartNavigation,
         DidStopLoading, LoadURLWithParams, Navigate, content

(* The flags and the history.                                              *)
LEMMA FlagsStepType ==
    ASSUME TypeOK, Next
    PROVE  /\ loading' \in BOOLEAN /\ unload_url' \in BOOLEAN /\ alive' \in BOOLEAN
           /\ begun' \subseteq Promises /\ replaced' \subseteq Promises
<1>1. loading' \in BOOLEAN /\ alive' \in BOOLEAN
  <2>1. /\ loading' = TRUE \/ loading' = FALSE \/ loading' = loading
        /\ alive' = FALSE \/ alive' = alive
    BY DEF Next, Application, LoadURL, LoadURLFails, WebContentsDestroyed, Unasked,
           DidRedirectNavigation, PageRoutes, SubframeRoutes, PageNavigates,
           RunBeforeUnloadDialog, NavigationFails, NavigationDropped, DidFailLoad,
           RenderProcessGone, Returns, RoutingReturns, FrameFinishReturns,
           HandlerReturns, PostedLoad, DidStartNavigation, CommitNavigation,
           DidFinishLoad, DidStopLoading, LoadURLWithParams, Navigate, content
  <2> QED
    BY <2>1, Zenon DEF TypeOK
<1>2. begun' \subseteq Promises /\ replaced' \subseteq Promises
  <2>1. CASE DidStartNavigation
    BY <2>1 DEF DidStartNavigation, Pending, TypeOK
  <2>2. CASE UNCHANGED <<begun, replaced>>
    BY <2>2 DEF TypeOK
  <2> QED
    BY <2>1, <2>2
       DEF Next, Application, LoadURL, LoadURLFails, WebContentsDestroyed, Unasked,
           DidRedirectNavigation, PageRoutes, SubframeRoutes, PageNavigates,
           RunBeforeUnloadDialog, NavigationFails, NavigationDropped, DidFailLoad,
           RenderProcessGone, Returns, RoutingReturns, FrameFinishReturns,
           HandlerReturns, PostedLoad, CommitNavigation, DidFinishLoad, DidStopLoading
<1>3. unload_url' \in BOOLEAN
  <2>1. CASE unload_url' = unload_url \/ unload_url' = FALSE
    BY <2>1 DEF TypeOK
  <2>2. ASSUME NEW p \in Promises, NEW same \in BOOLEAN, LoadURLWithParams(p, same)
        PROVE  unload_url' \in BOOLEAN
    BY <2>2, Zenon DEF LoadURLWithParams, TypeOK
  <2>3. CASE PostedLoad
    <3>1. Head(posted) \in [by : Promises, same : BOOLEAN]
      BY <2>3, HeadTailProperties DEF PostedLoad, TypeOK
    <3> QED
      BY <2>2, <2>3, <3>1 DEF PostedLoad
  <2>4. ASSUME NEW p \in Promises, LoadURL(p)
        PROVE  unload_url' \in BOOLEAN
    BY <2>1, <2>2, <2>4 DEF LoadURL, content
  <2> QED
    BY <2>1, <2>3, <2>4
       DEF Next, Application, LoadURLFails, WebContentsDestroyed, Unasked,
           DidRedirectNavigation, PageRoutes, SubframeRoutes, PageNavigates,
           RunBeforeUnloadDialog, NavigationFails, NavigationDropped, DidFailLoad,
           RenderProcessGone, Returns, RoutingReturns, FrameFinishReturns,
           HandlerReturns, DidStartNavigation, CommitNavigation, DidFinishLoad,
           DidStopLoading, content
<1> QED
  BY <1>1, <1>2, <1>3

LEMMA ActsStepType ==
    ASSUME TypeOK, Next
    PROVE  acts' \in 0..MaxActs
<1>1. CASE Spontaneous
  BY <1>1, MaxActsAssumption DEF TypeOK, Spontaneous
<1>2. CASE UNCHANGED acts
  BY <1>2 DEF TypeOK
<1> QED
  BY <1>1, <1>2
     DEF Next, Application, LoadURL, LoadURLFails, WebContentsDestroyed, Unasked,
         DidRedirectNavigation, PageRoutes, SubframeRoutes, PageNavigates,
         RunBeforeUnloadDialog, NavigationFails, NavigationDropped, DidFailLoad,
         RenderProcessGone, Returns, RoutingReturns, FrameFinishReturns, HandlerReturns,
         PostedLoad, DidStartNavigation, CommitNavigation, DidFinishLoad, DidStopLoading

LEMMA TypeStep ==
    ASSUME IInv, Next
    PROVE  TypeOK'
BY PromisesStepType, StackStepType, NavigationStepType, DocumentStepType,
   FlagsStepType, ActsStepType
   DEF IInv, TypeOK, PromisesTypeOK, Navigations, Documents

-----------------------------------------------------------------------------
(* A pending promise keeps its load: what ends a load settles everything.  *)
LEMMA NoneLeftBehindStep ==
    ASSUME IInv, Next
    PROVE  NoneLeftBehind'
<1>0. PromisesTypeOK
  BY DEF IInv, TypeOK, PromisesTypeOK
<1>1. ASSUME NEW p \in Promises, LoadURL(p)
      PROVE  NoneLeftBehind'
  <2>1. loading' \/ posted' # <<>>
    <3>1. CASE InTeardown
      <4>1. PICK same \in BOOLEAN : posted' = Append(posted, [by |-> p, same |-> same])
        BY <1>1, <3>1 DEF LoadURL
      <4>2. [by |-> p, same |-> same] \in [by : Promises, same : BOOLEAN]
        OBVIOUS
      <4>3. Len(posted') = Len(posted) + 1 /\ Len(posted) \in Nat
        BY <4>1, <4>2, AppendProperties, LenProperties DEF IInv, TypeOK
      <4> QED
        BY <4>3, EmptySeq
    <3>2. CASE ~InTeardown
      BY <1>1, <3>2 DEF LoadURL, LoadURLWithParams, Navigate
    <3> QED
      BY <3>1, <3>2
  <2> QED
    BY <2>1 DEF NoneLeftBehind
<1>2. ASSUME NEW p \in Promises, LoadURLFails(p)
      PROVE  NoneLeftBehind'
  <2>1. /\ outcome'[p] \in Errors
        /\ \A q \in Promises \ {p} : outcome[q] # "pending" => outcome'[q] = outcome[q]
    BY <1>0, <1>2, LoadURLFailsEffect DEF LoadURLFails, IInv, FlagsKnown
  <2>2. Pending' \subseteq Pending
    BY <2>1 DEF Pending, Errors
  <2>3. UNCHANGED <<loading, posted>>
    BY <1>2 DEF LoadURLFails, content
  <2> QED
    BY <2>2, <2>3 DEF IInv, NoneLeftBehind
<1>3. CASE WebContentsDestroyed \/ DidStopLoading \/ RenderProcessGone
  <2>1. PromisesStop
    BY <1>3 DEF WebContentsDestroyed, DidStopLoading, RenderProcessGone
  <2> QED
    BY <1>0, <2>1, StopEffect DEF NoneLeftBehind
<1>4. ASSUME \A p \in Promises : ~LoadURL(p) /\ ~LoadURLFails(p),
             ~WebContentsDestroyed, ~DidStopLoading, ~RenderProcessGone
      PROVE  NoneLeftBehind'
  <2>1. Pending' \subseteq Pending
    BY <1>4, StepEffect DEF IInv, Effect, Pending
  <2>2. loading' \/ UNCHANGED <<loading, posted>>
    BY <1>4
       DEF Next, Application, Unasked, DidRedirectNavigation, PageRoutes, SubframeRoutes,
           PageNavigates, RunBeforeUnloadDialog, NavigationFails, NavigationDropped,
           DidFailLoad, Returns, RoutingReturns, FrameFinishReturns, HandlerReturns,
           PostedLoad, DidStartNavigation, CommitNavigation, DidFinishLoad,
           LoadURLWithParams, Navigate, content
  <2> QED
    BY <2>1, <2>2 DEF IInv, NoneLeftBehind
<1> QED
  BY <1>1, <1>2, <1>3, <1>4

(* What the histories grow by.                                             *)
LEMMA HistoryStep ==
    ASSUME Next
    PROVE  \/ UNCHANGED <<begun, replaced>>
           \/ /\ DidStartNavigation /\ PromisesNavigate(FALSE)
              /\ begun' = begun \cup ({nav.by} \cap Pending)
              /\ replaced' = replaced \cup (begun \cap Pending)
<1>1. CASE DidStartNavigation
  <2>1. CASE nav.same
    BY <1>1, <2>1 DEF DidStartNavigation
  <2>2. CASE ~nav.same
    <3>1. PromisesNavigate(nav.same) => PromisesNavigate(FALSE)
      BY <2>2 DEF PromisesNavigate
    <3> QED
      BY <1>1, <2>2, <3>1 DEF DidStartNavigation
  <2> QED
    BY <2>1, <2>2
<1>2. CASE UNCHANGED <<begun, replaced>>
  BY <1>2
<1> QED
  BY <1>1, <1>2
     DEF Next, Application, LoadURL, LoadURLFails, WebContentsDestroyed, Unasked,
         DidRedirectNavigation, PageRoutes, SubframeRoutes, PageNavigates,
         RunBeforeUnloadDialog, NavigationFails, NavigationDropped, DidFailLoad,
         RenderProcessGone, Returns, RoutingReturns, FrameFinishReturns,
         HandlerReturns, PostedLoad, CommitNavigation, DidFinishLoad, DidStopLoading

(* What any step does to the promises, whether or not it makes one.        *)
LEMMA OutcomeStep ==
    ASSUME IInv, Next
    PROVE  /\ \A q \in Promises : outcome[q] \notin {"unmade", "pending"} => outcome'[q] = outcome[q]
           /\ \A q \in Promises : outcome[q] = "pending" => outcome'[q] # "unmade"
           /\ \A q \in Promises : outcome'[q] = "unmade" => outcome[q] = "unmade"
           /\ \A q \in Promises : outcome'[q] = "unmade" => ~started'[q]
           /\ \A q \in Promises : started[q] => started'[q]
           /\ \A q \in Promises : outcome'[q] = "pending" => outcome[q] \in {"unmade", "pending"}
<1>0. PromisesTypeOK
  BY DEF IInv, TypeOK, PromisesTypeOK
<1>1. ASSUME NEW p \in Promises, LoadURL(p)
      PROVE  /\ \A q \in Promises \ {p} : outcome'[q] = outcome[q]
             /\ outcome[p] = "unmade" /\ outcome'[p] = "pending"
             /\ UNCHANGED started
  BY <1>0, <1>1, LoadURLEffect DEF LoadURL
<1>2. ASSUME NEW p \in Promises, LoadURLFails(p)
      PROVE  /\ \A q \in Promises \ {p} :
                  /\ outcome[q] # "pending" => outcome'[q] = outcome[q]
                  /\ outcome[q] = "pending" => outcome'[q] # "unmade"
             /\ outcome[p] = "unmade" /\ outcome'[p] \in Errors
             /\ UNCHANGED started
  BY <1>0, <1>2, LoadURLFailsEffect DEF LoadURLFails, IInv, FlagsKnown
<1>3. CASE Effect
  BY <1>3 DEF Effect, IInv, FlagsKnown
<1>4. CASE \E p \in Promises : LoadURL(p)
  BY <1>1, <1>4 DEF IInv, FlagsKnown
<1>5. CASE \E p \in Promises : LoadURLFails(p)
  BY <1>2, <1>5 DEF IInv, FlagsKnown, Errors
<1> QED
  BY <1>3, <1>4, <1>5, StepEffect DEF IInv

LEMMA FlagsKnownStep ==
    ASSUME IInv, Next
    PROVE  FlagsKnown'
<1>1. \A q \in Promises : outcome'[q] = "unmade" => ~started'[q]
  BY OutcomeStep
<1>2. ASSUME NEW q \in begun
      PROVE  /\ outcome'[q] # "unmade"
             /\ outcome'[q] = "pending" => started'[q]
  <2>1. q \in Promises
    BY DEF IInv, TypeOK
  <2> QED
    BY <2>1, OutcomeStep DEF IInv, FlagsKnown
<1>3. ASSUME PromisesNavigate(FALSE), NEW q \in Pending
      PROVE  /\ outcome'[q] # "unmade"
             /\ outcome'[q] = "pending" => started'[q]
  BY <1>3, NavigateEffect DEF Effect, Pending, IInv, TypeOK, PromisesTypeOK
<1> QED
  BY <1>1, <1>2, <1>3, HistoryStep DEF FlagsKnown

LEMMA ReplacedStep ==
    ASSUME IInv, Next
    PROVE  ReplacedAreAborted'
<1>1. ASSUME NEW q \in replaced
      PROVE  outcome'[q] = "aborted"
  <2>1. q \in Promises /\ outcome[q] = "aborted"
    BY DEF IInv, TypeOK, ReplacedAreAborted
  <2> QED
    BY <2>1, OutcomeStep
<1>2. ASSUME PromisesNavigate(FALSE), NEW q \in begun \cap Pending
      PROVE  outcome'[q] = "aborted"
  <2>1. q \in Promises /\ outcome[q] = "pending" /\ started[q]
    BY DEF IInv, FlagsKnown, Pending
  <2> QED
    BY <1>2, <2>1, NavigateEffect DEF IInv, TypeOK, PromisesTypeOK
<1> QED
  BY <1>1, <1>2, HistoryStep DEF ReplacedAreAborted

(* "routing" is emitted alone, and its handlers change no flag.            *)
LEMMA RoutingAloneStep ==
    ASSUME IInv, Next
    PROVE  RoutingAlone'
<1>0. /\ stack \in Seq(Events) /\ Len(stack) \in Nat
      /\ stack # <<>> => Len(stack) >= 1
  BY EmptySeq, LenProperties DEF IInv, TypeOK
<1>1. CASE Returns
  <2>1. stack # <<>> /\ stack' = SubSeq(stack, 1, Len(stack) - 1)
    BY <1>1 DEF Returns, RoutingReturns, FrameFinishReturns, HandlerReturns, Emitting
  <2>2. /\ Len(stack') = Len(stack) - 1
        /\ \A i \in 1..(Len(stack) - 1) : stack'[i] = stack[i]
    BY <1>0, <2>1, ReturnType
  <2>3. ASSUME NEW i \in 1..(Len(stack) - 1), stack[i] = "routing"
        PROVE  FALSE
    <3>1. i \in 1..Len(stack) /\ Len(stack) # 1
      BY <1>0
    <3> QED
      BY <2>3, <3>1 DEF IInv, RoutingAlone
  <2> QED
    BY <2>2, <2>3 DEF RoutingAlone
<1>2. \A e \in Events : Emit(e) =>
        /\ Len(stack') = Len(stack) + 1
        /\ stack'[Len(stack) + 1] = e
        /\ \A i \in 1..Len(stack) : stack'[i] = stack[i]
  BY <1>0, PushType DEF Emit
<1>3. CASE DidRedirectNavigation \/ DidFinishLoad \/ DidStopLoading \/ RenderProcessGone
  <2>1. /\ Len(stack) = 0
        /\ \E e \in Events \ {"routing"} : Emit(e)
    BY <1>3, EmptySeq DEF DidRedirectNavigation, DidFinishLoad, DidStopLoading,
                          RenderProcessGone, Idle, Events
  <2> QED
    BY <1>2, <2>1 DEF RoutingAlone
<1>4. CASE DidStartNavigation
  <2>1. \A i \in 1..Len(stack) : stack[i] # "routing"
    BY <1>4 DEF DidStartNavigation, Refused
  <2>2. Emit("navigation") /\ "navigation" \in Events
    BY <1>4 DEF DidStartNavigation, Events
  <2> QED
    BY <1>0, <1>2, <2>1, <2>2 DEF RoutingAlone
<1>5. CASE PageRoutes
  <2>1. /\ Len(stack) = 0
        /\ Emit("routing") /\ "routing" \in Events
        /\ PromisesNavigate(TRUE) /\ begun' = begun
    BY <1>5, EmptySeq DEF PageRoutes, Idle, Events
  <2>2. ASSUME NEW q \in begun, outcome'[q] = "pending"
        PROVE  inpage'[q]
    <3>1. q \in Promises /\ outcome[q] # "unmade"
      BY DEF IInv, TypeOK, FlagsKnown
    <3>2. outcome[q] = "pending" /\ started[q]
      BY <2>2, <3>1, OutcomeStep DEF IInv, FlagsKnown
    <3> QED
      BY <2>1, <3>1, <3>2, NavigateEffect DEF IInv, TypeOK, PromisesTypeOK
  <2> QED
    BY <1>2, <2>1, <2>2 DEF RoutingAlone
<1>6. ASSUME NEW p \in Promises, LoadURLFails(p)
      PROVE  RoutingAlone'
  <2>1. UNCHANGED <<stack, inpage, begun>>
    BY <1>6 DEF LoadURLFails, PromisesFail
  <2>2. ASSUME NEW q \in begun, outcome'[q] = "pending"
        PROVE  outcome[q] = "pending"
    BY <2>2, OutcomeStep DEF IInv, TypeOK, FlagsKnown
  <2> QED
    BY <2>1, <2>2 DEF IInv, RoutingAlone
<1>7. ASSUME UNCHANGED stack, \A i \in 1..Len(stack) : stack[i] # "routing"
      PROVE  RoutingAlone'
  BY <1>7 DEF RoutingAlone
<1>8. ASSUME NEW p \in Promises, LoadURL(p)
      PROVE  RoutingAlone'
  BY <1>7, <1>8 DEF LoadURL, Refused
<1>9. CASE WebContentsDestroyed
  <2>1. UNCHANGED stack /\ (stack # <<>> => Top = "did-frame-finish-load")
    BY <1>9 DEF WebContentsDestroyed
  <2>2. \A i \in 1..Len(stack) : stack[i] # "routing"
    BY <1>0, <2>1, EmptySeq DEF Top, IInv, RoutingAlone
  <2> QED
    BY <1>7, <2>1, <2>2
<1>10. CASE \/ SubframeRoutes \/ PageNavigates \/ RunBeforeUnloadDialog
            \/ NavigationFails \/ NavigationDropped \/ DidFailLoad
            \/ PostedLoad \/ CommitNavigation
  <2>1. UNCHANGED stack /\ Len(stack) = 0
    BY <1>10, EmptySeq
       DEF SubframeRoutes, PageNavigates, RunBeforeUnloadDialog, NavigationFails,
           NavigationDropped, DidFailLoad, PostedLoad, CommitNavigation, Idle
  <2> QED
    BY <1>7, <2>1
<1> QED
  BY <1>1, <1>3, <1>4, <1>5, <1>6, <1>8, <1>9, <1>10 DEF Next, Application, Unasked

LEMMA Inductive == Spec => []IInv
<1>1. IInv /\ UNCHANGED vars => IInv'
  BY DEF vars, pending_, content, IInv, TypeOK, NoneLeftBehind, Pending,
         ReplacedAreAborted, FlagsKnown, RoutingAlone
<1>2. IInv /\ Next => IInv'
  BY TypeStep, NoneLeftBehindStep, ReplacedStep, FlagsKnownStep, RoutingAloneStep DEF IInv
<1> QED
  BY InitIInv, <1>1, <1>2, PTL DEF Spec

-----------------------------------------------------------------------------
(* Every variable keeps its type; in particular a promise is never         *)
(* rejected without an error.                                              *)
THEOREM TypeCorrect == Spec => []TypeOK
BY Inductive, PTL DEF IInv

(* No promise is left behind when loading has stopped.                     *)
THEOREM NobodyWaitsForNothing == Spec => []NoneLeftBehind
BY Inductive, PTL DEF IInv

(* A load that another one replaced is rejected with ERR_ABORTED for good. *)
THEOREM ReplacedForGood == Spec => []ReplacedAreAborted
BY Inductive, PTL DEF IInv

(* A page that routes while it loads settles no load that has started.     *)
THEOREM PageMayRoute == Spec => RoutingSettlesNoLoad
<1>1. ASSUME IInv, Next, MainFrameRoutes, NEW p \in begun
      PROVE  outcome'[p] = outcome[p]
  <2>1. /\ stack \in Seq(Events) /\ Len(stack) \in Nat /\ Len(stack) >= 1
        /\ stack[Len(stack)] = "routing" /\ Len(stack') < Len(stack)
    BY <1>1, EmptySeq, LenProperties DEF IInv, TypeOK, MainFrameRoutes, Emitting, Top
  <2>2. p \in Promises /\ (outcome[p] = "pending" => inpage[p])
    BY <1>1, <2>1 DEF IInv, TypeOK, RoutingAlone
  <2>3. \A e \in Events : ~Emit(e)
    BY <2>1, PushType DEF Emit
  <2>4. stack' # stack /\ stack # <<>> /\ Refused
    <3>1. stack # <<>> /\ Len(stack) \in DOMAIN stack
      BY <2>1, EmptySeq, LenProperties
    <3> QED
      BY <2>1, <3>1 DEF Refused
  <2>5. RoutingReturns
    BY <1>1, <2>1, <2>3, <2>4
       DEF Next, Application, LoadURL, LoadURLFails, WebContentsDestroyed, Unasked,
           DidRedirectNavigation, PageRoutes, SubframeRoutes, PageNavigates,
           RunBeforeUnloadDialog, NavigationFails, NavigationDropped, DidFailLoad,
           RenderProcessGone, Returns, FrameFinishReturns, HandlerReturns, PostedLoad,
           DidStartNavigation, CommitNavigation, DidFinishLoad, DidStopLoading, Idle,
           Emitting, Top
  <2> QED
    BY <2>2, <2>5 DEF RoutingReturns, PromisesRoute, Settle, Pending
<1>2. IInv /\ [Next]_vars =>
        [MainFrameRoutes => \A p \in begun : outcome'[p] = outcome[p]]_vars
  BY <1>1
<1> QED
  BY <1>2, Inductive, PTL DEF Spec, RoutingSettlesNoLoad

=============================================================================
