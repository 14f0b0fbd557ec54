---------------------------- MODULE WebRequestProofs ----------------------------
(***************************************************************************)
(* Theorems about WebRequest, for any number of redirects and              *)
(* authentications, when a redirect keeps its loader.                      *)
(***************************************************************************)
EXTENDS WebRequest, SequenceTheorems, FiniteSetTheorems, TLAPS

-----------------------------------------------------------------------------
(* The event that a request is at, or "cancel".                            *)
Latest(r) == r.log[Len(r.log)]

(* EventsInOrder and ClientAgrees, of a request.                           *)
InOrder(r) ==
    \A i \in 2..Len(r.log) :
       /\ r.log[i - 1] \notin Final
       /\ r.log[i] \in Follows(r.mode, r.log[i - 1])

Visible(l) == {i \in DOMAIN l : l[i] \in DOMAIN Seen}
UpTo(l, i) == {j \in Visible(l) : j <= i}

Agrees(r) ==
    r.mode # "preflight" =>
      /\ Len(r.told) = Cardinality(Visible(r.log))
      /\ \A i \in Visible(r.log) :
           r.told[Cardinality(UpTo(r.log, i))] = Seen[r.log[i]]

History(r) == InOrder(r) /\ Agrees(r)

-----------------------------------------------------------------------------
(* The log and its last event.                                             *)
LEMMA LogAppend ==
    ASSUME NEW l \in Log, NEW e \in Events
    PROVE  /\ Append(l, e) \in Log
           /\ Append(l, e)[Len(Append(l, e))] = e
           /\ Append(l, e) # <<>>
           /\ Len(l) \in Nat
           /\ Len(Append(l, e)) = Len(l) + 1
           /\ Append(l, e)[Len(l) + 1] = e
           /\ \A i \in 1..Len(l) : Append(l, e)[i] = l[i]
BY AppendProperties, EmptySeq, LenProperties DEF Log

LEMMA MailAppend ==
    ASSUME NEW l \in Mail, NEW m \in Message
    PROVE  /\ Append(l, m) \in Mail
           /\ Len(l) \in Nat
           /\ Len(Append(l, m)) = Len(l) + 1
           /\ Append(l, m)[Len(l) + 1] = m
           /\ \A i \in 1..Len(l) : Append(l, m)[i] = l[i]
BY AppendProperties, LenProperties DEF Mail

LEMMA LogDomain ==
    ASSUME NEW l \in Log
    PROVE  /\ DOMAIN l = 1..Len(l) /\ Len(l) \in Nat
           /\ Len(l) = 0 <=> l = <<>>
           /\ l # <<>> => Len(l) >= 1 /\ Len(l) \in 1..Len(l)
           /\ \A i \in 1..Len(l) : l[i] \in Events
BY LenProperties, EmptySeq, ElementOfSeq DEF Log

(* An event that may follow keeps the order.                               *)
LEMMA OrderKept ==
    ASSUME NEW r \in Request, NEW s \in Request, NEW e \in Events, InOrder(r),
           s.mode = r.mode, s.log = Append(r.log, e),
           r.log # <<>> => Latest(r) \notin Final /\ e \in Follows(r.mode, Latest(r))
    PROVE  InOrder(s)
<1>1. r.log \in Log
  BY DEF Request
<1> SUFFICES ASSUME NEW i \in 2..Len(s.log)
             PROVE  /\ s.log[i - 1] \notin Final
                    /\ s.log[i] \in Follows(s.mode, s.log[i - 1])
  BY DEF InOrder
<1>2. /\ Len(r.log) \in Nat
      /\ Len(s.log) = Len(r.log) + 1
      /\ s.log[Len(r.log) + 1] = e
      /\ \A j \in 1..Len(r.log) : s.log[j] = r.log[j]
  BY <1>1, LogAppend
<1>3. CASE i = Len(r.log) + 1
  <2>1. i - 1 = Len(r.log) /\ i - 1 \in 1..Len(r.log) /\ r.log # <<>>
    BY <1>1, <1>2, <1>3, LogDomain
  <2>2. s.log[i - 1] = Latest(r) /\ s.log[i] = e
    BY <1>2, <1>3, <2>1 DEF Latest
  <2> QED
    BY <2>1, <2>2
<1>4. CASE i # Len(r.log) + 1
  <2>1. i \in 2..Len(r.log) /\ i \in 1..Len(r.log) /\ i - 1 \in 1..Len(r.log)
    BY <1>2, <1>4
  <2>2. s.log[i - 1] = r.log[i - 1] /\ s.log[i] = r.log[i]
    BY <1>2, <2>1
  <2> QED
    BY <2>1, <2>2 DEF InOrder
<1> QED
  BY <1>3, <1>4

(* The visible events of a log are finitely many, none beyond its end.     *)
LEMMA VisibleFinite ==
    ASSUME NEW l \in Log
    PROVE  /\ IsFiniteSet(Visible(l)) /\ Cardinality(Visible(l)) \in Nat
           /\ \A i : /\ IsFiniteSet(UpTo(l, i))
                     /\ Cardinality(UpTo(l, i)) <= Cardinality(Visible(l))
                     /\ Cardinality(UpTo(l, i)) \in Nat
           /\ \A i \in Visible(l) : Cardinality(UpTo(l, i)) >= 1
<1>1. IsFiniteSet(1..Len(l))
  BY LogDomain, FS_Interval
<1>2. Visible(l) \subseteq 1..Len(l) /\ \A i : UpTo(l, i) \subseteq Visible(l)
  BY LogDomain DEF Visible, UpTo
<1>3. IsFiniteSet(Visible(l))
  BY <1>1, <1>2, FS_Subset
<1>4. Cardinality(Visible(l)) \in Nat
  BY <1>3, FS_CardinalityType
<1>5. ASSUME NEW i PROVE /\ IsFiniteSet(UpTo(l, i))
                         /\ Cardinality(UpTo(l, i)) <= Cardinality(Visible(l))
                         /\ Cardinality(UpTo(l, i)) \in Nat
  BY <1>2, <1>3, FS_Subset, FS_CardinalityType
<1>6. ASSUME NEW i \in Visible(l) PROVE Cardinality(UpTo(l, i)) >= 1
  <2>1. i \in UpTo(l, i)
    BY <1>2, LogDomain DEF UpTo
  <2>2. Cardinality(UpTo(l, i)) # 0
    BY <1>5, <2>1, FS_EmptySet
  <2> QED
    BY <1>5, <2>2
<1> QED
  BY <1>3, <1>4, <1>5, <1>6

(* Events that are not visible may be told of nobody, and a visible event  *)
(* is told with its own message.                                           *)
LEMMA AgreementKept ==
    ASSUME NEW r \in Request, NEW s \in Request, NEW e \in Events, Agrees(r),
           s.mode = r.mode, s.log = Append(r.log, e),
           s.told = IF e \in DOMAIN Seen THEN Append(r.told, Seen[e]) ELSE r.told
    PROVE  Agrees(s)
<1> SUFFICES ASSUME r.mode # "preflight"
             PROVE  /\ Len(s.told) = Cardinality(Visible(s.log))
                    /\ \A i \in Visible(s.log) :
                         s.told[Cardinality(UpTo(s.log, i))] = Seen[s.log[i]]
  BY DEF Agrees
<1>1. r.log \in Log /\ s.log \in Log /\ r.told \in Mail
  BY DEF Request
<1> DEFINE n == Len(r.log) + 1
<1>2. /\ Len(r.log) \in Nat
      /\ DOMAIN r.log = 1..Len(r.log)
      /\ DOMAIN s.log = 1..n
      /\ s.log[n] = e
      /\ \A j \in 1..Len(r.log) : s.log[j] = r.log[j]
  BY <1>1, LogAppend, LogDomain
<1>3. \A i \in 1..Len(r.log) : /\ i \in Visible(s.log) <=> i \in Visible(r.log)
                               /\ UpTo(s.log, i) = UpTo(r.log, i)
  BY <1>2 DEF Visible, UpTo
<1>4. /\ Len(r.told) = Cardinality(Visible(r.log))
      /\ \A i \in Visible(r.log) :
           r.told[Cardinality(UpTo(r.log, i))] = Seen[r.log[i]]
  BY DEF Agrees
<1>5. \A i \in Visible(r.log) : i \in 1..Len(r.log)
  BY <1>2 DEF Visible
<1>6. CASE e \notin DOMAIN Seen
  <2>1. Visible(s.log) = Visible(r.log)
    BY <1>2, <1>6 DEF Visible
  <2> QED
    BY <1>2, <1>3, <1>4, <1>5, <1>6, <2>1
<1>7. CASE e \in DOMAIN Seen
  <2>1. Visible(s.log) = Visible(r.log) \cup {n}
    BY <1>2, <1>7 DEF Visible
  <2>2. UpTo(s.log, n) = Visible(r.log) \cup {n}
    BY <1>2, <2>1 DEF UpTo, Visible
  <2>3. n \notin Visible(r.log)
    BY <1>2, <1>5
  <2>4. Cardinality(Visible(r.log) \cup {n}) = Cardinality(Visible(r.log)) + 1
    BY <1>1, <2>3, VisibleFinite, FS_AddElement
  <2>5. Seen[e] \in Message
    BY <1>7 DEF Seen, Message
  <2>6. /\ Len(r.told) \in Nat
        /\ Len(s.told) = Len(r.told) + 1
        /\ s.told[Len(r.told) + 1] = Seen[e]
        /\ \A i \in 1..Len(r.told) : s.told[i] = r.told[i]
    BY <1>1, <1>7, <2>5, MailAppend
  <2>7. ASSUME NEW i \in Visible(r.log)
        PROVE  s.told[Cardinality(UpTo(s.log, i))] = Seen[s.log[i]]
    <3>1. Cardinality(UpTo(r.log, i)) \in 1..Len(r.told)
      BY <1>1, <1>4, <2>6, VisibleFinite
    <3> QED
      BY <1>2, <1>3, <1>4, <1>5, <2>6, <3>1
  <2>8. s.told[Cardinality(UpTo(s.log, n))] = Seen[s.log[n]]
    BY <1>2, <1>4, <2>2, <2>4, <2>6
  <2> QED
    BY <1>4, <2>1, <2>4, <2>6, <2>7, <2>8
<1> QED
  BY <1>6, <1>7

-----------------------------------------------------------------------------
(* A live request waits for w: the continuation of the question that is    *)
(* asked or has been answered, or "none".  The stage of the question:      *)
StageOf(w) == CASE w = "start" -> "onBeforeRequest"
                [] w = "send"  -> "onBeforeSendHeaders"
                [] OTHER       -> "onHeadersReceived"

(* The event a request is at: the question's, though "cancel" may be later.*)
Place(r, w) == IF w = "none" THEN Latest(r) ELSE StageOf(w)

(* What is in the pipe from the loader fits what the loader has done.      *)
NoMail == {<<>>, <<"error">>}

MailOf(loader) ==
    CASE loader = "responding" -> {<<>>, <<"response">>}
      [] loader = "redirected" -> {<<>>, <<"redirect">>}
      [] loader = "done"       -> NoMail \cup {<<"response", "error">>, <<"redirect", "error">>,
                                               <<"complete">>, <<"response", "complete">>}
      [] loader = "dead"       -> {<<>>, <<"response">>, <<"redirect">>}
      [] OTHER                 -> {<<>>}

(* The loaders that have called OnLoaderCreated.                           *)
Introduced == {"connecting", "asking", "sending", "headers", "received", "redirected"}

Pipes(r) ==
    /\ r.mail \in MailOf(r.loader)
    /\ r.mode = "plain" =>
         /\ r.header = "unbound" /\ r.ask = "none" /\ r.held = "none"
         /\ r.loader \in {"idle", "sending", "responding", "redirected", "done", "dead"}
    /\ r.mode = "preflight" =>
         /\ r.mail = <<>>
         /\ r.loader \notin {"idle", "created", "responding", "redirected"}
         /\ Bound(r.header)
    /\ r.mode = "header client" /\ r.loader \in Introduced => Bound(r.header)
    /\ r.mode # "preflight" =>
         /\ r.loader = "idle" <=> r.client = "unbound"
         /\ r.loader = "idle" => r.header = "unbound" /\ r.ask = "none" /\ r.held = "none"
    /\ r.ask = "onBeforeSendHeaders" => r.loader \in {"asking", "done", "dead"}
    /\ r.ask = "onHeadersReceived" => r.loader \in {"headers", "done", "dead"}
    /\ r.ask # "none" => r.mail \in NoMail /\ Bound(r.header) /\ r.held = "none"
    /\ r.loader = "asking" => "onBeforeSendHeaders" \in {r.ask, r.held}
    /\ r.loader = "headers" => "onHeadersReceived" \in {r.ask, r.held}

(* The callback that a request keeps when it waits for w.                  *)
Holds(r, w) ==
    /\ r.held = IF r.mode = "plain" THEN "none"
                ELSE IF w = "send" THEN "onBeforeSendHeaders"
                ELSE IF w = "override" THEN "onHeadersReceived"
                ELSE "none"
    /\ r.held # "none" => Bound(r.header)
    /\ r.held = "onBeforeSendHeaders" => r.loader \in {"asking", "done", "dead"}
    /\ r.held = "onHeadersReceived" => r.loader \in {"headers", "done", "dead"}
    /\ w = "override" => r.mode # "plain"
    /\ w \in {"response", "redirect"} => r.mode = "plain"

(* The next messages of the loader and of the client are those that may    *)
(* come to a request that is at this place.                                *)
Answer == {<<"response">>, <<"response", "error">>, <<"response", "complete">>,
           <<"redirect">>, <<"redirect", "error">>}

Fits(r, w, place) ==
    /\ r.loader = "sending" => place = "onSendHeaders"
    /\ r.ask = "onHeadersReceived" => place = "onSendHeaders"
    /\ r.mail \in Answer =>
         IF r.mode = "plain" THEN place = "onSendHeaders"
         ELSE \/ place = "onBeforeRequest"
              \/ place = "onHeadersReceived" /\ w = "none"
    /\ r.mail = <<"complete">> \/ (r.loader = "responding" /\ r.mail = <<>>) =>
         w = "response" \/ place = "onResponseStarted"
    /\ r.ask = "onBeforeSendHeaders" \/ r.loader \in {"connecting", "received"} =>
         \/ place = "onBeforeRequest"
         \/ place = "onHeadersReceived" /\ w = "none"
    /\ r.loader = "created" => w = "none" /\ place = "onBeforeRequest"
    /\ r.redirecting => w = "none" /\ place = "onBeforeRedirect"

(* What a request that waits for w has paused.                             *)
Paused(r, w) ==
    /\ w \in {"start", "override", "response", "redirect"} => r.client # "open"
    /\ w = "start" => r.header # "open"

(* A request that is not there: not yet, or not any more.                  *)
Away(r) ==
    /\ r.client = "unbound" /\ r.header = "unbound" /\ r.loader = "idle"
    /\ r.mail = <<>> /\ r.ask = "none" /\ r.held = "none"
    /\ r.blocked = NoEntry /\ ~r.redirecting

-----------------------------------------------------------------------------
(* A handler at work.  The request that it has in hand:                    *)
Alive(r) ==
    /\ r \in Request
    /\ r.state = "live"
    /\ r.factory # "deleted"
    /\ r.mode = "preflight" => ~Bound(r.client) /\ r.told = <<>>
    /\ History(r)
    /\ r.log # <<>>

Unasked(r) == r.blocked = NoEntry /\ r.callbacks = {}

(* ... which is to go on with w,                                           *)
Linked(r, w, place) == Pipes(r) /\ Holds(r, w) /\ Fits(r, w, place)

Ready(r, w) == Alive(r) /\ Unasked(r) /\ Linked(r, w, Place(r, w))

(* ... and the three ways to leave it: it goes on without JavaScript, a    *)
(* listener is asked, or it is over.                                       *)
Quiet(r) == Ready(r, "none") /\ Latest(r) \notin Final \cup {"cancel"}

Questioned(r) ==
    /\ Alive(r)
    /\ r.blocked \in Entry
    /\ r.blocked.stage = StageOf(r.blocked.then)
    /\ Latest(r) = r.blocked.stage
    /\ r.callbacks = {[stage |-> r.blocked.stage, at |-> r.blocked.at]}
    /\ Linked(r, r.blocked.then, r.blocked.stage)
    /\ Paused(r, r.blocked.then)

Over(r) ==
    /\ r \in Request
    /\ r.state = "gone"
    /\ r.factory # "unbound"
    /\ r.mode = "preflight" => r.told = <<>>
    /\ History(r)
    /\ Away(r)

Left(r) == Quiet(r) \/ Questioned(r) \/ Over(r)

(* A request with an answer to its question, or none yet.                  *)
Answered(r, task) ==
    /\ Ready(r, task.then)
    /\ Paused(r, task.then)
    /\ Latest(r) = IF task.answer = "cancel" THEN "cancel" ELSE StageOf(task.then)
    /\ task.answer = "redirect" => task.then \in {"start", "response"}

Unborn(r) ==
    /\ r \in Request
    /\ r.state = "none"
    /\ r.factory = "bound"
    /\ r.log = <<>> /\ r.told = <<>>
    /\ r.callbacks = {}
    /\ Away(r)

(* The inductive invariant: a request is in one of five situations.        *)
Whole ==
    \/ Unborn(q) /\ posted = <<>>
    \/ Quiet(q) /\ posted = <<>>
    \/ Questioned(q) /\ posted = <<>>
    \/ Len(posted) = 1 /\ Answered(q, Head(posted))
    \/ Len(posted) <= 1 /\ Over(q)

IInv == TypeOK /\ ~Recreates /\ Whole

-----------------------------------------------------------------------------
(* The records of the steps that the handlers are made of.                 *)
LEMMA EmitFrame ==
    ASSUME NEW r \in Request, NEW e \in Events
    PROVE  /\ Emit(r, e) \in Request
           /\ Emit(r, e) = [r EXCEPT !.log = Append(r.log, e)]
           /\ Emit(r, e).log = Append(r.log, e)
           /\ Emit(r, e).log # <<>>
           /\ Latest(Emit(r, e)) = e
           /\ Len(Emit(r, e).log) \in Nat
<1>1. r.log \in Log
  BY DEF Request
<1>2. Append(r.log, e) \in Log
  BY <1>1, LogAppend
<1>3. Emit(r, e) \in Request /\ Emit(r, e).log = Append(r.log, e)
  BY <1>2 DEF Emit, Request
<1>4. /\ Emit(r, e).log # <<>>
      /\ Latest(Emit(r, e)) = e
  BY <1>1, <1>3, LogAppend DEF Latest
<1>5. Len(Emit(r, e).log) \in Nat
  BY <1>2, <1>3, LogDomain
<1>6. Emit(r, e) = [r EXCEPT !.log = Append(r.log, e)]
  BY DEF Emit
<1> QED
  BY <1>3, <1>4, <1>5, <1>6

LEMMA TellFrame ==
    ASSUME NEW r \in Request, NEW m \in Message
    PROVE  /\ Tell(r, m) \in Request
           /\ r.mode # "preflight" => Tell(r, m) = [r EXCEPT !.told = Append(r.told, m)]
           /\ r.mode = "preflight" => Tell(r, m) = r
<1>1. r.told \in Mail
  BY DEF Request
<1>2. Append(r.told, m) \in Mail
  BY <1>1, MailAppend
<1> QED
  BY <1>2 DEF Tell, Request

LEMMA PipeTypes == \A p \in Pipe : Resume(p) \in Pipe /\ Pause(p) \in Pipe
BY DEF Resume, Pause, Pipe

LEMMA LinkType ==
    ASSUME NEW r \in Request, NEW c \in Pipe, NEW h \in Pipe, NEW l \in Loader
    PROVE  [r EXCEPT !.client = c, !.header = h, !.loader = l] \in Request
BY DEF Request

LEMMA FlagType ==
    ASSUME NEW r \in Request, NEW p \in BOOLEAN, NEW d \in BOOLEAN
    PROVE  [r EXCEPT !.pending = p, !.redirecting = d] \in Request
BY DEF Request

LEMMA DetachType ==
    ASSUME NEW r \in Request
    PROVE  Detach(r) \in Request
<1>1. <<>> \in Mail
  BY DEF Mail
<1>2. PICK m \in Mail : m = <<>>
  BY <1>1
<1>3. PICK t \in Request : t = [r EXCEPT !.client = "unbound", !.header = "unbound",
                                         !.loader = "idle"]
  BY LinkType DEF Pipe, Loader
<1>4. [t EXCEPT !.mail = m, !.ask = "none"] \in Request
  BY DEF Request
<1> QED
  BY <1>2, <1>3, <1>4 DEF Detach

LEMMA ForgetType ==
    ASSUME NEW r \in Request
    PROVE  Forget(r) \in Request
BY DEF Request, Forget

LEMMA ReleaseHeldType ==
    ASSUME NEW r \in Request
    PROVE  ReleaseHeld(r) \in Request
BY DEF Request, ReleaseHeld

LEMMA MaybeDeleteThisType ==
    ASSUME NEW r \in Request
    PROVE  MaybeDeleteThis(r) \in Request
BY DEF Request, MaybeDeleteThis

LEMMA BlockType ==
    ASSUME NEW r \in Request, NEW stage \in Stages, NEW then \in Nexts
    PROVE  Block(r, stage, then) \in Request
<1>1. Len(r.log) \in Nat
  BY LogDomain DEF Request
<1>2. [stage |-> stage, then |-> then, at |-> Len(r.log)] \in Entry
  BY <1>1 DEF Entry
<1>3. [stage |-> stage, at |-> Len(r.log)] \in Callback
  BY <1>1 DEF Callback
<1> QED
  BY <1>2, <1>3 DEF Request, Block

-----------------------------------------------------------------------------
(* What is the same in two records.                                        *)
SameLinks(s, r) ==
    /\ s.client = r.client /\ s.header = r.header /\ s.held = r.held
    /\ s.loader = r.loader /\ s.mail = r.mail /\ s.ask = r.ask

SameLife(s, r) == s.mode = r.mode /\ s.state = r.state /\ s.factory = r.factory

SameQuestion(s, r) == s.blocked = r.blocked /\ s.callbacks = r.callbacks

SameFlags(s, r) == s.pending = r.pending /\ s.redirecting = r.redirecting

SameHistory(s, r) == s.log = r.log /\ s.told = r.told

LEMMA EmitFields ==
    ASSUME NEW r \in Request, NEW e \in Events
    PROVE  LET s == Emit(r, e) IN
           /\ SameLinks(s, r) /\ SameLife(s, r) /\ SameQuestion(s, r) /\ SameFlags(s, r)
           /\ s.told = r.told
BY DEF Emit, Request, SameLinks, SameLife, SameQuestion, SameFlags

LEMMA TellFields ==
    ASSUME NEW r \in Request, NEW m \in Message
    PROVE  LET s == Tell(r, m) IN
           /\ SameLinks(s, r) /\ SameLife(s, r) /\ SameQuestion(s, r) /\ SameFlags(s, r)
           /\ s.log = r.log
           /\ s.told = IF r.mode = "preflight" THEN r.told ELSE Append(r.told, m)
BY DEF Tell, Request, SameLinks, SameLife, SameQuestion, SameFlags

LEMMA BlockFields ==
    ASSUME NEW r \in Request, NEW stage \in Stages, NEW then \in Nexts
    PROVE  LET s == Block(r, stage, then) IN
           /\ SameLinks(s, r) /\ SameLife(s, r) /\ SameFlags(s, r) /\ SameHistory(s, r)
           /\ s.blocked = [stage |-> stage, then |-> then, at |-> Len(r.log)]
           /\ s.callbacks = r.callbacks \cup {[stage |-> stage, at |-> Len(r.log)]}
BY DEF Block, Request, SameLinks, SameLife, SameFlags, SameHistory

LEMMA DetachFields ==
    ASSUME NEW r \in Request
    PROVE  LET s == Detach(r) IN
           /\ SameLife(s, r) /\ SameQuestion(s, r) /\ SameFlags(s, r) /\ SameHistory(s, r)
           /\ s.client = "unbound" /\ s.header = "unbound" /\ s.loader = "idle"
           /\ s.mail = <<>> /\ s.ask = "none" /\ s.held = r.held
BY DEF Detach, Request, SameLife, SameQuestion, SameFlags, SameHistory

-----------------------------------------------------------------------------
(* A request stays alive ...                                               *)
LEMMA HistorySame ==
    ASSUME NEW r, NEW s, s.mode = r.mode, SameHistory(s, r)
    PROVE  /\ History(r) => History(s)
           /\ Latest(s) = Latest(r)
           /\ \A w : Place(s, w) = Place(r, w)
BY DEF History, SameHistory, InOrder, Agrees, Latest, Place

(* ... as long as its history is not touched,                              *)
LEMMA AliveSame ==
    ASSUME NEW r, NEW s \in Request, Alive(r), SameLife(s, r), SameHistory(s, r),
           s.mode = "preflight" => ~Bound(s.client)
    PROVE  Alive(s) /\ Latest(s) = Latest(r)
BY HistorySame DEF Alive, SameLife, SameHistory

LEMMA HistoryEmit ==
    ASSUME NEW r \in Request, NEW e \in Events, e \notin DOMAIN Seen, History(r),
           r.log # <<>> => Latest(r) \notin Final /\ e \in Follows(r.mode, Latest(r))
    PROVE  History(Emit(r, e))
<1>1. PICK s \in Request : s = Emit(r, e)
  BY EmitFrame
<1>2. s.mode = r.mode /\ s.log = Append(r.log, e) /\ s.told = r.told
  BY <1>1, EmitFrame, EmitFields DEF SameLife
<1>3. InOrder(s)
  BY <1>2, OrderKept DEF History
<1>4. Agrees(s)
  BY <1>2, AgreementKept DEF History
<1> QED
  BY <1>1, <1>3, <1>4 DEF History

(* ... as long as events come in their order,                              *)
LEMMA AliveEmit ==
    ASSUME NEW r, NEW e \in Events, Alive(r), e \notin DOMAIN Seen,
           Latest(r) \notin Final, e \in Follows(r.mode, Latest(r))
    PROVE  Alive(Emit(r, e))
<1>1. r \in Request
  BY DEF Alive
<1>2. History(Emit(r, e))
  BY <1>1, HistoryEmit DEF Alive
<1> QED
  BY <1>1, <1>2, EmitFrame, EmitFields DEF Alive, SameLife, SameLinks

(* ... and as long as the client is told of what is visible.               *)
LEMMA HistoryTold ==
    ASSUME NEW r \in Request, NEW e \in DOMAIN Seen, NEW s \in Request, History(r),
           s.mode = r.mode, s.log = Append(r.log, e),
           r.mode # "preflight" => s.told = Append(r.told, Seen[e]),
           r.log # <<>> => Latest(r) \notin Final /\ e \in Follows(r.mode, Latest(r))
    PROVE  History(s)
<1>1. e \in Events
  BY DEF Seen, Events
<1>2. InOrder(s)
  BY <1>1, OrderKept DEF History
<1>3. CASE r.mode = "preflight"
  BY <1>2, <1>3 DEF History, Agrees
<1>4. CASE r.mode # "preflight"
  <2>1. Agrees(s)
    BY <1>1, <1>4, AgreementKept DEF History
  <2> QED
    BY <1>2, <2>1 DEF History
<1> QED
  BY <1>3, <1>4

LEMMA AliveTold ==
    ASSUME NEW r, NEW e \in DOMAIN Seen, NEW s \in Request, Alive(r),
           r.mode # "preflight",
           s.mode = r.mode, s.state = r.state, s.factory = r.factory,
           s.log = Append(r.log, e), s.told = Append(r.told, Seen[e]),
           Latest(r) \notin Final, e \in Follows(r.mode, Latest(r))
    PROVE  Alive(s) /\ Latest(s) = e
<1>1. r \in Request /\ e \in Events /\ r.log \in Log
  BY DEF Alive, Seen, Events, Request
<1>2. History(s)
  BY <1>1, HistoryTold DEF Alive
<1>3. s.log # <<>> /\ Latest(s) = e
  BY <1>1, LogAppend DEF Latest
<1> QED
  BY <1>2, <1>3 DEF Alive

-----------------------------------------------------------------------------
(* The end of a request.                                                   *)
LEMMA RemoveRequestOver ==
    ASSUME NEW r \in Request, History(r), r.factory # "deleted",
           r.mode = "preflight" => r.told = <<>>
    PROVE  Over(RemoveRequest(r)) /\ SameHistory(RemoveRequest(r), r)
<1>1. PICK d \in Request : d = Detach(r)
  BY DetachType
<1>2. PICK f \in Request : f = Forget(d)
  BY ForgetType
<1>3. PICK h \in Request : h = ReleaseHeld(f)
  BY ReleaseHeldType
<1>4. PICK g \in Request : g = [h EXCEPT !.state = "gone", !.pending = FALSE,
                                         !.redirecting = FALSE]
  <2>1. PICK k \in Request : k = [h EXCEPT !.state = "gone"]
    BY DEF Request
  <2>2. [k EXCEPT !.pending = FALSE, !.redirecting = FALSE] \in Request
    BY FlagType
  <2> QED
    BY <2>1, <2>2
<1>5. PICK s \in Request : s = MaybeDeleteThis(g)
  BY MaybeDeleteThisType
<1>6. s = RemoveRequest(r)
  BY <1>1, <1>2, <1>3, <1>4, <1>5 DEF RemoveRequest
<1>7. /\ d.mode = r.mode /\ SameHistory(d, r) /\ d.factory = r.factory
      /\ d.client = "unbound" /\ d.header = "unbound" /\ d.loader = "idle"
      /\ d.mail = <<>> /\ d.ask = "none"
  BY <1>1, DetachFields DEF SameLife
<1>8. /\ SameLife(f, d) /\ SameHistory(f, d) /\ SameLinks(f, d) /\ f.blocked = NoEntry
  BY <1>2 DEF Forget, Request, SameLife, SameHistory, SameLinks
<1>9. /\ SameLife(h, f) /\ SameHistory(h, f) /\ h.blocked = NoEntry /\ h.held = "none"
      /\ h.client = f.client /\ h.header = f.header /\ h.loader = f.loader
      /\ h.mail = f.mail /\ h.ask = f.ask
  BY <1>3, <1>8 DEF ReleaseHeld, Request, SameLife, SameHistory
<1>10. /\ g.mode = h.mode /\ g.factory = h.factory /\ SameHistory(g, h) /\ SameLinks(g, h)
       /\ g.blocked = NoEntry /\ ~g.redirecting /\ g.state = "gone"
  BY <1>4, <1>9 DEF Request, SameHistory, SameLinks
<1>11. /\ s.mode = g.mode /\ SameHistory(s, g) /\ SameLinks(s, g)
       /\ s.blocked = NoEntry /\ ~s.redirecting /\ s.state = "gone"
       /\ s.factory # "unbound"
  BY <1>5, <1>10 DEF MaybeDeleteThis, Request, SameHistory, SameLinks
<1>12. s.mode = r.mode /\ SameHistory(s, r)
  BY <1>7, <1>8, <1>9, <1>10, <1>11 DEF SameLife, SameHistory
<1>13. History(s)
  BY <1>12, HistorySame
<1>14. Away(s)
  BY <1>7, <1>8, <1>9, <1>10, <1>11 DEF Away, SameLinks
<1>15. Over(s)
  BY <1>11, <1>12, <1>13, <1>14 DEF Over, SameHistory
<1> QED
  BY <1>6, <1>12, <1>15

(* An error may come at any time.                                          *)
LEMMA OnRequestErrorOver ==
    ASSUME NEW r, Alive(r), Latest(r) \notin Final
    PROVE  /\ Over(OnRequestError(r))
           /\ OnRequestError(r).log = Append(r.log, "onErrorOccurred")
<1>1. r \in Request /\ "onErrorOccurred" \in Events /\ "error" \in Message
      /\ "onErrorOccurred" \in DOMAIN Seen /\ Seen["onErrorOccurred"] = "error"
  BY DEF Alive, Events, Message, Seen
<1>2. PICK t \in Request : t = Tell(r, "error")
  BY <1>1, TellFrame
<1>3. PICK s \in Request : s = Emit(t, "onErrorOccurred")
  BY <1>1, EmitFrame
<1>4. /\ SameLife(t, r) /\ t.log = r.log
      /\ t.told = IF r.mode = "preflight" THEN r.told ELSE Append(r.told, "error")
  BY <1>1, <1>2, TellFields
<1>5. SameLife(s, t) /\ s.told = t.told /\ s.log = Append(t.log, "onErrorOccurred")
  BY <1>1, <1>3, EmitFields, EmitFrame
<1>6. "onErrorOccurred" \in Follows(r.mode, Latest(r))
  BY DEF Follows
<1>7. /\ s.mode = r.mode /\ s.log = Append(r.log, "onErrorOccurred")
      /\ r.mode # "preflight" => s.told = Append(r.told, "error")
      /\ r.mode = "preflight" => s.told = r.told
      /\ s.factory = r.factory
  BY <1>4, <1>5 DEF SameLife
<1>8. History(s)
  BY <1>1, <1>6, <1>7, HistoryTold DEF Alive
<1>9. Over(RemoveRequest(s)) /\ SameHistory(RemoveRequest(s), s)
  BY <1>7, <1>8, RemoveRequestOver DEF Alive
<1>10. OnRequestError(r) = RemoveRequest(s)
  BY <1>2, <1>3 DEF OnRequestError
<1> QED
  BY <1>7, <1>9, <1>10 DEF SameHistory

(* The end of a preflight, and of a request that is complete.              *)
LEMMA CompletedOver ==
    ASSUME NEW r, NEW s \in Request, Alive(r),
           "onCompleted" \in Follows(r.mode, Latest(r)), Latest(r) \notin Final,
           SameLife(s, r), s.log = Append(r.log, "onCompleted"),
           r.mode # "preflight" => s.told = Append(r.told, "complete"),
           r.mode = "preflight" => s.told = r.told
    PROVE  Over(RemoveRequest(s))
<1>1. r \in Request /\ "onCompleted" \in DOMAIN Seen /\ Seen["onCompleted"] = "complete"
  BY DEF Alive, Seen
<1>2. History(s)
  BY <1>1, HistoryTold DEF Alive, SameLife
<1> QED
  BY <1>2, RemoveRequestOver DEF Alive, SameLife

-----------------------------------------------------------------------------
(* Continuations without a question.                                       *)
(* A header client lets its loader send.                                   *)
LEMMA SendHeadersQuiet ==
    ASSUME NEW r, Ready(r, "send"), Latest(r) = "onBeforeSendHeaders",
           UsesHeaderClient(r)
    PROVE  Quiet(ContinueToSendHeaders(r))
<1>1. r \in Request /\ Alive(r) /\ Unasked(r) /\ Linked(r, "send", "onBeforeSendHeaders")
  BY DEF Ready, Alive, Place, StageOf
<1>2. PICK h \in Request : h = [r EXCEPT !.held = "none"]
  BY <1>1 DEF Request
<1>3. PICK c \in Pipe : c = Resume(r.client)
  BY <1>1, PipeTypes DEF Request
<1>4. PICK l \in Loader : l = IF r.loader \in {"done", "dead"} THEN r.loader ELSE "sending"
  BY <1>1 DEF Request, Loader
<1>5. PICK t \in Request : t = [h EXCEPT !.loader = l, !.client = c]
  BY DEF Request
<1>6. PICK s \in Request : s = Emit(t, "onSendHeaders")
  BY EmitFrame DEF Events
<1>7. s = ContinueToSendHeaders(r)
  BY <1>1, <1>2, <1>3, <1>4, <1>5, <1>6 DEF ContinueToSendHeaders, Proceed, Emit, Request
<1>8. /\ SameLife(t, r) /\ SameQuestion(t, r) /\ SameHistory(t, r)
      /\ t.redirecting = r.redirecting /\ t.client = c /\ t.loader = l /\ t.held = "none"
      /\ t.header = r.header /\ t.mail = r.mail /\ t.ask = r.ask
  BY <1>1, <1>2, <1>5 DEF Request, SameLife, SameQuestion, SameHistory
<1>9. /\ SameLinks(s, t) /\ SameLife(s, t) /\ SameQuestion(s, t) /\ SameFlags(s, t)
      /\ Latest(s) = "onSendHeaders"
  BY <1>6, EmitFields, EmitFrame DEF Events
<1>10. Alive(t) /\ Latest(t) = Latest(r)
  BY <1>1, <1>3, <1>8, AliveSame DEF Alive, Resume, Bound, SameLife
<1>11. Alive(s)
  <2>1. "onSendHeaders" \in Events /\ "onSendHeaders" \notin DOMAIN Seen
        /\ Latest(t) \notin Final
    BY <1>10 DEF Events, Seen, Final
  <2>2. "onSendHeaders" \in Follows(t.mode, Latest(t))
    BY <1>10 DEF Follows
  <2> QED
    BY <1>6, <1>10, <2>1, <2>2, AliveEmit
<1>12. /\ s.mode = r.mode /\ s.redirecting = r.redirecting /\ s.client = c /\ s.loader = l
       /\ s.held = "none" /\ s.header = r.header /\ s.mail = r.mail /\ s.ask = r.ask
  BY <1>8, <1>9 DEF SameLinks, SameLife, SameFlags
<1>13. Pipes(s)
  BY <1>1, <1>3, <1>4, <1>12 DEF Linked, Pipes, UsesHeaderClient, Bound, Holds, MailOf,
     NoMail, Introduced, Resume
<1>14. Holds(s, "none")
  BY <1>12 DEF Holds
<1>15. Fits(s, "none", "onSendHeaders")
  BY <1>1, <1>4, <1>12 DEF Linked, Pipes, UsesHeaderClient, Holds, Fits, MailOf, NoMail, Answer
<1>16. Ready(s, "none")
  BY <1>1, <1>8, <1>9, <1>11, <1>13, <1>14, <1>15
     DEF Ready, Place, Linked, SameQuestion, Unasked
<1> QED
  BY <1>7, <1>9, <1>16 DEF Quiet, Final

(* A loader is started, unless there is one or its factory is lost.  A     *)
(* plain request has sent its headers, a header client has not.            *)
LEMMA StartRequestQuiet ==
    ASSUME NEW r, NEW w,
           \/ UsesHeaderClient(r) /\ w = "start" /\ Latest(r) = "onBeforeRequest"
           \/ ~UsesHeaderClient(r) /\ w = "none" /\ Latest(r) = "onSendHeaders",
           Ready(r, w)
    PROVE  Quiet(ContinueToStartRequest(r))
<1>1. r \in Request /\ Alive(r) /\ Unasked(r) /\ Linked(r, w, Latest(r))
  BY DEF Ready, Alive, Place, StageOf
<1>2. PICK c \in Pipe : c = Resume(r.client)
  BY <1>1, PipeTypes DEF Request
<1>3. PICK h \in Pipe : h = Resume(r.header)
  BY <1>1, PipeTypes DEF Request
<1>4. PICK s \in Request : s = [r EXCEPT !.client = c, !.header = h]
  BY <1>1 DEF Request
<1>5. /\ SameLife(s, r) /\ SameQuestion(s, r) /\ SameFlags(s, r) /\ SameHistory(s, r)
      /\ s.client = c /\ s.header = h /\ s.held = r.held /\ s.loader = r.loader
      /\ s.mail = r.mail /\ s.ask = r.ask
  BY <1>1, <1>4 DEF Request, SameLife, SameQuestion, SameFlags, SameHistory
<1>6. Alive(s) /\ Latest(s) = Latest(r)
  BY <1>1, <1>2, <1>5, AliveSame DEF Alive, SameLife, Resume, Bound
<1>7. Latest(r) \notin Final \cup {"cancel"}
  BY DEF Final
<1>8. CASE HasLoader(s) \/ s.factory # "bound"
  <2>1. s = ContinueToStartRequest(r)
    BY <1>1, <1>2, <1>3, <1>4, <1>8 DEF ContinueToStartRequest, Request
  <2>2. Pipes(s)
    BY <1>1, <1>2, <1>3, <1>5 DEF Linked, Pipes, Resume, Bound, SameLife
  <2>3. Holds(s, "none")
    BY <1>1, <1>3, <1>5 DEF Linked, Holds, Bound, SameLife, UsesHeaderClient
  <2>4. Fits(s, "none", Latest(r))
    BY <1>1, <1>5 DEF Linked, Fits, SameLife, SameFlags, UsesHeaderClient, Holds
  <2>5. Ready(s, "none")
    BY <1>1, <1>5, <1>6, <2>2, <2>3, <2>4 DEF Ready, Place, Linked, SameQuestion, Unasked
  <2> QED
    BY <1>6, <1>7, <2>1, <2>5 DEF Quiet
<1>9. CASE ~(HasLoader(s) \/ s.factory # "bound")
  <2>1. PICK l \in Loader : l = IF UsesHeaderClient(s) THEN "created" ELSE "sending"
    BY DEF Loader
  <2>2. PICK t \in Request : t = [s EXCEPT !.client = "open", !.loader = l]
    BY DEF Request, Pipe
  <2>3. t = ContinueToStartRequest(r)
    BY <1>1, <1>2, <1>3, <1>4, <1>9, <2>1, <2>2 DEF ContinueToStartRequest, Request
  <2>4. /\ SameLife(t, s) /\ SameQuestion(t, s) /\ SameFlags(t, s) /\ SameHistory(t, s)
        /\ t.client = "open" /\ t.loader = l /\ t.header = s.header /\ t.held = s.held
        /\ t.mail = s.mail /\ t.ask = s.ask
    BY <2>2 DEF Request, SameLife, SameQuestion, SameFlags, SameHistory
  <2>5. s.mode # "preflight" /\ s.client = "unbound" /\ s.loader = "idle"
        /\ s.header = "unbound" /\ s.held = "none" /\ s.mail = <<>> /\ s.ask = "none"
    BY <1>1, <1>2, <1>3, <1>5, <1>9
       DEF HasLoader, Bound, Linked, Pipes, SameLife, Resume, MailOf
  <2>6. Alive(t) /\ Latest(t) = Latest(s)
    BY <1>6, <2>4, <2>5, AliveSame DEF SameLife
  <2>7. Pipes(t)
    BY <1>1, <1>5, <2>1, <2>4, <2>5 DEF Pipes, SameLife, MailOf, Introduced, UsesHeaderClient
  <2>8. Holds(t, "none")
    BY <2>4, <2>5 DEF Holds
  <2>9. Fits(t, "none", Latest(r))
    BY <1>1, <1>5, <2>1, <2>4, <2>5
       DEF Linked, Fits, SameLife, SameFlags, UsesHeaderClient, Answer
  <2>10. Ready(t, "none")
    BY <1>1, <1>5, <1>6, <2>4, <2>6, <2>7, <2>8, <2>9
       DEF Ready, Place, Linked, SameQuestion, Unasked
  <2> QED
    BY <1>6, <1>7, <2>3, <2>6, <2>10 DEF Quiet
<1> QED
  BY <1>8, <1>9

(* A plain request lets its loader follow a redirect, or starts one.       *)
LEMMA PlainSendHeadersQuiet ==
    ASSUME NEW r, Ready(r, "send"), Latest(r) = "onBeforeSendHeaders",
           ~UsesHeaderClient(r)
    PROVE  Quiet(ContinueToSendHeaders(r))
<1>1. r \in Request /\ Alive(r) /\ Unasked(r) /\ Linked(r, "send", "onBeforeSendHeaders")
      /\ r.mode = "plain"
  BY DEF Ready, Alive, Place, StageOf, UsesHeaderClient
<1>2. PICK p \in Request : p = [r EXCEPT !.pending = FALSE]
  BY <1>1 DEF Request
<1>3. PICK c \in Pipe : c = Resume(r.client)
  BY <1>1, PipeTypes DEF Request
<1>4. PICK l \in Loader :
        l = IF r.pending /\ Bound(r.client) /\ r.loader \notin {"done", "dead"}
              THEN "sending" ELSE r.loader
  BY <1>1 DEF Request, Loader
<1>5. PICK t \in Request : t = [p EXCEPT !.loader = l, !.client = c]
  BY DEF Request
<1>6. PICK s \in Request : s = Emit(t, "onSendHeaders")
  BY EmitFrame DEF Events
<1>7. ContinueToSendHeaders(r) = ContinueToStartRequest(s)
  <2>1. p.loader = r.loader /\ p.client = r.client
    BY <1>1, <1>2 DEF Request
  <2>2. CASE r.pending /\ Bound(r.client)
    <3>1. t = [Proceed([r EXCEPT !.pending = FALSE], "sending") EXCEPT !.client = Resume(@)]
      BY <1>1, <1>2, <1>3, <1>4, <1>5, <2>1, <2>2 DEF Proceed, Request
    <3> QED
      BY <1>6, <2>2, <3>1 DEF ContinueToSendHeaders
  <2>3. CASE ~(r.pending /\ Bound(r.client))
    <3>1. t = [[r EXCEPT !.pending = FALSE] EXCEPT !.client = Resume(@)]
      BY <1>1, <1>2, <1>3, <1>4, <1>5, <2>1, <2>3 DEF Request
    <3> QED
      BY <1>6, <2>3, <3>1 DEF ContinueToSendHeaders
  <2> QED
    BY <2>2, <2>3
<1>8. /\ SameLife(t, r) /\ SameQuestion(t, r) /\ SameHistory(t, r)
      /\ t.redirecting = r.redirecting /\ t.client = c /\ t.loader = l /\ t.held = r.held
      /\ t.header = r.header /\ t.mail = r.mail /\ t.ask = r.ask
  BY <1>1, <1>2, <1>5 DEF Request, SameLife, SameQuestion, SameHistory
<1>9. /\ SameLinks(s, t) /\ SameLife(s, t) /\ SameQuestion(s, t) /\ SameFlags(s, t)
      /\ Latest(s) = "onSendHeaders"
  BY <1>6, EmitFields, EmitFrame DEF Events
<1>10. Alive(t) /\ Latest(t) = Latest(r)
  BY <1>1, <1>8, AliveSame DEF SameLife
<1>11. Alive(s)
  <2>1. "onSendHeaders" \in Events /\ "onSendHeaders" \notin DOMAIN Seen
        /\ Latest(t) \notin Final
    BY <1>10 DEF Events, Seen, Final
  <2>2. "onSendHeaders" \in Follows(t.mode, Latest(t))
    BY <1>10 DEF Follows
  <2> QED
    BY <1>6, <1>10, <2>1, <2>2, AliveEmit
<1>12. /\ s.mode = "plain" /\ s.redirecting = r.redirecting /\ s.client = c /\ s.loader = l
       /\ s.held = r.held /\ s.header = r.header /\ s.mail = r.mail /\ s.ask = r.ask
  BY <1>1, <1>8, <1>9 DEF SameLinks, SameLife, SameFlags
<1>13. r.pending /\ Bound(r.client) /\ r.loader \notin {"done", "dead"} =>
         r.loader = "redirected" /\ r.mail = <<>>
  BY <1>1 DEF Linked, Pipes, Fits, MailOf, Bound, Answer
<1>14. Pipes(s)
  BY <1>1, <1>3, <1>4, <1>12, <1>13 DEF Linked, Pipes, Bound, MailOf, Resume
<1>15. Holds(s, "none")
  BY <1>1, <1>4, <1>12 DEF Linked, Holds
<1>16. Fits(s, "none", "onSendHeaders")
  BY <1>1, <1>4, <1>12, <1>13 DEF Linked, Pipes, Fits, MailOf, NoMail, Answer
<1>17. Ready(s, "none")
  BY <1>1, <1>8, <1>9, <1>11, <1>14, <1>15, <1>16
     DEF Ready, Place, Linked, SameQuestion, Unasked
<1> QED
  BY <1>7, <1>9, <1>12, <1>17, StartRequestQuiet DEF UsesHeaderClient

LEMMA ContinueToSendHeadersQuiet ==
    ASSUME NEW r, Ready(r, "send"), Latest(r) = "onBeforeSendHeaders"
    PROVE  Quiet(ContinueToSendHeaders(r))
BY SendHeadersQuiet, PlainSendHeadersQuiet

(* A listener is asked.                                                    *)
LEMMA BlockQuestioned ==
    ASSUME NEW r, NEW w \in Nexts, Ready(r, w), Latest(r) = StageOf(w),
           NEW c \in {r.client, Pause(r.client)}, NEW h \in {r.header, Pause(r.header)},
           w # "send" => c = Pause(r.client),
           w = "start" => h = Pause(r.header)
    PROVE  Questioned([Block(r, StageOf(w), w) EXCEPT !.client = c, !.header = h])
<1>1. r \in Request /\ Alive(r) /\ Unasked(r) /\ Linked(r, w, Latest(r))
  BY DEF Ready, Alive, Place, Nexts
<1>2. c \in Pipe /\ h \in Pipe
  BY <1>1, PipeTypes DEF Request
<1>3. StageOf(w) \in Stages
  BY DEF StageOf, Stages, Nexts
<1>4. PICK b \in Request : b = Block(r, StageOf(w), w)
  BY <1>1, <1>3, BlockType
<1>5. PICK s \in Request : s = [b EXCEPT !.client = c, !.header = h]
  BY <1>2 DEF Request
<1>6. /\ SameLinks(b, r) /\ SameLife(b, r) /\ SameFlags(b, r) /\ SameHistory(b, r)
      /\ b.blocked = [stage |-> StageOf(w), then |-> w, at |-> Len(r.log)]
      /\ b.callbacks = r.callbacks \cup {[stage |-> StageOf(w), at |-> Len(r.log)]}
  BY <1>1, <1>3, <1>4, BlockFields
<1>7. /\ SameLife(s, b) /\ SameFlags(s, b) /\ SameHistory(s, b) /\ SameQuestion(s, b)
      /\ s.client = c /\ s.header = h /\ s.held = b.held /\ s.loader = b.loader
      /\ s.mail = b.mail /\ s.ask = b.ask
  BY <1>5 DEF Request, SameLife, SameFlags, SameHistory, SameQuestion
<1>8. /\ SameLife(s, r) /\ SameFlags(s, r) /\ SameHistory(s, r)
      /\ s.client = c /\ s.header = h /\ s.held = r.held /\ s.loader = r.loader
      /\ s.mail = r.mail /\ s.ask = r.ask
      /\ s.blocked = [stage |-> StageOf(w), then |-> w, at |-> Len(r.log)]
      /\ s.callbacks = {[stage |-> StageOf(w), at |-> Len(r.log)]}
  BY <1>1, <1>6, <1>7 DEF SameLinks, SameLife, SameFlags, SameHistory, SameQuestion, Unasked
<1>9. (c = "unbound" <=> r.client = "unbound") /\ (h = "unbound" <=> r.header = "unbound")
  BY DEF Pause
<1>10. Alive(s) /\ Latest(s) = StageOf(w)
  BY <1>1, <1>8, <1>9, AliveSame DEF Alive, SameLife, Bound
<1>11. Pipes(s)
  BY <1>1, <1>8, <1>9 DEF Linked, Pipes, Bound, SameLife
<1>12. Holds(s, w)
  BY <1>1, <1>8, <1>9 DEF Linked, Holds, Bound, SameLife
<1>13. Fits(s, w, StageOf(w))
  BY <1>1, <1>8 DEF Linked, Fits, SameLife, SameFlags
<1>14. Paused(s, w)
  BY <1>8 DEF Paused, Pause
<1>15. s.blocked \in Entry
  BY <1>1, <1>3, <1>8, LogDomain DEF Entry, Request
<1>16. s.blocked.stage = StageOf(w) /\ s.blocked.then = w /\ s.blocked.at = Len(r.log)
  BY <1>8
<1>17. Questioned(s)
  BY <1>8, <1>10, <1>11, <1>12, <1>13, <1>14, <1>15, <1>16 DEF Questioned, Linked
<1> QED
  BY <1>4, <1>5, <1>17

LEMMA SamePipes ==
    ASSUME NEW r \in Request
    PROVE  /\ r = [r EXCEPT !.client = r.client, !.header = r.header]
           /\ \A c \in Pipe : [r EXCEPT !.client = c]
                                = [r EXCEPT !.client = c, !.header = r.header]
BY DEF Request

(* The event of a question is emitted.                                     *)
LEMMA EmitReady ==
    ASSUME NEW r, NEW w \in Nexts, Alive(r), Unasked(r), Linked(r, w, StageOf(w)),
           Latest(r) \notin Final, StageOf(w) \in Follows(r.mode, Latest(r))
    PROVE  /\ Ready(Emit(r, StageOf(w)), w)
           /\ Latest(Emit(r, StageOf(w))) = StageOf(w)
           /\ Emit(r, StageOf(w)) \in Request
           /\ SameLinks(Emit(r, StageOf(w)), r)
<1>1. r \in Request /\ StageOf(w) \in Events /\ StageOf(w) \notin DOMAIN Seen
  BY DEF Alive, StageOf, Events, Stages, Seen
<1>2. PICK s \in Request : s = Emit(r, StageOf(w))
  BY <1>1, EmitFrame
<1>3. /\ SameLinks(s, r) /\ SameLife(s, r) /\ SameQuestion(s, r) /\ SameFlags(s, r)
      /\ Latest(s) = StageOf(w)
  BY <1>1, <1>2, EmitFrame, EmitFields
<1>4. Alive(s)
  BY <1>1, <1>2, AliveEmit
<1>5. Pipes(s)
  BY <1>3 DEF Linked, Pipes, SameLinks, SameLife
<1>6. Holds(s, w)
  BY <1>3 DEF Linked, Holds, SameLinks, SameLife
<1>7. Fits(s, w, StageOf(w))
  BY <1>3 DEF Linked, Fits, SameLinks, SameLife, SameFlags
<1>8. Ready(s, w)
  BY <1>3, <1>4, <1>5, <1>6, <1>7 DEF Ready, Linked, Place, SameQuestion, Unasked, Nexts
<1> QED
  BY <1>2, <1>3, <1>8

(* Listeners of onBeforeSendHeaders are asked, or not.                     *)
LEMMA BeforeSendHeadersLeft ==
    ASSUME NEW r \in Request, NEW t, t = [r EXCEPT !.client = Resume(r.client)],
           Alive(t), Unasked(t), Linked(t, "send", "onBeforeSendHeaders"),
           Latest(t) \notin Final, "onBeforeSendHeaders" \in Follows(t.mode, Latest(t)),
           NEW u \in ContinueToBeforeSendHeaders(r)
    PROVE  Left(u)
<1>1. "send" \in Nexts /\ StageOf("send") = "onBeforeSendHeaders"
  BY DEF Nexts, StageOf
<1>2. PICK s \in Request : s = Emit(t, "onBeforeSendHeaders")
  BY <1>1, EmitReady
<1>3. Ready(s, "send") /\ Latest(s) = "onBeforeSendHeaders"
  BY <1>1, <1>2, EmitReady
<1>4. u \in {Block(s, "onBeforeSendHeaders", "send"), ContinueToSendHeaders(s)}
  BY <1>2 DEF ContinueToBeforeSendHeaders
<1>5. CASE u = ContinueToSendHeaders(s)
  BY <1>3, <1>5, ContinueToSendHeadersQuiet DEF Left
<1>6. CASE u = Block(s, "onBeforeSendHeaders", "send")
  <2>1. u \in Request /\ u.client = s.client /\ u.header = s.header
    BY <1>6, BlockType, BlockFields DEF Stages, Nexts, SameLinks
  <2>2. u = [u EXCEPT !.client = s.client, !.header = s.header]
    BY <2>1, SamePipes
  <2>3. Questioned([u EXCEPT !.client = s.client, !.header = s.header])
    BY <1>1, <1>3, <1>6, BlockQuestioned
  <2> QED
    BY <2>2, <2>3 DEF Left
<1> QED
  BY <1>4, <1>5, <1>6

(* What comes after onBeforeRequest.                                       *)
LEMMA AfterBeforeRequestLeft ==
    ASSUME NEW r, Ready(r, "start"), Latest(r) = "onBeforeRequest",
           NEW u \in AfterBeforeRequest(r)
    PROVE  Left(u)
<1>1. CASE UsesHeaderClient(r)
  BY <1>1, StartRequestQuiet DEF AfterBeforeRequest, Left
<1>2. CASE ~UsesHeaderClient(r)
  <2>1. r \in Request /\ Alive(r) /\ Unasked(r) /\ Linked(r, "start", "onBeforeRequest")
        /\ r.mode = "plain"
    BY <1>2 DEF Ready, Alive, Place, StageOf, UsesHeaderClient
  <2>2. PICK c \in Pipe : c = Resume(r.client)
    BY <2>1, PipeTypes DEF Request
  <2>3. PICK t \in Request : t = [r EXCEPT !.client = c]
    BY <2>1 DEF Request
  <2>4. /\ SameLife(t, r) /\ SameFlags(t, r) /\ SameHistory(t, r) /\ SameQuestion(t, r)
        /\ t.client = c /\ t.header = r.header /\ t.held = r.held /\ t.loader = r.loader
        /\ t.mail = r.mail /\ t.ask = r.ask
    BY <2>1, <2>3 DEF Request, SameLife, SameFlags, SameHistory, SameQuestion
  <2>5. Alive(t) /\ Latest(t) = "onBeforeRequest"
    BY <2>1, <2>4, AliveSame DEF SameLife
  <2>6. Pipes(t)
    BY <2>1, <2>2, <2>4 DEF Linked, Pipes, Resume, Bound, SameLife
  <2>7. Holds(t, "send")
    BY <2>1, <2>4 DEF Linked, Holds, SameLife
  <2>8. Fits(t, "send", "onBeforeSendHeaders")
    BY <2>1, <2>4 DEF Linked, Pipes, Fits, SameLife, SameFlags
  <2>9. Unasked(t)
    BY <2>1, <2>4 DEF Unasked, SameQuestion
  <2>10. "onBeforeSendHeaders" \in Follows(t.mode, Latest(t)) /\ Latest(t) \notin Final
    BY <2>5 DEF Follows, Final
  <2>11. u \in ContinueToBeforeSendHeaders(r)
    BY <1>2 DEF AfterBeforeRequest
  <2> QED
    BY <2>1, <2>2, <2>3, <2>5, <2>6, <2>7, <2>8, <2>9, <2>10, <2>11,
       BeforeSendHeadersLeft DEF Linked
<1> QED
  BY <1>1, <1>2

(* A request is asked for from the start.                                  *)
LEMMA RestartInternalLeft ==
    ASSUME NEW r, Ready(Emit(r, "onBeforeRequest"), "start"),
           Latest(Emit(r, "onBeforeRequest")) = "onBeforeRequest",
           NEW u \in RestartInternal(r)
    PROVE  Left(u)
<1>1. PICK s \in Request : s = Emit(r, "onBeforeRequest")
  BY DEF Ready, Alive
<1>2. "start" \in Nexts /\ StageOf("start") = "onBeforeRequest"
  BY DEF Nexts, StageOf
<1>3. \/ u = [Block(s, "onBeforeRequest", "start") EXCEPT
                !.client = Pause(@), !.header = Pause(@)]
      \/ u \in AfterBeforeRequest(s)
  BY <1>1 DEF RestartInternal
<1>4. CASE u \in AfterBeforeRequest(s)
  BY <1>1, <1>4, AfterBeforeRequestLeft
<1>5. CASE u = [Block(s, "onBeforeRequest", "start") EXCEPT
                  !.client = Pause(@), !.header = Pause(@)]
  <2>1. PICK b \in Request : b = Block(s, "onBeforeRequest", "start")
    BY BlockType DEF Stages, Nexts
  <2>2. b.client = s.client /\ b.header = s.header
    BY <2>1, BlockFields DEF Stages, Nexts, SameLinks
  <2>3. u = [b EXCEPT !.client = Pause(s.client), !.header = Pause(s.header)]
    BY <1>5, <2>1, <2>2 DEF Request
  <2>4. Questioned([b EXCEPT !.client = Pause(s.client), !.header = Pause(s.header)])
    BY <1>1, <1>2, <2>1, BlockQuestioned
  <2> QED
    BY <2>3, <2>4 DEF Left
<1> QED
  BY <1>3, <1>4, <1>5

-----------------------------------------------------------------------------
(* The client is told.                                                     *)
LEMMA ResponseStartedQuiet ==
    ASSUME NEW r, Alive(r), Unasked(r), r.mode # "preflight",
           Linked(r, "none", "onResponseStarted"),
           Latest(r) \notin Final, "onResponseStarted" \in Follows(r.mode, Latest(r))
    PROVE  Quiet(ContinueToResponseStarted(r))
<1>1. r \in Request /\ "onResponseStarted" \in Events /\ "response" \in Message
      /\ "onResponseStarted" \in DOMAIN Seen /\ Seen["onResponseStarted"] = "response"
  BY DEF Alive, Events, Message, Seen
<1>2. PICK c \in Pipe : c = Resume(r.client)
  BY <1>1, PipeTypes DEF Request
<1>3. PICK p \in Request : p = [r EXCEPT !.client = c]
  BY <1>1 DEF Request
<1>4. PICK t \in Request : t = Emit(p, "onResponseStarted")
  BY <1>1, EmitFrame
<1>5. PICK s \in Request : s = Tell(t, "response")
  BY <1>1, TellFrame
<1>6. s = ContinueToResponseStarted(r)
  BY <1>1, <1>2, <1>3, <1>4, <1>5 DEF ContinueToResponseStarted, Request
<1>7. /\ SameLife(p, r) /\ SameFlags(p, r) /\ SameHistory(p, r) /\ SameQuestion(p, r)
      /\ p.client = c /\ p.header = r.header /\ p.held = r.held /\ p.loader = r.loader
      /\ p.mail = r.mail /\ p.ask = r.ask
  BY <1>1, <1>3 DEF Request, SameLife, SameFlags, SameHistory, SameQuestion
<1>8. /\ SameLinks(t, p) /\ SameLife(t, p) /\ SameQuestion(t, p) /\ SameFlags(t, p)
      /\ t.told = p.told /\ t.log = Append(p.log, "onResponseStarted")
  BY <1>1, <1>4, EmitFrame, EmitFields
<1>9. /\ SameLinks(s, t) /\ SameLife(s, t) /\ SameQuestion(s, t) /\ SameFlags(s, t)
      /\ s.log = t.log
      /\ s.told = IF t.mode = "preflight" THEN t.told ELSE Append(t.told, "response")
  BY <1>1, <1>5, TellFields
<1>10. /\ SameLife(s, r) /\ SameQuestion(s, r) /\ SameFlags(s, r)
       /\ s.client = c /\ s.header = r.header /\ s.held = r.held /\ s.loader = r.loader
       /\ s.mail = r.mail /\ s.ask = r.ask
       /\ s.log = Append(r.log, "onResponseStarted")
       /\ s.told = Append(r.told, "response")
  BY <1>7, <1>8, <1>9 DEF SameLife, SameQuestion, SameFlags, SameLinks, SameHistory
<1>11. Alive(s) /\ Latest(s) = "onResponseStarted"
  BY <1>1, <1>10, AliveTold DEF SameLife
<1>12. Pipes(s)
  BY <1>2, <1>10 DEF Linked, Pipes, Resume, Bound, SameLife
<1>13. Holds(s, "none")
  BY <1>10 DEF Linked, Holds, SameLife
<1>14. Fits(s, "none", "onResponseStarted")
  BY <1>10 DEF Linked, Fits, SameLife, SameFlags
<1>15. Ready(s, "none")
  BY <1>10, <1>11, <1>12, <1>13, <1>14 DEF Ready, Linked, Place, SameQuestion, Unasked
<1> QED
  BY <1>6, <1>11, <1>15 DEF Quiet, Final

LEMMA BeforeRedirectQuiet ==
    ASSUME NEW r, Alive(r), Unasked(r), r.mode # "preflight",
           Linked(r, "none", "onBeforeRedirect"),
           Latest(r) \notin Final, "onBeforeRedirect" \in Follows(r.mode, Latest(r))
    PROVE  Quiet(ContinueToBeforeRedirect(r))
<1>1. r \in Request /\ "onBeforeRedirect" \in Events /\ "redirect" \in Message
      /\ "onBeforeRedirect" \in DOMAIN Seen /\ Seen["onBeforeRedirect"] = "redirect"
  BY DEF Alive, Events, Message, Seen
<1>2. PICK c \in Pipe : c = Resume(r.client)
  BY <1>1, PipeTypes DEF Request
<1>3. PICK p \in Request : p = [r EXCEPT !.client = c, !.redirecting = TRUE]
  BY <1>1 DEF Request
<1>4. PICK t \in Request : t = Emit(p, "onBeforeRedirect")
  BY <1>1, EmitFrame
<1>5. PICK s \in Request : s = Tell(t, "redirect")
  BY <1>1, TellFrame
<1>6. s = ContinueToBeforeRedirect(r)
  BY <1>1, <1>2, <1>3, <1>4, <1>5 DEF ContinueToBeforeRedirect, Request
<1>7. /\ SameLife(p, r) /\ SameHistory(p, r) /\ SameQuestion(p, r)
      /\ p.client = c /\ p.header = r.header /\ p.held = r.held /\ p.loader = r.loader
      /\ p.mail = r.mail /\ p.ask = r.ask
  BY <1>1, <1>3 DEF Request, SameLife, SameHistory, SameQuestion
<1>8. /\ SameLinks(t, p) /\ SameLife(t, p) /\ SameQuestion(t, p)
      /\ t.told = p.told /\ t.log = Append(p.log, "onBeforeRedirect")
  BY <1>1, <1>4, EmitFrame, EmitFields
<1>9. /\ SameLinks(s, t) /\ SameLife(s, t) /\ SameQuestion(s, t)
      /\ s.log = t.log
      /\ s.told = IF t.mode = "preflight" THEN t.told ELSE Append(t.told, "redirect")
  BY <1>1, <1>5, TellFields
<1>10. /\ SameLife(s, r) /\ SameQuestion(s, r)
       /\ s.client = c /\ s.header = r.header /\ s.held = r.held /\ s.loader = r.loader
       /\ s.mail = r.mail /\ s.ask = r.ask
       /\ s.log = Append(r.log, "onBeforeRedirect")
       /\ s.told = Append(r.told, "redirect")
  BY <1>7, <1>8, <1>9 DEF SameLife, SameQuestion, SameLinks, SameHistory
<1>11. Alive(s) /\ Latest(s) = "onBeforeRedirect"
  BY <1>1, <1>10, AliveTold DEF SameLife
<1>12. Pipes(s)
  BY <1>2, <1>10 DEF Linked, Pipes, Resume, Bound, SameLife
<1>13. Holds(s, "none")
  BY <1>10 DEF Linked, Holds, SameLife
<1>14. Fits(s, "none", "onBeforeRedirect")
  BY <1>10 DEF Linked, Fits, SameLife
<1>15. Ready(s, "none")
  BY <1>10, <1>11, <1>12, <1>13, <1>14 DEF Ready, Linked, Place, SameQuestion, Unasked
<1> QED
  BY <1>6, <1>11, <1>15 DEF Quiet, Final

-----------------------------------------------------------------------------
(* After onHeadersReceived.  The callback of a header client is run, and   *)
(* the loader goes on; a preflight may end.                                *)
LEMMA OverrideHeadersLeft ==
    ASSUME NEW r, Ready(r, "override"), Latest(r) = "onHeadersReceived",
           NEW u \in ContinueToHandleOverrideHeaders(r)
    PROVE  Left(u)
<1>1. r \in Request /\ Alive(r) /\ Unasked(r) /\ Linked(r, "override", "onHeadersReceived")
      /\ r.mode # "plain"
  BY DEF Ready, Alive, Place, StageOf, Linked, Holds
<1>2. PICK h \in Request : h = [r EXCEPT !.held = "none"]
  BY <1>1 DEF Request
<1>3. PICK l \in Loader : l = IF r.loader \in {"done", "dead"} THEN r.loader ELSE "received"
  BY <1>1 DEF Request, Loader
<1>4. PICK s \in Request : s = [h EXCEPT !.loader = l]
  BY DEF Request
<1>5. s = Proceed([r EXCEPT !.held = "none"], "received")
  BY <1>1, <1>2, <1>3, <1>4 DEF Proceed, Request
<1>6. /\ SameLife(s, r) /\ SameQuestion(s, r) /\ SameHistory(s, r) /\ SameFlags(s, r)
      /\ s.client = r.client /\ s.loader = l /\ s.held = "none"
      /\ s.header = r.header /\ s.mail = r.mail /\ s.ask = r.ask
  BY <1>1, <1>2, <1>4 DEF Request, SameLife, SameQuestion, SameHistory, SameFlags
<1>7. PICK c \in Pipe : c = Resume(s.client)
  BY PipeTypes DEF Request
<1>8. PICK t \in Request : t = [s EXCEPT !.client = c]
  BY DEF Request
<1>9. /\ SameLife(t, r) /\ SameQuestion(t, r) /\ SameHistory(t, r) /\ SameFlags(t, r)
      /\ t.client = c /\ t.loader = l /\ t.held = "none"
      /\ t.header = r.header /\ t.mail = r.mail /\ t.ask = r.ask
  BY <1>6, <1>8 DEF Request, SameLife, SameQuestion, SameHistory, SameFlags
<1>10. Alive(t) /\ Latest(t) = "onHeadersReceived"
  BY <1>1, <1>6, <1>7, <1>9, AliveSame DEF Alive, SameLife, Resume, Bound
<1>11. Pipes(t)
  BY <1>1, <1>3, <1>6, <1>7, <1>9
     DEF Linked, Pipes, Holds, Resume, Bound, SameLife, MailOf, NoMail, Introduced
<1>12. Holds(t, "none")
  BY <1>9 DEF Holds
<1>13. Fits(t, "none", "onHeadersReceived")
  BY <1>1, <1>3, <1>9 DEF Linked, Fits, Pipes, Holds, SameLife, SameFlags, MailOf, NoMail, Answer
<1>14. Quiet(t)
  BY <1>1, <1>9, <1>10, <1>11, <1>12, <1>13
     DEF Quiet, Ready, Linked, Place, SameQuestion, Unasked, Final
<1>15. CASE r.mode = "preflight"
  <2>1. s = t
    <3>1. r.client = "unbound"
      BY <1>1, <1>15 DEF Alive, Bound
    <3> QED
      BY <1>6, <1>7, <1>8, <3>1 DEF Resume, Request
  <2>2. CASE u = s
    BY <1>14, <2>1, <2>2 DEF Left
  <2>3. CASE u = RemoveRequest(Emit(Emit(s, "onResponseStarted"), "onCompleted"))
    <3>1. "onResponseStarted" \in Events /\ "onCompleted" \in Events
          /\ "onResponseStarted" \in DOMAIN Seen
      BY DEF Events, Seen
    <3>2. PICK a \in Request : a = Emit(s, "onResponseStarted")
      BY <3>1, EmitFrame
    <3>3. PICK b \in Request : b = Emit(a, "onCompleted")
      BY <3>1, EmitFrame
    <3>4. /\ SameLife(a, s) /\ SameLinks(a, s) /\ a.told = s.told
          /\ a.log = Append(s.log, "onResponseStarted")
          /\ a.log # <<>> /\ Latest(a) = "onResponseStarted"
      BY <3>1, <3>2, EmitFields, EmitFrame
    <3>5. SameLife(b, a) /\ b.told = a.told /\ b.log = Append(a.log, "onCompleted")
      BY <3>1, <3>3, EmitFields, EmitFrame
    <3>6. Latest(s) \notin Final /\ "onResponseStarted" \in Follows(s.mode, Latest(s))
      BY <1>10, <2>1 DEF Final, Follows
    <3>7. s.mode = "preflight" /\ Alive(s)
      BY <1>6, <1>10, <1>15, <2>1 DEF SameLife
    <3>8. History(a)
      BY <3>1, <3>4, <3>6, <3>7, HistoryTold DEF Alive, SameLife
    <3>9. Alive(a)
      BY <3>4, <3>7, <3>8 DEF Alive, SameLife, SameLinks
    <3>10. a.mode = "preflight"
           /\ "onCompleted" \in Follows(a.mode, Latest(a)) /\ Latest(a) \notin Final
      BY <3>4, <3>7 DEF Follows, Final, SameLife
    <3>11. Over(RemoveRequest(b))
      BY <3>5, <3>9, <3>10, CompletedOver
    <3> QED
      BY <2>3, <3>2, <3>3, <3>11 DEF Left
  <2>4. u \in {s, RemoveRequest(Emit(Emit(s, "onResponseStarted"), "onCompleted"))}
    BY <1>5, <1>6, <1>15 DEF ContinueToHandleOverrideHeaders, SameLife
  <2> QED
    BY <2>2, <2>3, <2>4
<1>16. CASE r.mode # "preflight"
  <2>1. u = t
    BY <1>5, <1>6, <1>7, <1>8, <1>16 DEF ContinueToHandleOverrideHeaders, SameLife
  <2> QED
    BY <1>14, <2>1 DEF Left
<1> QED
  BY <1>15, <1>16

LEMMA AfterHeadersReceivedLeft ==
    ASSUME NEW r, NEW then \in {"override", "response", "redirect"},
           Ready(r, then), Latest(r) = "onHeadersReceived",
           NEW u \in AfterHeadersReceived(r, then)
    PROVE  Left(u)
<1>1. r \in Request /\ Alive(r) /\ Unasked(r) /\ Linked(r, then, "onHeadersReceived")
  BY DEF Ready, Alive, Place, StageOf
<1>2. CASE then = "override"
  BY <1>2, OverrideHeadersLeft DEF AfterHeadersReceived
<1>3. CASE then = "response"
  <2>1. u = ContinueToResponseStarted(r) /\ r.mode = "plain"
    BY <1>1, <1>3 DEF AfterHeadersReceived, Linked, Holds
  <2>2. Linked(r, "none", "onResponseStarted")
    <3>1. Holds(r, "none")
      BY <1>1, <1>3 DEF Linked, Holds
    <3>2. Fits(r, "none", "onResponseStarted")
      BY <1>1, <1>3, <2>1 DEF Linked, Fits, Pipes
    <3> QED
      BY <1>1, <3>1, <3>2 DEF Linked
  <2>3. Latest(r) \notin Final /\ "onResponseStarted" \in Follows(r.mode, Latest(r))
    BY DEF Final, Follows
  <2> QED
    BY <1>1, <2>1, <2>2, <2>3, ResponseStartedQuiet DEF Left
<1>4. CASE then = "redirect"
  <2>1. u = ContinueToBeforeRedirect(r) /\ r.mode = "plain"
    BY <1>1, <1>4 DEF AfterHeadersReceived, Linked, Holds
  <2>2. Linked(r, "none", "onBeforeRedirect")
    <3>1. Holds(r, "none")
      BY <1>1, <1>4 DEF Linked, Holds
    <3>2. Fits(r, "none", "onBeforeRedirect")
      BY <1>1, <1>4, <2>1 DEF Linked, Fits, Pipes
    <3> QED
      BY <1>1, <3>1, <3>2 DEF Linked
  <2>3. Latest(r) \notin Final /\ "onBeforeRedirect" \in Follows(r.mode, Latest(r))
    BY DEF Final, Follows
  <2> QED
    BY <1>1, <2>1, <2>2, <2>3, BeforeRedirectQuiet DEF Left
<1> QED
  BY <1>2, <1>3, <1>4

(* Listeners of onHeadersReceived are asked, or not.                       *)
LEMMA HandleHeadersLeft ==
    ASSUME NEW r, NEW then \in {"override", "response", "redirect"},
           Alive(r), Unasked(r), Linked(r, then, "onHeadersReceived"),
           Latest(r) \notin Final, "onHeadersReceived" \in Follows(r.mode, Latest(r)),
           NEW u \in HandleResponseOrRedirectHeaders(r, then)
    PROVE  Left(u)
<1>1. then \in Nexts /\ StageOf(then) = "onHeadersReceived"
      /\ "onHeadersReceived" \in Stages /\ then # "send" /\ then # "start"
  BY DEF Nexts, StageOf, Stages
<1>2. PICK s \in Request : s = Emit(r, "onHeadersReceived")
  BY <1>1, EmitReady
<1>3. Ready(s, then) /\ Latest(s) = "onHeadersReceived"
  BY <1>1, <1>2, EmitReady
<1>4. \/ u = [Block(s, "onHeadersReceived", then) EXCEPT !.client = Pause(@)]
      \/ u \in AfterHeadersReceived(s, then)
  BY <1>2 DEF HandleResponseOrRedirectHeaders
<1>5. CASE u \in AfterHeadersReceived(s, then)
  BY <1>3, <1>5, AfterHeadersReceivedLeft
<1>6. CASE u = [Block(s, "onHeadersReceived", then) EXCEPT !.client = Pause(@)]
  <2>1. PICK b \in Request : b = Block(s, "onHeadersReceived", then)
    BY <1>1, BlockType
  <2>2. b.client = s.client /\ b.header = s.header
    <3>1. SameLinks(Block(s, "onHeadersReceived", then), s)
      BY <1>1, BlockFields
    <3> QED
      BY <2>1, <3>1 DEF SameLinks
  <2>3. Pause(s.client) \in Pipe
    <3>1. s.client \in Pipe
      BY DEF Request
    <3> QED
      BY <3>1, PipeTypes, Zenon
  <2>4. u = [b EXCEPT !.client = Pause(s.client)]
    BY <1>6, <2>1, <2>2 DEF Request
  <2>5. u = [b EXCEPT !.client = Pause(s.client), !.header = s.header]
    BY <2>2, <2>3, <2>4, SamePipes
  <2>6. Questioned([b EXCEPT !.client = Pause(s.client), !.header = s.header])
    BY <1>1, <1>3, <2>1, BlockQuestioned
  <2> QED
    BY <2>5, <2>6 DEF Left
<1> QED
  BY <1>4, <1>5, <1>6

(* A listener redirects the request: its loader is dropped.                *)
LEMMA RedirectLeft ==
    ASSUME NEW r, NEW w \in {"start", "response"}, Ready(r, w), Latest(r) = StageOf(w)
    PROVE  Left(HandleBeforeRequestRedirect(r))
<1>1. r \in Request /\ Alive(r) /\ Unasked(r) /\ Linked(r, w, StageOf(w))
      /\ Latest(r) \in {"onBeforeRequest", "onHeadersReceived"}
  BY DEF Ready, Alive, Place, StageOf
<1>2. Latest(r) \notin Final
  BY <1>1 DEF Final
<1>3. CASE r.mode = "preflight"
  BY <1>1, <1>2, <1>3, OnRequestErrorOver DEF HandleBeforeRequestRedirect, Left
<1>4. CASE r.mode # "preflight"
  <2>1. PICK d \in Request : d = Detach(r)
    BY <1>1, DetachType
  <2>2. /\ SameLife(d, r) /\ SameQuestion(d, r) /\ SameFlags(d, r) /\ SameHistory(d, r)
        /\ d.client = "unbound" /\ d.header = "unbound" /\ d.loader = "idle"
        /\ d.mail = <<>> /\ d.ask = "none" /\ d.held = r.held
    BY <1>1, <2>1, DetachFields
  <2>3. d.held = "none" /\ ~d.redirecting
    BY <1>1, <2>2 DEF Linked, Holds, Fits, SameFlags
  <2>4. Alive(d) /\ Latest(d) = Latest(r)
    BY <1>1, <2>2, AliveSame DEF Bound
  <2>5. Linked(d, "none", "onBeforeRedirect")
    <3>1. Pipes(d)
      BY <1>1, <1>4, <2>2, <2>3 DEF Linked, Pipes, MailOf, SameLife, Introduced
    <3>2. Holds(d, "none")
      BY <2>3 DEF Holds
    <3>3. Fits(d, "none", "onBeforeRedirect")
      BY <2>2, <2>3 DEF Fits, Answer
    <3> QED
      BY <3>1, <3>2, <3>3 DEF Linked
  <2>6. d.mode # "preflight" /\ Unasked(d)
    BY <1>1, <1>4, <2>2 DEF SameLife, SameQuestion, Unasked
  <2>7. Latest(d) \notin Final /\ "onBeforeRedirect" \in Follows(d.mode, Latest(d))
    BY <1>1, <1>2, <2>4 DEF Follows
  <2>8. Quiet(ContinueToBeforeRedirect(d))
    BY <2>4, <2>5, <2>6, <2>7, BeforeRedirectQuiet
  <2> QED
    BY <1>4, <2>1, <2>8 DEF HandleBeforeRequestRedirect, Left
<1> QED
  BY <1>3, <1>4

(* The task that an answer has posted.                                     *)
LEMMA ContinueLeft ==
    ASSUME NEW r, NEW task \in [then : Nexts, answer : Answers], Answered(r, task),
           NEW u \in Continue(r, task)
    PROVE  Left(u)
<1>1. Ready(r, task.then) /\ Alive(r)
  BY DEF Answered, Ready
<1>2. task.then \in Nexts /\ task.answer \in Answers
  OBVIOUS
<1>3. Latest(r) \notin Final
  BY <1>2 DEF Answered, StageOf, Final
<1>4. CASE task.answer = "cancel"
  BY <1>1, <1>3, <1>4, OnRequestErrorOver DEF Continue, Left
<1>5. CASE task.answer = "redirect"
  <2>1. task.then \in {"start", "response"} /\ Latest(r) = StageOf(task.then)
    BY <1>5 DEF Answered
  <2>2. u = HandleBeforeRequestRedirect(r)
    BY <1>5 DEF Continue
  <2> QED
    BY <1>1, <2>1, <2>2, RedirectLeft
<1>6. CASE task.answer = "ok"
  <2>1. Latest(r) = StageOf(task.then)
    BY <1>6 DEF Answered
  <2>2. CASE task.then = "start"
    <3>1. u \in AfterBeforeRequest(r) /\ Latest(r) = "onBeforeRequest"
      BY <1>6, <2>1, <2>2 DEF Continue, StageOf
    <3> QED
      BY <1>1, <2>2, <3>1, AfterBeforeRequestLeft
  <2>3. CASE task.then = "send"
    <3>1. u = ContinueToSendHeaders(r) /\ Latest(r) = "onBeforeSendHeaders"
      BY <1>6, <2>1, <2>3 DEF Continue, StageOf
    <3> QED
      BY <1>1, <2>3, <3>1, ContinueToSendHeadersQuiet DEF Left
  <2>4. CASE task.then \in {"override", "response", "redirect"}
    <3>1. u \in AfterHeadersReceived(r, task.then) /\ Latest(r) = "onHeadersReceived"
      BY <1>6, <2>1, <2>4 DEF Continue, StageOf
    <3> QED
      BY <1>1, <2>4, <3>1, AfterHeadersReceivedLeft
  <2> QED
    BY <1>2, <2>2, <2>3, <2>4 DEF Nexts
<1> QED
  BY <1>2, <1>4, <1>5, <1>6 DEF Answers

-----------------------------------------------------------------------------
(* What the pipe from the loader becomes when a message is taken from it   *)
(* or put into it.                                                         *)
LEMMA MailTaken ==
    /\ Head(<<"response">>) = "response" /\ Tail(<<"response">>) = <<>>
    /\ Head(<<"redirect">>) = "redirect" /\ Tail(<<"redirect">>) = <<>>
    /\ Head(<<"complete">>) = "complete" /\ Tail(<<"complete">>) = <<>>
    /\ Head(<<"error">>) = "error"       /\ Tail(<<"error">>) = <<>>
    /\ Head(<<"response", "error">>) = "response"
    /\ Tail(<<"response", "error">>) = <<"error">>
    /\ Head(<<"redirect", "error">>) = "redirect"
    /\ Tail(<<"redirect", "error">>) = <<"error">>
    /\ Head(<<"response", "complete">>) = "response"
    /\ Tail(<<"response", "complete">>) = <<"complete">>
OBVIOUS

LEMMA MailPut ==
    ASSUME NEW m \in Message, NEW n \in Message
    PROVE  Append(<<>>, m) = <<m>> /\ Append(<<m>>, n) = <<m, n>>
<1>1. /\ <<>> \in Mail /\ <<m>> \in Mail /\ <<m, n>> \in Mail
      /\ Len(<<m>>) = 1 /\ <<m>>[1] = m
      /\ Len(<<m, n>>) = 2 /\ <<m, n>>[1] = m /\ <<m, n>>[2] = n
      /\ Len(<<>>) = 0
  BY DEF Mail
<1>2. PICK zero \in Mail, one \in Mail, two \in Mail :
        /\ zero = <<>> /\ one = <<m>> /\ two = <<m, n>>
        /\ Len(one) = 1 /\ one[1] = m
        /\ Len(two) = 2 /\ two[1] = m /\ two[2] = n
        /\ Len(zero) = 0
  BY <1>1
<1>3. PICK a \in Mail : a = Append(zero, m) /\ Len(a) = 1 /\ a[1] = m
  <2>1. /\ Append(zero, m) \in Mail
        /\ Len(Append(zero, m)) = Len(zero) + 1
        /\ Append(zero, m)[Len(zero) + 1] = m
    BY MailAppend
  <2> QED
    BY <1>2, <2>1
<1>4. PICK b \in Mail : b = Append(one, n) /\ Len(b) = 2 /\ b[1] = m /\ b[2] = n
  <2>1. /\ Append(one, n) \in Mail
        /\ Len(Append(one, n)) = Len(one) + 1
        /\ Append(one, n)[Len(one) + 1] = n
        /\ \A i \in 1..Len(one) : Append(one, n)[i] = one[i]
    BY MailAppend
  <2> QED
    BY <1>2, <2>1
<1>5. a = one
  <2>1. Len(a) = Len(one) /\ \A i \in 1..Len(a) : a[i] = one[i]
    BY <1>2, <1>3
  <2> QED
    BY <2>1, SeqEqual DEF Mail
<1>6. b = two
  <2>1. Len(b) = Len(two) /\ \A i \in 1..Len(b) : b[i] = two[i]
    BY <1>2, <1>4
  <2> QED
    BY <2>1, SeqEqual DEF Mail
<1> QED
  BY <1>2, <1>3, <1>4, <1>5, <1>6

LEMMA MailTypes ==
    /\ <<>> \in Mail
    /\ \A m \in Message : <<m>> \in Mail /\ \A n \in Message : <<m, n>> \in Mail
BY DEF Mail

LEMMA RequestTypes ==
    ASSUME NEW r \in Request
    PROVE  /\ r.mode \in {"plain", "header client", "preflight"}
           /\ r.ask \in {"none", "onBeforeSendHeaders", "onHeadersReceived"}
           /\ r.client \in Pipe /\ r.header \in Pipe /\ r.loader \in Loader
           /\ r.mail \in Mail
BY DEF Request, Modes

(* The history of a request that has not begun.                            *)
LEMMA HistoryEmpty ==
    ASSUME NEW r \in Request, r.log = <<>>, r.told = <<>>
    PROVE  History(r)
<1>1. InOrder(r)
  BY DEF InOrder
<1>2. Visible(r.log) = {}
  BY DEF Visible
<1>3. Cardinality({}) = 0
  BY FS_EmptySet
<1>4. Agrees(r)
  BY <1>2, <1>3 DEF Agrees
<1> QED
  BY <1>1, <1>4 DEF History

-----------------------------------------------------------------------------
(* The five situations.                                                    *)
LEMMA LeftWhole ==
    ASSUME IInv, Left(q'), posted' = <<>>, rounds' \in 0..MaxRounds
    PROVE  IInv'
<1>1. PICK s : s = q'
  OBVIOUS
<1>2. /\ s \in Request
      /\ s.mode = "preflight" => ~Bound(s.client) /\ s.told = <<>>
  BY <1>1 DEF Left, Quiet, Ready, Alive, Questioned, Over, Away, Bound
<1>3. posted' \in Seq([then : Nexts, answer : Answers])
  OBVIOUS
<1>4. TypeOK'
  BY <1>1, <1>2, <1>3 DEF TypeOK
<1>5. Quiet(s) \/ Questioned(s) \/ Over(s)
  BY <1>1 DEF Left
<1>6. Len(posted') <= 1
  OBVIOUS
<1>7. Whole'
  BY <1>1, <1>5, <1>6 DEF Whole
<1>8. (~Recreates)'
  BY DEF IInv
<1> QED
  BY <1>4, <1>7, <1>8 DEF IInv

LEMMA Waiting ==
    ASSUME IInv, Live
    PROVE  /\ Alive(q) /\ Latest(q) \notin Final
           /\ q.blocked # NoEntry => Questioned(q) /\ posted = <<>>
           /\ \E w \in Nexts \cup {"none"} :
                 /\ Linked(q, w, Place(q, w))
                 /\ Paused(q, w)
                 /\ w = "none" => Quiet(q) /\ posted = <<>>
                 /\ q.blocked # NoEntry => w # "none"
           /\ Len(posted) <= 1
<1>1. \/ Quiet(q) /\ posted = <<>>
      \/ Questioned(q) /\ posted = <<>>
      \/ Len(posted) = 1 /\ Answered(q, Head(posted))
  BY DEF IInv, Whole, Live, Unborn, Over
<1>2. CASE Quiet(q) /\ posted = <<>>
  <2>1. Linked(q, "none", Place(q, "none")) /\ Paused(q, "none")
    BY <1>2 DEF Quiet, Ready, Paused
  <2>2. Alive(q) /\ Unasked(q) /\ Latest(q) \notin Final
    BY <1>2 DEF Quiet, Ready
  <2> QED
    BY <1>2, <2>1, <2>2 DEF Unasked
<1>3. CASE Questioned(q) /\ posted = <<>>
  <2>1. PICK w \in Nexts : w = q.blocked.then
    BY <1>3 DEF Questioned, Entry
  <2>2. Linked(q, w, Place(q, w)) /\ Paused(q, w) /\ w # "none"
    BY <1>3, <2>1 DEF Questioned, Place, Nexts
  <2>3. Alive(q) /\ Latest(q) \notin Final
    BY <1>3, <2>1 DEF Questioned, StageOf, Final
  <2> QED
    BY <1>3, <2>2, <2>3
<1>4. CASE Len(posted) = 1 /\ Answered(q, Head(posted))
  <2>1. PICK task \in [then : Nexts, answer : Answers] : task = Head(posted)
    <3>1. posted \in Seq([then : Nexts, answer : Answers]) /\ posted # <<>>
      BY <1>4 DEF IInv, TypeOK
    <3> QED
      BY <3>1, HeadTailProperties
  <2>2. PICK w \in Nexts : w = task.then
    OBVIOUS
  <2>3. Answered(q, task)
    BY <1>4, <2>1
  <2>4. Linked(q, w, Place(q, w)) /\ Paused(q, w) /\ w # "none"
    BY <2>2, <2>3 DEF Answered, Ready, Nexts
  <2>5. Alive(q) /\ Unasked(q) /\ Latest(q) \notin Final
    BY <2>3 DEF Answered, Ready, StageOf, Final
  <2> QED
    BY <1>4, <2>4, <2>5 DEF Unasked
<1> QED
  BY <1>1, <1>2, <1>3, <1>4

(* A step that ends the request: the answers that are left have no effect. *)
LEMMA OverWhole ==
    ASSUME IInv, Over(q'), posted' \in Seq([then : Nexts, answer : Answers]),
           Len(posted') <= 1, rounds' \in 0..MaxRounds
    PROVE  IInv'
<1>1. PICK s : s = q'
  OBVIOUS
<1>2. /\ s \in Request
      /\ s.mode = "preflight" => ~Bound(s.client) /\ s.told = <<>>
  BY <1>1 DEF Over, Away, Bound
<1>3. TypeOK'
  BY <1>1, <1>2 DEF TypeOK
<1>4. Whole'
  BY <1>1 DEF Whole
<1>5. (~Recreates)'
  BY DEF IInv
<1> QED
  BY <1>3, <1>4, <1>5 DEF IInv

(* A step of the loader leaves the situation as it is, if what may come    *)
(* from the loader then is what might have come before.                    *)
LEMMA SituationKept ==
    ASSUME IInv, Live,
           NEW s \in Request, q' = s, posted' = posted, rounds' \in 0..MaxRounds,
           s.mode = q.mode, s.state = q.state, s.factory # "deleted",
           SameQuestion(s, q), SameHistory(s, q),
           s.client = q.client, s.header = q.header,
           \A w, place : Linked(q, w, place) => Linked(s, w, place)
    PROVE  IInv'
<1>1. ASSUME Alive(q) PROVE Alive(s) /\ Latest(s) = Latest(q)
  BY <1>1, HistorySame DEF Alive, SameHistory
<1>2. ASSUME NEW w, Ready(q, w) PROVE Ready(s, w)
  <2>1. Alive(q) /\ Unasked(q) /\ Linked(q, w, Place(q, w))
    BY <1>2 DEF Ready
  <2>2. Place(s, w) = Place(q, w)
    BY <1>1, <2>1 DEF Place
  <2>3. Unasked(s)
    BY <2>1 DEF Unasked, SameQuestion
  <2> QED
    BY <1>1, <2>1, <2>2, <2>3 DEF Ready
<1>3. Quiet(q) => Quiet(s)
  BY <1>1, <1>2 DEF Quiet, Ready
<1>4. ASSUME Questioned(q) PROVE Questioned(s)
  <2>1. Paused(s, q.blocked.then)
    BY <1>4 DEF Questioned, Paused
  <2> QED
    BY <1>1, <1>4, <2>1 DEF Questioned, SameQuestion
<1>5. ASSUME NEW task, Answered(q, task) PROVE Answered(s, task)
  <2>1. Paused(s, task.then)
    BY <1>5 DEF Answered, Paused
  <2> QED
    BY <1>1, <1>2, <1>5, <2>1 DEF Answered, Ready
<1>6. \/ Quiet(q) /\ posted = <<>>
      \/ Questioned(q) /\ posted = <<>>
      \/ Len(posted) = 1 /\ Answered(q, Head(posted))
  BY DEF IInv, Whole, Live, Unborn, Over
<1>7. Whole'
  BY <1>3, <1>4, <1>5, <1>6 DEF Whole
<1>8. Alive(s)
  BY <1>1, Waiting
<1>9. TypeOK'
  BY <1>8 DEF IInv, TypeOK, Alive
<1>10. (~Recreates)'
  BY DEF IInv
<1> QED
  BY <1>7, <1>9, <1>10 DEF IInv

(* Only a request that lives has a loader or a pipe.                       *)
LEMMA NotLiveAway ==
    ASSUME IInv, ~Live
    PROVE  /\ Away(q)
           /\ \/ Unborn(q) /\ posted = <<>>
              \/ Over(q)
BY DEF IInv, Whole, Live, Unborn, Over, Quiet, Questioned, Answered, Ready, Alive

-----------------------------------------------------------------------------
(* The loader of the network service.                                      *)
Moved(s, m, l) ==
    /\ s.mode = q.mode /\ s.client = q.client /\ s.header = q.header
    /\ s.held = q.held /\ s.ask = q.ask /\ s.redirecting = q.redirecting
    /\ s.mail = m /\ s.loader = l

LEMMA LoaderStep ==
    ASSUME IInv, Live, NEW m \in Mail, NEW l \in Loader,
           q' = [q EXCEPT !.mail = m, !.loader = l], posted' = posted,
           rounds' \in 0..MaxRounds,
           \A s \in Request : \A w, place :
              Moved(s, m, l) /\ Linked(q, w, place) => Linked(s, w, place)
    PROVE  IInv'
<1>1. PICK r \in Request : r = q /\ r.factory # "deleted"
  BY Waiting DEF Alive
<1>2. PICK s \in Request : s = [r EXCEPT !.mail = m, !.loader = l]
  BY DEF Request
<1>3. /\ SameLife(s, r) /\ SameQuestion(s, r) /\ SameFlags(s, r) /\ SameHistory(s, r)
      /\ s.mail = m /\ s.loader = l
      /\ s.client = r.client /\ s.header = r.header /\ s.held = r.held /\ s.ask = r.ask
  BY <1>2 DEF Request, SameLife, SameQuestion, SameFlags, SameHistory
<1>4. Moved(s, m, l)
  BY <1>1, <1>3 DEF SameLife, SameFlags, Moved
<1>5. \A w, place : Linked(q, w, place) => Linked(s, w, place)
  BY <1>4, Zenon
<1>6. /\ s.state = q.state /\ s.factory # "deleted" /\ q' = s
      /\ SameQuestion(s, q) /\ SameHistory(s, q)
  BY <1>1, <1>2, <1>3 DEF SameLife
<1> QED
  BY <1>4, <1>5, <1>6, SituationKept DEF Moved

LEMMA LoaderAsksWhole ==
    ASSUME IInv, LoaderAsks
    PROVE  IInv'
<1>1. Live
  BY NotLiveAway DEF LoaderAsks, Away
<1>2. PICK r \in Request : r = q /\ r.factory # "deleted"
  BY <1>1, Waiting DEF Alive
<1>7. r.mode \in {"plain", "header client", "preflight"}
  BY RequestTypes
<1>3. rounds' \in 0..MaxRounds /\ posted' = posted
  BY DEF LoaderAsks, IInv, TypeOK
<1>4. ASSUME NEW a \in {"onBeforeSendHeaders", "onHeadersReceived"}, NEW l \in Loader,
             r.ask = "none",
             \/ r.loader = "connecting" /\ a = "onBeforeSendHeaders" /\ l = "asking"
             \/ r.loader = "sending" /\ UsesHeaderClient(r)
                  /\ a = "onHeadersReceived" /\ l = "headers",
             q' = [q EXCEPT !.ask = a, !.loader = l]
      PROVE  IInv'
  <2>1. PICK s \in Request : s = [r EXCEPT !.ask = a, !.loader = l]
    BY DEF Request
  <2>2. /\ SameLife(s, r) /\ SameQuestion(s, r) /\ SameFlags(s, r) /\ SameHistory(s, r)
        /\ s.loader = l /\ s.ask = a
        /\ s.client = r.client /\ s.header = r.header /\ s.held = r.held /\ s.mail = r.mail
    BY <2>1 DEF Request, SameLife, SameQuestion, SameFlags, SameHistory
  <2>3. ASSUME NEW w, NEW place, Linked(r, w, place)
        PROVE  Linked(s, w, place)
    <3>1. Pipes(s)
      BY <1>4, <1>7, <2>2, <2>3
         DEF Linked, Pipes, Holds, SameLife, UsesHeaderClient, MailOf, NoMail, Introduced, Bound
    <3>2. Holds(s, w)
      BY <1>4, <2>2, <2>3 DEF Linked, Holds, SameLife
    <3>3. Fits(s, w, place)
      BY <1>4, <2>2, <2>3 DEF Linked, Fits, SameLife, SameFlags, UsesHeaderClient
    <3> QED
      BY <3>1, <3>2, <3>3 DEF Linked
  <2>4. /\ s.mode = q.mode /\ s.state = q.state /\ s.factory # "deleted" /\ q' = s
        /\ SameQuestion(s, q) /\ SameHistory(s, q)
        /\ s.client = q.client /\ s.header = q.header
    BY <1>2, <1>4, <2>1, <2>2 DEF SameLife
  <2>5. \A w, place : Linked(q, w, place) => Linked(s, w, place)
    BY <1>2, <2>3
  <2> QED
    BY <1>1, <1>3, <2>4, <2>5, SituationKept
<1>5. CASE q.loader = "connecting" /\ q' = [q EXCEPT !.ask = "onBeforeSendHeaders",
                                                     !.loader = "asking"]
  BY <1>2, <1>4, <1>5 DEF LoaderAsks, Loader
<1>6. CASE /\ q.loader = "sending" /\ UsesHeaderClient(q)
           /\ q' = [q EXCEPT !.ask = "onHeadersReceived", !.loader = "headers"]
  BY <1>2, <1>4, <1>6 DEF LoaderAsks, Loader
<1> QED
  BY <1>5, <1>6 DEF LoaderAsks

(* The steps of a loader that answers.                                     *)
LEMMA LoaderAnswersWhole ==
    ASSUME IInv, LoaderResponds \/ LoaderRedirects
    PROVE  IInv'
<1>1. /\ q.mode # "preflight"
      /\ q.loader \in {"created", "connecting", "received", "sending"}
      /\ q.loader = "sending" <=> q.mode = "plain"
      /\ posted' = posted
      /\ rounds' \in 0..MaxRounds
  BY RoundsAssumption
     DEF LoaderResponds, LoaderRedirects, Answering, UsesHeaderClient, IInv, TypeOK
<1>2. Live
  BY <1>1, NotLiveAway DEF Away
<1>3. PICK w0 \in Nexts \cup {"none"} : Linked(q, w0, Place(q, w0))
  BY <1>2, Waiting
<1>4. q.mail = <<>>
  BY <1>1, <1>3 DEF Linked, Pipes, MailOf
<1>7. q.ask = "none"
  <2>1. q.ask \in {"none", "onBeforeSendHeaders", "onHeadersReceived"}
    BY <1>2, Waiting, RequestTypes DEF Alive
  <2> QED
    BY <1>1, <1>3, <2>1 DEF Linked, Pipes
<1>5. CASE LoaderResponds
  <2>1. PICK m \in Mail : /\ m = <<"response">> /\ m \in MailOf("responding")
                          /\ m # <<>> /\ m # <<"complete">>
    BY MailTypes DEF Message, MailOf
  <2>2. q' = [q EXCEPT !.mail = m, !.loader = "responding"]
    BY <1>4, <1>5, <2>1, MailPut DEF LoaderResponds, Message
  <2>3. ASSUME NEW s \in Request, NEW w, NEW place,
               Moved(s, m, "responding"), Linked(q, w, place)
        PROVE  Linked(s, w, place)
    <3>1. Pipes(s)
      BY <1>1, <1>7, <2>1, <2>3 DEF Moved, Linked, Pipes, Introduced
    <3>2. Holds(s, w)
      BY <1>1, <2>3 DEF Moved, Linked, Holds
    <3>3. IF q.mode = "plain" THEN place = "onSendHeaders"
          ELSE \/ place = "onBeforeRequest"
               \/ place = "onHeadersReceived" /\ w = "none"
      BY <1>1, <2>3 DEF Linked, Fits
    <3>4. Fits(s, w, place)
      BY <1>1, <1>7, <2>1, <2>3, <3>3 DEF Moved, Linked, Fits
    <3> QED
      BY <3>1, <3>2, <3>4 DEF Linked
  <2> QED
    BY <1>1, <1>2, <2>2, <2>3, LoaderStep DEF Loader
<1>6. CASE LoaderRedirects
  <2>1. PICK m \in Mail : /\ m = <<"redirect">> /\ m \in MailOf("redirected")
                          /\ m # <<>> /\ m # <<"complete">>
    BY MailTypes DEF Message, MailOf
  <2>2. q' = [q EXCEPT !.mail = m, !.loader = "redirected"] /\ q.loader # "created"
    BY <1>4, <1>6, <2>1, MailPut DEF LoaderRedirects, Message
  <2>3. ASSUME NEW s \in Request, NEW w, NEW place,
               Moved(s, m, "redirected"), Linked(q, w, place)
        PROVE  Linked(s, w, place)
    <3>1. Pipes(s)
      BY <1>1, <1>7, <2>1, <2>2, <2>3 DEF Moved, Linked, Pipes, Introduced
    <3>2. Holds(s, w)
      BY <1>1, <2>3 DEF Moved, Linked, Holds
    <3>3. IF q.mode = "plain" THEN place = "onSendHeaders"
          ELSE \/ place = "onBeforeRequest"
               \/ place = "onHeadersReceived" /\ w = "none"
      BY <1>1, <2>3 DEF Linked, Fits
    <3>4. Fits(s, w, place)
      BY <1>1, <1>7, <2>1, <2>2, <2>3, <3>3 DEF Moved, Linked, Fits
    <3> QED
      BY <3>1, <3>2, <3>4 DEF Linked
  <2> QED
    BY <1>1, <1>2, <2>2, <2>3, LoaderStep DEF Loader
<1> QED
  BY <1>5, <1>6

LEMMA LoaderRetriesWhole ==
    ASSUME IInv, LoaderRetries
    PROVE  IInv'
<1>1. /\ q.loader = "received" /\ posted' = posted /\ rounds' \in 0..MaxRounds
      /\ q' = [q EXCEPT !.loader = "connecting"]
  BY RoundsAssumption DEF LoaderRetries, IInv, TypeOK
<1>2. Live
  BY <1>1, NotLiveAway DEF Away
<1>3. PICK m \in Mail : m = q.mail
  BY <1>2, Waiting DEF Alive, Request
<1>4. q' = [q EXCEPT !.mail = m, !.loader = "connecting"]
  BY <1>1, <1>2, <1>3, Waiting DEF Alive, Request
<1>5. ASSUME NEW s \in Request, NEW w, NEW place,
             Moved(s, m, "connecting"), Linked(q, w, place)
      PROVE  Linked(s, w, place)
  <2>1. Pipes(s)
    BY <1>1, <1>3, <1>5 DEF Moved, Linked, Pipes, MailOf, Introduced
  <2>2. Holds(s, w)
    BY <1>1, <1>5 DEF Moved, Linked, Holds
  <2>3. Fits(s, w, place)
    BY <1>1, <1>3, <1>5 DEF Moved, Linked, Fits, Pipes, Answer
  <2> QED
    BY <2>1, <2>2, <2>3 DEF Linked
<1> QED
  BY <1>1, <1>2, <1>4, <1>5, LoaderStep DEF Loader

LEMMA LoaderCompletesWhole ==
    ASSUME IInv, LoaderCompletes
    PROVE  IInv'
<1>1. /\ q.loader = "responding" /\ posted' = posted /\ rounds' \in 0..MaxRounds
      /\ q' = [q EXCEPT !.mail = Append(q.mail, "complete"), !.loader = "done"]
  BY DEF LoaderCompletes, IInv, TypeOK
<1>2. Live
  BY <1>1, NotLiveAway DEF Away
<1>3. PICK w0 \in Nexts \cup {"none"} : Linked(q, w0, Place(q, w0))
  BY <1>2, Waiting
<1>4. q.mail \in {<<>>, <<"response">>} /\ q.mode # "preflight"
  BY <1>1, <1>3 DEF Linked, Pipes, MailOf
<1>5. q.ask = "none"
  <2>1. q.ask \in {"none", "onBeforeSendHeaders", "onHeadersReceived"}
    BY <1>2, Waiting, RequestTypes DEF Alive
  <2> QED
    BY <1>1, <1>3, <2>1 DEF Linked, Pipes
<1>6. PICK m \in Mail : m = IF q.mail = <<>> THEN <<"complete">> ELSE <<"response", "complete">>
  BY MailTypes DEF Message
<1>7. Append(q.mail, "complete") = m
  BY <1>4, <1>6, MailPut DEF Message
<1>8. m \in MailOf("done") /\ m # <<>>
      /\ (m = <<"complete">> => q.mail = <<>>)
      /\ (m \in Answer => q.mail \in Answer)
  BY <1>4, <1>6 DEF MailOf, Answer
<1>9. ASSUME NEW s \in Request, NEW w, NEW place, Moved(s, m, "done"), Linked(q, w, place)
      PROVE  Linked(s, w, place)
  <2>1. Pipes(s)
    BY <1>1, <1>4, <1>5, <1>8, <1>9 DEF Moved, Linked, Pipes, Introduced
  <2>2. Holds(s, w)
    BY <1>1, <1>9 DEF Moved, Linked, Holds
  <2>3. Fits(s, w, place)
    BY <1>1, <1>5, <1>8, <1>9 DEF Moved, Linked, Fits
  <2> QED
    BY <2>1, <2>2, <2>3 DEF Linked
<1> QED
  BY <1>1, <1>2, <1>7, <1>9, LoaderStep DEF Loader

LEMMA LoaderFailsWhole ==
    ASSUME IInv, LoaderFails
    PROVE  IInv'
<1>1. /\ q.loader \notin {"idle", "done", "dead"}
      /\ posted' = posted /\ rounds' \in 0..MaxRounds
      /\ q' = [q EXCEPT !.mail = IF q.mode = "preflight" THEN q.mail
                                 ELSE Append(q.mail, "error"),
                        !.loader = "done"]
  BY DEF LoaderFails, IInv, TypeOK
<1>2. Live
  BY <1>1, NotLiveAway DEF Away
<1>3. PICK w0 \in Nexts \cup {"none"} : Linked(q, w0, Place(q, w0))
  BY <1>2, Waiting
<1>4. /\ q.mail \in {<<>>, <<"response">>, <<"redirect">>}
      /\ q.mode = "preflight" => q.mail = <<>>
      /\ q.ask # "none" => q.mail = <<>>
  <2>1. Pipes(q)
    BY <1>3 DEF Linked
  <2>2. q.mail \in {<<>>, <<"response">>, <<"redirect">>}
    BY <1>1, <2>1 DEF Pipes, MailOf
  <2>3. <<"error">> # <<"response">> /\ <<"error">> # <<"redirect">>
    BY MailTaken
  <2>4. q.ask # "none" => q.mail \in {<<>>, <<"error">>}
    BY <2>1 DEF Pipes, NoMail
  <2>5. q.mode = "preflight" => q.mail = <<>>
    BY <2>1 DEF Pipes
  <2> QED
    BY <2>2, <2>3, <2>4, <2>5
<1>5. PICK m \in Mail :
        m = IF q.mode = "preflight" THEN <<>>
            ELSE IF q.mail = <<>> THEN <<"error">>
            ELSE IF q.mail = <<"response">> THEN <<"response", "error">>
            ELSE <<"redirect", "error">>
  BY MailTypes DEF Message
<1>6. (IF q.mode = "preflight" THEN q.mail ELSE Append(q.mail, "error")) = m
  BY <1>4, <1>5, MailPut DEF Message
<1>7. /\ m \in MailOf("done") /\ m # <<"complete">>
      /\ m \in Answer => q.mail \in Answer
      /\ q.ask # "none" => m \in NoMail
      /\ q.mode = "preflight" => m = <<>>
  BY <1>4, <1>5 DEF MailOf, Answer, NoMail
<1>8. ASSUME NEW s \in Request, NEW w, NEW place, Moved(s, m, "done"), Linked(q, w, place)
      PROVE  Linked(s, w, place)
  <2>1. Pipes(s)
    BY <1>1, <1>7, <1>8 DEF Moved, Linked, Pipes, Introduced
  <2>2. Holds(s, w)
    BY <1>1, <1>8 DEF Moved, Linked, Holds
  <2>3. Fits(s, w, place)
    BY <1>1, <1>7, <1>8 DEF Moved, Linked, Fits
  <2> QED
    BY <2>1, <2>2, <2>3 DEF Linked
<1>9. q' = [q EXCEPT !.mail = m, !.loader = "done"]
  BY <1>1, <1>6
<1> QED
  BY <1>1, <1>2, <1>8, <1>9, LoaderStep DEF Loader

(* The factory loses a pipe: of its request it knows that it lives.        *)
LEMMA FactoryLost ==
    ASSUME IInv, q.state \in {"live", "gone"}, q.factory = "bound",
           NEW l \in Loader, l = q.loader \/ (l = "dead" /\ q.loader \notin {"idle", "done"}),
           q' = MaybeDeleteThis([q EXCEPT !.factory = "unbound", !.loader = l]),
           posted' = posted, rounds' = rounds
    PROVE  IInv'
<1>1. PICK r \in Request : r = q
  BY DEF IInv, TypeOK
<1>2. PICK f \in Request : f = [r EXCEPT !.factory = "unbound", !.loader = l]
  BY DEF Request
<1>3. PICK s \in Request : s = MaybeDeleteThis(f)
  BY MaybeDeleteThisType
<1>4. q' = s
  BY <1>1, <1>2, <1>3
<1>5. /\ f.mode = r.mode /\ f.state = r.state /\ f.factory = "unbound" /\ f.loader = l
      /\ SameQuestion(f, r) /\ SameFlags(f, r) /\ SameHistory(f, r)
      /\ f.client = r.client /\ f.header = r.header /\ f.held = r.held
      /\ f.mail = r.mail /\ f.ask = r.ask
  BY <1>2 DEF Request, SameQuestion, SameFlags, SameHistory
<1>6. /\ SameLinks(s, f) /\ SameQuestion(s, f) /\ SameFlags(s, f) /\ SameHistory(s, f)
      /\ s.mode = f.mode /\ s.state = f.state
      /\ s.factory = IF f.state # "live" THEN "deleted" ELSE "unbound"
  BY <1>3, <1>5 DEF MaybeDeleteThis, Request, SameLinks, SameQuestion, SameFlags, SameHistory
<1>7. /\ s.mode = q.mode /\ s.state = q.state
      /\ SameQuestion(s, q) /\ SameHistory(s, q) /\ s.redirecting = q.redirecting
      /\ s.client = q.client /\ s.header = q.header /\ s.held = q.held
      /\ s.mail = q.mail /\ s.ask = q.ask /\ s.loader = l
  BY <1>1, <1>5, <1>6 DEF SameLinks, SameQuestion, SameFlags, SameHistory
<1>8. CASE Live
  <2>1. s.factory # "deleted"
    BY <1>1, <1>5, <1>6, <1>8 DEF Live
  <2>2. ASSUME NEW w, NEW place, Linked(q, w, place)
        PROVE  Linked(s, w, place)
    <3>1. Pipes(s)
      <4>1. q.mail \in MailOf(l)
        BY <2>2 DEF Linked, Pipes, MailOf
      <4> QED
        BY <1>7, <2>2, <4>1 DEF Linked, Pipes, Introduced
    <3>2. Holds(s, w)
      BY <1>7, <2>2 DEF Linked, Holds
    <3>3. Fits(s, w, place)
      BY <1>7, <2>2 DEF Linked, Fits
    <3> QED
      BY <3>1, <3>2, <3>3 DEF Linked
  <2>3. rounds' \in 0..MaxRounds
    BY DEF IInv, TypeOK
  <2> QED
    BY <1>4, <1>7, <1>8, <2>1, <2>2, <2>3, SituationKept
<1>9. CASE ~Live
  <2>1. Over(q) /\ Away(q)
    BY <1>9, NotLiveAway DEF Unborn
  <2>2. s.factory = "deleted"
    BY <1>1, <1>5, <1>6, <1>9 DEF Live
  <2>3. l = "idle"
    BY <2>1 DEF Away
  <2>4. Away(s)
    BY <1>7, <2>1, <2>3 DEF Away, SameQuestion
  <2>5. History(s)
    BY <1>7, <2>1, HistorySame DEF Over
  <2>6. Over(s)
    BY <1>7, <2>1, <2>2, <2>4, <2>5 DEF Over, SameHistory
  <2>7. /\ Over(q') /\ rounds' \in 0..MaxRounds /\ Len(posted') <= 1
        /\ posted' \in Seq([then : Nexts, answer : Answers])
    <3>1. Len(posted) <= 1
      BY <1>9 DEF IInv, Whole, Live, Unborn, Quiet, Questioned, Answered, Ready, Alive
    <3> QED
      BY <1>4, <2>6, <3>1 DEF IInv, TypeOK
  <2> QED
    BY <2>7, OverWhole
<1> QED
  BY <1>8, <1>9

LEMMA NetworkServiceDiesWhole ==
    ASSUME IInv, NetworkServiceDies
    PROVE  IInv'
<1>1. PICK r \in Request : r = q
  BY DEF IInv, TypeOK
<1>2. PICK l \in Loader : l = IF r.loader \in {"idle", "done"} THEN r.loader ELSE "dead"
  BY RequestTypes DEF Loader
<1>3. [r EXCEPT !.factory = "unbound",
                !.loader = IF @ \in {"idle", "done"} THEN @ ELSE "dead"]
        = [r EXCEPT !.factory = "unbound", !.loader = l]
  BY <1>2 DEF Request
<1>4. q' = MaybeDeleteThis([q EXCEPT !.factory = "unbound", !.loader = l])
  BY <1>1, <1>3 DEF NetworkServiceDies
<1>5. l = q.loader \/ (l = "dead" /\ q.loader \notin {"idle", "done"})
  BY <1>1, <1>2
<1>6. /\ q.state \in {"live", "gone"} /\ q.factory = "bound"
      /\ posted' = posted /\ rounds' = rounds
  BY DEF NetworkServiceDies
<1> QED
  BY <1>4, <1>5, <1>6, FactoryLost

LEMMA OnProxyBindingErrorWhole ==
    ASSUME IInv, OnProxyBindingError
    PROVE  IInv'
<1>1. PICK r \in Request : r = q
  BY DEF IInv, TypeOK
<1>2. PICK l \in Loader : l = r.loader
  BY RequestTypes
<1>3. [r EXCEPT !.factory = "unbound"] = [r EXCEPT !.factory = "unbound", !.loader = l]
  BY <1>2 DEF Request
<1>4. q' = MaybeDeleteThis([q EXCEPT !.factory = "unbound", !.loader = l])
  BY <1>1, <1>3 DEF OnProxyBindingError
<1>5. q.state \in {"live", "gone"} /\ l = q.loader
  BY <1>1, <1>2 DEF OnProxyBindingError, Request
<1>6. q.factory = "bound" /\ posted' = posted /\ rounds' = rounds
  BY DEF OnProxyBindingError
<1> QED
  BY <1>4, <1>5, <1>6, FactoryLost

-----------------------------------------------------------------------------
(* JavaScript and its tasks.                                               *)
LEMMA NoEntryIsNone == NoEntry.stage = "none" /\ NoEntry \notin Entry
BY DEF NoEntry, Entry, Stages

LEMMA RunPostedWhole ==
    ASSUME IInv, RunPosted
    PROVE  IInv'
<1>1. /\ posted \in Seq([then : Nexts, answer : Answers]) /\ posted # <<>>
      /\ posted' = Tail(posted) /\ rounds' = rounds /\ rounds \in 0..MaxRounds
  BY DEF RunPosted, IInv, TypeOK
<1>2. /\ Head(posted) \in [then : Nexts, answer : Answers]
      /\ posted' \in Seq([then : Nexts, answer : Answers])
      /\ Len(posted') = Len(posted) - 1
      /\ Len(posted) \in Nat /\ Len(posted') \in Nat
  BY <1>1, HeadTailProperties, LenProperties
<1>3. CASE Live
  <2>1. Len(posted) = 1 /\ Answered(q, Head(posted))
    BY <1>1, <1>3 DEF IInv, Whole, Live, Unborn, Over
  <2>2. PICK u : u = q' /\ u \in Continue(q, Head(posted))
    BY <1>3 DEF RunPosted
  <2>3. Left(u)
    <3>1. PICK task \in [then : Nexts, answer : Answers] : task = Head(posted)
      BY <1>2
    <3>2. PICK r : r = q
      OBVIOUS
    <3>3. Answered(r, task) /\ u \in Continue(r, task)
      BY <2>1, <2>2, <3>1, <3>2
    <3> QED
      BY <3>3, ContinueLeft
  <2>4. posted' = <<>>
    BY <1>2, <2>1, EmptySeq
  <2> QED
    BY <1>1, <2>2, <2>3, <2>4, LeftWhole
<1>4. CASE ~Live
  <2>1. Over(q) /\ q' = q
    BY <1>1, <1>4, NotLiveAway DEF RunPosted
  <2>2. Len(posted) <= 1
    BY <1>1, <1>4 DEF IInv, Whole, Live, Unborn, Quiet, Questioned, Answered, Ready, Alive
  <2>3. Over(q') /\ Len(posted') <= 1
    BY <1>2, <2>1, <2>2
  <2> QED
    BY <1>1, <1>2, <2>3, OverWhole
<1> QED
  BY <1>3, <1>4

(* A listener answers the question.                                        *)
LEMMA AnswerWhole ==
    ASSUME IInv, Questioned(q), posted = <<>>,
           NEW c \in q.callbacks, NEW answer \in Answers, ListenerResult(c, answer)
    PROVE  IInv'
<1>1. PICK r \in Request : r = q /\ Questioned(r)
  BY DEF Questioned, Alive
<1>2. PICK e \in Entry : e = r.blocked
  BY <1>1 DEF Questioned
<1>3. /\ e.then \in Nexts /\ e.stage \in Stages /\ e.stage = StageOf(e.then)
      /\ c = [stage |-> e.stage, at |-> e.at] /\ c.stage = e.stage
      /\ e # NoEntry /\ r.callbacks = {c}
  BY <1>1, <1>2, NoEntryIsNone DEF Questioned, Entry
<1>4. PICK task \in [then : Nexts, answer : Answers] :
        /\ task = [then |-> e.then, answer |-> answer]
        /\ task.then = e.then /\ task.answer = answer
  <2>1. PICK n \in Nexts : n = e.then
    BY <1>3
  <2>2. [then |-> n, answer |-> answer] \in [then : Nexts, answer : Answers]
    OBVIOUS
  <2> QED
    BY <2>1, <2>2
<1>5. PICK u \in Request : u = [r EXCEPT !.callbacks = @ \ {c}]
  BY DEF Request
<1>6. PICK f \in Request : f = Forget(u)
  BY ForgetType
<1>7. PICK s \in Request : s = IF answer = "cancel" THEN Emit(f, "cancel") ELSE f
  BY EmitFrame DEF Events
<1>8. q' = s
  BY <1>1, <1>2, <1>3, <1>5, <1>6, <1>7 DEF ListenerResult, Extract
<1>9. /\ SameLinks(f, r) /\ SameLife(f, r) /\ SameFlags(f, r) /\ SameHistory(f, r)
      /\ f.blocked = NoEntry /\ f.callbacks = {}
  <2>1. /\ SameLinks(u, r) /\ SameLife(u, r) /\ SameFlags(u, r) /\ SameHistory(u, r)
        /\ u.callbacks = {}
    BY <1>3, <1>5 DEF Request, SameLinks, SameLife, SameFlags, SameHistory
  <2>2. /\ SameLinks(f, u) /\ SameLife(f, u) /\ SameFlags(f, u) /\ SameHistory(f, u)
        /\ f.blocked = NoEntry /\ f.callbacks = u.callbacks
    BY <1>6 DEF Forget, Request, SameLinks, SameLife, SameFlags, SameHistory
  <2> QED
    BY <2>1, <2>2 DEF SameLinks, SameLife, SameFlags, SameHistory
<1>10. Alive(f) /\ Latest(f) = StageOf(e.then)
  BY <1>1, <1>2, <1>3, <1>9, AliveSame DEF Questioned, Alive, SameLife, SameLinks
<1>11. /\ SameLinks(s, r) /\ SameLife(s, r) /\ SameFlags(s, r)
       /\ s.blocked = NoEntry /\ s.callbacks = {}
       /\ Alive(s)
       /\ Latest(s) = IF answer = "cancel" THEN "cancel" ELSE StageOf(e.then)
  <2>1. CASE answer = "cancel"
    <3>1. /\ SameLinks(s, f) /\ SameLife(s, f) /\ SameFlags(s, f) /\ SameQuestion(s, f)
          /\ Latest(s) = "cancel"
      BY <1>7, <2>1, EmitFields, EmitFrame DEF Events
    <3>2. /\ "cancel" \in Events /\ "cancel" \notin DOMAIN Seen
          /\ Latest(f) \notin Final /\ "cancel" \in Follows(f.mode, Latest(f))
      BY <1>3, <1>10 DEF Events, Seen, Final, Follows, Stages
    <3>3. Alive(s)
      BY <1>7, <1>10, <2>1, <3>2, AliveEmit
    <3> QED
      BY <1>9, <2>1, <3>1, <3>3
         DEF SameLinks, SameLife, SameFlags, SameQuestion
  <2>2. CASE answer # "cancel"
    BY <1>7, <1>9, <1>10, <2>2
  <2> QED
    BY <2>1, <2>2
<1>12. Linked(s, e.then, StageOf(e.then)) /\ Paused(s, e.then)
  <2>1. Linked(r, e.then, StageOf(e.then)) /\ Paused(r, e.then)
    BY <1>1, <1>2, <1>3 DEF Questioned
  <2>2. Pipes(s)
    BY <1>11, <2>1 DEF Linked, Pipes, SameLinks, SameLife
  <2>3. Holds(s, e.then)
    BY <1>11, <2>1 DEF Linked, Holds, SameLinks, SameLife
  <2>4. Fits(s, e.then, StageOf(e.then))
    BY <1>11, <2>1 DEF Linked, Fits, SameLinks, SameLife, SameFlags
  <2>5. Paused(s, e.then)
    BY <1>11, <2>1 DEF Paused, SameLinks
  <2> QED
    BY <2>2, <2>3, <2>4, <2>5 DEF Linked
<1>13. Ready(s, task.then)
  BY <1>3, <1>4, <1>11, <1>12 DEF Ready, Unasked, Place, Nexts
<1>14. task.answer = "redirect" => task.then \in {"start", "response"}
  BY <1>1, <1>2, <1>3, <1>4 DEF ListenerResult, StageOf
<1>15. Answered(s, task)
  BY <1>4, <1>11, <1>12, <1>13, <1>14 DEF Answered
<1>16. posted' = Append(<<>>, task)
  BY <1>1, <1>2, <1>3, <1>4 DEF ListenerResult
<1>17. Len(posted') = 1 /\ Head(posted') = task
       /\ posted' \in Seq([then : Nexts, answer : Answers])
  <2>1. <<>> \in Seq([then : Nexts, answer : Answers]) /\ Len(<<>>) = 0
    OBVIOUS
  <2> QED
    BY <1>16, <2>1, AppendProperties
<1>18. rounds' \in 0..MaxRounds
  BY RoundsAssumption DEF ListenerResult, IInv, TypeOK
<1>19. TypeOK'
  BY <1>8, <1>11, <1>17, <1>18 DEF TypeOK, Alive
<1>20. Whole'
  BY <1>8, <1>15, <1>17 DEF Whole
<1>21. (~Recreates)'
  BY DEF IInv
<1> QED
  BY <1>19, <1>20, <1>21 DEF IInv

(* A listener answers when its request is gone: nothing is posted.         *)
LEMMA LateAnswerWhole ==
    ASSUME IInv, Over(q),
           NEW c \in q.callbacks, NEW answer \in Answers, ListenerResult(c, answer)
    PROVE  IInv'
<1>1. PICK r \in Request : r = q /\ Over(r)
  BY DEF Over
<1>2. c.stage \in Stages /\ r.blocked = NoEntry
  BY <1>1 DEF Request, Callback, Over, Away
<1>3. PICK s \in Request : s = [r EXCEPT !.callbacks = @ \ {c}]
  BY DEF Request
<1>4. q' = s
  BY <1>1, <1>2, <1>3 DEF ListenerResult, Extract
<1>5. posted' = posted
  BY <1>1, <1>2, NoEntryIsNone DEF ListenerResult, Stages
<1>6. /\ SameLinks(s, r) /\ SameLife(s, r) /\ SameFlags(s, r) /\ SameHistory(s, r)
      /\ s.blocked = r.blocked
  BY <1>3 DEF Request, SameLinks, SameLife, SameFlags, SameHistory
<1>7. History(s)
  BY <1>1, <1>6, HistorySame DEF Over, SameLife
<1>8. Away(s)
  BY <1>1, <1>6 DEF Over, Away, SameLinks, SameFlags
<1>9. Over(s)
  BY <1>1, <1>6, <1>7, <1>8 DEF Over, SameLife, SameHistory
<1>10. rounds' \in 0..MaxRounds
  BY RoundsAssumption DEF ListenerResult, IInv, TypeOK
<1>11. Len(posted') <= 1 /\ posted' \in Seq([then : Nexts, answer : Answers])
  <2>1. Len(posted) <= 1
    BY <1>1 DEF IInv, Whole, Over, Unborn, Quiet, Questioned, Answered, Ready, Alive
  <2> QED
    BY <1>5, <2>1 DEF IInv, TypeOK
<1> QED
  BY <1>4, <1>9, <1>10, <1>11, OverWhole

LEMMA ListenerResultWhole ==
    ASSUME IInv, NEW c \in q.callbacks, NEW answer \in Answers, ListenerResult(c, answer)
    PROVE  IInv'
<1>1. (Questioned(q) /\ posted = <<>>) \/ Over(q)
  BY DEF IInv, Whole, Unborn, Quiet, Answered, Ready, Unasked
<1> QED
  BY <1>1, AnswerWhole, LateAnswerWhole

(* A callback is used up: nothing else changes, and its question stays.    *)
LEMMA MistakeWhole ==
    ASSUME IInv, NEW c \in q.callbacks, CallWithoutArgument(c)
    PROVE  IInv' /\ q'.log = q.log
<1>1. (Questioned(q) /\ posted = <<>>) \/ (Over(q) /\ Len(posted) <= 1)
  BY DEF IInv, Whole, Unborn, Quiet, Answered, Ready, Unasked
<1>2. PICK r \in Request : r = q
  BY DEF IInv, TypeOK
<1>3. PICK s \in Request : s = [r EXCEPT !.spent = @ \cup {c}]
  BY <1>2 DEF Request
<1>4. q' = s /\ posted' = posted /\ rounds' = rounds
  BY <1>2, <1>3 DEF CallWithoutArgument
<1>5. /\ SameLinks(s, r) /\ SameLife(s, r) /\ SameQuestion(s, r) /\ SameFlags(s, r)
      /\ SameHistory(s, r)
  BY <1>3 DEF Request, SameLinks, SameLife, SameQuestion, SameFlags, SameHistory
<1>6. CASE Questioned(q) /\ posted = <<>>
  <2>1. Alive(s) /\ Latest(s) = Latest(r)
    BY <1>2, <1>5, <1>6, AliveSame DEF Questioned, Alive, SameLinks, SameLife
  <2>2. Linked(s, s.blocked.then, s.blocked.stage) /\ Paused(s, s.blocked.then)
    <3>1. Linked(r, r.blocked.then, r.blocked.stage) /\ Paused(r, r.blocked.then)
      BY <1>2, <1>6 DEF Questioned
    <3>2. Pipes(s)
      BY <1>5, <3>1 DEF Linked, Pipes, SameLinks, SameLife
    <3>3. Holds(s, r.blocked.then)
      BY <1>5, <3>1 DEF Linked, Holds, SameLinks, SameLife
    <3>4. Fits(s, r.blocked.then, r.blocked.stage)
      BY <1>5, <3>1 DEF Linked, Fits, SameLinks, SameLife, SameFlags
    <3> QED
      BY <1>5, <3>1, <3>2, <3>3, <3>4 DEF Linked, Paused, SameLinks, SameQuestion
  <2>3. Questioned(s)
    BY <1>2, <1>5, <1>6, <2>1, <2>2 DEF Questioned, SameQuestion
  <2> QED
    BY <1>2, <1>4, <1>5, <1>6, <2>3, LeftWhole DEF Left, IInv, TypeOK, SameHistory
<1>7. CASE Over(q) /\ Len(posted) <= 1
  <2>1. History(s)
    BY <1>2, <1>5, <1>7, HistorySame DEF Over, SameLife
  <2>2. Away(s)
    BY <1>2, <1>5, <1>7 DEF Over, Away, SameLinks, SameFlags, SameQuestion
  <2>3. Over(s)
    BY <1>2, <1>5, <1>7, <2>1, <2>2 DEF Over, SameLife, SameHistory
  <2> QED
    BY <1>2, <1>4, <1>5, <1>7, <2>3, OverWhole DEF IInv, TypeOK, SameHistory
<1> QED
  BY <1>1, <1>6, <1>7

-----------------------------------------------------------------------------
(* The client.  A request comes to life.                                   *)
LEMMA BornLeft ==
    ASSUME NEW r \in Request, Unborn(r),
           NEW h \in {"unbound", "open"}, NEW l \in {"idle", "connecting"},
           IF r.mode = "preflight" THEN h = "open" /\ l = "connecting"
           ELSE h = "unbound" /\ l = "idle",
           NEW b, b = [r EXCEPT !.state = "live", !.header = h, !.loader = l],
           NEW u \in RestartInternal(b)
    PROVE  Left(u)
<1>1. b \in Request
  <2>1. h \in Pipe /\ l \in Loader
    BY DEF Pipe, Loader
  <2>2. PICK t \in Request : t = [r EXCEPT !.state = "live"]
    BY DEF Request
  <2>3. [t EXCEPT !.header = h, !.loader = l] \in Request
    BY <2>1 DEF Request
  <2> QED
    BY <2>2, <2>3
<1>2. /\ b.mode = r.mode /\ b.state = "live" /\ b.factory = r.factory
      /\ SameQuestion(b, r) /\ SameFlags(b, r) /\ SameHistory(b, r)
      /\ b.header = h /\ b.loader = l
      /\ b.client = r.client /\ b.held = r.held /\ b.mail = r.mail /\ b.ask = r.ask
  BY DEF Request, SameQuestion, SameFlags, SameHistory
<1>3. /\ b.log = <<>> /\ b.told = <<>> /\ b.factory = "bound"
      /\ b.blocked = NoEntry /\ b.callbacks = {}
      /\ b.client = "unbound" /\ b.held = "none" /\ b.mail = <<>> /\ b.ask = "none"
      /\ ~b.redirecting
  BY <1>2 DEF Unborn, Away, SameHistory, SameQuestion, SameFlags
<1>4. /\ "onBeforeRequest" \in Events /\ "onBeforeRequest" \notin DOMAIN Seen
  BY DEF Events, Stages, Seen
<1>5. PICK s \in Request : s = Emit(b, "onBeforeRequest")
  BY <1>1, <1>4, EmitFrame
<1>6. /\ SameLinks(s, b) /\ SameLife(s, b) /\ SameQuestion(s, b) /\ SameFlags(s, b)
      /\ s.told = b.told /\ s.log # <<>> /\ Latest(s) = "onBeforeRequest"
  BY <1>1, <1>4, <1>5, EmitFields, EmitFrame
<1>7. History(s)
  BY <1>1, <1>3, <1>4, <1>5, HistoryEmpty, HistoryEmit
<1>8. Alive(s)
  BY <1>2, <1>3, <1>6, <1>7 DEF Alive, SameLife, SameLinks, Bound
<1>9. Pipes(s)
  BY <1>2, <1>3, <1>6 DEF Pipes, SameLinks, SameLife, MailOf, Introduced, Bound
<1>10. Holds(s, "start")
  BY <1>3, <1>6 DEF Holds, SameLinks
<1>11. Fits(s, "start", "onBeforeRequest")
  BY <1>2, <1>3, <1>6 DEF Fits, SameLinks, SameFlags, Answer
<1>12. Ready(s, "start")
  BY <1>3, <1>6, <1>8, <1>9, <1>10, <1>11
     DEF Ready, Linked, Place, StageOf, Unasked, SameQuestion
<1> QED
  BY <1>5, <1>6, <1>12, RestartInternalLeft

LEMMA BornWhole ==
    ASSUME IInv, CreateLoaderAndStart \/ OnLoaderForCorsPreflightCreated
    PROVE  IInv'
<1>1. q.state = "none" /\ rounds' = rounds /\ posted' = posted
  BY DEF CreateLoaderAndStart, OnLoaderForCorsPreflightCreated
<1>2. Unborn(q) /\ posted = <<>>
  BY <1>1, NotLiveAway DEF Live, Over
<1>3. PICK r \in Request : r = q /\ Unborn(r)
  BY <1>2 DEF Unborn
<1>4. PICK u : u = q'
  OBVIOUS
<1>5. CASE CreateLoaderAndStart
  <2>1. [r EXCEPT !.state = "live"]
          = [r EXCEPT !.state = "live", !.header = "unbound", !.loader = "idle"]
    BY <1>3 DEF Unborn, Away, Request
  <2>2. u \in RestartInternal([r EXCEPT !.state = "live", !.header = "unbound",
                                        !.loader = "idle"])
        /\ r.mode # "preflight"
    BY <1>3, <1>4, <1>5, <2>1 DEF CreateLoaderAndStart
  <2> QED
    BY <1>3, <2>2, <1>1, <1>2, <1>4, BornLeft, LeftWhole DEF IInv, TypeOK
<1>6. CASE OnLoaderForCorsPreflightCreated
  <2>1. u \in RestartInternal([r EXCEPT !.state = "live", !.header = "open",
                                        !.loader = "connecting"])
        /\ r.mode = "preflight"
    BY <1>3, <1>4, <1>6 DEF OnLoaderForCorsPreflightCreated
  <2> QED
    BY <1>3, <2>1, <1>1, <1>2, <1>4, BornLeft, LeftWhole DEF IInv, TypeOK
<1> QED
  BY <1>5, <1>6

(* The client or the loader is gone.                                       *)
LEMMA GoneWhole ==
    ASSUME IInv, ClientGone \/ HeaderClientGone
    PROVE  /\ IInv'
           /\ q'.log = Append(q.log, "onErrorOccurred")
<1>1. Live /\ q' = OnRequestError(q) /\ posted' = posted /\ rounds' = rounds
  BY DEF ClientGone, HeaderClientGone
<1>2. PICK r : r = q /\ Alive(r) /\ Latest(r) \notin Final
  BY <1>1, Waiting
<1>3. Over(OnRequestError(r)) /\ OnRequestError(r).log = Append(r.log, "onErrorOccurred")
  BY <1>2, OnRequestErrorOver
<1>4. Len(posted) <= 1
  BY <1>1, Waiting
<1>5. Over(q') /\ q'.log = Append(q.log, "onErrorOccurred")
  BY <1>1, <1>2, <1>3
<1> QED
  BY <1>1, <1>4, <1>5, OverWhole DEF IInv, TypeOK

(* A redirect is followed, by the loader that told of it.                  *)
LEMMA FollowRedirectLeft ==
    ASSUME NEW r, Quiet(r), r.redirecting,
           NEW p \in BOOLEAN, NEW l \in Loader,
           l = IF UsesHeaderClient(r) /\ Bound(r.client) /\ r.loader \notin {"done", "dead"}
                 THEN "connecting" ELSE r.loader,
           NEW u \in RestartInternal([r EXCEPT !.redirecting = FALSE, !.pending = p,
                                               !.loader = l])
    PROVE  Left(u)
<1>1. r \in Request /\ Alive(r) /\ Unasked(r) /\ Linked(r, "none", "onBeforeRedirect")
      /\ Latest(r) = "onBeforeRedirect"
  BY DEF Quiet, Ready, Alive, Place, Linked, Fits
<1>2. r.mode \in {"plain", "header client", "preflight"}
      /\ r.ask \in {"none", "onBeforeSendHeaders", "onHeadersReceived"}
      /\ r.loader \in Loader
  BY <1>1, RequestTypes
<1>3. PICK b \in Request : b = [r EXCEPT !.redirecting = FALSE, !.pending = p, !.loader = l]
  BY <1>1 DEF Request
<1>4. /\ SameLife(b, r) /\ SameQuestion(b, r) /\ SameHistory(b, r)
      /\ ~b.redirecting /\ b.loader = l /\ b.client = r.client /\ b.header = r.header
      /\ b.held = r.held /\ b.mail = r.mail /\ b.ask = r.ask
  BY <1>1, <1>3 DEF Request, SameLife, SameQuestion, SameHistory
<1>5. Alive(b) /\ Latest(b) = "onBeforeRedirect" /\ Unasked(b)
  BY <1>1, <1>4, AliveSame DEF Alive, SameLife, SameQuestion, Unasked
<1>6. r.ask = "none" /\ r.held = "none" /\ r.mail \notin Answer /\ r.mail # <<"complete">>
  BY <1>1, <1>2 DEF Linked, Holds, Fits
<1>7. UsesHeaderClient(r) /\ Bound(r.client) /\ r.loader \notin {"done", "dead"} =>
        r.loader = "redirected" /\ r.mail = <<>> /\ r.mode = "header client"
        /\ Bound(r.header)
  <2> SUFFICES ASSUME UsesHeaderClient(r), Bound(r.client), r.loader \notin {"done", "dead"}
               PROVE  r.loader = "redirected" /\ r.mail = <<>> /\ r.mode = "header client"
                      /\ Bound(r.header)
    OBVIOUS
  <2>1. r.mode = "header client"
    BY <1>1, <1>2 DEF Alive, UsesHeaderClient
  <2>2. r.mail = <<>>
    BY <1>1, <1>6 DEF Linked, Pipes, MailOf, Answer
  <2>3. r.loader = "redirected"
    BY <1>1, <1>2, <1>6, <2>1, <2>2 DEF Linked, Pipes, Fits, Bound, Loader
  <2> QED
    BY <1>1, <2>1, <2>2, <2>3 DEF Linked, Pipes, Introduced
<1>8. Pipes(b)
  BY <1>1, <1>4, <1>6, <1>7 DEF Linked, Pipes, SameLife, MailOf, Introduced, UsesHeaderClient
<1>9. Holds(b, "start")
  BY <1>4, <1>6 DEF Holds
<1>10. Fits(b, "start", "onBeforeRequest")
  BY <1>1, <1>4, <1>6, <1>7 DEF Linked, Fits, SameLife
<1>11. "start" \in Nexts /\ StageOf("start") = "onBeforeRequest"
  BY DEF Nexts, StageOf
<1>12. Latest(b) \notin Final /\ "onBeforeRequest" \in Follows(b.mode, Latest(b))
  BY <1>5 DEF Final, Follows
<1>13. Ready(Emit(b, "onBeforeRequest"), "start")
       /\ Latest(Emit(b, "onBeforeRequest")) = "onBeforeRequest"
  <2>1. Linked(b, "start", StageOf("start"))
    BY <1>8, <1>9, <1>10, <1>11 DEF Linked
  <2>2. Ready(Emit(b, StageOf("start")), "start")
        /\ Latest(Emit(b, StageOf("start"))) = StageOf("start")
    BY <1>5, <1>11, <1>12, <2>1, EmitReady
  <2> QED
    BY <1>11, <2>2
<1>14. u \in RestartInternal(b)
  BY <1>3
<1> QED
  BY <1>13, <1>14, RestartInternalLeft

LEMMA FollowRedirectWhole ==
    ASSUME IInv, FollowRedirect
    PROVE  IInv'
<1>1. Live /\ q.redirecting /\ posted' = posted /\ rounds' = rounds
  BY DEF FollowRedirect
<1>2. Quiet(q) /\ posted = <<>>
  BY <1>1, Waiting DEF Linked, Fits
<1>3. PICK r \in Request : r = q /\ Quiet(r) /\ r.redirecting
  BY <1>1, <1>2 DEF Quiet, Ready, Alive
<1>4. PICK l \in Loader :
        l = IF UsesHeaderClient(r) /\ Bound(r.client) /\ r.loader \notin {"done", "dead"}
              THEN "connecting" ELSE r.loader
  BY RequestTypes DEF Loader
<1>5. PICK p \in BOOLEAN :
        p = (r.pending \/ (Bound(r.client) /\ ~UsesHeaderClient(r)))
  OBVIOUS
<1>6. PICK u : u = q'
  OBVIOUS
<1>7. r.pending \in BOOLEAN
  BY DEF Request
<1>8. u \in RestartInternal([r EXCEPT !.redirecting = FALSE, !.pending = p, !.loader = l])
  <2> DEFINE d == [r EXCEPT !.redirecting = FALSE]
             t == [r EXCEPT !.redirecting = FALSE, !.pending = p, !.loader = l]
  <2>1. d.client = r.client /\ d.mode = r.mode /\ d.loader = r.loader
    BY DEF Request
  <2>2. CASE ~Bound(r.client)
    <3>1. t = d
      BY <1>4, <1>5, <1>7, <2>2 DEF Request
    <3> QED
      BY <1>3, <1>6, <2>1, <2>2, <3>1 DEF FollowRedirect
  <2>3. CASE Bound(r.client) /\ UsesHeaderClient(r)
    <3>1. t = Proceed(d, "connecting")
      BY <1>4, <1>5, <1>7, <2>1, <2>3 DEF Proceed, Request
    <3> QED
      BY <1>3, <1>6, <2>1, <2>3, <3>1 DEF FollowRedirect, UsesHeaderClient, IInv
  <2>4. CASE Bound(r.client) /\ ~UsesHeaderClient(r)
    <3>1. t = [d EXCEPT !.pending = TRUE]
      BY <1>4, <1>5, <1>7, <2>1, <2>4 DEF Request
    <3> QED
      BY <1>3, <1>6, <2>1, <2>4, <3>1 DEF FollowRedirect, UsesHeaderClient
  <2> QED
    BY <2>2, <2>3, <2>4
<1>9. Left(u)
  BY <1>3, <1>4, <1>8, FollowRedirectLeft
<1> QED
  BY <1>1, <1>2, <1>6, <1>9, LeftWhole DEF IInv, TypeOK

-----------------------------------------------------------------------------
(* Messages of the loader.                                                 *)
LEMMA OnLoaderCreatedWhole ==
    ASSUME IInv, OnLoaderCreated
    PROVE  IInv'
<1>1. Live /\ q.loader = "created" /\ posted' = posted /\ rounds' = rounds
      /\ q' = [q EXCEPT !.header = "open", !.loader = "connecting"]
  BY DEF OnLoaderCreated
<1>2. Quiet(q) /\ posted = <<>>
  BY <1>1, Waiting DEF Linked, Fits
<1>3. PICK r \in Request : r = q /\ Quiet(r) /\ r.loader = "created"
  BY <1>1, <1>2 DEF Quiet, Ready, Alive
<1>4. Alive(r) /\ Unasked(r) /\ Linked(r, "none", "onBeforeRequest")
      /\ Latest(r) = "onBeforeRequest"
  BY <1>3 DEF Quiet, Ready, Place, Linked, Fits
<1>5. r.mode = "header client" /\ r.ask = "none"
  <2>1. r.mode \in {"plain", "header client", "preflight"}
        /\ r.ask \in {"none", "onBeforeSendHeaders", "onHeadersReceived"}
    BY RequestTypes
  <2> QED
    BY <1>3, <1>4, <2>1 DEF Linked, Pipes
<1>6. PICK s \in Request : s = [r EXCEPT !.header = "open", !.loader = "connecting"]
  <2>1. "open" \in Pipe /\ "connecting" \in Loader
    BY DEF Pipe, Loader
  <2> QED
    BY <2>1 DEF Request
<1>7. /\ SameLife(s, r) /\ SameQuestion(s, r) /\ SameFlags(s, r) /\ SameHistory(s, r)
      /\ s.header = "open" /\ s.loader = "connecting" /\ s.client = r.client
      /\ s.held = r.held /\ s.mail = r.mail /\ s.ask = r.ask
  BY <1>6 DEF Request, SameLife, SameQuestion, SameFlags, SameHistory
<1>8. Alive(s) /\ Latest(s) = "onBeforeRequest" /\ Unasked(s)
  BY <1>4, <1>7, AliveSame DEF Alive, SameLife, SameQuestion, Unasked
<1>9. Pipes(s)
  BY <1>3, <1>4, <1>5, <1>7 DEF Linked, Pipes, SameLife, MailOf, Bound
<1>10. Holds(s, "none")
  BY <1>4, <1>7 DEF Linked, Holds, SameLife, Bound
<1>11. Fits(s, "none", "onBeforeRequest")
  BY <1>3, <1>4, <1>7 DEF Linked, Fits, SameLife, SameFlags
<1>12. Quiet(s)
  BY <1>8, <1>9, <1>10, <1>11 DEF Quiet, Ready, Linked, Place, Final
<1>13. Left(q')
  BY <1>1, <1>3, <1>6, <1>12 DEF Left
<1> QED
  BY <1>1, <1>2, <1>13, LeftWhole DEF IInv, TypeOK

LEMMA NoMailIsNoAnswer ==
    ASSUME NEW m \in NoMail
    PROVE  m \notin Answer /\ m # <<"complete">>
<1>1. CASE m = <<>>
  BY <1>1 DEF Answer
<1>2. CASE m = <<"error">>
  <2>1. Head(m) = "error"
    BY <1>2, MailTaken
  <2> QED
    BY <2>1, MailTaken DEF Answer
<1> QED
  BY <1>1, <1>2 DEF NoMail

(* What a request takes from its second pipe, it keeps.                    *)
LEMMA OnBeforeSendHeadersLeft ==
    ASSUME NEW r, Quiet(r), r.ask = "onBeforeSendHeaders",
           NEW u \in ContinueToBeforeSendHeaders([r EXCEPT !.ask = "none", !.held = r.ask])
    PROVE  Left(u)
<1>1. r \in Request /\ Alive(r) /\ Unasked(r) /\ Linked(r, "none", Latest(r))
  BY DEF Quiet, Ready, Alive, Place
<1>2. PICK b \in Request : b = [r EXCEPT !.ask = "none", !.held = r.ask]
  BY <1>1 DEF Request
<1>3. /\ SameLife(b, r) /\ SameQuestion(b, r) /\ SameFlags(b, r) /\ SameHistory(b, r)
      /\ b.ask = "none" /\ b.held = "onBeforeSendHeaders"
      /\ b.client = r.client /\ b.header = r.header /\ b.loader = r.loader
      /\ b.mail = r.mail
  BY <1>1, <1>2 DEF Request, SameLife, SameQuestion, SameFlags, SameHistory
<1>4. PICK c \in Pipe : c = Resume(b.client)
  BY RequestTypes, PipeTypes
<1>5. PICK t \in Request : t = [b EXCEPT !.client = c]
  BY DEF Request
<1>6. /\ SameLife(t, b) /\ SameQuestion(t, b) /\ SameFlags(t, b) /\ SameHistory(t, b)
      /\ t.ask = b.ask /\ t.held = b.held /\ t.client = c /\ t.header = b.header
      /\ t.loader = b.loader /\ t.mail = b.mail
  BY <1>5 DEF Request, SameLife, SameQuestion, SameFlags, SameHistory
<1>7. /\ SameLife(t, r) /\ SameQuestion(t, r) /\ SameFlags(t, r) /\ SameHistory(t, r)
      /\ t.ask = "none" /\ t.held = "onBeforeSendHeaders" /\ t.client = c
      /\ t.header = r.header /\ t.loader = r.loader /\ t.mail = r.mail
  BY <1>3, <1>6 DEF SameLife, SameQuestion, SameFlags, SameHistory
<1>8. Alive(t) /\ Latest(t) = Latest(r) /\ Unasked(t)
  BY <1>1, <1>3, <1>4, <1>7, AliveSame
     DEF Alive, SameLife, SameQuestion, Unasked, Resume, Bound
<1>9. /\ r.mode # "plain" /\ r.loader \in {"asking", "done", "dead"}
      /\ r.mail \in NoMail /\ Bound(r.header) /\ ~r.redirecting
      /\ Latest(r) \in {"onBeforeRequest", "onHeadersReceived"}
  BY <1>1 DEF Linked, Pipes, Fits
<1>10. Pipes(t)
  BY <1>1, <1>3, <1>4, <1>7, <1>9 DEF Linked, Pipes, SameLife, Resume, Bound
<1>11. Holds(t, "send")
  BY <1>7, <1>9 DEF Holds, SameLife
<1>12. Fits(t, "send", "onBeforeSendHeaders")
  BY <1>7, <1>9, NoMailIsNoAnswer DEF Fits, SameFlags
<1>13. Latest(t) \notin Final /\ "onBeforeSendHeaders" \in Follows(t.mode, Latest(t))
  BY <1>7, <1>8, <1>9 DEF Final, Follows, SameLife
<1> QED
  BY <1>2, <1>4, <1>5, <1>8, <1>10, <1>11, <1>12, <1>13, BeforeSendHeadersLeft DEF Linked

(* A question that is open keeps the second pipe from being read.          *)
LEMMA OnBeforeSendHeadersWhole ==
    ASSUME IInv, OnBeforeSendHeaders
    PROVE  IInv' /\ q.blocked = NoEntry
<1>1. Live /\ q.header = "open" /\ q.ask = "onBeforeSendHeaders"
      /\ posted' = posted /\ rounds' = rounds
  BY DEF OnBeforeSendHeaders
<1>2. PICK w \in Nexts \cup {"none"} :
        /\ Linked(q, w, Place(q, w)) /\ Paused(q, w)
        /\ w = "none" => Quiet(q) /\ posted = <<>>
        /\ q.blocked # NoEntry => w # "none"
  BY <1>1, Waiting
<1>3. w = "none"
  <2>1. w # "start"
    BY <1>1, <1>2 DEF Paused
  <2>2. w # "none" => Place(q, w) = "onBeforeRequest"
    BY <1>1, <1>2 DEF Linked, Fits
  <2> QED
    BY <1>2, <2>1, <2>2 DEF Place, StageOf, Nexts
<1>4. PICK r : r = q /\ Quiet(r) /\ r.ask = "onBeforeSendHeaders"
  BY <1>1, <1>2, <1>3
<1>5. PICK u : u = q'
  OBVIOUS
<1>6. u \in ContinueToBeforeSendHeaders([r EXCEPT !.ask = "none", !.held = r.ask])
  BY <1>4, <1>5 DEF OnBeforeSendHeaders
<1>7. Left(q')
  BY <1>4, <1>5, <1>6, OnBeforeSendHeadersLeft
<1> QED
  BY <1>1, <1>2, <1>3, <1>7, LeftWhole DEF IInv, TypeOK

LEMMA OnHeadersReceivedWhole ==
    ASSUME IInv, OnHeadersReceived
    PROVE  IInv' /\ q.blocked = NoEntry
<1>1. Live /\ q.ask = "onHeadersReceived" /\ posted' = posted /\ rounds' = rounds
  BY DEF OnHeadersReceived
<1>2. PICK w \in Nexts \cup {"none"} :
        /\ Linked(q, w, Place(q, w))
        /\ w = "none" => Quiet(q) /\ posted = <<>>
        /\ q.blocked # NoEntry => w # "none"
  BY <1>1, Waiting
<1>3. w = "none"
  <2>1. Place(q, w) = "onSendHeaders"
    BY <1>1, <1>2 DEF Linked, Fits
  <2> QED
    BY <1>2, <2>1 DEF Place, StageOf, Nexts
<1>4. PICK r \in Request : r = q /\ Quiet(r) /\ r.ask = "onHeadersReceived"
  BY <1>1, <1>2, <1>3 DEF Quiet, Ready, Alive
<1>5. Alive(r) /\ Unasked(r) /\ Linked(r, "none", Latest(r))
  BY <1>4 DEF Quiet, Ready, Place
<1>6. /\ r.mode # "plain" /\ r.loader \in {"headers", "done", "dead"}
      /\ r.mail \in NoMail /\ Bound(r.header) /\ ~r.redirecting
      /\ Latest(r) = "onSendHeaders"
  BY <1>4, <1>5 DEF Linked, Pipes, Fits
<1>7. PICK b \in Request : b = [r EXCEPT !.ask = "none", !.held = r.ask]
  BY DEF Request
<1>8. /\ SameLife(b, r) /\ SameQuestion(b, r) /\ SameFlags(b, r) /\ SameHistory(b, r)
      /\ b.ask = "none" /\ b.held = "onHeadersReceived"
      /\ b.client = r.client /\ b.header = r.header /\ b.loader = r.loader
      /\ b.mail = r.mail
  BY <1>4, <1>7 DEF Request, SameLife, SameQuestion, SameFlags, SameHistory
<1>9. Alive(b) /\ Latest(b) = Latest(r) /\ Unasked(b)
  BY <1>5, <1>8, AliveSame DEF Alive, SameLife, SameQuestion, Unasked
<1>10. Pipes(b)
  BY <1>5, <1>6, <1>8 DEF Linked, Pipes, SameLife
<1>11. Holds(b, "override")
  BY <1>6, <1>8 DEF Holds, SameLife
<1>12. Fits(b, "override", "onHeadersReceived")
  BY <1>6, <1>8, NoMailIsNoAnswer DEF Fits, SameFlags
<1>13. Latest(b) \notin Final /\ "onHeadersReceived" \in Follows(b.mode, Latest(b))
  BY <1>6, <1>9 DEF Final, Follows
<1>14. PICK u : u = q'
  OBVIOUS
<1>15. u \in HandleResponseOrRedirectHeaders(b, "override")
  BY <1>4, <1>7, <1>14 DEF OnHeadersReceived
<1>16. Left(q')
  BY <1>9, <1>10, <1>11, <1>12, <1>13, <1>14, <1>15, HandleHeadersLeft DEF Linked
<1> QED
  BY <1>1, <1>2, <1>3, <1>16, LeftWhole DEF IInv, TypeOK

(* What the first message says of the rest, and of the loader.             *)
LEMMA MailKinds ==
    ASSUME NEW l \in Loader, NEW m \in MailOf(l), m # <<>>
    PROVE  /\ l \in {"responding", "redirected", "done", "dead"}
           /\ Tail(m) \in MailOf(l)
           /\ Head(m) = "response" => /\ m \in Answer /\ m \notin NoMail
                                      /\ Tail(m) \in NoMail \cup {<<"complete">>}
           /\ Head(m) = "redirect" => /\ m \in Answer /\ m \notin NoMail
                                      /\ Tail(m) \in NoMail
                                      /\ l # "responding"
           /\ Head(m) = "complete" => m = <<"complete">>
<1>1. l \in {"responding", "redirected", "done", "dead"}
  BY DEF MailOf
<1>2. m \in Answer \cup {<<"complete">>, <<"error">>}
  BY DEF MailOf, NoMail, Answer
<1>3. l = "responding" => m = <<"response">>
  BY DEF MailOf
<1>4. l = "redirected" => m = <<"redirect">>
  BY DEF MailOf
<1>5. l = "dead" => m = <<"response">> \/ m = <<"redirect">>
  BY DEF MailOf
<1>6. ASSUME NEW n \in Answer PROVE n \notin NoMail
  BY <1>6, NoMailIsNoAnswer
<1>7. CASE m = <<"response">>
  <2>1. Head(m) = "response" /\ Tail(m) = <<>> /\ m \in Answer
    BY <1>7, MailTaken DEF Answer
  <2> QED
    BY <1>1, <1>6, <2>1 DEF MailOf, NoMail
<1>8. CASE m = <<"redirect">>
  <2>1. Head(m) = "redirect" /\ Tail(m) = <<>> /\ m \in Answer
    BY <1>8, MailTaken DEF Answer
  <2>2. l # "responding"
    BY <1>3, <1>8, <2>1, MailTaken
  <2> QED
    BY <1>1, <1>6, <2>1, <2>2 DEF MailOf, NoMail
<1>9. CASE m = <<"error">>
  <2>1. Head(m) = "error" /\ Tail(m) = <<>>
    BY <1>9, MailTaken
  <2> QED
    BY <1>1, <2>1 DEF MailOf, NoMail
<1>10. CASE m = <<"complete">>
  <2>1. Head(m) = "complete" /\ Tail(m) = <<>>
    BY <1>10, MailTaken
  <2> QED
    BY <1>1, <1>10, <2>1 DEF MailOf, NoMail
<1>11. CASE m = <<"response", "error">>
  <2>1. Head(m) = "response" /\ Tail(m) = <<"error">> /\ m \in Answer
    BY <1>11, MailTaken DEF Answer
  <2>2. l = "done"
    <3>1. Tail(m) # <<>>
      BY <2>1
    <3> QED
      BY <1>1, <1>3, <1>4, <1>5, <3>1, MailTaken
  <2> QED
    BY <1>1, <1>6, <2>1, <2>2 DEF MailOf, NoMail
<1>12. CASE m = <<"redirect", "error">>
  <2>1. Head(m) = "redirect" /\ Tail(m) = <<"error">> /\ m \in Answer
    BY <1>12, MailTaken DEF Answer
  <2>2. l = "done"
    <3>1. Tail(m) # <<>>
      BY <2>1
    <3> QED
      BY <1>1, <1>3, <1>4, <1>5, <3>1, MailTaken
  <2> QED
    BY <1>1, <1>6, <2>1, <2>2 DEF MailOf, NoMail
<1>13. CASE m = <<"response", "complete">>
  <2>1. Head(m) = "response" /\ Tail(m) = <<"complete">> /\ m \in Answer
    BY <1>13, MailTaken DEF Answer
  <2>2. l = "done"
    <3>1. Tail(m) # <<>>
      BY <2>1
    <3> QED
      BY <1>1, <1>3, <1>4, <1>5, <3>1, MailTaken
  <2> QED
    BY <1>1, <1>6, <2>1, <2>2 DEF MailOf, NoMail
<1> QED
  BY <1>2, <1>7, <1>8, <1>9, <1>10, <1>11, <1>12, <1>13 DEF Answer

(* A message but an error finds a request that waits for nothing else.     *)
LEMMA ReceiveQuiet ==
    ASSUME IInv, NEW message \in Message, Receive(message), message # "error"
    PROVE  Quiet(q) /\ q.blocked = NoEntry /\ posted = <<>>
<1>1. Live /\ q.client = "open" /\ q.mail # <<>> /\ Head(q.mail) = message
  BY DEF Receive
<1>2. PICK w \in Nexts \cup {"none"} :
        /\ Linked(q, w, Place(q, w)) /\ Paused(q, w)
        /\ w = "none" => Quiet(q) /\ posted = <<>>
        /\ q.blocked # NoEntry => w # "none"
  BY <1>1, Waiting
<1>3. w \notin {"start", "override", "response", "redirect"}
  BY <1>1, <1>2 DEF Paused
<1>4. q.mail \in Answer \/ q.mail = <<"complete">>
  <2>1. PICK r \in Request : r = q
    BY DEF IInv, TypeOK
  <2>2. r.mail \in MailOf(r.loader) /\ r.loader \in Loader
    BY <1>2, <2>1, RequestTypes DEF Linked, Pipes
  <2> QED
    BY <1>1, <2>1, <2>2, MailKinds DEF Message
<1>5. w # "send"
  BY <1>2, <1>3, <1>4 DEF Linked, Fits, Place, StageOf
<1> QED
  BY <1>2, <1>3, <1>5 DEF Nexts

(* A request without its message.                                          *)
LEMMA ReceivedFrame ==
    ASSUME NEW r, Alive(r), r.client = "open", r.mail \in MailOf(r.loader), r.mail # <<>>
    PROVE  \E s \in Request :
             /\ s = [r EXCEPT !.mail = Tail(@)]
             /\ Alive(s) /\ Latest(s) = Latest(r)
             /\ SameLife(s, r) /\ SameQuestion(s, r) /\ SameFlags(s, r) /\ SameHistory(s, r)
             /\ s.client = r.client /\ s.header = r.header /\ s.held = r.held
             /\ s.loader = r.loader /\ s.ask = r.ask /\ s.mail = Tail(r.mail)
             /\ r.mode # "preflight"
<1>1. r \in Request /\ r.mode # "preflight"
  BY DEF Alive, Bound
<1>2. Tail(r.mail) \in Mail
  BY <1>1, RequestTypes, HeadTailProperties DEF Mail
<1>3. PICK s \in Request : s = [r EXCEPT !.mail = Tail(@)]
  BY <1>1, <1>2 DEF Request
<1>4. /\ SameLife(s, r) /\ SameQuestion(s, r) /\ SameFlags(s, r) /\ SameHistory(s, r)
      /\ s.client = r.client /\ s.header = r.header /\ s.held = r.held
      /\ s.loader = r.loader /\ s.ask = r.ask /\ s.mail = Tail(r.mail)
  BY <1>1, <1>3 DEF Request, SameLife, SameQuestion, SameFlags, SameHistory
<1>5. Alive(s) /\ Latest(s) = Latest(r)
  BY <1>1, <1>4, AliveSame DEF SameLife
<1> QED
  BY <1>1, <1>3, <1>4, <1>5

(* The answer of the network to a request without a header client waits    *)
(* for the listeners, to another one it is what they have seen.            *)
LEMMA AnswerLinked ==
    ASSUME NEW r, Quiet(r), r.client = "open", r.mail # <<>>,
           NEW s \in Request, s.mail = Tail(r.mail),
           Head(r.mail) \in {"response", "redirect"},
           SameLife(s, r), SameFlags(s, r),
           s.client = r.client, s.header = r.header, s.held = r.held,
           s.loader = r.loader, s.ask = r.ask
    PROVE  /\ r.mode = "plain" =>
                /\ Latest(r) = "onSendHeaders"
                /\ Linked(s, Head(r.mail), "onHeadersReceived")
           /\ r.mode # "plain" =>
                /\ Latest(r) \in {"onBeforeRequest", "onHeadersReceived"}
                /\ Head(r.mail) = "response" => Linked(s, "none", "onResponseStarted")
                /\ Head(r.mail) = "redirect" => Linked(s, "none", "onBeforeRedirect")
<1>1. r \in Request /\ r.mode # "preflight" /\ Linked(r, "none", Latest(r))
  BY DEF Quiet, Ready, Alive, Bound, Place
<1>2. r.mail \in MailOf(r.loader) /\ r.loader \in Loader
  BY <1>1, RequestTypes DEF Linked, Pipes
<1>3. /\ r.mail \in Answer /\ r.mail \notin NoMail
      /\ s.mail \in MailOf(s.loader) /\ s.mail \notin Answer
      /\ s.loader \in {"responding", "redirected", "done", "dead"}
      /\ Head(r.mail) = "redirect" => s.mail # <<"complete">> /\ s.loader # "responding"
  <2>1. <<"complete">> \notin Answer
    <3>1. Head(<<"complete">>) = "complete"
      BY MailTaken
    <3> QED
      BY <3>1, MailTaken DEF Answer
  <2>2. /\ r.loader \in {"responding", "redirected", "done", "dead"}
        /\ Tail(r.mail) \in MailOf(r.loader)
        /\ r.mail \in Answer /\ r.mail \notin NoMail
        /\ Tail(r.mail) \in NoMail \cup {<<"complete">>}
        /\ Head(r.mail) = "redirect" => Tail(r.mail) \in NoMail /\ r.loader # "responding"
    BY <1>2, MailKinds
  <2> QED
    BY <2>1, <2>2, NoMailIsNoAnswer
<1>4. r.ask = "none" /\ s.ask = "none" /\ ~s.redirecting
  <2>1. r.ask = "none"
    BY <1>1, <1>3 DEF Linked, Pipes
  <2>2. Latest(r) # "onBeforeRedirect"
    BY <1>1, <1>3 DEF Linked, Fits
  <2> QED
    BY <1>1, <2>1, <2>2 DEF Linked, Fits, SameFlags
<1>5. Pipes(s)
  BY <1>1, <1>3, <1>4 DEF Linked, Pipes, SameLife
<1>6. r.held = "none"
  BY <1>1 DEF Linked, Holds
<1>7. CASE r.mode = "plain"
  <2>1. Latest(r) = "onSendHeaders"
    BY <1>1, <1>3, <1>7 DEF Linked, Fits
  <2>2. Holds(s, Head(r.mail))
    BY <1>6, <1>7 DEF Holds, SameLife
  <2>3. Fits(s, Head(r.mail), "onHeadersReceived")
    BY <1>3, <1>4 DEF Fits
  <2> QED
    BY <1>5, <1>7, <2>1, <2>2, <2>3 DEF Linked
<1>8. CASE r.mode # "plain"
  <2>1. Latest(r) \in {"onBeforeRequest", "onHeadersReceived"}
    BY <1>1, <1>3, <1>8 DEF Linked, Fits
  <2>2. Holds(s, "none")
    BY <1>6 DEF Holds, SameLife
  <2>3. Head(r.mail) = "response" => Fits(s, "none", "onResponseStarted")
    BY <1>3, <1>4 DEF Fits
  <2>4. Head(r.mail) = "redirect" => Fits(s, "none", "onBeforeRedirect")
    BY <1>3, <1>4 DEF Fits
  <2> QED
    BY <1>5, <1>8, <2>1, <2>2, <2>3, <2>4 DEF Linked
<1> QED
  BY <1>7, <1>8

LEMMA OnReceiveAnswerWhole ==
    ASSUME IInv, OnReceiveResponse \/ OnReceiveRedirect
    PROVE  IInv' /\ q.blocked = NoEntry
<1>1. PICK m \in {"response", "redirect"} :
        /\ Receive(m)
        /\ m = "response" => OnReceiveResponse
        /\ m = "redirect" => OnReceiveRedirect
  BY DEF OnReceiveResponse, OnReceiveRedirect
<1>2. Quiet(q) /\ q.blocked = NoEntry /\ posted = <<>>
  BY <1>1, ReceiveQuiet DEF Message
<1>3. q.client = "open" /\ q.mail # <<>> /\ Head(q.mail) = m
      /\ posted' = posted /\ rounds' = rounds
  BY <1>1 DEF Receive
<1>4. PICK r : r = q /\ Quiet(r) /\ Alive(r) /\ Unasked(r) /\ Latest(r) \notin Final
               /\ r.mail \in MailOf(r.loader)
               /\ r.client = "open" /\ r.mail # <<>> /\ Head(r.mail) = m
  BY <1>2, <1>3 DEF Quiet, Ready, Linked, Pipes
<1>5. PICK s \in Request :
             /\ s = [r EXCEPT !.mail = Tail(@)]
             /\ Alive(s) /\ Latest(s) = Latest(r)
             /\ SameLife(s, r) /\ SameQuestion(s, r) /\ SameFlags(s, r) /\ SameHistory(s, r)
             /\ s.client = r.client /\ s.header = r.header /\ s.held = r.held
             /\ s.loader = r.loader /\ s.ask = r.ask /\ s.mail = Tail(r.mail)
             /\ r.mode # "preflight"
  BY <1>4, ReceivedFrame
<1>6. PICK u : u = q'
  OBVIOUS
<1>7. Unasked(s)
  BY <1>4, <1>5 DEF Unasked, SameQuestion
<1>8. Received = s
  BY <1>4, <1>5 DEF Received
<1>9. s.mode = r.mode /\ UsesHeaderClient(q) = (r.mode # "plain")
  BY <1>4, <1>5 DEF SameLife, UsesHeaderClient
<1>10. CASE r.mode = "plain"
  <2>1. Latest(r) = "onSendHeaders" /\ Linked(s, m, "onHeadersReceived")
    BY <1>4, <1>5, <1>10, AnswerLinked
  <2>2. u \in HandleResponseOrRedirectHeaders(s, m)
    BY <1>1, <1>6, <1>8, <1>9, <1>10 DEF OnReceiveResponse, OnReceiveRedirect
  <2>3. "onHeadersReceived" \in Follows(s.mode, Latest(s)) /\ Latest(s) \notin Final
    BY <1>4, <1>5, <2>1 DEF Follows
  <2>4. Left(u)
    BY <1>5, <1>7, <2>1, <2>2, <2>3, HandleHeadersLeft
  <2> QED
    BY <1>2, <1>3, <1>6, <2>4, LeftWhole DEF IInv, TypeOK
<1>11. CASE r.mode # "plain"
  <2>1. /\ Latest(r) \in {"onBeforeRequest", "onHeadersReceived"}
        /\ m = "response" => Linked(s, "none", "onResponseStarted")
        /\ m = "redirect" => Linked(s, "none", "onBeforeRedirect")
    BY <1>4, <1>5, <1>11, AnswerLinked
  <2>2. {"onResponseStarted", "onBeforeRedirect"} \subseteq Follows(s.mode, Latest(s))
        /\ Latest(s) \notin Final
    BY <1>4, <1>5, <1>9, <1>11, <2>1 DEF Follows
  <2>3. ASSUME m = "response" PROVE Quiet(u)
    <3>1. u = ContinueToResponseStarted(s)
      BY <1>1, <1>6, <1>8, <1>9, <1>11, <2>3 DEF OnReceiveResponse
    <3> QED
      BY <1>5, <1>7, <1>9, <2>1, <2>2, <2>3, <3>1, ResponseStartedQuiet
  <2>4. ASSUME m = "redirect" PROVE Quiet(u)
    <3>1. u = ContinueToBeforeRedirect(s)
      BY <1>1, <1>6, <1>8, <1>9, <1>11, <2>4 DEF OnReceiveRedirect
    <3> QED
      BY <1>5, <1>7, <1>9, <2>1, <2>2, <2>4, <3>1, BeforeRedirectQuiet
  <2>5. Quiet(u)
    BY <1>1, <2>3, <2>4
  <2> QED
    BY <1>2, <1>3, <1>6, <2>5, LeftWhole DEF Left, IInv, TypeOK
<1> QED
  BY <1>2, <1>10, <1>11

(* The last message.                                                       *)
LEMMA CompleteWhole ==
    ASSUME IInv, OnComplete, Receive("complete")
    PROVE  IInv' /\ q.blocked = NoEntry
<1>1. "complete" \in Message /\ "complete" # "error"
  BY DEF Message
<1>2. Quiet(q) /\ q.blocked = NoEntry /\ posted = <<>>
  BY <1>1, ReceiveQuiet
<1>3. q.client = "open" /\ q.mail # <<>> /\ Head(q.mail) = "complete"
      /\ posted' = posted /\ rounds' = rounds
      /\ q' = RemoveRequest(Emit(Tell(Received, "complete"), "onCompleted"))
  BY <1>1 DEF Receive, OnComplete
<1>4. PICK r \in Request :
        /\ r = q /\ Alive(r) /\ Latest(r) \notin Final
        /\ r.mail \in MailOf(r.loader) /\ Fits(r, "none", Latest(r))
        /\ r.client = "open" /\ r.mail # <<>> /\ Head(r.mail) = "complete"
  BY <1>2, <1>3 DEF Quiet, Ready, Alive, Linked, Pipes, Place
<1>5. Latest(r) = "onResponseStarted"
  <2>1. r.mail = <<"complete">>
    BY <1>4, RequestTypes, MailKinds
  <2> QED
    BY <1>4, <2>1 DEF Fits
<1>6. PICK s \in Request :
             /\ s = [r EXCEPT !.mail = Tail(@)]
             /\ Alive(s) /\ Latest(s) = Latest(r)
             /\ SameLife(s, r) /\ SameQuestion(s, r) /\ SameFlags(s, r) /\ SameHistory(s, r)
             /\ r.mode # "preflight"
  BY <1>4, ReceivedFrame
<1>7. PICK t \in Request : t = Tell(s, "complete")
  BY <1>1, TellFrame
<1>8. SameLife(t, s) /\ t.log = s.log /\ t.told = Append(s.told, "complete")
  BY <1>6, <1>7 DEF Tell, Request, SameLife
<1>9. PICK e \in Request : e = Emit(t, "onCompleted")
  BY EmitFrame DEF Events
<1>10. SameLife(e, s) /\ e.log = Append(s.log, "onCompleted")
       /\ e.told = Append(s.told, "complete")
  BY <1>8, <1>9 DEF Emit, Request, SameLife
<1>11. "onCompleted" \in Follows(s.mode, Latest(s)) /\ Latest(s) \notin Final
  BY <1>4, <1>5, <1>6 DEF Follows
<1>12. Over(RemoveRequest(e))
  BY <1>6, <1>10, <1>11, CompletedOver DEF SameLife
<1>13. Received = s
  BY <1>4, <1>6 DEF Received
<1>14. Over(q')
  BY <1>3, <1>7, <1>9, <1>12, <1>13
<1>15. Len(posted') <= 1
  BY <1>2, <1>3
<1> QED
  BY <1>2, <1>3, <1>14, <1>15, OverWhole DEF IInv, TypeOK

LEMMA ErrorWhole ==
    ASSUME IInv, OnComplete, Receive("error")
    PROVE  IInv' /\ q'.log = Append(q.log, "onErrorOccurred")
<1>1. Live /\ q.client = "open" /\ q.mail # <<>>
      /\ posted' = posted /\ rounds' = rounds
      /\ q' = OnRequestError(Received)
  BY DEF Receive, OnComplete
<1>2. PICK w : Linked(q, w, Place(q, w))
  BY <1>1, Waiting
<1>3. PICK r : r = q /\ Alive(r) /\ Latest(r) \notin Final
               /\ r.client = "open" /\ r.mail \in MailOf(r.loader) /\ r.mail # <<>>
  BY <1>1, <1>2, Waiting DEF Linked, Pipes
<1>4. PICK s \in Request : /\ s = [r EXCEPT !.mail = Tail(@)]
                           /\ Alive(s) /\ Latest(s) = Latest(r) /\ SameHistory(s, r)
  BY <1>3, ReceivedFrame
<1>5. Over(OnRequestError(s)) /\ OnRequestError(s).log = Append(s.log, "onErrorOccurred")
  BY <1>3, <1>4, OnRequestErrorOver
<1>6. Received = s
  BY <1>3, <1>4 DEF Received
<1>7. Over(q') /\ q'.log = Append(q.log, "onErrorOccurred")
  BY <1>1, <1>3, <1>4, <1>5, <1>6 DEF SameHistory
<1>8. Len(posted') <= 1
  BY <1>1, Waiting
<1> QED
  BY <1>1, <1>7, <1>8, OverWhole DEF IInv, TypeOK

-----------------------------------------------------------------------------
(* The invariant holds at first, and every step keeps it.                  *)
LEMMA InitWhole ==
    ASSUME Init, ~Recreates
    PROVE  IInv
<1>1. PICK m \in Modes :
        q = [mode |-> m, state |-> "none", blocked |-> NoEntry, callbacks |-> {},
             spent |-> {}, client |-> "unbound", header |-> "unbound",
             held |-> "none", pending |-> FALSE, redirecting |-> FALSE,
             factory |-> "bound", loader |-> "idle", mail |-> <<>>, ask |-> "none",
             log |-> <<>>, told |-> <<>>]
  BY DEF Init
<1>2. posted = <<>> /\ rounds = 0
  BY DEF Init
<1>3. q \in Request
  <2>1. <<>> \in Mail /\ <<>> \in Log /\ "unbound" \in Pipe /\ "idle" \in Loader
    BY DEF Mail, Log, Pipe, Loader
  <2> QED
    BY <1>1, <2>1 DEF Request
<1>4. Unborn(q)
  BY <1>1, <1>3 DEF Unborn, Away
<1>5. TypeOK
  BY <1>1, <1>2, <1>3, RoundsAssumption DEF TypeOK, Bound
<1> QED
  BY <1>2, <1>4, <1>5 DEF IInv, Whole

LEMMA StepWhole ==
    ASSUME IInv, [Next]_vars
    PROVE  IInv'
<1>1. CASE Listeners
  BY <1>1, ListenerResultWhole DEF Listeners
<1>2. CASE RunPosted
  BY <1>2, RunPostedWhole
<1>3. CASE Client
  <2>1. CASE CreateLoaderAndStart
    BY <2>1, BornWhole
  <2>2. CASE FollowRedirect
    BY <2>2, FollowRedirectWhole
  <2>3. CASE ClientGone
    BY <2>3, GoneWhole
  <2>4. CASE OnProxyBindingError
    BY <2>4, OnProxyBindingErrorWhole
  <2> QED
    BY <1>3, <2>1, <2>2, <2>3, <2>4 DEF Client
<1>4. CASE Messages
  <2>1. CASE OnLoaderForCorsPreflightCreated
    BY <2>1, BornWhole
  <2>2. CASE OnLoaderCreated
    BY <2>2, OnLoaderCreatedWhole
  <2>3. CASE OnBeforeSendHeaders
    BY <2>3, OnBeforeSendHeadersWhole
  <2>4. CASE OnHeadersReceived
    BY <2>4, OnHeadersReceivedWhole
  <2>5. CASE OnReceiveResponse \/ OnReceiveRedirect
    BY <2>5, OnReceiveAnswerWhole
  <2>6. CASE OnComplete
    BY <2>6, CompleteWhole, ErrorWhole DEF OnComplete
  <2>7. CASE HeaderClientGone
    BY <2>7, GoneWhole
  <2> QED
    BY <1>4, <2>1, <2>2, <2>3, <2>4, <2>5, <2>6, <2>7 DEF Messages
<1>5. CASE NetworkService
  <2>1. CASE LoaderAsks
    BY <2>1, LoaderAsksWhole
  <2>2. CASE LoaderResponds \/ LoaderRedirects
    BY <2>2, LoaderAnswersWhole
  <2>3. CASE LoaderRetries
    BY <2>3, LoaderRetriesWhole
  <2>4. CASE LoaderCompletes
    BY <2>4, LoaderCompletesWhole
  <2>5. CASE LoaderFails
    BY <2>5, LoaderFailsWhole
  <2>6. CASE NetworkServiceDies
    BY <2>6, NetworkServiceDiesWhole
  <2> QED
    BY <1>5, <2>1, <2>2, <2>3, <2>4, <2>5, <2>6 DEF NetworkService
<1>6. CASE UNCHANGED vars
  <2>1. q' = q /\ posted' = posted /\ rounds' = rounds
    BY <1>6 DEF vars
  <2>2. TypeOK' /\ Whole'
    <3>1. TypeOK /\ Whole
      BY DEF IInv
    <3>2. TypeOK'
      BY <2>1, <3>1 DEF TypeOK
    <3>3. Whole'
      BY <2>1, <3>1 DEF Whole
    <3> QED
      BY <3>2, <3>3
  <2> QED
    BY <2>2 DEF IInv
<1>7. CASE Mistakes
  BY <1>7, MistakeWhole DEF Mistakes
<1> QED
  BY <1>1, <1>2, <1>3, <1>4, <1>5, <1>6, <1>7 DEF Next

THEOREM Invariance == ~Recreates /\ Spec => []IInv
<1>1. Init /\ ~Recreates => IInv
  BY InitWhole
<1>2. IInv /\ [Next]_vars => IInv'
  BY StepWhole
<1> QED
  BY <1>1, <1>2, PTL DEF Spec

-----------------------------------------------------------------------------
(* What the invariant says of every request.                               *)
LEMMA SituationHistory ==
    ASSUME IInv
    PROVE  History(q)
<1>1. CASE Unborn(q)
  BY <1>1, HistoryEmpty DEF Unborn
<1>2. CASE ~Unborn(q)
  BY <1>2 DEF IInv, Whole, Quiet, Questioned, Answered, Ready, Alive, Over
<1> QED
  BY <1>1, <1>2

(* The events of a request come in their order, none is skipped, nothing   *)
(* comes after the last one, and after "cancel" there is only the error,   *)
(* for any number of redirects and authentications.                        *)
(* (RestartInternal to OnRequestError)                                     *)
THEOREM EventsInOrderHolds == ~Recreates /\ Spec => []EventsInOrder
<1>1. IInv => EventsInOrder
  BY SituationHistory DEF EventsInOrder, History, InOrder
<1> QED
  BY <1>1, Invariance, PTL

(* A page sees of its request what JavaScript is told, in the same order,  *)
(* and no end of it is kept from JavaScript.  (target_client_)             *)
THEOREM ClientAgreesHolds == ~Recreates /\ Spec => []ClientAgrees
<1>1. IInv => ClientAgrees
  BY SituationHistory DEF ClientAgrees, History, Agrees, Visible, UpTo
<1> QED
  BY <1>1, Invariance, PTL

(* JavaScript has no callback of a request that lives but that of the      *)
(* entry, at most one answer is posted, none while a question is open, and *)
(* no entry outlives its request.  (blocked_requests_)                     *)
THEOREM OneQuestionHolds == ~Recreates /\ Spec => []OneQuestion
<1>1. ASSUME IInv PROVE OneQuestion
  <2>1. CASE Unborn(q) /\ posted = <<>>
    BY <2>1 DEF OneQuestion, Unborn, Away, Live
  <2>2. CASE Quiet(q) /\ posted = <<>>
    BY <2>2 DEF OneQuestion, Quiet, Ready, Unasked, Alive, Live
  <2>3. CASE Questioned(q) /\ posted = <<>>
    BY <2>3, NoEntryIsNone DEF OneQuestion, Questioned, Alive, Live
  <2>4. CASE Len(posted) = 1 /\ Answered(q, Head(posted))
    BY <2>4 DEF OneQuestion, Answered, Ready, Unasked, Alive, Live
  <2>5. CASE Len(posted) <= 1 /\ Over(q)
    BY <2>5 DEF OneQuestion, Over, Away, Live
  <2> QED
    BY <1>1, <2>1, <2>2, <2>3, <2>4, <2>5 DEF IInv, Whole
<1> QED
  BY <1>1, Invariance, PTL

(* A callback of the loader is kept by a request that lives, over a pipe   *)
(* that is open, and the loader waits for that one or has ended.           *)
(* (on_before_send_headers_callback_, on_headers_received_callback_)       *)
THEOREM HeldIsAwaitedHolds == ~Recreates /\ Spec => []HeldIsAwaited
<1>1. ASSUME IInv, q.held # "none" PROVE HeldIsAwaited
  <2>1. Live
    BY <1>1, NotLiveAway DEF Away
  <2>2. PICK w : Linked(q, w, Place(q, w))
    BY <1>1, <2>1, Waiting
  <2>3. q.held \in {"onBeforeSendHeaders", "onHeadersReceived"}
    BY <1>1, <2>2 DEF Linked, Holds
  <2> QED
    BY <1>1, <2>1, <2>2, <2>3 DEF HeldIsAwaited, Linked, Holds
<1>2. IInv => HeldIsAwaited
  BY <1>1 DEF HeldIsAwaited
<1> QED
  BY <1>2, Invariance, PTL

(* A factory that lost its pipes stays for its request, and no longer.     *)
(* (MaybeDeleteThis)                                                       *)
THEOREM FactoryStaysForRequestHolds == ~Recreates /\ Spec => []FactoryStaysForRequest
<1>1. ASSUME IInv PROVE FactoryStaysForRequest
  <2>1. CASE Unborn(q)
    BY <1>1, <2>1 DEF FactoryStaysForRequest, Unborn, IInv
  <2>2. CASE Alive(q)
    BY <1>1, <2>2 DEF FactoryStaysForRequest, Alive, Live, IInv
  <2>3. CASE Over(q)
    <3>1. q.factory \in {"bound", "unbound", "deleted"}
      BY <2>3 DEF Over, Request
    <3> QED
      BY <1>1, <2>3, <3>1 DEF FactoryStaysForRequest, Over, Live, IInv
  <2> QED
    BY <1>1, <2>1, <2>2, <2>3 DEF IInv, Whole, Quiet, Questioned, Answered, Ready
<1> QED
  BY <1>1, Invariance, PTL

(* A step of the loader or of the factory tells JavaScript nothing.        *)
LEMMA SilentStep ==
    ASSUME IInv, NetworkService \/ OnProxyBindingError \/ OnLoaderCreated
    PROVE  q'.log = q.log
<1>1. q \in Request
  BY DEF IInv, TypeOK
<1>2. CASE NetworkService
  BY <1>1, <1>2 DEF NetworkService, LoaderAsks, LoaderResponds, LoaderRedirects,
       LoaderRetries, LoaderCompletes, LoaderFails, NetworkServiceDies,
       MaybeDeleteThis, Request
<1>3. CASE OnProxyBindingError
  BY <1>1, <1>3 DEF OnProxyBindingError, MaybeDeleteThis, Request
<1>4. CASE OnLoaderCreated
  BY <1>1, <1>4 DEF OnLoaderCreated, Request
<1> QED
  BY <1>2, <1>3, <1>4

(* An answer writes nothing but "cancel".                                  *)
LEMMA AnswerLogs ==
    ASSUME IInv, Questioned(q),
           NEW c \in q.callbacks, NEW answer \in Answers, ListenerResult(c, answer)
    PROVE  q'.log \in {q.log, Append(q.log, "cancel")}
<1>1. PICK r \in Request : r = q /\ c.stage = r.blocked.stage /\ r.blocked # NoEntry
  BY NoEntryIsNone DEF Questioned, Alive
<1>2. PICK s \in Request : s = Forget([r EXCEPT !.callbacks = @ \ {c}])
  <2>1. [r EXCEPT !.callbacks = @ \ {c}] \in Request
    BY DEF Request
  <2> QED
    BY <2>1, ForgetType
<1>3. s.log = r.log
  BY <1>2 DEF Forget, Request
<1>4. q' = IF answer = "cancel" THEN Emit(s, "cancel") ELSE s
  BY <1>1, <1>2 DEF ListenerResult, Extract
<1>5. Emit(s, "cancel").log = Append(r.log, "cancel")
  BY <1>3, EmitFrame DEF Events
<1> QED
  BY <1>1, <1>3, <1>4, <1>5

LEMMA OpenQuestionWaits ==
    ASSUME IInv, Next, q.blocked # NoEntry
    PROVE  q'.log \in {q.log, Append(q.log, "cancel"), Append(q.log, "onErrorOccurred")}
<1>1. Questioned(q) /\ posted = <<>>
  BY DEF IInv, Whole, Unborn, Quiet, Answered, Ready, Unasked, Over, Away
<1>2. q.state = "live" /\ q.blocked.then # "none"
      /\ Linked(q, q.blocked.then, q.blocked.stage)
  BY <1>1 DEF Questioned, Alive, Entry, Nexts
<1>3. CASE Listeners
  BY <1>1, <1>3, AnswerLogs DEF Listeners
<1>4. ~RunPosted
  BY <1>1 DEF RunPosted
<1>5. CASE Client
  <2>1. ~CreateLoaderAndStart
    BY <1>2 DEF CreateLoaderAndStart
  <2>2. ~FollowRedirect
    BY <1>2 DEF FollowRedirect, Linked, Fits
  <2> QED
    BY <1>5, <2>1, <2>2, GoneWhole, SilentStep DEF Client
<1>6. CASE Messages
  <2>1. ~OnLoaderForCorsPreflightCreated
    BY <1>2 DEF OnLoaderForCorsPreflightCreated
  <2>2. ~OnBeforeSendHeaders /\ ~OnHeadersReceived
    BY OnBeforeSendHeadersWhole, OnHeadersReceivedWhole
  <2>3. ~OnReceiveResponse /\ ~OnReceiveRedirect
    BY OnReceiveAnswerWhole
  <2>4. CASE OnComplete
    BY <2>4, CompleteWhole, ErrorWhole DEF OnComplete
  <2> QED
    BY <1>6, <2>1, <2>2, <2>3, <2>4, GoneWhole, SilentStep DEF Messages
<1>7. CASE NetworkService
  BY <1>7, SilentStep
<1>8. CASE Mistakes
  BY <1>8, MistakeWhole DEF Mistakes
<1> QED
  BY <1>3, <1>4, <1>5, <1>6, <1>7, <1>8 DEF Next

(* While a listener is asked, nothing is told of the request but that it   *)
(* is cancelled or fails.  (RestartInternal pauses both pipes)             *)
THEOREM FutureEventsWaitHolds == ~Recreates /\ Spec => FutureEventsWait
<1>1. IInv /\ [Next]_vars =>
        [q.blocked # NoEntry =>
           q'.log \in {q.log, Append(q.log, "cancel"),
                       Append(q.log, "onErrorOccurred")}]_vars
  BY OpenQuestionWaits
<1> QED
  BY <1>1, Invariance, PTL DEF Spec, FutureEventsWait
=============================================================================
