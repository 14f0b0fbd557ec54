------------------------ MODULE PermissionManagerProofs ------------------------
(***************************************************************************)
(* Theorems about PermissionManager, for any requests, pages and sizes of  *)
(* batches: who is answered, how often, and with what.                     *)
(***************************************************************************)
EXTENDS PermissionManager, FiniteSetTheorems, SequenceTheorems, TLAPS

Answer == [results : Batches, reason : Reasons]

Elements(s) == {s[k] : k \in 1..Len(s)}

(* At most one loop over a batch is in progress, the outermost call: pages *)
(* ask in tasks of their own.                                              *)
RequestLast(s) == \A k \in 1..Len(s) : s[k].call = "request" => k = Len(s)

(* Whom an id that is still in use was given to.                           *)
Known(id, r) == \/ \E c \in callbacks : c.id = id /\ c.request = r
                \/ id \in Pending /\ pending_requests_[id].request = r
                \/ \E f \in Asking : f.id = id /\ f.request = r

Names ==
    /\ \A id, r : Known(id, r) => id < next_id /\ page[r] # "none"
    /\ \A id1, id2, r1, r2 : Known(id1, r1) /\ Known(id2, r2) => (id1 = id2 <=> r1 = r2)

Replied ==
    /\ \A id \in Pending : pending_requests_[id].callback_ <=>
                             replies[pending_requests_[id].request] = <<>>
    /\ \A r \in Requests : page[r] = "none" => replies[r] = <<>>
    /\ AnsweredOnce

Heard ==
    /\ Pending # {} => request_handler_
    /\ \A r \in Requests :
         page[r] # "none" /\ r \notin gone /\ replies[r] = <<>> =>
           \E id \in Pending : pending_requests_[id].request = r
    /\ \A f \in InProgress :
         f.call = "response" /\ f.id \in Pending => ~pending_requests_[f.id].callback_
    /\ \A f \in InProgress : f.call = "clear" =>
         \A id \in Pending \ f.todo :
           pending_requests_[id].callback_ => pending_requests_[id].request \in gone

Decided ==
    /\ \A c \in callbacks : decisions[c.request][c.i] = "none"
    /\ \A f \in Asking : \A j \in f.i + 1 .. f.n : decisions[f.request][j] = "none"
    /\ \A f \in Asking : f.i <= f.n
    /\ \A f \in Asking, c \in callbacks : c.id = f.id => c.i <= f.i
    /\ \A r \in Requests : page[r] = "none" =>
         \A i \in 1..MaxBatch : decisions[r][i] = "none"
    /\ DecidedByItsOwn

CountOf(id, e) ==
    /\ Undecided(id) \subseteq 1..Len(e.results_)
    /\ e.remaining_results_ = Cardinality(Undecided(id))
    /\ \A i \in 1..Len(e.results_) :
         IF i \in Undecided(id) THEN e.results_[i] = "denied"
                                ELSE e.results_[i] = decisions[e.request][i]

Counted == \A id \in Pending : CountOf(id, pending_requests_[id])

(* The types, but for the callbacks that were used up in vain: no step     *)
(* reads these except to refuse them.                                      *)
Typed ==
    /\ request_handler_ \in BOOLEAN
    /\ Pending \subseteq Ids
    /\ \A id \in Pending : pending_requests_[id] \in PendingRequest
    /\ next_id \in Ids
    /\ frames \in Seq(Frame)
    /\ callbacks \subseteq Callback
    /\ crashed \in BOOLEAN
    /\ page \in [Requests -> WebContents \cup {"none"}]
    /\ alive \subseteq WebContents
    /\ gone \subseteq Requests
    /\ replies \in [Requests -> Seq([results : Batches, reason : Reasons])]
    /\ decisions \in [Requests -> [1..MaxBatch -> Statuses \cup {"none"}]]

IInv == /\ Typed
        /\ RequestLast(frames)
        /\ Names
        /\ Replied
        /\ Heard
        /\ Decided
        /\ Counted

-----------------------------------------------------------------------------
(* A call on top of the others.                                            *)
LEMMA OnTop ==
    ASSUME NEW s \in Seq(Frame), NEW f \in Frame
    PROVE  /\ <<f>> \o s \in Seq(Frame)
           /\ Elements(<<f>> \o s) = {f} \cup Elements(s)
           /\ RequestLast(s) /\ (f.call # "request" \/ s = <<>>) => RequestLast(<<f>> \o s)
<1> DEFINE t == <<f>> \o s
<1>1. <<f>> \in Seq(Frame) /\ Len(<<f>>) = 1 /\ <<f>>[1] = f
  OBVIOUS
<1>2. /\ t \in Seq(Frame)
      /\ Len(t) = 1 + Len(s)
      /\ \A k \in 1..Len(t) : t[k] = IF k <= 1 THEN <<f>>[k] ELSE s[k - 1]
  BY <1>1, ConcatProperties
<1>3. Len(s) \in Nat
  BY LenProperties
<1> HIDE DEF t
<1>4. t[1] = f /\ \A k \in 1..Len(s) : t[k + 1] = s[k]
  <2>1. \A k \in 1..Len(s) : k + 1 \in 1..Len(t) /\ ~(k + 1 <= 1) /\ k + 1 - 1 = k
    BY <1>2, <1>3
  <2>2. 1 \in 1..Len(t)
    BY <1>2, <1>3
  <2> QED
    BY <1>1, <1>2, <2>1, <2>2
<1>5. \A k \in 1..Len(t) : k = 1 \/ (k - 1 \in 1..Len(s) /\ t[k] = s[k - 1])
  BY <1>2, <1>3
<1>6. Elements(t) = {f} \cup Elements(s)
  <2>1. ASSUME NEW x \in Elements(t) PROVE x \in {f} \cup Elements(s)
    BY <1>4, <1>5 DEF Elements
  <2>2. ASSUME NEW x \in Elements(s) PROVE x \in Elements(t)
    <3>1. PICK k \in 1..Len(s) : x = s[k]
      BY DEF Elements
    <3>2. k + 1 \in 1..Len(t) /\ t[k + 1] = x
      BY <1>2, <1>3, <1>4, <3>1
    <3> QED
      BY <3>2 DEF Elements
  <2>3. f \in Elements(t)
    <3>1. 1 \in 1..Len(t)
      BY <1>2, <1>3
    <3> QED
      BY <1>4, <3>1 DEF Elements
  <2> QED
    BY <2>1, <2>2, <2>3
<1>7. ASSUME RequestLast(s), f.call # "request" \/ s = <<>>
      PROVE  RequestLast(t)
  <2> SUFFICES ASSUME NEW k \in 1..Len(t), t[k].call = "request"
               PROVE  k = Len(t)
    BY DEF RequestLast
  <2>1. CASE k = 1
    <3>1. s = <<>>
      BY <1>4, <1>7, <2>1
    <3> QED
      BY <1>2, <2>1, <3>1
  <2>2. CASE k # 1
    <3>1. k - 1 \in 1..Len(s) /\ s[k - 1].call = "request"
      BY <1>5, <2>2
    <3>2. k - 1 = Len(s)
      BY <1>7, <3>1 DEF RequestLast
    <3> QED
      BY <1>2, <1>3, <3>2
  <2> QED
    BY <2>1, <2>2
<1> QED
  BY <1>2, <1>6, <1>7 DEF t

(* Two calls on top of the others.                                         *)
LEMMA TwoOnTop ==
    ASSUME NEW s \in Seq(Frame), NEW f \in Frame, NEW g \in Frame,
           f.call # "request", g.call # "request"
    PROVE  /\ <<f, g>> \o s \in Seq(Frame)
           /\ Elements(<<f, g>> \o s) = {f, g} \cup Elements(s)
           /\ RequestLast(s) => RequestLast(<<f, g>> \o s)
<1>1. <<f, g>> \o s = <<f>> \o (<<g>> \o s)
  <2>1. <<f>> \in Seq(Frame) /\ <<g>> \in Seq(Frame)
    OBVIOUS
  <2>2. <<f, g>> = Append(<<f>>, g)
    OBVIOUS
  <2>3. Append(<<f>>, g) = <<f>> \o <<g>>
    BY <2>1, AppendIsConcat
  <2> QED
    BY <2>1, <2>2, <2>3, ConcatAssociative
<1>2. PICK t \in Seq(Frame) : t = <<g>> \o s
  BY OnTop
<1>3. Elements(t) = {g} \cup Elements(s) /\ (RequestLast(s) => RequestLast(t))
  BY <1>2, OnTop
<1>4. /\ <<f>> \o t \in Seq(Frame)
      /\ Elements(<<f>> \o t) = {f} \cup Elements(t)
      /\ RequestLast(t) => RequestLast(<<f>> \o t)
  BY OnTop
<1> QED
  BY <1>1, <1>2, <1>3, <1>4

(* The call on top returns.                                                *)
LEMMA OffTop ==
    ASSUME NEW s \in Seq(Frame), s # <<>>
    PROVE  /\ Tail(s) \in Seq(Frame)
           /\ Head(s) \in Frame
           /\ Elements(s) = {Head(s)} \cup Elements(Tail(s))
           /\ RequestLast(s) => /\ RequestLast(Tail(s))
                                /\ Head(s).call = "request" => Tail(s) = <<>>
<1> DEFINE t == Tail(s)
<1>1. /\ t \in Seq(Frame)
      /\ Head(s) \in Frame
      /\ Len(t) = Len(s) - 1
      /\ \A k \in 1..Len(t) : t[k] = s[k + 1]
  BY HeadTailProperties
<1>2. Len(s) \in Nat /\ Len(s) >= 1 /\ Head(s) = s[1]
  BY EmptySeq, LenProperties
<1>3. Len(t) = 0 => t = <<>>
  BY <1>1, EmptySeq
<1> HIDE DEF t
<1>4. \A k \in 1..Len(s) : k = 1 \/ (k - 1 \in 1..Len(t) /\ t[k - 1] = s[k])
  <2>1. \A k \in 1..Len(s) : k = 1 \/ (k - 1 \in 1..Len(t) /\ (k - 1) + 1 = k)
    BY <1>1, <1>2
  <2> QED
    BY <1>1, <2>1
<1>5. \A k \in 1..Len(t) : k + 1 \in 1..Len(s)
  BY <1>1, <1>2
<1>6. Elements(s) = {Head(s)} \cup Elements(t)
  <2>1. ASSUME NEW x \in Elements(s) PROVE x \in {Head(s)} \cup Elements(t)
    BY <1>2, <1>4 DEF Elements
  <2>2. ASSUME NEW x \in Elements(t) PROVE x \in Elements(s)
    BY <1>1, <1>5 DEF Elements
  <2>3. Head(s) \in Elements(s)
    <3>1. 1 \in 1..Len(s)
      BY <1>2
    <3> QED
      BY <1>2, <3>1 DEF Elements
  <2> QED
    BY <2>1, <2>2, <2>3
<1>7. ASSUME RequestLast(s)
      PROVE  RequestLast(t) /\ (Head(s).call = "request" => t = <<>>)
  <2>1. RequestLast(t)
    <3> SUFFICES ASSUME NEW k \in 1..Len(t), t[k].call = "request"
                 PROVE  k = Len(t)
      BY DEF RequestLast
    <3>1. k + 1 = Len(s)
      BY <1>1, <1>5, <1>7 DEF RequestLast
    <3> QED
      BY <1>1, <1>2, <3>1
  <2>2. ASSUME Head(s).call = "request" PROVE t = <<>>
    <3>1. 1 \in 1..Len(s)
      BY <1>2
    <3>2. 1 = Len(s)
      BY <1>2, <1>7, <2>2, <3>1 DEF RequestLast
    <3> QED
      BY <1>1, <1>3, <3>2
  <2> QED
    BY <2>1, <2>2
<1> QED
  BY <1>1, <1>6, <1>7 DEF t

-----------------------------------------------------------------------------
(* A batch that is answered as a whole.                                    *)
LEMMA SameForAll ==
    ASSUME NEW n \in 0..MaxBatch, NEW status \in Statuses
    PROVE  /\ [i \in 1..n |-> status] \in Batches
           /\ Len([i \in 1..n |-> status]) = n
           /\ \A i \in 1..n : [j \in 1..n |-> status][i] = status
<1> DEFINE s == [i \in 1..n |-> status]
<1>1. n \in Nat /\ n <= MaxBatch
  BY BatchAssumption
<1>2. s \in [1..n -> Statuses]
  OBVIOUS
<1>3. s \in Seq(Statuses)
  BY <1>1, <1>2, SeqDef
<1>4. DOMAIN s = 1..n
  OBVIOUS
<1>5. Len(s) = n
  BY <1>1, <1>3, <1>4, LenProperties
<1> QED
  BY <1>1, <1>3, <1>5 DEF Batches

(* One permission of a batch is decided.                                   *)
LEMMA OneDecided ==
    ASSUME NEW e \in PendingRequest, NEW i \in 1..Len(e.results_), NEW status \in Statuses,
           e.remaining_results_ > 0
    PROVE  LET d == SetPermissionStatus(e, i, status) IN
             /\ d \in PendingRequest
             /\ d.request = e.request
             /\ d.callback_ = e.callback_
             /\ d.remaining_results_ = e.remaining_results_ - 1
             /\ Len(d.results_) = Len(e.results_)
             /\ \A j \in 1..Len(e.results_) :
                  d.results_[j] = IF j = i THEN status ELSE e.results_[j]
<1> DEFINE d == SetPermissionStatus(e, i, status)
           s == [e.results_ EXCEPT ![i] = status]
<1>1. /\ e.results_ \in Seq(Statuses)
      /\ Len(e.results_) <= MaxBatch
      /\ e.request \in Requests
      /\ e.callback_ \in BOOLEAN
      /\ e.remaining_results_ \in 0..MaxBatch
  BY DEF PendingRequest, Batches
<1>2. /\ s \in Seq(Statuses)
      /\ Len(s) = Len(e.results_)
      /\ \A j \in 1..Len(e.results_) : s[j] = IF j = i THEN status ELSE e.results_[j]
  BY <1>1, ExceptSeq
<1>3. d = [request |-> e.request, results_ |-> s, callback_ |-> e.callback_,
           remaining_results_ |-> e.remaining_results_ - 1]
  <2>1. e = [request |-> e.request, results_ |-> e.results_, callback_ |-> e.callback_,
             remaining_results_ |-> e.remaining_results_]
    BY DEF PendingRequest
  <2>2. d = [[e EXCEPT !.results_ = s] EXCEPT !.remaining_results_ = e.remaining_results_ - 1]
    BY ZenonT(30) DEF SetPermissionStatus
  <2> HIDE DEF s, d
  <2> QED
    BY <2>1, <2>2
<1>4. e.remaining_results_ - 1 \in 0..MaxBatch
  BY <1>1, BatchAssumption
<1>5. s \in Batches
  BY <1>1, <1>2 DEF Batches
<1> HIDE DEF s, d
<1>6. d \in PendingRequest
  BY <1>1, <1>3, <1>4, <1>5 DEF PendingRequest
<1> QED
  BY <1>2, <1>3, <1>6 DEF d

(* A page is answered.                                                     *)
LEMMA Replying ==
    ASSUME replies \in [Requests -> Seq(Answer)],
           NEW r \in Requests, NEW results \in Batches, NEW reason \in Reasons,
           Reply(r, results, reason)
    PROVE  /\ replies' \in [Requests -> Seq(Answer)]
           /\ \A q \in Requests \ {r} : replies'[q] = replies[q]
           /\ replies'[r] # <<>>
           /\ replies[r] = <<>> => /\ Len(replies'[r]) = 1
                                   /\ replies'[r][1] = [results |-> results, reason |-> reason]
<1> DEFINE a == [results |-> results, reason |-> reason]
<1>1. a \in Answer
  BY DEF Answer
<1> HIDE DEF a
<1>2. /\ replies' = [replies EXCEPT ![r] = Append(replies[r], a)]
  BY DEF Reply, a
<1>3. replies[r] \in Seq(Answer)
  OBVIOUS
<1>4. /\ Append(replies[r], a) \in Seq(Answer)
      /\ Len(Append(replies[r], a)) = Len(replies[r]) + 1
      /\ Append(replies[r], a)[Len(replies[r]) + 1] = a
  BY <1>1, <1>3, AppendProperties
<1>5. Len(replies[r]) \in Nat
  BY <1>3, LenProperties
<1>6. Append(replies[r], a) # <<>>
  BY <1>4, <1>5
<1>7. ASSUME replies[r] = <<>>
      PROVE  Len(Append(replies[r], a)) = 1 /\ Append(replies[r], a)[1] = a
  BY <1>4, <1>7
<1> QED
  BY <1>2, <1>3, <1>4, <1>6, <1>7 DEF a

-----------------------------------------------------------------------------
LEMMA Frames ==
    /\ [call |-> "reply"] \in Frame
    /\ \A id \in Ids : [call |-> "response", id |-> id] \in Frame
    /\ \A ids \in SUBSET Ids : [call |-> "clear", todo |-> ids] \in Frame
    /\ \A id \in Ids, r \in Requests, n \in 1..MaxBatch, i \in 1..MaxBatch :
         [call |-> "request", id |-> id, request |-> r, n |-> n, i |-> i] \in Frame
<1> DEFINE A == [call : {"request"}, id : Ids, request : Requests, n : 1..MaxBatch,
                 i : 1..MaxBatch]
           B == [call : {"response"}, id : Ids]
           C == [call : {"reply"}]
           D == [call : {"clear"}, todo : SUBSET Ids]
<1>1. Frame = A \cup B \cup C \cup D
  BY DEF Frame
<1>2. [call |-> "reply"] \in C
  OBVIOUS
<1>3. \A id \in Ids : [call |-> "response", id |-> id] \in B
  OBVIOUS
<1>4. \A ids \in SUBSET Ids : [call |-> "clear", todo |-> ids] \in D
  OBVIOUS
<1>5. \A id \in Ids, r \in Requests, n \in 1..MaxBatch, i \in 1..MaxBatch :
         [call |-> "request", id |-> id, request |-> r, n |-> n, i |-> i] \in A
  OBVIOUS
<1> HIDE DEF A, B, C, D
<1> QED
  BY <1>1, <1>2, <1>3, <1>4, <1>5

LEMMA FrameFields ==
    \A f \in Frame :
      /\ f.call = "request" => /\ f.id \in Ids
                               /\ f.request \in Requests
                               /\ f.n \in 1..MaxBatch
                               /\ f.i \in 1..MaxBatch
                               /\ f = [call |-> "request", id |-> f.id, request |-> f.request,
                                       n |-> f.n, i |-> f.i]
      /\ f.call = "response" => f.id \in Ids
      /\ f.call = "clear" => f.todo \in SUBSET Ids /\ f = [call |-> "clear", todo |-> f.todo]
BY DEF Frame

(* The call on top is a frame.                                             *)
LEMMA TopFrame ==
    ASSUME Typed, NEW call, In(call)
    PROVE  /\ frames \in Seq(Frame)
           /\ frames # <<>>
           /\ Head(frames) \in Frame
           /\ Head(frames).call = call
           /\ Tail(frames) \in Seq(Frame)
BY OffTop DEF Typed, In

LEMMA InitTypes == Init => Typed
<1> SUFFICES ASSUME Init PROVE Typed
  OBVIOUS
<1>1. request_handler_ \in BOOLEAN /\ crashed \in BOOLEAN /\ alive \subseteq WebContents
      /\ gone \subseteq Requests /\ callbacks \subseteq Callback
  BY DEF Init
<1>2. Pending = {}
  BY DEF Init, Pending
<1>3. next_id \in Ids
  BY DEF Init, Ids
<1>4. frames \in Seq(Frame)
  BY DEF Init
<1>5. page \in [Requests -> WebContents \cup {"none"}]
  BY DEF Init
<1>6. replies \in [Requests -> Seq([results : Batches, reason : Reasons])]
  <2> DEFINE S == [results : Batches, reason : Reasons]
  <2>1. <<>> \in Seq(S)
    OBVIOUS
  <2> HIDE DEF S
  <2>2. replies \in [Requests -> Seq(S)]
    BY <2>1 DEF Init
  <2> QED
    BY <2>2 DEF S
<1>7. decisions \in [Requests -> [1..MaxBatch -> Statuses \cup {"none"}]]
  BY DEF Init
<1> QED
  BY <1>1, <1>2, <1>3, <1>4, <1>5, <1>6, <1>7 DEF Typed

(* The type invariant in two parts, since most steps change few variables. *)
EntryTypes  == /\ Pending \subseteq Ids
               /\ \A id \in Pending : pending_requests_[id] \in PendingRequest
ScalarTypes == /\ request_handler_ \in BOOLEAN
               /\ next_id \in Ids
               /\ callbacks \subseteq Callback
               /\ crashed \in BOOLEAN
               /\ page \in [Requests -> WebContents \cup {"none"}]
               /\ alive \subseteq WebContents
               /\ gone \subseteq Requests
               /\ decisions \in [Requests -> [1..MaxBatch -> Statuses \cup {"none"}]]

LEMMA TypeParts ==
    Typed <=> EntryTypes /\ ScalarTypes /\ frames \in Seq(Frame)
                 /\ replies \in [Requests -> Seq(Answer)]
BY DEF Typed, EntryTypes, ScalarTypes, Answer

(* Entries are dropped, or lose the callback of their page.                *)
Drops ==
    /\ Pending' \subseteq Pending
    /\ \A id \in Pending' :
         LET e == pending_requests_[id]  d == pending_requests_'[id] IN
           d = e \/ (e \in PendingRequest /\ d = MoveCallback(e))

LEMMA Moved ==
    ASSUME NEW e \in PendingRequest
    PROVE  /\ MoveCallback(e) \in PendingRequest
           /\ MoveCallback(e).request = e.request
           /\ MoveCallback(e).results_ = e.results_
           /\ MoveCallback(e).remaining_results_ = e.remaining_results_
           /\ MoveCallback(e).callback_ = FALSE
BY DEF MoveCallback, PendingRequest

LEMMA DropsTypes == EntryTypes /\ Drops => EntryTypes'
<1> SUFFICES ASSUME EntryTypes, Drops PROVE EntryTypes'
  OBVIOUS
<1>1. Pending' \subseteq Ids
  BY DEF EntryTypes, Drops
<1>2. ASSUME NEW id \in Pending' PROVE pending_requests_'[id] \in PendingRequest
  BY Moved DEF EntryTypes, Drops
<1> QED
  BY <1>1, <1>2 DEF EntryTypes

(* The ways in which the code drops them.                                  *)
LEMMA WithoutDrops ==
    ASSUME NEW ids, pending_requests_' = Without(ids)
    PROVE  /\ Drops
           /\ Pending' = Pending \ ids
           /\ \A id \in Pending' : pending_requests_'[id] = pending_requests_[id]
BY DEF Without, Drops, Pending

LEMMA MoveDrops ==
    ASSUME EntryTypes, NEW id \in Pending,
           pending_requests_' = [pending_requests_ EXCEPT ![id] =
                                   MoveCallback(pending_requests_[id])]
    PROVE  /\ Drops
           /\ Pending' = Pending
           /\ pending_requests_'[id] = MoveCallback(pending_requests_[id])
           /\ \A k \in Pending \ {id} : pending_requests_'[k] = pending_requests_[k]
<1>1. Pending' = Pending
  BY DEF Pending
<1>2. pending_requests_'[id] = MoveCallback(pending_requests_[id])
  BY DEF Pending
<1>3. \A k \in Pending \ {id} : pending_requests_'[k] = pending_requests_[k]
  BY DEF Pending
<1>4. pending_requests_[id] \in PendingRequest
  BY DEF EntryTypes
<1> QED
  BY <1>1, <1>2, <1>3, <1>4 DEF Drops

LEMMA SameDrops == UNCHANGED pending_requests_ => Drops /\ Pending' = Pending
BY DEF Drops, Pending

-----------------------------------------------------------------------------
(* The bottom call, if it is a loop over a batch, and the frames' fields.  *)
LEMMA AskingTypes ==
    ASSUME frames \in Seq(Frame)
    PROVE  /\ InProgress \subseteq Frame
           /\ \A f \in Asking : /\ f.id \in Ids /\ f.request \in Requests
                                /\ f.n \in 1..MaxBatch /\ f.i \in 1..MaxBatch
           /\ InProgress = Elements(frames)
<1>1. \A k \in 1..Len(frames) : frames[k] \in Frame
  BY ElementOfSeq
<1>2. InProgress \subseteq Frame
  BY <1>1 DEF InProgress
<1>3. \A f \in Asking : f \in Frame /\ f.call = "request"
  BY <1>2 DEF Asking
<1> QED
  BY <1>2, <1>3, FrameFields DEF InProgress, Elements

LEMMA CallbackTypes ==
    ASSUME callbacks \subseteq Callback
    PROVE  \A c \in callbacks : c.request \in Requests /\ c.id \in Ids /\ c.i \in 1..MaxBatch
BY DEF Callback

LEMMA EntryFields ==
    ASSUME EntryTypes
    PROVE  \A id \in Pending :
             /\ id \in Ids
             /\ pending_requests_[id] \in PendingRequest
             /\ pending_requests_[id].request \in Requests
             /\ pending_requests_[id].results_ \in Seq(Statuses)
             /\ pending_requests_[id].results_ \in Batches
             /\ Len(pending_requests_[id].results_) \in 0..MaxBatch
             /\ pending_requests_[id].callback_ \in BOOLEAN
             /\ pending_requests_[id].remaining_results_ \in 0..MaxBatch
<1> SUFFICES ASSUME NEW id \in Pending
             PROVE  /\ id \in Ids
                    /\ pending_requests_[id] \in PendingRequest
                    /\ pending_requests_[id].request \in Requests
                    /\ pending_requests_[id].results_ \in Seq(Statuses)
                    /\ pending_requests_[id].results_ \in Batches
                    /\ Len(pending_requests_[id].results_) \in 0..MaxBatch
                    /\ pending_requests_[id].callback_ \in BOOLEAN
                    /\ pending_requests_[id].remaining_results_ \in 0..MaxBatch
  OBVIOUS
<1>1. id \in Ids /\ pending_requests_[id] \in PendingRequest
  BY DEF EntryTypes
<1>2. /\ pending_requests_[id].request \in Requests
      /\ pending_requests_[id].results_ \in Batches
      /\ pending_requests_[id].callback_ \in BOOLEAN
      /\ pending_requests_[id].remaining_results_ \in 0..MaxBatch
  BY <1>1 DEF PendingRequest
<1>3. /\ pending_requests_[id].results_ \in Seq(Statuses)
      /\ Len(pending_requests_[id].results_) <= MaxBatch
  BY <1>2 DEF Batches
<1>4. Len(pending_requests_[id].results_) \in Nat
  BY <1>3, LenProperties
<1> QED
  BY <1>1, <1>2, <1>3, <1>4, BatchAssumption

LEMMA KnownTypes ==
    ASSUME EntryTypes, ScalarTypes, frames \in Seq(Frame), NEW id, NEW r, Known(id, r)
    PROVE  id \in Ids /\ r \in Requests
<1>1. CASE \E c \in callbacks : c.id = id /\ c.request = r
  BY <1>1, CallbackTypes DEF ScalarTypes
<1>2. CASE id \in Pending /\ pending_requests_[id].request = r
  BY <1>2, EntryFields
<1>3. CASE \E f \in Asking : f.id = id /\ f.request = r
  BY <1>3, AskingTypes
<1> QED
  BY <1>1, <1>2, <1>3 DEF Known

(* A step in which nobody is asked and nothing is decided.                 *)
Quiet ==
    /\ Drops
    /\ Asking' = Asking
    /\ UNCHANGED <<callbacks, decisions, next_id>>
    /\ \A r \in Requests : page[r] # "none" => page'[r] = page[r]

(* Everything but the answers                                              *)
DecidedSoFar ==
    /\ \A c \in callbacks : decisions[c.request][c.i] = "none"
    /\ \A f \in Asking : \A j \in f.i + 1 .. f.n : decisions[f.request][j] = "none"
    /\ \A f \in Asking : f.i <= f.n
    /\ \A f \in Asking, c \in callbacks : c.id = f.id => c.i <= f.i
    /\ \A r \in Requests : page[r] = "none" =>
         \A i \in 1..MaxBatch : decisions[r][i] = "none"

LEMMA DecidedParts == Decided <=> DecidedSoFar /\ DecidedByItsOwn
BY DEF Decided, DecidedSoFar

LEMMA SameRequests ==
    ASSUME EntryTypes, Drops
    PROVE  \A id \in Pending' :
             /\ id \in Pending
             /\ pending_requests_'[id].request = pending_requests_[id].request
             /\ pending_requests_'[id].results_ = pending_requests_[id].results_
             /\ pending_requests_'[id].remaining_results_ =
                  pending_requests_[id].remaining_results_
             /\ pending_requests_'[id].callback_ => pending_requests_[id].callback_
BY Moved, EntryFields DEF Drops

(* Names are kept when only known ones are in use.                         *)
LEMMA FewerNames ==
    ASSUME EntryTypes, ScalarTypes, frames \in Seq(Frame), Names,
           \A id, r : Known(id, r)' => Known(id, r),
           next_id' = next_id,
           \A r \in Requests : page[r] # "none" => page'[r] # "none"
    PROVE  Names'
<1>1. ASSUME NEW id, NEW r, Known(id, r)'
      PROVE  id < next_id' /\ page'[r] # "none"
  BY <1>1, KnownTypes DEF Names
<1>2. ASSUME NEW id1, NEW id2, NEW r1, NEW r2, Known(id1, r1)', Known(id2, r2)'
      PROVE  id1 = id2 <=> r1 = r2
  BY <1>2 DEF Names
<1> QED
  BY <1>1, <1>2 DEF Names

LEMMA QuietKeeps ==
    ASSUME EntryTypes, ScalarTypes, frames \in Seq(Frame), Quiet,
           Names, DecidedSoFar, Counted
    PROVE  Names' /\ DecidedSoFar' /\ Counted'
<1>1. \A id, r : Known(id, r)' => Known(id, r)
  BY SameRequests DEF Known, Quiet
<1>2. Names'
  BY <1>1, FewerNames DEF Quiet
<1>3. DecidedSoFar'
  BY DEF DecidedSoFar, Quiet
<1>4. \A id : Undecided(id)' = Undecided(id)
  BY DEF Undecided, Quiet
<1>5. ASSUME NEW id \in Pending' PROVE CountOf(id, pending_requests_[id])'
  BY <1>4, SameRequests DEF Counted, CountOf, Quiet
<1> QED
  BY <1>2, <1>3, <1>5 DEF Counted

-----------------------------------------------------------------------------
(* The frames of a step in which no loop over a batch begins or goes on.   *)
LEMMA Pops ==
    ASSUME Typed, RequestLast(frames), NEW call, In(call), call # "request", Return
    PROVE  /\ frames' \in Seq(Frame)
           /\ RequestLast(frames')
           /\ Asking' = Asking
           /\ InProgress' \subseteq InProgress
           /\ Head(frames) \in InProgress
<1>1. frames \in Seq(Frame) /\ frames # <<>> /\ Head(frames).call = call
  BY TopFrame
<1>2. frames' = Tail(frames)
  BY DEF Return
<1>3. /\ frames' \in Seq(Frame)
      /\ Elements(frames) = {Head(frames)} \cup Elements(frames')
      /\ RequestLast(frames')
  BY <1>1, <1>2, OffTop
<1>4. InProgress = Elements(frames) /\ InProgress' = Elements(frames')
  BY DEF InProgress, Elements
<1>5. Asking' = Asking
  BY <1>1, <1>3, <1>4 DEF Asking
<1> QED
  BY <1>3, <1>4, <1>5

LEMMA Pushes ==
    ASSUME Typed, RequestLast(frames), NEW f \in Frame, f.call # "request",
           frames' = <<f>> \o frames
    PROVE  /\ frames' \in Seq(Frame)
           /\ RequestLast(frames')
           /\ Asking' = Asking
           /\ InProgress' = InProgress \cup {f}
<1>1. frames \in Seq(Frame)
  BY DEF Typed
<1>2. /\ frames' \in Seq(Frame)
      /\ Elements(frames') = {f} \cup Elements(frames)
      /\ RequestLast(frames')
  BY <1>1, OnTop
<1>3. InProgress = Elements(frames) /\ InProgress' = Elements(frames')
  BY DEF InProgress, Elements
<1> QED
  BY <1>2, <1>3 DEF Asking

LEMMA SameFrames ==
    ASSUME Typed, RequestLast(frames), UNCHANGED frames
    PROVE  /\ frames' \in Seq(Frame)
           /\ RequestLast(frames')
           /\ Asking' = Asking
           /\ InProgress' = InProgress
BY DEF Typed, Asking, InProgress

(* A step in which no page is answered, either.                            *)
LEMMA SilentKeeps ==
    ASSUME IInv,
           frames' \in Seq(Frame), RequestLast(frames'), Asking' = Asking,
           Pending' \subseteq Pending,
           \A id \in Pending' : pending_requests_'[id] = pending_requests_[id],
           UNCHANGED <<callbacks, decisions, next_id, page, replies>>,
           request_handler_' \in BOOLEAN, crashed' \in BOOLEAN,
           alive' \subseteq WebContents, gone' \subseteq Requests,
           Heard'
    PROVE  IInv'
<1>1. EntryTypes /\ ScalarTypes /\ frames \in Seq(Frame) /\ replies \in [Requests -> Seq(Answer)]
  BY TypeParts DEF IInv
<1>2. Drops
  BY DEF Drops
<1>3. Quiet
  BY <1>2 DEF Quiet
<1>4. Names' /\ DecidedSoFar' /\ Counted'
  BY <1>1, <1>3, QuietKeeps, DecidedParts DEF IInv
<1>5. DecidedByItsOwn'
  BY DecidedParts DEF IInv, DecidedByItsOwn
<1>6. Replied'
  BY DEF IInv, Replied, AnsweredOnce
<1>7. EntryTypes' /\ ScalarTypes'
  BY <1>1, <1>2, DropsTypes DEF ScalarTypes
<1>8. Typed'
  <2>1. replies' \in [Requests -> Seq(Answer)]
    BY <1>1
  <2>2. (Typed <=> EntryTypes /\ ScalarTypes /\ frames \in Seq(Frame)
                      /\ replies \in [Requests -> Seq(Answer)])'
    BY DEF Typed, EntryTypes, ScalarTypes, Answer
  <2> QED
    BY <1>7, <2>1, <2>2
<1>9. Decided'
  BY <1>4, <1>5 DEF Decided, DecidedSoFar
<1> QED
  BY <1>4, <1>6, <1>8, <1>9 DEF IInv

(* What such a step leaves alone.                                          *)
LEMMA ScalarsOf ==
    IInv => /\ request_handler_ \in BOOLEAN /\ crashed \in BOOLEAN
            /\ alive \subseteq WebContents /\ gone \subseteq Requests
            /\ page \in [Requests -> WebContents \cup {"none"}]
BY TypeParts DEF IInv, ScalarTypes

LEMMA SetHandlerKeeps == IInv /\ SetHandler => IInv'
<1> SUFFICES ASSUME IInv, SetHandler PROVE IInv'
  OBVIOUS
<1>1. /\ frames' \in Seq(Frame) /\ RequestLast(frames') /\ Asking' = Asking
      /\ InProgress' = InProgress
  BY SameFrames DEF IInv, SetHandler
<1>2. /\ Pending' = Pending
      /\ UNCHANGED <<pending_requests_, callbacks, decisions, next_id, page, replies,
                     crashed, alive, gone>>
      /\ request_handler_' = TRUE
  BY DEF SetHandler, Pending
<1>3. Heard'
  BY <1>1, <1>2 DEF IInv, Heard
<1> QED
  BY <1>1, <1>2, <1>3, SilentKeeps, ScalarsOf

LEMMA ReplyReturnsKeeps == IInv /\ ReplyReturns => IInv'
<1> SUFFICES ASSUME IInv, ReplyReturns PROVE IInv'
  OBVIOUS
<1>1. /\ frames' \in Seq(Frame) /\ RequestLast(frames') /\ Asking' = Asking
      /\ InProgress' \subseteq InProgress
  BY Pops DEF IInv, ReplyReturns
<1>2. /\ Pending' = Pending
      /\ UNCHANGED <<pending_requests_, callbacks, decisions, next_id, page, replies,
                     crashed, alive, gone, request_handler_>>
  BY DEF ReplyReturns, Pending, manager
<1>3. Heard'
  BY <1>1, <1>2 DEF IInv, Heard
<1> QED
  BY <1>1, <1>2, <1>3, SilentKeeps, ScalarsOf

(* The entry that is erased has answered its page.                         *)
LEMMA ResponseReturnsKeeps == IInv /\ ResponseReturns => IInv'
<1> SUFFICES ASSUME IInv, ResponseReturns PROVE IInv'
  OBVIOUS
<1> DEFINE top == Head(frames)
<1>1. /\ frames' \in Seq(Frame) /\ RequestLast(frames') /\ Asking' = Asking
      /\ InProgress' \subseteq InProgress /\ top \in InProgress
  BY Pops DEF IInv, ResponseReturns
<1>2. UNCHANGED <<callbacks, decisions, next_id, page, replies, crashed, alive, gone,
                  request_handler_>>
  BY DEF ResponseReturns
<1>3. /\ Pending' = Pending \ {top.id}
      /\ \A id \in Pending' : pending_requests_'[id] = pending_requests_[id]
  BY WithoutDrops DEF ResponseReturns
<1>4. top.call = "response"
  BY DEF ResponseReturns, In
<1> HIDE DEF top
<1>5. top.id \in Pending => replies[pending_requests_[top.id].request] # <<>>
  BY <1>1, <1>4 DEF IInv, Heard, Replied
<1>6. Heard'
  <2>1. ASSUME NEW r \in Requests, page'[r] # "none", r \notin gone', replies'[r] = <<>>
        PROVE  \E id \in Pending' : pending_requests_'[id].request = r
    <3>1. PICK id \in Pending : pending_requests_[id].request = r
      BY <1>2, <2>1 DEF IInv, Heard
    <3>2. id # top.id
      BY <1>2, <1>5, <2>1, <3>1
    <3> QED
      BY <1>3, <3>1, <3>2
  <2>2. Pending' # {} => request_handler_'
    BY <1>2, <1>3 DEF IInv, Heard
  <2>3. \A f \in InProgress' :
         f.call = "response" /\ f.id \in Pending' => ~pending_requests_'[f.id].callback_
    BY <1>1, <1>3 DEF IInv, Heard
  <2>4. \A f \in InProgress' : f.call = "clear" =>
         \A id \in Pending' \ f.todo :
           pending_requests_'[id].callback_ => pending_requests_'[id].request \in gone'
    BY <1>1, <1>2, <1>3 DEF IInv, Heard
  <2> QED
    BY <2>1, <2>2, <2>3, <2>4 DEF Heard
<1> QED
  BY <1>1, <1>2, <1>3, <1>6, SilentKeeps, ScalarsOf

LEMMA NobodyRuns == Task => InProgress = {} /\ Asking = {}
<1> SUFFICES ASSUME Task PROVE InProgress = {} /\ Asking = {}
  OBVIOUS
<1>1. frames = <<>>
  BY DEF Task
<1>2. \A k \in 1..Len(frames) : FALSE
  BY <1>1
<1> QED
  BY <1>2 DEF InProgress, Asking

LEMMA ClearHandlerKeeps == IInv /\ ClearHandler => IInv'
<1> SUFFICES ASSUME IInv, ClearHandler PROVE IInv'
  OBVIOUS
<1>1. UNCHANGED <<pending_requests_, next_id, callbacks, crashed, page, alive, gone,
                  replies, decisions>>
  BY DEF ClearHandler
<1>2. Pending' = Pending
  BY <1>1 DEF Pending
<1>3. CASE Pending = {}
  <2>1. frames' = frames /\ request_handler_' = FALSE
    BY <1>3 DEF ClearHandler
  <2>2. /\ frames' \in Seq(Frame) /\ RequestLast(frames') /\ Asking' = Asking
        /\ InProgress' = InProgress
    BY <2>1, SameFrames DEF IInv
  <2>3. Heard'
    BY <1>1, <1>2, <1>3, <2>2 DEF IInv, Heard
  <2> QED
    BY <1>1, <1>2, <2>1, <2>2, <2>3, SilentKeeps, ScalarsOf
<1>4. CASE Pending # {}
  <2> DEFINE f == [call |-> "clear", todo |-> Pending]
  <2>1. frames' = <<f>> \o frames /\ request_handler_' = request_handler_
    BY <1>4 DEF ClearHandler, Enter
  <2>2. Pending \in SUBSET Ids
    BY DEF IInv, Typed
  <2>3. f \in Frame /\ f.call # "request"
    BY <2>2, Frames
  <2>4. f.call = "clear" /\ f.todo = Pending
    OBVIOUS
  <2> HIDE DEF f
  <2>5. /\ frames' \in Seq(Frame) /\ RequestLast(frames') /\ Asking' = Asking
        /\ InProgress' = InProgress \cup {f}
    BY <2>1, <2>3, Pushes DEF IInv
  <2>6. Heard'
    BY <1>1, <1>2, <2>1, <2>4, <2>5 DEF IInv, Heard
  <2> QED
    BY <1>1, <1>2, <2>1, <2>5, <2>6, SilentKeeps, ScalarsOf
<1> QED
  BY <1>3, <1>4

(* Whoever was not answered by the loop has no frame to be answered in.    *)
LEMMA ClearReturnsKeeps == IInv /\ ClearReturns => IInv'
<1> SUFFICES ASSUME IInv, ClearReturns PROVE IInv'
  OBVIOUS
<1> DEFINE top == Head(frames)
<1>1. /\ frames' \in Seq(Frame) /\ RequestLast(frames') /\ Asking' = Asking
      /\ InProgress' \subseteq InProgress /\ top \in InProgress
  BY Pops DEF IInv, ClearReturns
<1>2. /\ UNCHANGED <<next_id, callbacks, crashed, page, alive, gone, replies, decisions>>
      /\ request_handler_' = FALSE
      /\ top.call = "clear" /\ top.todo = {}
  BY DEF ClearReturns, In
<1>3. Pending' = {}
  BY DEF ClearReturns, Clear, Pending
<1> HIDE DEF top
<1>4. Heard'
  <2>1. ASSUME NEW r \in Requests, page[r] # "none", r \notin gone, replies[r] = <<>>
        PROVE  FALSE
    <3>1. PICK id \in Pending : pending_requests_[id].request = r
      BY <2>1 DEF IInv, Heard
    <3>2. pending_requests_[id].callback_
      BY <2>1, <3>1 DEF IInv, Replied
    <3> QED
      BY <1>1, <1>2, <2>1, <3>1, <3>2 DEF IInv, Heard
  <2> QED
    BY <1>2, <1>3, <2>1 DEF Heard
<1> QED
  BY <1>1, <1>2, <1>3, <1>4, SilentKeeps, ScalarsOf

LEMMA WebContentsDestroyedKeeps ==
    ASSUME IInv, NEW w \in WebContents, WebContentsDestroyed(w)
    PROVE  IInv'
<1>1. /\ UNCHANGED <<request_handler_, next_id, frames, callbacks, crashed, page, replies,
                     decisions>>
      /\ alive' \subseteq alive
      /\ gone' = gone \cup {r \in Requests : page[r] = w}
      /\ Task
  BY DEF WebContentsDestroyed
<1>2. /\ frames' \in Seq(Frame) /\ RequestLast(frames') /\ Asking' = Asking
      /\ InProgress' = InProgress
  BY <1>1, SameFrames DEF IInv
<1>3. InProgress = {}
  BY <1>1, NobodyRuns
<1>4. /\ Pending' \subseteq Pending
      /\ \A id \in Pending' : pending_requests_'[id] = pending_requests_[id]
      /\ \A id \in Pending \ Pending' : pending_requests_[id].request \in gone'
  <2>1. CASE CancelPendingRequests(w)
    <3> DEFINE ids == {id \in Pending : LET r == pending_requests_[id].request
                                        IN r \in gone \/ page[r] = w}
    <3>1. pending_requests_' = Without(ids)
      BY <2>1 DEF CancelPendingRequests
    <3>2. \A id \in ids : pending_requests_[id].request \in gone'
      BY <1>1, EntryFields, TypeParts DEF IInv
    <3> HIDE DEF ids
    <3> QED
      BY <3>1, <3>2, WithoutDrops
  <2>2. CASE UNCHANGED pending_requests_
    BY <2>2 DEF Pending
  <2> QED
    BY <2>1, <2>2 DEF WebContentsDestroyed
<1>5. Heard'
  <2>1. ASSUME NEW r \in Requests, page'[r] # "none", r \notin gone', replies'[r] = <<>>
        PROVE  \E id \in Pending' : pending_requests_'[id].request = r
    <3>1. PICK id \in Pending : pending_requests_[id].request = r
      BY <1>1, <2>1 DEF IInv, Heard
    <3> QED
      BY <1>4, <2>1, <3>1
  <2>2. Pending' # {} => request_handler_'
    BY <1>1, <1>4 DEF IInv, Heard
  <2> QED
    BY <1>2, <1>3, <2>1, <2>2 DEF Heard
<1>6. gone' \subseteq Requests /\ alive' \subseteq WebContents
  BY <1>1, ScalarsOf
<1> QED
  BY <1>1, <1>2, <1>4, <1>5, <1>6, SilentKeeps, ScalarsOf

LEMMA FrameDeletedKeeps ==
    ASSUME IInv, NEW r \in Requests, FrameDeleted(r)
    PROVE  IInv'
<1>1. /\ UNCHANGED <<request_handler_, pending_requests_, next_id, frames, callbacks,
                     crashed, page, alive, replies, decisions>>
      /\ gone' = gone \cup {r}
      /\ Task
  BY DEF FrameDeleted, manager
<1>2. /\ frames' \in Seq(Frame) /\ RequestLast(frames') /\ Asking' = Asking
      /\ InProgress' = InProgress
  BY <1>1, SameFrames DEF IInv
<1>3. Pending' = Pending
  BY <1>1 DEF Pending
<1>4. Heard'
  BY <1>1, <1>2, <1>3 DEF IInv, Heard
<1>5. gone' \subseteq Requests
  BY <1>1, ScalarsOf
<1> QED
  BY <1>1, <1>2, <1>3, <1>4, <1>5, SilentKeeps, ScalarsOf

-----------------------------------------------------------------------------
(* What an answer to a request may say.                                    *)
IsTrue(r, answer) ==
    \A i \in 1..Len(answer.results) :
      /\ answer.reason = "handler" => answer.results[i] = decisions[r][i]
      /\ answer.reason = "cleared" /\ answer.results[i] = "granted" =>
           decisions[r][i] = "granted"

LEMMA AllTrue ==
    DecidedByItsOwn <=> \A r \in Requests : \A k \in 1..Len(replies[r]) : IsTrue(r, replies[r][k])
BY DEF DecidedByItsOwn, IsTrue

(* A first answer that is true, while true ones stay true.                 *)
LEMMA AnswerKeeps ==
    ASSUME replies \in [Requests -> Seq(Answer)],
           NEW r \in Requests, NEW results \in Batches, NEW reason \in Reasons,
           Reply(r, results, reason), replies[r] = <<>>,
           AnsweredOnce, DecidedByItsOwn,
           \A q \in Requests, a \in Answer : IsTrue(q, a) => IsTrue(q, a)',
           IsTrue(r, [results |-> results, reason |-> reason])'
    PROVE  /\ replies' \in [Requests -> Seq(Answer)]
           /\ \A q \in Requests \ {r} : replies'[q] = replies[q]
           /\ replies'[r] # <<>>
           /\ AnsweredOnce'
           /\ DecidedByItsOwn'
<1> DEFINE new == [results |-> results, reason |-> reason]
<1>1. /\ replies' \in [Requests -> Seq(Answer)]
      /\ \A q \in Requests \ {r} : replies'[q] = replies[q]
      /\ replies'[r] # <<>>
      /\ Len(replies'[r]) = 1 /\ replies'[r][1] = new
  BY Replying
<1>2. IsTrue(r, new)'
  OBVIOUS
<1> HIDE DEF new
<1>3. AnsweredOnce'
  <2> SUFFICES ASSUME NEW q \in Requests PROVE Len(replies'[q]) <= 1
    BY DEF AnsweredOnce
  <2>1. CASE q = r
    <3>1. Len(replies'[q]) = 1
      BY <1>1, <2>1, Zenon
    <3> QED
      BY <3>1
  <2>2. CASE q # r
    <3>1. replies'[q] = replies[q]
      BY <1>1, <2>2, Zenon
    <3> QED
      BY <3>1 DEF AnsweredOnce
  <2> QED
    BY <2>1, <2>2
<1>4. DecidedByItsOwn'
  <2>0. (DecidedByItsOwn <=>
           \A q \in Requests : \A k \in 1..Len(replies[q]) : IsTrue(q, replies[q][k]))'
    BY DEF DecidedByItsOwn, IsTrue
  <2> SUFFICES ASSUME NEW q \in Requests, NEW k \in 1..Len(replies'[q])
               PROVE  IsTrue(q, replies[q][k])'
    BY <2>0
  <2>1. CASE q = r
    <3>0. Len(replies'[q]) = 1
      BY <1>1, <2>1, Zenon
    <3>1. k = 1
      BY <3>0
    <3> QED
      BY <1>1, <1>2, <2>1, <3>1
  <2>2. CASE q # r
    <3>1. k \in 1..Len(replies[q]) /\ replies'[q][k] = replies[q][k]
      BY <1>1, <2>2
    <3>2. replies[q][k] \in Answer
      BY <3>1, ElementOfSeq
    <3>3. PICK a \in Answer : a = replies[q][k]
      BY <3>2
    <3>4. IsTrue(q, a)
      BY <3>1, <3>3, AllTrue
    <3>5. IsTrue(q, a)'
      BY <3>4
    <3> QED
      BY <3>1, <3>3, <3>5
  <2> QED
    BY <2>1, <2>2
<1> QED
  BY <1>1, <1>3, <1>4

(* A quiet step that answers a page.                                       *)
LEMMA QuietAnswer ==
    ASSUME IInv, Quiet,
           NEW r \in Requests, NEW results \in Batches, NEW reason \in Reasons,
           Reply(r, results, reason), replies[r] = <<>>,
           IsTrue(r, [results |-> results, reason |-> reason])',
           frames' \in Seq(Frame), RequestLast(frames'),
           request_handler_' \in BOOLEAN, crashed' = crashed,
           alive' = alive, gone' = gone,
           page' \in [Requests -> WebContents \cup {"none"}],
           page'[r] # "none", \A q \in Requests \ {r} : page'[q] = page[q],
           \A id \in Pending' :
             /\ pending_requests_'[id].request = r => ~pending_requests_'[id].callback_
             /\ pending_requests_'[id].request # r =>
                  pending_requests_'[id] = pending_requests_[id],
           Heard'
    PROVE  IInv'
<1>1. EntryTypes /\ ScalarTypes /\ frames \in Seq(Frame) /\ replies \in [Requests -> Seq(Answer)]
  BY TypeParts DEF IInv
<1>2. Names' /\ DecidedSoFar' /\ Counted'
  BY <1>1, QuietKeeps, DecidedParts DEF IInv
<1>3. \A q \in Requests, a \in Answer : IsTrue(q, a) => IsTrue(q, a)'
  BY DEF IsTrue, Quiet
<1>4. /\ replies' \in [Requests -> Seq(Answer)]
      /\ \A q \in Requests \ {r} : replies'[q] = replies[q]
      /\ replies'[r] # <<>>
      /\ AnsweredOnce'
      /\ DecidedByItsOwn'
  BY <1>1, <1>3, AnswerKeeps, DecidedParts DEF IInv, Replied
<1>5. EntryTypes' /\ ScalarTypes'
  BY <1>1, DropsTypes DEF ScalarTypes, Quiet
<1>6. Typed'
  <2>1. (Typed <=> EntryTypes /\ ScalarTypes /\ frames \in Seq(Frame)
                      /\ replies \in [Requests -> Seq(Answer)])'
    BY DEF Typed, EntryTypes, ScalarTypes, Answer
  <2> QED
    BY <1>4, <1>5, <2>1
<1>7. Replied'
  <2>1. ASSUME NEW id \in Pending'
        PROVE  pending_requests_'[id].callback_ <=>
                 replies'[pending_requests_'[id].request] = <<>>
    <3>1. /\ id \in Pending
          /\ pending_requests_'[id].request \in Requests
          /\ pending_requests_[id].callback_ <=>
                 replies[pending_requests_[id].request] = <<>>
      BY <1>1, SameRequests, EntryFields DEF Quiet, IInv, Replied
    <3>2. CASE pending_requests_'[id].request = r
      BY <1>4, <3>2
    <3>3. CASE pending_requests_'[id].request # r
      BY <1>4, <3>1, <3>3
    <3> QED
      BY <3>2, <3>3
  <2>2. ASSUME NEW q \in Requests, page'[q] = "none" PROVE replies'[q] = <<>>
    <3>1. q \in Requests \ {r} /\ page[q] = "none"
      BY <2>2
    <3>2. replies[q] = <<>>
      BY <3>1 DEF IInv, Replied
    <3> QED
      BY <1>4, <3>1, <3>2
  <2> QED
    BY <1>4, <2>1, <2>2 DEF Replied
<1>8. Decided'
  BY <1>2, <1>4 DEF Decided, DecidedSoFar
<1> QED
  BY <1>2, <1>6, <1>7, <1>8 DEF IInv

(* The loop over the map has done one more entry.                          *)
LEMMA OneLess ==
    ASSUME Typed, RequestLast(frames), In("clear"), NEW id
    PROVE  LET top  == Head(frames)
               less == [top EXCEPT !.todo = @ \ {id}]
               rest == <<less>> \o Tail(frames)
           IN /\ less \in Frame
              /\ less.call = "clear"
              /\ less.todo = top.todo \ {id}
              /\ top \in InProgress
              /\ top.call = "clear"
              /\ rest \in Seq(Frame)
              /\ RequestLast(rest)
              /\ Elements(rest) \subseteq {less} \cup InProgress
              /\ {f \in Elements(rest) : f.call = "request"} = Asking
<1> DEFINE top  == Head(frames)
           less == [top EXCEPT !.todo = @ \ {id}]
           t    == Tail(frames)
           rest == <<less>> \o t
<1>1. /\ frames \in Seq(Frame) /\ frames # <<>>
      /\ top \in Frame /\ top.call = "clear" /\ t \in Seq(Frame)
  BY TopFrame
<1>2. top.todo \in SUBSET Ids /\ top = [call |-> "clear", todo |-> top.todo]
  BY <1>1, FrameFields
<1>3. less = [call |-> "clear", todo |-> top.todo \ {id}]
  <2> HIDE DEF top
  <2> QED
    BY <1>2
<1>4. less \in Frame /\ less.call = "clear" /\ less.todo = top.todo \ {id}
  <2>1. top.todo \ {id} \in SUBSET Ids
    BY <1>2
  <2> HIDE DEF top, less
  <2> QED
    BY <1>3, <2>1, Frames
<1> HIDE DEF less
<1>5. InProgress = {top} \cup Elements(t) /\ RequestLast(t)
  BY <1>1, OffTop DEF InProgress, Elements
<1>6. /\ rest \in Seq(Frame)
      /\ Elements(rest) = {less} \cup Elements(t)
      /\ RequestLast(rest)
  BY <1>1, <1>4, <1>5, OnTop
<1> HIDE DEF top, t, rest
<1>7. {f \in Elements(rest) : f.call = "request"} = Asking
  BY <1>1, <1>4, <1>5, <1>6 DEF Asking
<1>8. Elements(rest) \subseteq {less} \cup InProgress /\ top \in InProgress
  BY <1>5, <1>6
<1> QED
  BY <1>1, <1>4, <1>6, <1>7, <1>8 DEF top, less, t, rest

LEMMA ClearNextKeeps == IInv /\ ClearNext => IInv'
<1> SUFFICES ASSUME IInv, ClearNext PROVE IInv'
  OBVIOUS
<1>0. In("clear") /\ Typed /\ RequestLast(frames)
  BY DEF ClearNext, IInv
<1> DEFINE top  == Head(frames)
           To(id, e) ==
             LET rest == <<[top EXCEPT !.todo = @ \ {id}]>> \o Tail(frames) IN
             IF id \in Pending /\ e.callback_ /\ e.request \notin gone
               THEN /\ pending_requests_' = [pending_requests_ EXCEPT ![id] = MoveCallback(e)]
                    /\ Reply(e.request, e.results_, "cleared")
                    /\ frames' = <<[call |-> "reply"]>> \o rest
               ELSE /\ frames' = rest
                    /\ UNCHANGED <<pending_requests_, replies>>
<1>1. PICK id \in top.todo : To(id, pending_requests_[id])
  BY DEF ClearNext
<1>2. PICK e : e = pending_requests_[id]
  OBVIOUS
<1>3. PICK less : less = [top EXCEPT !.todo = @ \ {id}]
  OBVIOUS
<1>4. PICK rest : rest = <<less>> \o Tail(frames)
  OBVIOUS
<1>5. /\ less \in Frame /\ less.call = "clear" /\ less.todo = top.todo \ {id}
      /\ top \in InProgress /\ top.call = "clear"
      /\ rest \in Seq(Frame) /\ RequestLast(rest)
      /\ Elements(rest) \subseteq {less} \cup InProgress
      /\ {f \in Elements(rest) : f.call = "request"} = Asking
  BY <1>0, <1>3, <1>4, OneLess
<1>6. IF id \in Pending /\ e.callback_ /\ e.request \notin gone
        THEN /\ pending_requests_' = [pending_requests_ EXCEPT ![id] = MoveCallback(e)]
             /\ Reply(e.request, e.results_, "cleared")
             /\ frames' = <<[call |-> "reply"]>> \o rest
        ELSE /\ frames' = rest
             /\ UNCHANGED <<pending_requests_, replies>>
  BY <1>1, <1>2, <1>3, <1>4
<1>7. UNCHANGED <<request_handler_, next_id, callbacks, crashed, page, alive, gone, decisions>>
  BY DEF ClearNext
<1> HIDE DEF top, To
<1>8. EntryTypes
  BY TypeParts DEF IInv
<1>9. CASE ~(id \in Pending /\ e.callback_ /\ e.request \notin gone)
  <2>1. frames' = rest /\ UNCHANGED <<pending_requests_, replies>> /\ Pending' = Pending
    BY <1>6, <1>9 DEF Pending
  <2>2. InProgress' \subseteq {less} \cup InProgress /\ Asking' = Asking
    BY <1>5, <2>1 DEF InProgress, Asking, Elements
  <2>3. \A k \in Pending \ less.todo :
          pending_requests_[k].callback_ => pending_requests_[k].request \in gone
    BY <1>2, <1>5, <1>9 DEF IInv, Heard
  <2>4. Heard'
    BY <1>5, <1>7, <2>1, <2>2, <2>3 DEF IInv, Heard
  <2>5. frames' \in Seq(Frame) /\ RequestLast(frames')
    BY <1>5, <2>1
  <2> QED
    BY <1>7, <2>1, <2>2, <2>4, <2>5, SilentKeeps, ScalarsOf
<1>10. CASE id \in Pending /\ e.callback_ /\ e.request \notin gone
  <2>1. PICK r \in Requests : r = e.request
    BY <1>2, <1>8, <1>10, EntryFields
  <2>2. PICK results \in Batches : results = e.results_
    BY <1>2, <1>8, <1>10, EntryFields
  <2>3. /\ pending_requests_' = [pending_requests_ EXCEPT ![id] = MoveCallback(e)]
        /\ Reply(r, results, "cleared")
        /\ frames' = <<[call |-> "reply"]>> \o rest
    BY <1>6, <1>10, <2>1, <2>2
  <2>4. /\ Drops /\ Pending' = Pending
        /\ pending_requests_'[id] = MoveCallback(e)
        /\ \A k \in Pending \ {id} : pending_requests_'[k] = pending_requests_[k]
    BY <1>2, <1>8, <1>10, <2>3, MoveDrops
  <2>5. e \in PendingRequest
    BY <1>2, <1>8, <1>10, EntryFields
  <2>6. ~pending_requests_'[id].callback_ /\ pending_requests_'[id].request = r
    BY <2>1, <2>4, <2>5, Moved
  <2>7. \A k \in Pending \ {id} : pending_requests_[k].request # r
    <3>1. \A k \in Pending : Known(k, pending_requests_[k].request)
      BY DEF Known
    <3> QED
      BY <1>2, <1>10, <2>1, <3>1 DEF IInv, Names
  <2>8. replies[r] = <<>> /\ page[r] # "none"
    <3>1. Known(id, r)
      BY <1>2, <1>10, <2>1 DEF Known
    <3> QED
      BY <1>2, <1>10, <2>1, <3>1 DEF IInv, Replied, Names
  <2>9. /\ frames' \in Seq(Frame)
        /\ RequestLast(frames')
        /\ Elements(frames') = {[call |-> "reply"]} \cup Elements(rest)
    BY <1>5, <2>3, OnTop, Frames
  <2>10. Asking' = Asking /\ InProgress' \subseteq {[call |-> "reply"], less} \cup InProgress
    <3>1. InProgress' = {[call |-> "reply"]} \cup Elements(rest)
      BY <2>9 DEF InProgress, Elements
    <3>2. Asking' = {f \in Elements(rest) : f.call = "request"}
      BY <3>1 DEF Asking
    <3> QED
      BY <1>5, <3>1, <3>2
  <2>11. Quiet
    BY <1>7, <2>4, <2>10 DEF Quiet
  <2>12. IsTrue(r, [results |-> results, reason |-> "cleared"])'
    <3>1. \A i \in 1..Len(results) : results[i] = "denied" \/ results[i] = decisions[r][i]
      BY <1>2, <1>10, <2>1, <2>2 DEF IInv, Counted, CountOf
    <3> QED
      BY <1>7, <3>1 DEF IsTrue
  <2>13. Heard'
    <3>1. ASSUME NEW q \in Requests, page'[q] # "none", q \notin gone', replies'[q] = <<>>
          PROVE  \E k \in Pending' : pending_requests_'[k].request = q
      <4>1. q # r
        <5>1. replies \in [Requests -> Seq(Answer)]
          BY TypeParts DEF IInv
        <5>2. "cleared" \in Reasons
          BY DEF Reasons
        <5> QED
          BY <2>3, <3>1, <5>1, <5>2, Replying
      <4>2. replies'[q] = replies[q]
        BY <2>3, <4>1 DEF Reply
      <4>3. PICK k \in Pending : pending_requests_[k].request = q
        BY <1>7, <3>1, <4>2 DEF IInv, Heard
      <4>4. k # id
        BY <1>2, <2>1, <4>1, <4>3
      <4> QED
        BY <2>4, <4>3, <4>4
    <3>2. \A f \in InProgress' :
            f.call = "response" /\ f.id \in Pending' => ~pending_requests_'[f.id].callback_
      <4> SUFFICES ASSUME NEW f \in InProgress', f.call = "response", f.id \in Pending'
                   PROVE  ~pending_requests_'[f.id].callback_
        OBVIOUS
      <4>1. f \in InProgress
        BY <1>5, <2>10
      <4>2. CASE f.id = id
        BY <2>6, <4>2
      <4>3. CASE f.id # id
        BY <2>4, <4>1, <4>3 DEF IInv, Heard
      <4> QED
        BY <4>2, <4>3
    <3>3. \A f \in InProgress' : f.call = "clear" =>
            \A k \in Pending' \ f.todo :
              pending_requests_'[k].callback_ => pending_requests_'[k].request \in gone'
      <4> SUFFICES ASSUME NEW f \in InProgress', f.call = "clear",
                          NEW k \in Pending' \ f.todo, pending_requests_'[k].callback_
                   PROVE  pending_requests_'[k].request \in gone'
        OBVIOUS
      <4>1. k \in Pending \ {id} /\ pending_requests_'[k] = pending_requests_[k]
        BY <2>4, <2>6
      <4>2. CASE f = less
        BY <1>5, <1>7, <4>1, <4>2 DEF IInv, Heard
      <4>3. CASE f \in InProgress
        BY <1>7, <4>1, <4>3 DEF IInv, Heard
      <4> QED
        BY <2>10, <4>2, <4>3
    <3>4. Pending' # {} => request_handler_'
      BY <1>7, <2>4 DEF IInv, Heard
    <3> QED
      BY <3>1, <3>2, <3>3, <3>4 DEF Heard
  <2>14. \A k \in Pending' :
             /\ pending_requests_'[k].request = r => ~pending_requests_'[k].callback_
             /\ pending_requests_'[k].request # r =>
                  pending_requests_'[k] = pending_requests_[k]
    BY <2>4, <2>6, <2>7
  <2>15. "cleared" \in Reasons
    BY DEF Reasons
  <2> QED
    BY <1>7, <2>3, <2>8, <2>9, <2>11, <2>12, <2>13, <2>14, <2>15, QuietAnswer, ScalarsOf
<1> QED
  BY <1>9, <1>10

-----------------------------------------------------------------------------
LEMMA AnswerAtOnceKeeps ==
    ASSUME IInv, NEW r \in Requests, NEW w \in WebContents, NEW n \in 0..MaxBatch,
           NEW status \in Statuses, NEW reason \in {"fenced frame", "no handler"},
           Task, page[r] = "none", page' = [page EXCEPT ![r] = w],
           AnswerAtOnce(r, n, status, reason),
           UNCHANGED <<crashed, alive, gone, decisions>>
    PROVE  IInv'
<1>0. PICK top \in Frame : top = [call |-> "reply"] /\ top.call = "reply"
  BY Frames
<1>1. PICK results \in Batches : results = [i \in 1..n |-> status]
  BY SameForAll
<1>2. /\ Reply(r, results, reason)
      /\ frames' = <<top>> \o frames
      /\ UNCHANGED <<request_handler_, pending_requests_, next_id, callbacks>>
  BY <1>0, <1>1 DEF AnswerAtOnce, Enter, manager
<1>3. /\ frames' \in Seq(Frame) /\ RequestLast(frames') /\ Asking' = Asking
      /\ InProgress' = InProgress \cup {top}
  BY <1>0, <1>2, Pushes DEF IInv
<1>4. InProgress = {}
  BY NobodyRuns
<1>5. Drops /\ Pending' = Pending
  BY <1>2, SameDrops
<1>6. /\ page' \in [Requests -> WebContents \cup {"none"}]
      /\ page'[r] # "none" /\ \A q \in Requests \ {r} : page'[q] = page[q]
  BY PageAssumption, ScalarsOf
<1>7. Quiet
  BY <1>2, <1>3, <1>5, <1>6 DEF Quiet
<1>8. \A k \in Pending : pending_requests_[k].request # r
  <2>1. \A k \in Pending : Known(k, pending_requests_[k].request)
    BY DEF Known
  <2> QED
    BY <2>1 DEF IInv, Names
<1>9. replies[r] = <<>>
  BY DEF IInv, Replied
<1>10. Heard'
  <2>1. ASSUME NEW q \in Requests, page'[q] # "none", q \notin gone', replies'[q] = <<>>
        PROVE  \E k \in Pending' : pending_requests_'[k].request = q
    <3>1. q # r
      <4>1. replies \in [Requests -> Seq(Answer)]
        BY TypeParts DEF IInv
      <4>2. reason \in Reasons
        BY DEF Reasons
      <4> QED
        BY <1>2, <2>1, <4>1, <4>2, Replying
    <3>2. replies'[q] = replies[q]
      <4>1. replies \in [Requests -> Seq(Answer)]
        BY TypeParts DEF IInv
      <4>2. reason \in Reasons
        BY DEF Reasons
      <4> QED
        BY <1>2, <3>1, <4>1, <4>2, Replying
    <3> QED
      BY <1>2, <1>5, <1>6, <2>1, <3>1, <3>2 DEF IInv, Heard
  <2>2. Pending' # {} => request_handler_'
    BY <1>2, <1>5 DEF IInv, Heard
  <2>3. \A f \in InProgress' : f.call = "reply"
    BY <1>0, <1>3, <1>4
  <2> QED
    BY <2>1, <2>2, <2>3 DEF Heard
<1>11. IsTrue(r, [results |-> results, reason |-> reason])'
  BY DEF IsTrue
<1>12. reason \in Reasons /\ request_handler_' \in BOOLEAN
  BY <1>2, ScalarsOf DEF Reasons
<1>13. \A id \in Pending' :
             /\ pending_requests_'[id].request = r => ~pending_requests_'[id].callback_
             /\ pending_requests_'[id].request # r =>
                  pending_requests_'[id] = pending_requests_[id]
  BY <1>2, <1>5, <1>8
<1> QED
  BY <1>2, <1>3, <1>6, <1>7, <1>9, <1>10, <1>11, <1>12, <1>13, QuietAnswer

LEMMA UndecidedBy ==
    \A id, x : x \in Undecided(id) <=> \/ \E c \in callbacks : c.id = id /\ c.i = x
                                       \/ \E f \in Asking : f.id = id /\ x \in f.i + 1 .. f.n
BY DEF Undecided

LEMMA UndecidedByNext ==
    \A id, x : x \in Undecided(id)' <=> \/ \E c \in callbacks' : c.id = id /\ c.i = x
                                        \/ \E f \in Asking' : f.id = id /\ x \in f.i + 1 .. f.n
BY DEF Undecided

(* A new entry, with an id nobody has, for a page nobody has answered.     *)
LEMMA AskHandlerKeeps ==
    ASSUME IInv, NEW r \in Requests, NEW w \in WebContents, NEW n \in 1..MaxBatch,
           Task, page[r] = "none", page' = [page EXCEPT ![r] = w],
           request_handler_, AskHandler(r, n),
           UNCHANGED <<crashed, alive, gone, decisions>>
    PROVE  IInv'
<1>0. PICK new : new = next_id
  OBVIOUS
<1>1. PICK results \in Batches : results = [i \in 1..n |-> "denied"]
  <2>1. n \in 0..MaxBatch /\ "denied" \in Statuses
    BY DEF Statuses
  <2> QED
    BY <2>1, SameForAll
<1>2. Len(results) = n /\ \A i \in 1..n : results[i] = "denied"
  <2>1. n \in 0..MaxBatch /\ "denied" \in Statuses
    BY DEF Statuses
  <2> QED
    BY <1>1, <2>1, SameForAll
<1>3. PICK e : e = [request |-> r, results_ |-> results, callback_ |-> TRUE,
                    remaining_results_ |-> n]
  OBVIOUS
<1>4. PICK c : c = [request |-> r, id |-> next_id, i |-> 1]
  OBVIOUS
<1>5. PICK f : f = [call |-> "request", id |-> next_id, request |-> r, n |-> n, i |-> 1]
  OBVIOUS
<1>6. /\ next_id' = next_id + 1
      /\ pending_requests_' = With(next_id, e)
      /\ callbacks' = callbacks \cup {c}
      /\ frames' = <<f>> \o frames
      /\ UNCHANGED <<request_handler_, replies>>
  BY <1>1, <1>3, <1>4, <1>5 DEF AskHandler, NewId, RunHandler, Enter
<1>7. n \in Nat /\ n >= 1 /\ n <= MaxBatch /\ 1 \in 1..MaxBatch
  BY BatchAssumption
<1>8. EntryTypes /\ ScalarTypes /\ frames \in Seq(Frame) /\ replies \in [Requests -> Seq(Answer)]
  BY TypeParts DEF IInv
<1>9. next_id \in Ids /\ next_id \in Nat /\ next_id + 1 \in Ids
  BY <1>8 DEF ScalarTypes, Ids
<1>10. /\ \A k \in Pending : Known(k, pending_requests_[k].request)
       /\ \A b \in callbacks : Known(b.id, b.request)
  BY DEF Known
<1>11. /\ next_id \notin Pending
       /\ \A k \in Pending : pending_requests_[k].request # r /\ k # next_id
       /\ \A b \in callbacks : b.id # next_id /\ b.request # r
  <2>1. \A id, q : Known(id, q) => id < next_id /\ page[q] # "none"
    BY DEF IInv, Names
  <2>2. ~(next_id < next_id)
    BY <1>9
  <2> QED
    BY <1>10, <2>1, <2>2
<1>12. Asking = {} /\ InProgress = {}
  BY NobodyRuns
<1>13. /\ Pending' = Pending \cup {next_id}
       /\ pending_requests_'[next_id] = e
       /\ \A k \in Pending : pending_requests_'[k] = pending_requests_[k]
  <2>1. Pending' = Pending \cup {next_id}
    BY <1>6 DEF Pending, With
  <2>2. pending_requests_'[next_id] = e
    BY <1>6 DEF Pending, With
  <2>3. \A k \in Pending : pending_requests_'[k] = pending_requests_[k]
    BY <1>6, <1>11 DEF Pending, With
  <2> QED
    BY <2>1, <2>2, <2>3
<1>14. f \in Frame /\ f.call = "request" /\ f.id = next_id /\ f.request = r /\ f.n = n /\ f.i = 1
  BY <1>5, <1>7, <1>9, Frames
<1>15. frames' \in Seq(Frame) /\ RequestLast(frames') /\ InProgress' = {f} /\ Asking' = {f}
  <2>1. frames = <<>>
    BY DEF Task
  <2>2. /\ frames' \in Seq(Frame)
        /\ Elements(frames') = {f} \cup Elements(frames)
        /\ RequestLast(frames')
    BY <1>6, <1>8, <1>14, <2>1, OnTop DEF IInv
  <2>3. InProgress' = {f}
    BY <1>12, <2>2 DEF InProgress, Elements
  <2> QED
    BY <1>14, <2>2, <2>3 DEF Asking
<1>16. /\ page' \in [Requests -> WebContents \cup {"none"}]
       /\ page'[r] # "none" /\ \A q \in Requests \ {r} : page'[q] = page[q]
  BY PageAssumption, ScalarsOf
<1>17. c \in Callback /\ c.id = next_id /\ c.request = r /\ c.i = 1
  BY <1>4, <1>7, <1>9 DEF Callback
<1>18. e \in PendingRequest /\ e.request = r /\ e.results_ = results /\ e.callback_
       /\ e.remaining_results_ = n
  BY <1>3, <1>7 DEF PendingRequest
<1>19. Typed'
  <2>1. EntryTypes'
    BY <1>8, <1>9, <1>13, <1>18 DEF EntryTypes
  <2>2. ScalarTypes'
    BY <1>6, <1>8, <1>9, <1>16, <1>17 DEF ScalarTypes
  <2>3. replies' \in [Requests -> Seq(Answer)]
    BY <1>6, <1>8
  <2>4. (Typed <=> EntryTypes /\ ScalarTypes /\ frames \in Seq(Frame)
                      /\ replies \in [Requests -> Seq(Answer)])'
    BY DEF Typed, EntryTypes, ScalarTypes, Answer
  <2> QED
    BY <1>15, <2>1, <2>2, <2>3, <2>4
<1>20. Names'
  <2>1. ASSUME NEW id, NEW q, Known(id, q)'
        PROVE  (id = next_id /\ q = r) \/ Known(id, q)
    BY <1>6, <1>13, <1>14, <1>15, <1>17, <1>18, <2>1 DEF Known
  <2>2. ASSUME NEW id, NEW q, Known(id, q)
        PROVE  id \in Nat /\ id < next_id /\ q \in Requests \ {r} /\ page[q] # "none"
    BY <1>8, <2>2, KnownTypes DEF IInv, Names, Ids
  <2>3. ASSUME NEW id, NEW q, Known(id, q)'
        PROVE  id < next_id' /\ page'[q] # "none"
    <3>1. CASE id = next_id /\ q = r
      BY <1>6, <1>9, <1>16, <3>1
    <3>2. CASE Known(id, q)
      BY <1>6, <1>9, <1>16, <2>2, <3>2
    <3> QED
      BY <2>1, <2>3, <3>1, <3>2
  <2>4. ASSUME NEW id1, NEW id2, NEW r1, NEW r2, Known(id1, r1)', Known(id2, r2)'
        PROVE  id1 = id2 <=> r1 = r2
    <3>1. CASE Known(id1, r1) /\ Known(id2, r2)
      BY <3>1 DEF IInv, Names
    <3>2. CASE Known(id1, r1) /\ id2 = next_id /\ r2 = r
      BY <1>9, <2>2, <3>2
    <3>3. CASE id1 = next_id /\ r1 = r /\ Known(id2, r2)
      BY <1>9, <2>2, <3>3
    <3>4. CASE id1 = next_id /\ r1 = r /\ id2 = next_id /\ r2 = r
      BY <3>4
    <3> QED
      BY <2>1, <2>4, <3>1, <3>2, <3>3, <3>4
  <2> QED
    BY <2>3, <2>4 DEF Names
<1>21. Replied'
  BY <1>6, <1>11, <1>13, <1>16, <1>18 DEF IInv, Replied, AnsweredOnce
<1>22. Heard'
  <2>1. ASSUME NEW q \in Requests, page'[q] # "none", q \notin gone', replies'[q] = <<>>
        PROVE  \E k \in Pending' : pending_requests_'[k].request = q
    <3>1. CASE q = r
      BY <1>13, <1>18, <3>1
    <3>2. CASE q # r
      BY <1>6, <1>13, <1>16, <2>1, <3>2 DEF IInv, Heard
    <3> QED
      BY <3>1, <3>2
  <2> QED
    BY <1>6, <1>14, <1>15, <2>1 DEF Heard
<1>23. Decided'
  <2>1. \A i \in 1..MaxBatch : decisions[r][i] = "none"
    BY DEF IInv, Decided
  <2>2. \A b \in callbacks' : decisions'[b.request][b.i] = "none"
    BY <1>6, <1>7, <1>17, <2>1 DEF IInv, Decided
  <2>3. \A j \in f.i + 1 .. f.n : decisions'[f.request][j] = "none"
    BY <1>7, <1>14, <2>1, BatchAssumption
  <2>4. \A b \in callbacks' : b.id = f.id => b.i <= f.i
    BY <1>6, <1>11, <1>14, <1>17
  <2>5. \A q \in Requests : page'[q] = "none" => \A i \in 1..MaxBatch : decisions'[q][i] = "none"
    BY <1>16 DEF IInv, Decided
  <2>6. DecidedByItsOwn'
    <3>1. DecidedByItsOwn
      BY DEF IInv, Decided
    <3> QED
      BY <1>6, <3>1 DEF DecidedByItsOwn
  <2>7. f.i <= f.n
    BY <1>7, <1>14
  <2> QED
    BY <1>15, <2>2, <2>3, <2>4, <2>5, <2>6, <2>7 DEF Decided
<1>24. Counted'
  <2>1. Undecided(new)' = 1..n
    <3>1. ASSUME NEW x \in Undecided(new)' PROVE x \in 1..n
      <4>1. CASE \E b \in callbacks' : b.id = new /\ b.i = x
        BY <1>0, <1>6, <1>7, <1>11, <1>17, <4>1
      <4>2. CASE \E g \in Asking' : x \in g.i + 1 .. g.n
        BY <1>0, <1>7, <1>14, <1>15, <4>2
      <4> QED
        BY <3>1, <4>1, <4>2, UndecidedByNext
    <3>2. ASSUME NEW x \in 1..n PROVE x \in Undecided(new)'
      <4>1. CASE x = 1
        <5>1. c \in callbacks' /\ c.id = new /\ c.i = x
          BY <1>0, <1>6, <1>17, <4>1
        <5> QED
          BY <5>1, UndecidedByNext
      <4>2. CASE x # 1
        <5>1. x \in f.i + 1 .. f.n
          BY <1>7, <1>14, <4>2
        <5>2. f \in Asking' /\ f.id = new
          BY <1>0, <1>14, <1>15
        <5> QED
          BY <5>1, <5>2, UndecidedByNext
      <4> QED
        BY <4>1, <4>2
    <3> QED
      BY <3>1, <3>2
  <2>2. ASSUME NEW k \in Pending PROVE Undecided(k)' = Undecided(k)
    <3>1. k # new
      BY <1>0, <1>11
    <3>2. {b \in callbacks' : b.id = k} = {b \in callbacks : b.id = k}
      BY <1>0, <1>6, <1>17, <3>1
    <3>3. {g \in Asking' : g.id = k} = {} /\ {g \in Asking : g.id = k} = {}
      BY <1>0, <1>12, <1>14, <1>15, <3>1
    <3> QED
      BY <3>2, <3>3 DEF Undecided
  <2>3. CountOf(new, e)'
    <3>1. Cardinality(1..n) = n
      BY <1>7, FS_Interval
    <3> QED
      BY <1>2, <1>18, <2>1, <3>1 DEF CountOf
  <2>4. ASSUME NEW k \in Pending PROVE CountOf(k, pending_requests_[k])'
    <3>1. PICK d : d = pending_requests_[k]
      OBVIOUS
    <3>2. CountOf(k, d)
      BY <3>1 DEF IInv, Counted
    <3>3. CountOf(k, d)'
      BY <2>2, <3>2 DEF CountOf
    <3> QED
      BY <1>13, <3>1, <3>3
  <2> QED
    BY <1>0, <1>13, <2>3, <2>4 DEF Counted
<1> QED
  BY <1>15, <1>19, <1>20, <1>21, <1>22, <1>23, <1>24 DEF IInv

-----------------------------------------------------------------------------
(* The loop over a batch goes on: what is awaited stays awaited.           *)
LEMMA TurnKeeps ==
    ASSUME IInv,
           UNCHANGED <<request_handler_, pending_requests_, next_id, crashed, page, alive,
                       gone, replies, decisions>>,
           frames' \in Seq(Frame), RequestLast(frames'), callbacks' \subseteq Callback,
           \A f \in InProgress' : f.call = "request",
           \A id, r : Known(id, r)' => Known(id, r),
           \A id : Undecided(id)' = Undecided(id),
           DecidedSoFar'
    PROVE  IInv'
<1>1. EntryTypes /\ ScalarTypes /\ frames \in Seq(Frame) /\ replies \in [Requests -> Seq(Answer)]
  BY TypeParts DEF IInv
<1>2. Pending' = Pending
  BY DEF Pending
<1>3. Typed'
  <2>1. EntryTypes' /\ ScalarTypes'
    BY <1>1, <1>2 DEF EntryTypes, ScalarTypes
  <2>2. replies' \in [Requests -> Seq(Answer)]
    BY <1>1
  <2>3. (Typed <=> EntryTypes /\ ScalarTypes /\ frames \in Seq(Frame)
                      /\ replies \in [Requests -> Seq(Answer)])'
    BY DEF Typed, EntryTypes, ScalarTypes, Answer
  <2> QED
    BY <2>1, <2>2, <2>3
<1>4. Names'
  BY <1>1, FewerNames DEF IInv
<1>5. Replied'
  BY <1>2 DEF IInv, Replied, AnsweredOnce
<1>6. Heard'
  BY <1>2 DEF IInv, Heard
<1>7. Decided'
  <2>1. DecidedByItsOwn
    BY DecidedParts DEF IInv
  <2>2. DecidedByItsOwn'
    BY <2>1 DEF DecidedByItsOwn
  <2> QED
    BY <2>2 DEF Decided, DecidedSoFar
<1>8. Counted'
  <2> SUFFICES ASSUME NEW k \in Pending' PROVE CountOf(k, pending_requests_[k])'
    BY DEF Counted
  <2>1. PICK d : d = pending_requests_[k]
    OBVIOUS
  <2>2. CountOf(k, d)
    BY <1>2, <2>1 DEF IInv, Counted
  <2>3. CountOf(k, d)'
    BY <2>2 DEF CountOf
  <2> QED
    BY <2>1, <2>3
<1> QED
  BY <1>3, <1>4, <1>5, <1>6, <1>7, <1>8 DEF IInv

LEMMA HandlerReturnsKeeps == IInv /\ HandlerReturns => IInv'
<1> SUFFICES ASSUME IInv, HandlerReturns PROVE IInv'
  OBVIOUS
<1>1. UNCHANGED <<request_handler_, pending_requests_, next_id, page, alive, gone, replies,
                  decisions>>
  BY DEF HandlerReturns, manager
<1>2. PICK top : top = Head(frames)
  OBVIOUS
<1>3. /\ frames \in Seq(Frame) /\ frames # <<>>
      /\ top \in Frame /\ top.call = "request" /\ Tail(frames) = <<>>
      /\ InProgress = {top} \cup Elements(Tail(frames))
  <2>1. /\ frames \in Seq(Frame) /\ frames # <<>>
        /\ top \in Frame /\ top.call = "request"
    BY <1>2, TopFrame DEF IInv, HandlerReturns
  <2>2. /\ RequestLast(frames) => (top.call = "request" => Tail(frames) = <<>>)
        /\ Elements(frames) = {top} \cup Elements(Tail(frames))
    BY <1>2, <2>1, OffTop
  <2> QED
    BY <2>1, <2>2 DEF IInv, InProgress, Elements
<1>4. Elements(<<>>) = {}
  <2>1. \A k \in 1..Len(<<>>) : FALSE
    OBVIOUS
  <2> QED
    BY <2>1 DEF Elements
<1>5. InProgress = {top} /\ Asking = {top}
  BY <1>3, <1>4 DEF Asking
<1>6. /\ top.id \in Ids /\ top.request \in Requests
      /\ top.n \in 1..MaxBatch /\ top.i \in 1..MaxBatch
      /\ top = [call |-> "request", id |-> top.id, request |-> top.request,
                n |-> top.n, i |-> top.i]
  BY <1>3, FrameFields
<1>7. top.n \in Nat /\ top.i \in Nat /\ top.n <= MaxBatch /\ top.i <= top.n
  BY <1>5, <1>6, BatchAssumption DEF IInv, Decided
<1>8. DecidedSoFar /\ callbacks \subseteq Callback
  BY DecidedParts, TypeParts DEF IInv, ScalarTypes
<1>9. CASE top.i = top.n
  <2>1. frames' = <<>> /\ UNCHANGED <<callbacks, crashed>>
    BY <1>2, <1>3, <1>9 DEF HandlerReturns, Return
  <2>2. InProgress' = {} /\ Asking' = {}
    BY <1>4, <2>1 DEF InProgress, Asking, Elements
  <2>3. frames' \in Seq(Frame) /\ RequestLast(frames')
    BY <2>1 DEF RequestLast
  <2>4. \A id, r : Known(id, r)' => Known(id, r)
    BY <1>1, <2>1, <2>2 DEF Known, Pending
  <2>5. DecidedSoFar'
    BY <1>1, <1>8, <2>1, <2>2 DEF DecidedSoFar
  <2>6. ASSUME NEW id PROVE Undecided(id)' = Undecided(id)
    <3>1. \A x : ~(x \in top.i + 1 .. top.n)
      BY <1>7, <1>9
    <3>2. \A x : x \in Undecided(id) <=> \E c \in callbacks : c.id = id /\ c.i = x
      BY <1>5, <3>1, UndecidedBy
    <3>3. \A x : x \in Undecided(id)' <=> \E c \in callbacks : c.id = id /\ c.i = x
      BY <2>1, <2>2, UndecidedByNext
    <3> QED
      BY <3>2, <3>3
  <2> QED
    BY <1>1, <1>8, <2>1, <2>2, <2>3, <2>4, <2>5, <2>6, TurnKeeps
<1>10. CASE top.i # top.n /\ ~request_handler_
  <2>1. UNCHANGED <<frames, callbacks>> /\ crashed' = TRUE
    BY <1>2, <1>10 DEF HandlerReturns
  <2>2. /\ frames' \in Seq(Frame) /\ RequestLast(frames') /\ Asking' = Asking
        /\ InProgress' = InProgress
    BY <2>1, SameFrames DEF IInv
  <2>3. Pending' = Pending
    BY <1>1 DEF Pending
  <2>4. Heard'
    BY <1>1, <2>2, <2>3 DEF IInv, Heard
  <2> QED
    BY <1>1, <2>1, <2>2, <2>3, <2>4, SilentKeeps, ScalarsOf
<1>11. CASE top.i # top.n /\ request_handler_
  <2>1. PICK i : i = top.i + 1
    OBVIOUS
  <2>2. i \in Nat /\ i \in 1..MaxBatch /\ i <= top.n /\ top.i < i
    BY <1>7, <1>11, <2>1, BatchAssumption
  <2>3. PICK c : c = [request |-> top.request, id |-> top.id, i |-> i]
    OBVIOUS
  <2>4. PICK f : f = [top EXCEPT !.i = i]
    OBVIOUS
  <2>5. /\ callbacks' = callbacks \cup {c}
        /\ frames' = <<f>> \o Tail(frames)
        /\ UNCHANGED crashed
    BY <1>2, <1>11, <2>1, <2>3, <2>4 DEF HandlerReturns, RunHandler
  <2>6. c \in Callback /\ c.id = top.id /\ c.request = top.request /\ c.i = i
    BY <1>6, <2>2, <2>3 DEF Callback
  <2>7. f = [call |-> "request", id |-> top.id, request |-> top.request,
             n |-> top.n, i |-> i]
    BY <1>6, <2>4
  <2>8. /\ f \in Frame /\ f.call = "request" /\ f.id = top.id /\ f.request = top.request
        /\ f.n = top.n /\ f.i = i
    BY <1>6, <2>2, <2>7, Frames
  <2>9. /\ frames' \in Seq(Frame) /\ RequestLast(frames')
        /\ Elements(frames') = {f} \cup Elements(Tail(frames))
    <3>1. <<>> \in Seq(Frame) /\ RequestLast(<<>>)
      BY DEF RequestLast
    <3> QED
      BY <1>3, <2>5, <2>8, <3>1, OnTop
  <2>10. InProgress' = {f}
    <3>1. InProgress' = Elements(frames')
      BY DEF InProgress, Elements
    <3>2. Elements(Tail(frames)) = {}
      BY <1>3, <1>4
    <3> QED
      BY <2>9, <3>1, <3>2
  <2>11. Asking' = {f}
    BY <2>8, <2>10 DEF Asking
  <2>12. callbacks' \subseteq Callback
    BY <1>8, <2>5, <2>6
  <2>13. \A id, r : Known(id, r)' => Known(id, r)
    BY <1>1, <1>5, <2>5, <2>6, <2>8, <2>11 DEF Known, Pending
  <2>14. DecidedSoFar'
    <3>1. i \in top.i + 1 .. top.n /\ \A j \in i + 1 .. top.n : j \in top.i + 1 .. top.n
      BY <1>7, <2>1, <2>2
    <3>2. \A b \in callbacks' : decisions'[b.request][b.i] = "none"
      BY <1>1, <1>5, <1>8, <2>5, <2>6, <3>1 DEF DecidedSoFar
    <3>3. \A g \in Asking' : \A j \in g.i + 1 .. g.n : decisions'[g.request][j] = "none"
      BY <1>1, <1>5, <1>8, <2>8, <2>11, <3>1 DEF DecidedSoFar
    <3>4. \A g \in Asking' : g.i <= g.n
      BY <2>2, <2>8, <2>11
    <3>5. \A g \in Asking', b \in callbacks' : b.id = g.id => b.i <= g.i
      <4> SUFFICES ASSUME NEW b \in callbacks', b.id = f.id PROVE b.i <= f.i
        BY <2>11
      <4>1. CASE b = c
        BY <2>2, <2>6, <2>8, <4>1
      <4>2. CASE b \in callbacks
        <5>1. b.i <= top.i /\ b.i \in Nat
          BY <1>5, <1>8, <2>8, <4>2, CallbackTypes, BatchAssumption DEF DecidedSoFar
        <5> QED
          BY <1>7, <2>2, <2>8, <5>1
      <4> QED
        BY <2>5, <4>1, <4>2
    <3>6. \A r \in Requests : page'[r] = "none" =>
            \A k \in 1..MaxBatch : decisions'[r][k] = "none"
      BY <1>1, <1>8 DEF DecidedSoFar
    <3> QED
      BY <3>2, <3>3, <3>4, <3>5, <3>6 DEF DecidedSoFar
  <2>15. ASSUME NEW id PROVE Undecided(id)' = Undecided(id)
    <3>1. \A x : x \in top.i + 1 .. top.n <=> x = i \/ x \in i + 1 .. top.n
      BY <1>7, <2>1, <2>2
    <3>2. \A x : x \in Undecided(id) <=> \/ \E b \in callbacks : b.id = id /\ b.i = x
                                         \/ id = top.id /\ x \in top.i + 1 .. top.n
      BY <1>5, UndecidedBy
    <3>3. \A x : x \in Undecided(id)' <=> \/ \E b \in callbacks : b.id = id /\ b.i = x
                                          \/ id = top.id /\ x = i
                                          \/ id = top.id /\ x \in i + 1 .. top.n
      BY <2>5, <2>6, <2>8, <2>11, UndecidedByNext
    <3>4. \A x : x \in Undecided(id)' <=> x \in Undecided(id)
      BY <3>1, <3>2, <3>3
    <3> QED
      BY <3>4
  <2>16. \A g \in InProgress' : g.call = "request"
    BY <2>8, <2>10
  <2> QED
    BY <1>1, <2>5, <2>9, <2>12, <2>13, <2>14, <2>15, <2>16, TurnKeeps
<1> QED
  BY <1>9, <1>10, <1>11

-----------------------------------------------------------------------------
(* JavaScript calls a callback: what it decides was not decided before.    *)
LEMMA UseKeeps ==
    ASSUME IInv, NEW c \in callbacks, NEW status \in Statuses,
           Use(c), decisions' = [decisions EXCEPT ![c.request][c.i] = status],
           Asking' = Asking,
           UNCHANGED <<next_id, page>>
    PROVE  /\ decisions' \in [Requests -> [1..MaxBatch -> Statuses \cup {"none"}]]
           /\ callbacks' \subseteq Callback
           /\ DecidedSoFar'
           /\ \A q \in Requests, a \in Answer : IsTrue(q, a) => IsTrue(q, a)'
           /\ \A id : Undecided(id)' = Undecided(id) \ (IF id = c.id THEN {c.i} ELSE {})
           /\ c.i \in Undecided(c.id)
           /\ \A q \in Requests, i \in 1..MaxBatch :
                decisions'[q][i] = IF q = c.request /\ i = c.i THEN status ELSE decisions[q][i]
<1>1. /\ DecidedSoFar /\ callbacks \subseteq Callback /\ frames \in Seq(Frame)
      /\ decisions \in [Requests -> [1..MaxBatch -> Statuses \cup {"none"}]]
  BY DecidedParts, TypeParts DEF IInv, ScalarTypes
<1>2. c.request \in Requests /\ c.id \in Ids /\ c.i \in 1..MaxBatch
  BY <1>1, CallbackTypes
<1>3. callbacks' = callbacks \ {c}
  BY DEF Use
<1>4. \A q \in Requests, i \in 1..MaxBatch :
        decisions'[q][i] = IF q = c.request /\ i = c.i THEN status ELSE decisions[q][i]
  BY <1>1, <1>2
<1>5. decisions' \in [Requests -> [1..MaxBatch -> Statuses \cup {"none"}]]
  <2>1. [decisions[c.request] EXCEPT ![c.i] = status] \in [1..MaxBatch -> Statuses \cup {"none"}]
    BY <1>1, <1>2
  <2> QED
    BY <1>1, <2>1
<1>6. decisions[c.request][c.i] = "none"
  BY <1>1 DEF DecidedSoFar
<1>7. \A b \in callbacks : Known(b.id, b.request)
  BY DEF Known
<1>8. \A f \in Asking : Known(f.id, f.request)
  BY DEF Known
<1>9. \A b \in callbacks : b.request = c.request <=> b.id = c.id
  BY <1>7 DEF IInv, Names
<1>10. \A f \in Asking : f.request = c.request <=> f.id = c.id
  BY <1>7, <1>8 DEF IInv, Names
<1>11. \A b \in callbacks : b.id = c.id /\ b.i = c.i => b = c
  <2>1. \A b \in Callback : b = [request |-> b.request, id |-> b.id, i |-> b.i]
    BY DEF Callback
  <2> QED
    BY <1>1, <1>9, <2>1
<1>12. \A f \in Asking : f.id = c.id => c.i <= f.i
  BY <1>1 DEF DecidedSoFar
<1>13. \A f \in Asking : f.id = c.id => \A j \in f.i + 1 .. f.n : j # c.i
  <2>1. \A f \in Asking : f.i \in Nat /\ f.n \in Nat
    BY <1>1, AskingTypes
  <2>2. c.i \in Nat
    BY <1>2
  <2> QED
    BY <1>12, <2>1, <2>2
<1>14. DecidedSoFar'
  <2>1. ASSUME NEW b \in callbacks' PROVE decisions'[b.request][b.i] = "none"
    <3>1. b \in callbacks /\ ~(b.id = c.id /\ b.i = c.i)
      BY <1>3, <1>11
    <3>2. b.request \in Requests /\ b.i \in 1..MaxBatch
      BY <1>1, <3>1, CallbackTypes
    <3>3. decisions[b.request][b.i] = "none"
      BY <1>1, <3>1 DEF DecidedSoFar
    <3> QED
      BY <1>4, <1>9, <3>1, <3>2, <3>3
  <2>2. ASSUME NEW f \in Asking, NEW j \in f.i + 1 .. f.n
        PROVE  decisions'[f.request][j] = "none"
    <3>1. decisions[f.request][j] = "none"
      BY <1>1 DEF DecidedSoFar
    <3>2. f.request \in Requests /\ j \in 1..MaxBatch
      <4>1. f.i \in 1..MaxBatch /\ f.n \in 1..MaxBatch /\ f.request \in Requests
        BY <1>1, AskingTypes
      <4> QED
        BY <4>1, BatchAssumption
    <3>3. ~(f.request = c.request /\ j = c.i)
      BY <1>10, <1>13
    <3> QED
      BY <1>4, <3>1, <3>2, <3>3
  <2>3. \A f \in Asking : f.i <= f.n
    BY <1>1 DEF DecidedSoFar
  <2>4. \A f \in Asking, b \in callbacks' : b.id = f.id => b.i <= f.i
    BY <1>1, <1>3 DEF DecidedSoFar
  <2>5. ASSUME NEW q \in Requests, page'[q] = "none", NEW i \in 1..MaxBatch
        PROVE  decisions'[q][i] = "none"
    <3>1. q # c.request
      <4>1. Known(c.id, c.request)
        BY <1>7
      <4> QED
        BY <2>5, <4>1 DEF IInv, Names
    <3>2. decisions[q][i] = "none"
      BY <1>1, <2>5 DEF DecidedSoFar
    <3> QED
      BY <1>4, <3>1, <3>2
  <2> QED
    BY <2>1, <2>2, <2>3, <2>4, <2>5 DEF DecidedSoFar
<1>15. ASSUME NEW q \in Requests, NEW a \in Answer, IsTrue(q, a)
       PROVE  IsTrue(q, a)'
  <2>1. /\ a.results \in Seq(Statuses) /\ Len(a.results) <= MaxBatch
    BY DEF Answer, Batches
  <2>2. Len(a.results) \in Nat
    BY <2>1, LenProperties
  <2>3. ASSUME NEW i \in 1..Len(a.results)
        PROVE  /\ a.reason = "handler" => a.results[i] = decisions'[q][i]
               /\ a.reason = "cleared" /\ a.results[i] = "granted" => decisions'[q][i] = "granted"
    <3>1. i \in 1..MaxBatch
      BY <2>1, <2>2, BatchAssumption
    <3>2. a.results[i] # "none"
      <4>1. a.results[i] \in Statuses
        BY <2>1, ElementOfSeq
      <4> QED
        BY <4>1 DEF Statuses
    <3>3. /\ a.reason = "handler" => a.results[i] = decisions[q][i]
          /\ a.reason = "cleared" /\ a.results[i] = "granted" => decisions[q][i] = "granted"
      BY <1>15 DEF IsTrue
    <3>4. CASE q = c.request /\ i = c.i
      BY <1>6, <3>2, <3>3, <3>4
    <3>5. CASE ~(q = c.request /\ i = c.i)
      BY <1>4, <3>1, <3>3, <3>5
    <3> QED
      BY <3>4, <3>5
  <2> QED
    BY <2>3 DEF IsTrue
<1>16. ASSUME NEW id
       PROVE  Undecided(id)' = Undecided(id) \ (IF id = c.id THEN {c.i} ELSE {})
  <2>1. \A x : x \in Undecided(id) <=> \/ \E b \in callbacks : b.id = id /\ b.i = x
                                       \/ \E f \in Asking : f.id = id /\ x \in f.i + 1 .. f.n
    BY UndecidedBy
  <2>2. \A x : x \in Undecided(id)' <=> \/ \E b \in callbacks \ {c} : b.id = id /\ b.i = x
                                        \/ \E f \in Asking : f.id = id /\ x \in f.i + 1 .. f.n
    BY <1>3, UndecidedByNext
  <2>3. CASE id = c.id
    <3>1. \A x : (\E b \in callbacks \ {c} : b.id = id /\ b.i = x) <=>
                   (\E b \in callbacks : b.id = id /\ b.i = x) /\ x # c.i
      BY <1>11, <2>3
    <3>2. \A x : (\E f \in Asking : f.id = id /\ x \in f.i + 1 .. f.n) => x # c.i
      BY <1>13, <2>3
    <3>3. \A x : x \in Undecided(id)' <=> x \in Undecided(id) /\ x # c.i
      BY <2>1, <2>2, <3>1, <3>2, Zenon
    <3> QED
      BY <2>3, <3>3
  <2>4. CASE id # c.id
    <3>1. \A x : (\E b \in callbacks \ {c} : b.id = id /\ b.i = x) <=>
                   (\E b \in callbacks : b.id = id /\ b.i = x)
      BY <2>4
    <3>2. \A x : x \in Undecided(id)' <=> x \in Undecided(id)
      BY <2>1, <2>2, <3>1, Zenon
    <3> QED
      BY <2>4, <3>2
  <2> QED
    BY <2>3, <2>4
<1>17. c.i \in Undecided(c.id)
  BY UndecidedBy
<1>18. callbacks' \subseteq Callback
  BY <1>1, <1>3
<1> QED
  BY <1>4, <1>5, <1>14, <1>15, <1>16, <1>17, <1>18

(* The counts after the call: an entry that was decided once more counts   *)
(* one callback less, the others what they counted.                        *)
LEMMA UseCounts ==
    ASSUME IInv, NEW c \in callbacks, NEW status \in Statuses,
           Use(c), decisions' = [decisions EXCEPT ![c.request][c.i] = status],
           Asking' = Asking,
           UNCHANGED <<next_id, page>>
    PROVE  /\ \A k \in Pending \ {c.id} : \A e : e = pending_requests_[k] => CountOf(k, e)'
           /\ c.id \in Pending =>
                \A e : e = pending_requests_[c.id] =>
                  /\ e.request = c.request
                  /\ c.i \in 1..Len(e.results_)
                  /\ e.remaining_results_ > 0
                  /\ CountOf(c.id, SetPermissionStatus(e, c.i, status))'
<1>1. /\ callbacks \subseteq Callback /\ frames \in Seq(Frame) /\ EntryTypes
      /\ c.request \in Requests /\ c.id \in Ids /\ c.i \in 1..MaxBatch
  BY TypeParts, CallbackTypes DEF IInv, ScalarTypes
<1>2. /\ \A id : Undecided(id)' = Undecided(id) \ (IF id = c.id THEN {c.i} ELSE {})
      /\ c.i \in Undecided(c.id)
      /\ \A q \in Requests, i \in 1..MaxBatch :
           decisions'[q][i] = IF q = c.request /\ i = c.i THEN status ELSE decisions[q][i]
  BY UseKeeps
<1>3. Known(c.id, c.request) /\ \A k \in Pending : Known(k, pending_requests_[k].request)
  BY DEF Known
<1>4. \A k \in Pending : pending_requests_[k].request = c.request <=> k = c.id
  BY <1>3 DEF IInv, Names
<1>5. ASSUME NEW k \in Pending \ {c.id}, NEW e, e = pending_requests_[k]
      PROVE  CountOf(k, e)'
  <2>1. CountOf(k, e)
    BY <1>5 DEF IInv, Counted
  <2>2. Undecided(k)' = Undecided(k)
    BY <1>2
  <2>3. e.request \in Requests \ {c.request} /\ Len(e.results_) \in 0..MaxBatch
    BY <1>1, <1>4, <1>5, EntryFields
  <2>4. \A i \in 1..Len(e.results_) : decisions'[e.request][i] = decisions[e.request][i]
    <3>1. \A i \in 1..Len(e.results_) : i \in 1..MaxBatch
      BY <2>3, BatchAssumption
    <3> QED
      BY <1>2, <2>3, <3>1
  <2> QED
    BY <2>1, <2>2, <2>4 DEF CountOf
<1>6. ASSUME c.id \in Pending, NEW e, e = pending_requests_[c.id]
      PROVE  /\ e.request = c.request
             /\ c.i \in 1..Len(e.results_)
             /\ e.remaining_results_ > 0
             /\ CountOf(c.id, SetPermissionStatus(e, c.i, status))'
  <2>1. e.request = c.request
    BY <1>4, <1>6
  <2>2. /\ Undecided(c.id) \subseteq 1..Len(e.results_)
        /\ e.remaining_results_ = Cardinality(Undecided(c.id))
        /\ \A i \in 1..Len(e.results_) :
             IF i \in Undecided(c.id) THEN e.results_[i] = "denied"
                                    ELSE e.results_[i] = decisions[e.request][i]
    BY <1>6 DEF IInv, Counted, CountOf
  <2>3. e \in PendingRequest /\ Len(e.results_) \in 0..MaxBatch
        /\ e.remaining_results_ \in 0..MaxBatch
    BY <1>1, <1>6, EntryFields
  <2>4. c.i \in 1..Len(e.results_)
    BY <1>2, <2>2
  <2>5. IsFiniteSet(Undecided(c.id))
    <3>1. PICK n \in Int : n = Len(e.results_)
      BY <2>3
    <3>2. 1 \in Int
      OBVIOUS
    <3>3. IsFiniteSet(1..n)
      BY <3>2, FS_Interval
    <3> QED
      BY <2>2, <3>1, <3>3, FS_Subset
  <2>6. Cardinality(Undecided(c.id)) # 0
    BY <1>2, <2>5, FS_EmptySet
  <2>7. e.remaining_results_ > 0
    BY <2>2, <2>3, <2>6, BatchAssumption
  <2>8. Cardinality(Undecided(c.id) \ {c.i}) = Cardinality(Undecided(c.id)) - 1
    BY <1>2, <2>5, FS_RemoveElement
  <2>9. Undecided(c.id)' = Undecided(c.id) \ {c.i}
    BY <1>2
  <2>10. PICK d : d = SetPermissionStatus(e, c.i, status)
    OBVIOUS
  <2>11. /\ d.request = e.request
         /\ d.remaining_results_ = e.remaining_results_ - 1
         /\ Len(d.results_) = Len(e.results_)
         /\ \A j \in 1..Len(e.results_) :
              d.results_[j] = IF j = c.i THEN status ELSE e.results_[j]
    BY <2>3, <2>4, <2>7, <2>10, OneDecided
  <2>12. ASSUME NEW i \in 1..Len(d.results_)
         PROVE  IF i \in Undecided(c.id)' THEN d.results_[i] = "denied"
                                        ELSE d.results_[i] = decisions'[d.request][i]
    <3>1. i \in 1..MaxBatch /\ i \in 1..Len(e.results_)
      BY <2>3, <2>11, BatchAssumption
    <3>2. decisions'[d.request][i] = IF i = c.i THEN status ELSE decisions[e.request][i]
      BY <1>1, <1>2, <2>1, <2>11, <3>1
    <3> QED
      BY <2>2, <2>9, <2>11, <3>1, <3>2
  <2>13. Undecided(c.id)' \subseteq 1..Len(d.results_)
    BY <2>2, <2>9, <2>11
  <2>14. d.remaining_results_ = Cardinality(Undecided(c.id)')
    BY <2>2, <2>8, <2>9, <2>11
  <2>15. CountOf(c.id, d)'
    BY <2>12, <2>13, <2>14 DEF CountOf
  <2> QED
    BY <2>1, <2>4, <2>7, <2>10, <2>15
<1> QED
  BY <1>5, <1>6

(* The steps in which a callback is called and no page is answered.        *)
LEMMA UseSilently ==
    ASSUME IInv, NEW c \in callbacks, NEW status \in Statuses,
           Use(c), decisions' = [decisions EXCEPT ![c.request][c.i] = status],
           UNCHANGED <<request_handler_, next_id, crashed, page, alive, gone, frames, replies>>,
           Pending' \subseteq Pending,
           \A k \in Pending' \ {c.id} : pending_requests_'[k] = pending_requests_[k],
           c.id \in Pending' =>
             LET e == pending_requests_[c.id] IN
             /\ pending_requests_'[c.id] = SetPermissionStatus(e, c.i, status),
           \A k \in Pending \ Pending' : ~pending_requests_[k].callback_
    PROVE  IInv'
<1>1. EntryTypes /\ ScalarTypes /\ frames \in Seq(Frame) /\ replies \in [Requests -> Seq(Answer)]
  BY TypeParts DEF IInv
<1>2. /\ frames' \in Seq(Frame) /\ RequestLast(frames') /\ Asking' = Asking
      /\ InProgress' = InProgress
  BY SameFrames DEF IInv
<1>3. /\ decisions' \in [Requests -> [1..MaxBatch -> Statuses \cup {"none"}]]
      /\ callbacks' \subseteq Callback
      /\ DecidedSoFar'
      /\ \A q \in Requests, a \in Answer : IsTrue(q, a) => IsTrue(q, a)'
  BY <1>2, UseKeeps
<1>4. /\ \A k \in Pending \ {c.id} : \A e : e = pending_requests_[k] => CountOf(k, e)'
      /\ c.id \in Pending =>
           \A e : e = pending_requests_[c.id] =>
             /\ c.i \in 1..Len(e.results_)
             /\ e.remaining_results_ > 0
             /\ CountOf(c.id, SetPermissionStatus(e, c.i, status))'
  BY <1>2, UseCounts
<1>5. ASSUME c.id \in Pending'
      PROVE  /\ pending_requests_'[c.id] \in PendingRequest
             /\ pending_requests_'[c.id].request = pending_requests_[c.id].request
             /\ pending_requests_'[c.id].callback_ = pending_requests_[c.id].callback_
             /\ CountOf(c.id, pending_requests_[c.id])'
  <2>1. PICK e : e = pending_requests_[c.id]
    OBVIOUS
  <2>2. c.id \in Pending /\ e \in PendingRequest
    BY <1>1, <1>5, <2>1, EntryFields
  <2>3. PICK d : d = SetPermissionStatus(e, c.i, status)
    OBVIOUS
  <2>4. pending_requests_'[c.id] = d
    BY <1>5, <2>1, <2>3
  <2>5. CountOf(c.id, d)' /\ c.i \in 1..Len(e.results_) /\ e.remaining_results_ > 0
    BY <1>4, <2>1, <2>2, <2>3
  <2>6. d \in PendingRequest /\ d.request = e.request /\ d.callback_ = e.callback_
    BY <2>2, <2>3, <2>5, OneDecided
  <2> QED
    BY <2>1, <2>4, <2>5, <2>6
<1>6. \A k \in Pending' : /\ pending_requests_'[k] \in PendingRequest
                          /\ pending_requests_'[k].request = pending_requests_[k].request
                          /\ pending_requests_'[k].callback_ = pending_requests_[k].callback_
  <2>1. \A k \in Pending' \ {c.id} :
          pending_requests_'[k] = pending_requests_[k] /\ pending_requests_[k] \in PendingRequest
    BY <1>1 DEF EntryTypes
  <2> QED
    BY <1>5, <2>1
<1>7. Typed'
  <2>1. EntryTypes' /\ ScalarTypes'
    BY <1>1, <1>3, <1>6 DEF EntryTypes, ScalarTypes
  <2>2. replies' \in [Requests -> Seq(Answer)]
    BY <1>1
  <2>3. (Typed <=> EntryTypes /\ ScalarTypes /\ frames \in Seq(Frame)
                      /\ replies \in [Requests -> Seq(Answer)])'
    BY DEF Typed, EntryTypes, ScalarTypes, Answer
  <2> QED
    BY <1>2, <2>1, <2>2, <2>3
<1>8. Names'
  <2>1. \A id, r : Known(id, r)' => Known(id, r)
    BY <1>2, <1>6 DEF Known, Use
  <2> QED
    BY <1>1, <2>1, FewerNames DEF IInv
<1>9. Replied'
  BY <1>6 DEF IInv, Replied, AnsweredOnce
<1>10. Heard'
  <2>1. ASSUME NEW q \in Requests, page[q] # "none", q \notin gone, replies[q] = <<>>
        PROVE  \E k \in Pending' : pending_requests_'[k].request = q
    <3>1. PICK k \in Pending : pending_requests_[k].request = q
      BY <2>1 DEF IInv, Heard
    <3>2. pending_requests_[k].callback_
      BY <2>1, <3>1 DEF IInv, Replied
    <3> QED
      BY <1>6, <3>1, <3>2
  <2>2. Pending' # {} => request_handler_'
    BY DEF IInv, Heard
  <2>3. \A f \in InProgress' :
          f.call = "response" /\ f.id \in Pending' => ~pending_requests_'[f.id].callback_
    BY <1>2, <1>6 DEF IInv, Heard
  <2>4. \A f \in InProgress' : f.call = "clear" =>
          \A k \in Pending' \ f.todo :
            pending_requests_'[k].callback_ => pending_requests_'[k].request \in gone'
    BY <1>2, <1>6 DEF IInv, Heard
  <2> QED
    BY <2>1, <2>2, <2>3, <2>4 DEF Heard
<1>11. Decided'
  <2>1. DecidedByItsOwn'
    <3>0. (DecidedByItsOwn <=>
             \A q \in Requests : \A k \in 1..Len(replies[q]) : IsTrue(q, replies[q][k]))'
      BY DEF DecidedByItsOwn, IsTrue
    <3> SUFFICES ASSUME NEW q \in Requests, NEW k \in 1..Len(replies[q])
                 PROVE  IsTrue(q, replies[q][k])'
      BY <3>0
    <3>1. replies[q][k] \in Answer
      BY <1>1, ElementOfSeq
    <3>2. PICK a \in Answer : a = replies[q][k]
      BY <3>1
    <3>3. IsTrue(q, a)
      BY <3>2, AllTrue, DecidedParts DEF IInv
    <3>4. IsTrue(q, a)'
      BY <1>3, <3>3
    <3> QED
      BY <3>2, <3>4
  <2> QED
    BY <1>3, <2>1 DEF Decided, DecidedSoFar
<1>12. Counted'
  <2> SUFFICES ASSUME NEW k \in Pending' PROVE CountOf(k, pending_requests_[k])'
    BY DEF Counted
  <2>1. CASE k = c.id
    BY <1>5, <2>1
  <2>2. CASE k # c.id
    <3>1. PICK e : e = pending_requests_[k]
      OBVIOUS
    <3>2. CountOf(k, e)'
      BY <1>4, <2>2, <3>1
    <3>3. pending_requests_'[k] = e
      BY <2>2, <3>1
    <3> QED
      BY <3>2, <3>3
  <2> QED
    BY <2>1, <2>2
<1> QED
  BY <1>2, <1>7, <1>8, <1>9, <1>10, <1>11, <1>12 DEF IInv

(* The last callback of a batch: the page hears what they all were called  *)
(* with.                                                                   *)
LEMMA UseAnswers ==
    ASSUME IInv, NEW c \in callbacks, NEW status \in Statuses,
           Use(c), decisions' = [decisions EXCEPT ![c.request][c.i] = status],
           UNCHANGED <<request_handler_, next_id, crashed, page, alive, gone>>,
           c.id \in Pending,
           NEW d, d = SetPermissionStatus(pending_requests_[c.id], c.i, status),
           IsComplete(d), d.callback_,
           pending_requests_' = [pending_requests_ EXCEPT ![c.id] = MoveCallback(d)],
           Reply(d.request, d.results_, "handler"),
           Enter(<<[call |-> "reply"], [call |-> "response", id |-> c.id]>>)
    PROVE  IInv'
<1>1. EntryTypes /\ ScalarTypes /\ frames \in Seq(Frame) /\ replies \in [Requests -> Seq(Answer)]
  BY TypeParts DEF IInv
<1>2. PICK e : e = pending_requests_[c.id]
  OBVIOUS
<1>3. c.id \in Ids /\ e \in PendingRequest /\ e.request \in Requests /\ e.callback_ \in BOOLEAN
  BY <1>1, <1>2, EntryFields
<1>4. PICK top \in Frame : top = [call |-> "reply"] /\ top.call = "reply"
  BY Frames
<1>5. PICK under \in Frame : /\ under = [call |-> "response", id |-> c.id]
                             /\ under.call = "response" /\ under.id = c.id
  BY <1>3, Frames
<1>6. frames' = <<top, under>> \o frames
  BY <1>4, <1>5 DEF Enter
<1>7. /\ frames' \in Seq(Frame) /\ RequestLast(frames')
      /\ Elements(frames') = {top, under} \cup Elements(frames)
  BY <1>1, <1>4, <1>5, <1>6, TwoOnTop DEF IInv
<1>8. InProgress' = {top, under} \cup InProgress
  BY <1>7 DEF InProgress, Elements
<1>9. Asking' = Asking
  BY <1>4, <1>5, <1>8 DEF Asking
<1>10. /\ \A k \in Pending \ {c.id} : \A g : g = pending_requests_[k] => CountOf(k, g)'
       /\ e.request = c.request
       /\ c.i \in 1..Len(e.results_)
       /\ e.remaining_results_ > 0
       /\ CountOf(c.id, d)'
  BY <1>2, <1>9, UseCounts
<1>11. /\ d \in PendingRequest
       /\ d.request = e.request
       /\ d.callback_ = e.callback_
  <2>1. PICK g : g = SetPermissionStatus(e, c.i, status)
    OBVIOUS
  <2>2. g \in PendingRequest /\ g.request = e.request /\ g.callback_ = e.callback_
    BY <1>3, <1>10, <2>1, OneDecided
  <2>3. d = g
    BY <1>2, <2>1
  <2> QED
    BY <2>2, <2>3, Zenon
<1>12. PICK r \in Requests : r = d.request
  BY <1>3, <1>11
<1>13. PICK results \in Batches : results = d.results_
  BY <1>11 DEF PendingRequest
<1>14. Reply(r, results, "handler") /\ "handler" \in Reasons
  BY <1>12, <1>13 DEF Reasons
<1>15. PICK m : m = MoveCallback(d)
  OBVIOUS
<1>16. /\ m \in PendingRequest /\ m.request = r /\ m.results_ = results
       /\ m.remaining_results_ = d.remaining_results_ /\ m.callback_ = FALSE
  BY <1>11, <1>12, <1>13, <1>15, Moved
<1>17. /\ Pending' = Pending
       /\ pending_requests_'[c.id] = m
       /\ \A k \in Pending \ {c.id} : pending_requests_'[k] = pending_requests_[k]
  BY <1>15 DEF Pending
<1>18. /\ decisions' \in [Requests -> [1..MaxBatch -> Statuses \cup {"none"}]]
       /\ callbacks' \subseteq Callback
       /\ DecidedSoFar'
       /\ \A q \in Requests, a \in Answer : IsTrue(q, a) => IsTrue(q, a)'
       /\ \A id : Undecided(id)' = Undecided(id) \ (IF id = c.id THEN {c.i} ELSE {})
  BY <1>9, UseKeeps
<1>19. replies[r] = <<>> /\ page[r] # "none"
  <2>1. Known(c.id, r)
    BY <1>2, <1>11, <1>12 DEF Known
  <2>2. e.callback_
    BY <1>11
  <2>3. pending_requests_[c.id].callback_ /\ pending_requests_[c.id].request = r
    BY <1>2, <1>11, <1>12, <2>2
  <2> QED
    BY <2>1, <2>3 DEF IInv, Replied, Names
<1>20. \A k \in Pending \ {c.id} : pending_requests_[k].request # r
  <2>1. Known(c.id, r) /\ \A k \in Pending : Known(k, pending_requests_[k].request)
    BY <1>2, <1>11, <1>12 DEF Known
  <2> QED
    BY <2>1 DEF IInv, Names
<1>21. IsTrue(r, [results |-> results, reason |-> "handler"])'
  <2>1. Undecided(c.id)' = {}
    <3>1. d.remaining_results_ = Cardinality(Undecided(c.id)')
      BY <1>10 DEF CountOf
    <3>2. Cardinality(Undecided(c.id)') = 0
      BY <3>1 DEF IsComplete
    <3>3. Undecided(c.id)' \subseteq 1..Len(d.results_)
      BY <1>10 DEF CountOf
    <3>4. PICK n \in Int : n = Len(d.results_)
      <4>1. d.results_ \in Seq(Statuses)
        BY <1>13 DEF Batches
      <4>2. Len(d.results_) \in Nat
        BY <4>1, LenProperties
      <4> QED
        BY <4>2
    <3>5. 1 \in Int
      OBVIOUS
    <3>6. IsFiniteSet(1..n)
      BY <3>5, FS_Interval
    <3>7. IsFiniteSet(Undecided(c.id)')
      BY <3>3, <3>4, <3>6, FS_Subset
    <3> QED
      BY <3>2, <3>7, FS_EmptySet
  <2>2. \A i \in 1..Len(d.results_) : d.results_[i] = decisions'[d.request][i]
    BY <1>10, <2>1 DEF CountOf
  <2> QED
    BY <1>12, <1>13, <2>2 DEF IsTrue
<1>22. /\ replies' \in [Requests -> Seq(Answer)]
       /\ \A q \in Requests \ {r} : replies'[q] = replies[q]
       /\ replies'[r] # <<>>
       /\ AnsweredOnce'
       /\ DecidedByItsOwn'
  BY <1>1, <1>14, <1>18, <1>19, <1>21, AnswerKeeps, DecidedParts DEF IInv, Replied
<1>23. Typed'
  <2>1. EntryTypes' /\ ScalarTypes'
    BY <1>1, <1>16, <1>17, <1>18 DEF EntryTypes, ScalarTypes
  <2>2. (Typed <=> EntryTypes /\ ScalarTypes /\ frames \in Seq(Frame)
                      /\ replies \in [Requests -> Seq(Answer)])'
    BY DEF Typed, EntryTypes, ScalarTypes, Answer
  <2> QED
    BY <1>7, <1>22, <2>1, <2>2
<1>24. Names'
  <2>1. pending_requests_[c.id].request = r
    BY <1>2, <1>11, <1>12
  <2>2. \A id, q : Known(id, q)' => Known(id, q)
    BY <1>9, <1>16, <1>17, <2>1 DEF Known, Use
  <2> QED
    BY <1>1, <2>2, FewerNames DEF IInv
<1>25. Replied'
  <2>1. ASSUME NEW k \in Pending'
        PROVE  pending_requests_'[k].callback_ <=> replies'[pending_requests_'[k].request] = <<>>
    <3>1. CASE k = c.id
      BY <1>16, <1>17, <1>22, <3>1
    <3>2. CASE k # c.id
      <4>1. k \in Pending \ {c.id} /\ pending_requests_'[k] = pending_requests_[k]
        BY <1>17, <3>2
      <4>2. pending_requests_[k].request \in Requests \ {r}
        BY <1>1, <1>20, <4>1, EntryFields
      <4> QED
        BY <1>22, <4>1, <4>2 DEF IInv, Replied
    <3> QED
      BY <3>1, <3>2
  <2>2. ASSUME NEW q \in Requests, page'[q] = "none" PROVE replies'[q] = <<>>
    <3>1. q \in Requests \ {r} /\ page[q] = "none"
      BY <1>19, <2>2
    <3>2. replies[q] = <<>>
      BY <3>1 DEF IInv, Replied
    <3> QED
      BY <1>22, <3>1, <3>2
  <2> QED
    BY <1>22, <2>1, <2>2 DEF Replied
<1>26. Heard'
  <2>1. ASSUME NEW q \in Requests, page[q] # "none", q \notin gone, replies'[q] = <<>>
        PROVE  \E k \in Pending' : pending_requests_'[k].request = q
    <3>1. q \in Requests \ {r}
      BY <1>22, <2>1
    <3>2. replies[q] = <<>>
      BY <1>22, <2>1, <3>1
    <3>3. PICK k \in Pending : pending_requests_[k].request = q
      BY <2>1, <3>2 DEF IInv, Heard
    <3>4. k # c.id
      BY <1>2, <1>11, <1>12, <3>1, <3>3
    <3> QED
      BY <1>17, <3>3, <3>4
  <2>2. Pending' # {} => request_handler_'
    BY <1>17 DEF IInv, Heard
  <2>3. ASSUME NEW f \in InProgress', f.call = "response", f.id \in Pending'
        PROVE  ~pending_requests_'[f.id].callback_
    <3>1. CASE f.id = c.id
      BY <1>16, <1>17, <3>1
    <3>2. CASE f.id # c.id
      <4>1. f \in InProgress
        BY <1>4, <1>5, <1>8, <2>3, <3>2
      <4> QED
        BY <1>17, <2>3, <3>2, <4>1 DEF IInv, Heard
    <3> QED
      BY <3>1, <3>2
  <2>4. ASSUME NEW f \in InProgress', f.call = "clear", NEW k \in Pending' \ f.todo,
               pending_requests_'[k].callback_
        PROVE  pending_requests_'[k].request \in gone'
    <3>1. f \in InProgress
      BY <1>4, <1>5, <1>8, <2>4
    <3>2. k # c.id
      BY <1>16, <1>17, <2>4
    <3> QED
      BY <1>17, <2>4, <3>1, <3>2 DEF IInv, Heard
  <2> QED
    BY <2>1, <2>2, <2>3, <2>4 DEF Heard
<1>27. Decided'
  BY <1>18, <1>22 DEF Decided, DecidedSoFar
<1>28. Counted'
  <2> SUFFICES ASSUME NEW k \in Pending' PROVE CountOf(k, pending_requests_[k])'
    BY DEF Counted
  <2>1. CASE k = c.id
    <3>1. CountOf(c.id, m)'
      BY <1>10, <1>12, <1>13, <1>16 DEF CountOf
    <3> QED
      BY <1>17, <2>1, <3>1
  <2>2. CASE k # c.id
    <3>1. PICK g : g = pending_requests_[k]
      OBVIOUS
    <3>2. CountOf(k, g)'
      BY <1>10, <1>17, <2>2, <3>1
    <3> QED
      BY <1>17, <2>2, <3>1, <3>2
  <2> QED
    BY <2>1, <2>2
<1> QED
  BY <1>7, <1>23, <1>24, <1>25, <1>26, <1>27, <1>28 DEF IInv

LEMMA OnPermissionResponseKeeps ==
    ASSUME IInv, NEW c \in callbacks, NEW status \in Statuses, OnPermissionResponse(c, status)
    PROVE  IInv'
<1>1. /\ Use(c) /\ decisions' = [decisions EXCEPT ![c.request][c.i] = status]
      /\ UNCHANGED <<request_handler_, next_id, crashed, page, alive, gone>>
  BY DEF OnPermissionResponse
<1>2. PICK d : d = SetPermissionStatus(pending_requests_[c.id], c.i, status)
  OBVIOUS
<1>3. CASE c.id \notin Pending
  <2>1. UNCHANGED <<frames, pending_requests_, replies>> /\ Pending' = Pending
    BY <1>3 DEF OnPermissionResponse, Pending
  <2> QED
    BY <1>1, <1>3, <2>1, UseSilently
<1>4. CASE c.id \in Pending /\ ~IsComplete(d)
  <2>1. /\ pending_requests_' = [pending_requests_ EXCEPT ![c.id] = d]
        /\ UNCHANGED <<frames, replies>>
    BY <1>2, <1>4 DEF OnPermissionResponse
  <2>2. /\ Pending' = Pending
        /\ pending_requests_'[c.id] = d
        /\ \A k \in Pending \ {c.id} : pending_requests_'[k] = pending_requests_[k]
    BY <1>4, <2>1 DEF Pending
  <2> QED
    BY <1>1, <1>2, <2>1, <2>2, UseSilently
<1>5. CASE c.id \in Pending /\ IsComplete(d) /\ d.callback_
  <2>1. /\ pending_requests_' = [pending_requests_ EXCEPT ![c.id] = MoveCallback(d)]
        /\ Reply(d.request, d.results_, "handler")
        /\ Enter(<<[call |-> "reply"], [call |-> "response", id |-> c.id]>>)
    BY <1>2, <1>5 DEF OnPermissionResponse
  <2> QED
    BY <1>1, <1>2, <1>5, <2>1, UseAnswers
<1>6. CASE c.id \in Pending /\ IsComplete(d) /\ ~d.callback_
  <2>1. pending_requests_' = Without({c.id}) /\ UNCHANGED <<frames, replies>>
    BY <1>2, <1>6 DEF OnPermissionResponse
  <2>2. /\ Pending' = Pending \ {c.id}
        /\ \A k \in Pending' : pending_requests_'[k] = pending_requests_[k]
    BY <2>1, WithoutDrops
  <2>3. ~pending_requests_[c.id].callback_
    <3>1. PICK e : e = pending_requests_[c.id]
      OBVIOUS
    <3>2. e \in PendingRequest
      BY <1>6, <3>1, TypeParts DEF IInv, EntryTypes
    <3>3. d.callback_ = e.callback_
      BY <1>2, <3>1, <3>2 DEF SetPermissionStatus, PendingRequest
    <3> QED
      BY <1>6, <3>1, <3>3
  <2> QED
    BY <1>1, <2>1, <2>2, <2>3, UseSilently
<1> QED
  BY <1>3, <1>4, <1>5, <1>6

LEMMA RequestPermissionsKeeps ==
    ASSUME IInv, NEW r \in Requests, NEW w \in WebContents, NEW n \in 0..MaxBatch,
           RequestPermissions(r, w, n)
    PROVE  IInv'
<1>1. /\ Task /\ page[r] = "none" /\ page' = [page EXCEPT ![r] = w]
      /\ UNCHANGED <<crashed, alive, gone, decisions>>
  BY DEF RequestPermissions
<1>2. CASE AnswerAtOnce(r, n, "denied", "fenced frame")
  <2>1. "denied" \in Statuses /\ "fenced frame" \in {"fenced frame", "no handler"}
    BY DEF Statuses
  <2> QED
    BY <1>1, <1>2, <2>1, AnswerAtOnceKeeps
<1>3. CASE AnswerAtOnce(r, n, "granted", "no handler")
  <2>1. "granted" \in Statuses /\ "no handler" \in {"fenced frame", "no handler"}
    BY DEF Statuses
  <2> QED
    BY <1>1, <1>3, <2>1, AnswerAtOnceKeeps
<1>4. CASE n > 0 /\ request_handler_ /\ AskHandler(r, n)
  <2>1. n \in 1..MaxBatch
    BY <1>4, BatchAssumption
  <2> QED
    BY <1>1, <1>4, <2>1, AskHandlerKeeps
<1> QED
  BY <1>2, <1>3, <1>4 DEF RequestPermissions

(* A step that only marks a callback as used up, or none.                  *)
LEMMA IdleKeeps ==
    ASSUME IInv,
           UNCHANGED <<request_handler_, pending_requests_, next_id, frames, callbacks, crashed,
                       page, alive, gone, replies, decisions>>
    PROVE  IInv'
<1>1. /\ frames' \in Seq(Frame) /\ RequestLast(frames') /\ Asking' = Asking
      /\ InProgress' = InProgress
  BY SameFrames DEF IInv
<1>2. Pending' = Pending
  BY DEF Pending
<1>3. Heard'
  BY <1>1, <1>2 DEF IInv, Heard
<1> QED
  BY <1>1, <1>2, <1>3, SilentKeeps, ScalarsOf

LEMMA NextKeeps == IInv /\ [Next]_vars => IInv'
<1> SUFFICES ASSUME IInv, [Next]_vars PROVE IInv'
  OBVIOUS
<1>1. CASE Page
  <2>1. CASE \E r \in Requests, w \in WebContents, n \in 0..MaxBatch : RequestPermissions(r, w, n)
    BY <2>1, RequestPermissionsKeeps
  <2>2. CASE \E w \in WebContents : WebContentsDestroyed(w)
    BY <2>2, WebContentsDestroyedKeeps
  <2>3. CASE \E r \in Requests : FrameDeleted(r)
    BY <2>3, FrameDeletedKeeps
  <2> QED
    BY <1>1, <2>1, <2>2, <2>3 DEF Page
<1>2. CASE JavaScript
  <2>1. CASE \E c \in callbacks, status \in Statuses : OnPermissionResponse(c, status)
    BY <2>1, OnPermissionResponseKeeps
  <2>2. CASE \E c \in callbacks : CallWithoutArgument(c)
    BY <2>2, IdleKeeps DEF CallWithoutArgument, manager
  <2> QED
    BY <1>2, <2>1, <2>2, SetHandlerKeeps, ClearHandlerKeeps DEF JavaScript
<1>3. CASE Returns
  BY <1>3, HandlerReturnsKeeps, ReplyReturnsKeeps, ResponseReturnsKeeps, ClearNextKeeps,
     ClearReturnsKeeps DEF Returns
<1>4. CASE UNCHANGED vars
  BY <1>4, IdleKeeps DEF vars, manager
<1> QED
  BY <1>1, <1>2, <1>3, <1>4 DEF Next

LEMMA InitHolds == Init => IInv
<1> SUFFICES ASSUME Init PROVE IInv
  OBVIOUS
<1>1. Typed
  BY InitTypes
<1>2. Pending = {}
  BY DEF Init, Pending
<1>3. frames = <<>> /\ callbacks = {} /\ \A r \in Requests : page[r] = "none" /\ replies[r] = <<>>
  BY DEF Init
<1>4. InProgress = {} /\ Asking = {} /\ RequestLast(frames)
  <2>1. \A k \in 1..Len(frames) : FALSE
    BY <1>3
  <2> QED
    BY <2>1 DEF InProgress, Asking, RequestLast
<1>5. Names
  BY <1>2, <1>3, <1>4 DEF Names, Known
<1>6. Replied
  <2>1. \A r \in Requests : Len(replies[r]) <= 1
    BY <1>3
  <2> QED
    BY <1>2, <1>3, <2>1 DEF Replied, AnsweredOnce
<1>7. Heard
  BY <1>2, <1>3, <1>4 DEF Heard
<1>8. Decided
  <2>1. \A r \in Requests : \A i \in 1..MaxBatch : decisions[r][i] = "none"
    BY DEF Init
  <2>2. DecidedByItsOwn
    <3>1. \A r \in Requests : \A k \in 1..Len(replies[r]) : FALSE
      BY <1>3
    <3> QED
      BY <3>1, AllTrue
  <2> QED
    BY <1>3, <1>4, <2>1, <2>2 DEF Decided
<1>9. Counted
  BY <1>2 DEF Counted
<1> QED
  BY <1>1, <1>4, <1>5, <1>6, <1>7, <1>8, <1>9 DEF IInv

LEMMA Invariance == Spec => []IInv
BY InitHolds, NextKeeps, PTL DEF Spec

(* What was used up in vain has decided nothing.                           *)
LEMMA SpentHaveNotDecided == Spec => [](spent \subseteq callbacks)
<1>1. Init => spent \subseteq callbacks
  BY DEF Init
<1>2. spent \subseteq callbacks /\ [Next]_vars => (spent \subseteq callbacks)'
  <2> SUFFICES ASSUME spent \subseteq callbacks, [Next]_vars PROVE spent' \subseteq callbacks'
    OBVIOUS
  <2>1. CASE Page
    <3>1. CASE \E r \in Requests, w \in WebContents, n \in 0..MaxBatch : RequestPermissions(r, w, n)
      BY <3>1 DEF RequestPermissions, AnswerAtOnce, AskHandler, RunHandler
    <3>2. CASE \E w \in WebContents : WebContentsDestroyed(w)
      BY <3>2 DEF WebContentsDestroyed
    <3>3. CASE \E r \in Requests : FrameDeleted(r)
      BY <3>3 DEF FrameDeleted
    <3> QED
      BY <2>1, <3>1, <3>2, <3>3 DEF Page
  <2>2. CASE JavaScript
    <3>1. CASE \E c \in callbacks, status \in Statuses : OnPermissionResponse(c, status)
      BY <3>1 DEF OnPermissionResponse, Use
    <3>2. CASE \E c \in callbacks : CallWithoutArgument(c)
      BY <3>2 DEF CallWithoutArgument
    <3> QED
      BY <2>2, <3>1, <3>2 DEF JavaScript, SetHandler, ClearHandler
  <2>3. CASE Returns
    <3>1. CASE HandlerReturns
      BY <3>1 DEF HandlerReturns, RunHandler
    <3>2. CASE ClearNext
      BY <3>2 DEF ClearNext
    <3> QED
      BY <2>3, <3>1, <3>2 DEF Returns, ReplyReturns, ResponseReturns, ClearReturns
  <2>4. CASE UNCHANGED vars
    BY <2>4 DEF vars
  <2> QED
    BY <2>1, <2>2, <2>3, <2>4 DEF Next
<1> QED
  BY <1>1, <1>2, PTL DEF Spec

-----------------------------------------------------------------------------
(* The types, for any requests, pages and sizes of batches.                *)
THEOREM TypeCorrect == Spec => []TypeOK
<1>1. IInv /\ spent \subseteq callbacks => TypeOK
  BY DEF IInv, Typed, TypeOK
<1> QED
  BY <1>1, Invariance, SpentHaveNotDecided, PTL

(* A page is answered at most once, by a callback or by the loop that      *)
(* clears, however they interleave (electron_permission_manager.cc:99).    *)
THEOREM AnswersAreFinal == Spec => []AnsweredOnce
<1>1. IInv => AnsweredOnce
  BY DEF IInv, Replied
<1> QED
  BY <1>1, Invariance, PTL

(* A page is told what the callbacks of its own request were called with,  *)
(* and nothing is granted that nobody granted (OnPermissionResponse).      *)
THEOREM AnswersAreTrue == Spec => []DecidedByItsOwn
<1>1. IInv => DecidedByItsOwn
  BY DEF IInv, Decided
<1> QED
  BY <1>1, Invariance, PTL

(* remaining_results_ is the number of callbacks that have decided nothing *)
(* yet: no request completes early, and one that nobody can answer any     *)
(* more lacks only callbacks that were called without an argument          *)
(* (SetPermissionStatus, IsComplete, CallTranslator).                      *)
THEOREM CountsAreRight == Spec => []CountsUndecided
<1>1. IInv => \A id \in Pending :
                pending_requests_[id].remaining_results_ = Cardinality(Undecided(id))
  BY DEF IInv, Counted, CountOf
<1>2. TypeOK /\ IInv => CountsUndecided
  BY <1>1 DEF CountsUndecided
<1> QED
  BY <1>2, Invariance, TypeCorrect, PTL

(* Whoever was decided or cleared, and still has a frame, was answered     *)
(* (SetPermissionRequestHandler, CancelPendingRequests).                   *)
THEOREM NobodyIsForgotten == Spec => []DecidedIsHeard
<1>1. IInv => DecidedIsHeard
  BY DEF IInv, Heard, DecidedIsHeard
<1> QED
  BY <1>1, Invariance, PTL

=============================================================================
