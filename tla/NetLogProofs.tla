---------------------------- MODULE NetLogProofs ----------------------------
(***************************************************************************)
(* Theorems about NetLog, for every number of starts and of crashes.       *)
(***************************************************************************)
EXTENDS NetLog, SequenceTheorems, TLAPS

-----------------------------------------------------------------------------
(* What is sent is at the end of a queue; all else was there.              *)
LEMMA AppendElements ==
    ASSUME NEW S, NEW s \in Seq(S), NEW x \in S
    PROVE  \A i \in 1..Len(Append(s, x)) :
             Append(s, x)[i] = x \/ \E j \in 1..Len(s) : Append(s, x)[i] = s[j]
<1> DEFINE t == Append(s, x)
<1>1. /\ Len(t) = Len(s) + 1
      /\ t[Len(s) + 1] = x
      /\ \A i \in 1..Len(s) : t[i] = s[i]
  BY AppendProperties
<1>2. Len(s) \in Nat
  BY LenProperties
<1> HIDE DEF t
<1>3. \A i \in 1..Len(t) : t[i] = x \/ \E j \in 1..Len(s) : t[i] = s[j]
  BY <1>1, <1>2
<1> QED
  BY <1>3 DEF t

(* What is left when the head of a queue is received was there.            *)
LEMMA TailElements ==
    ASSUME NEW S, NEW s \in Seq(S), s # <<>>
    PROVE  \A i \in 1..Len(Tail(s)) : \E j \in 1..Len(s) : Tail(s)[i] = s[j]
<1> DEFINE t == Tail(s)
<1>1. Len(t) = Len(s) - 1 /\ \A i \in 1..Len(t) : t[i] = s[i + 1]
  BY HeadTailProperties
<1>2. Len(s) \in Nat
  BY LenProperties
<1> HIDE DEF t
<1>3. \A i \in 1..Len(t) : i + 1 \in 1..Len(s) /\ t[i] = s[i + 1]
  BY <1>1, <1>2
<1> QED
  BY <1>3 DEF t

(* The head of a queue is one of its elements.                             *)
LEMMA HeadIsElement ==
    ASSUME NEW S, NEW s \in Seq(S), s # <<>>
    PROVE  1 \in 1..Len(s) /\ Head(s) = s[1]
BY EmptySeq, LenProperties

-----------------------------------------------------------------------------
(* A call that was not made has no promise to stop.                        *)
UnmadeHasNoStop == \A i \in Starts : start[i] = "unmade" => stop[i] = "unmade"

(* The exporter in the slot has a pipe, and nobody has stopped it.         *)
SlotIsFresh ==
    exporter # None =>
        /\ start[exporter] # "unmade"
        /\ stop[exporter] = "unmade"
        /\ service[exporter].state \notin {"none", "gone"}

(* What is asked of an exporter that nobody has stopped, and what it says. *)
Unstopped(e) ==
    /\ \A k \in 1..Len(e.asked) : e.asked[k] # "stop"
    /\ \A k \in 1..Len(e.told) : e.told[k].of # "stop"
StopIsMeant == \A i \in Starts : stop[i] = "unmade" => Unstopped(service[i])

(* A promise to stop is only made for an exporter that has left the slot,  *)
(* which SlotIsFresh keeps apart from the one that is reset; by StopIsMeant *)
(* the reply to stop never resets the exporter in the slot.                *)
IInv ==
    /\ TypeOK
    /\ UnmadeHasNoStop
    /\ SlotIsFresh
    /\ StopIsMeant
    /\ PendingIsUnsettled
    /\ StopWillBeAnswered

-----------------------------------------------------------------------------
LEMMA InitIInv == Init => IInv
<1> SUFFICES ASSUME Init PROVE IInv
  OBVIOUS
<1>1. <<>> \in Seq(Starts) /\ <<>> \in Seq(Requests) /\ <<>> \in Seq(Replies)
  BY EmptySeq
<1>2. In("none") \in Exporter
  BY <1>1 DEF In, Exporter
<1>3. /\ patient \in BOOLEAN
      /\ exporter \in Starts \cup {None}
      /\ pending \in Starts \cup {None}
      /\ opening \in Seq(Starts)
      /\ dead \in BOOLEAN
  BY <1>1 DEF Init
<1>4. start \in [Starts -> Outcomes] /\ stop \in [Starts -> Outcomes]
  BY DEF Init, Outcomes
<1>5. service \in [Starts -> Exporter]
  BY <1>2 DEF Init
<1>6. crashes \in 0..MaxCrashes
  BY MaxCrashesAssumption DEF Init
<1>7. TypeOK
  BY <1>3, <1>4, <1>5, <1>6 DEF TypeOK
<1> QED
  BY <1>7
     DEF Init, IInv, UnmadeHasNoStop, SlotIsFresh, StopIsMeant, Unstopped, In,
         PendingIsUnsettled, StopWillBeAnswered

(* Every step leaves the exporters well formed.                            *)
LEMMA ServiceStepType ==
    ASSUME TypeOK, Next
    PROVE  service' \in [Starts -> Exporter]
<1> USE DEF TypeOK
<1>1. \A s \in {"none", "idle", "waiting", "running", "lost", "gone"} : In(s) \in Exporter
  BY EmptySeq DEF In, Exporter
<1>2. ASSUME NEW i \in Starts, NEW r \in Requests
      PROVE  [service EXCEPT ![i].asked = Append(@, r)] \in [Starts -> Exporter]
  <2>1. service[i].asked \in Seq(Requests)
    BY DEF Exporter
  <2>2. Append(service[i].asked, r) \in Seq(Requests)
    BY <2>1, AppendProperties
  <2> QED
    BY <2>2 DEF Exporter
<1>3. ASSUME NEW i \in Starts, service[i].told # <<>>
      PROVE  [service EXCEPT ![i].told = Tail(@)] \in [Starts -> Exporter]
  <2>1. Tail(service[i].told) \in Seq(Replies)
    BY <1>3, HeadTailProperties DEF Exporter
  <2> QED
    BY <2>1 DEF Exporter
<1>4. ASSUME NEW i \in Starts, NEW state \in {"idle", "waiting", "running"},
             NEW asked \in Seq(Requests), NEW replies \in Seq(Replies),
             ExporterStep(i, state, asked, replies)
      PROVE  service' \in [Starts -> Exporter]
  <2>1. service[i].told \o replies \in Seq(Replies)
    BY ConcatProperties DEF Exporter
  <2> QED
    BY <1>4, <2>1 DEF ExporterStep, Exporter
<1>5. /\ <<>> \in Seq(Replies)
      /\ \A r \in Requests, ok \in BOOLEAN : <<[of |-> r, ok |-> ok]>> \in Seq(Replies)
  <2>1. \A r \in Requests, ok \in BOOLEAN : [of |-> r, ok |-> ok] \in Replies
    BY DEF Replies
  <2> QED
    BY <2>1, EmptySeq, SeqDef
<1>6. ASSUME NEW i \in Starts, service[i].asked # <<>>
      PROVE  Tail(service[i].asked) \in Seq(Requests)
  BY <1>6, HeadTailProperties DEF Exporter
<1>7. CASE Application
  <2>1. ASSUME NEW i \in Starts, StartLogging(i)
        PROVE  service' \in [Starts -> Exporter]
    BY <1>1, <2>1 DEF StartLogging
  <2>2. CASE StopLogging
    <3>1. exporter \in Starts /\ "stop" \in Requests
      BY <2>2 DEF StopLogging, Requests
    <3> QED
      BY <1>2, <2>2, <3>1 DEF StopLogging
  <2> QED
    BY <1>7, <2>1, <2>2 DEF Application
<1>8. CASE Files
  BY <1>1, <1>2, <1>8 DEF Files, FileTooLate, FileRefused, FileOpened, Requests
<1>9. CASE NetworkServiceCrashes
  BY <1>9, EmptySeq DEF NetworkServiceCrashes, Exporter
<1>10. ASSUME NEW i \in Starts, Browser(i)
       PROVE  service' \in [Starts -> Exporter]
  BY <1>1, <1>3, <1>10 DEF Browser, NetLogStarted, Stopped, OnConnectionError, Told
<1>11. ASSUME NEW i \in Starts, Service(i)
       PROVE  service' \in [Starts -> Exporter]
  <2>1. service[i].asked \in Seq(Requests)
    BY DEF Exporter
  <2>2. CASE ExporterStarts(i)
    BY <1>4, <1>5, <1>6, <2>2 DEF ExporterStarts, Asked, Live, Requests
  <2>3. CASE DirectoryReady(i)
    BY <1>4, <1>5, <2>1, <2>3 DEF DirectoryReady, Requests
  <2>4. CASE ExporterStops(i)
    BY <1>4, <1>5, <1>6, <2>4 DEF ExporterStops, Asked, Live, Requests
  <2> QED
    BY <1>11, <2>2, <2>3, <2>4 DEF Service
<1> QED
  BY <1>7, <1>8, <1>9, <1>10, <1>11 DEF Next

(* The slots, the promises and the files.                                  *)
LEMMA BrowserStepType ==
    ASSUME TypeOK, Next
    PROVE  /\ patient' \in BOOLEAN
           /\ exporter' \in Starts \cup {None}
           /\ pending' \in Starts \cup {None}
           /\ start' \in [Starts -> Outcomes]
           /\ stop' \in [Starts -> Outcomes]
           /\ opening' \in Seq(Starts)
           /\ crashes' \in 0..MaxCrashes
           /\ dead' \in BOOLEAN
<1> USE DEF TypeOK
<1>1. \A i \in Starts : Append(opening, i) \in Seq(Starts)
  BY AppendProperties
<1>2. opening # <<>> => Tail(opening) \in Seq(Starts)
  BY HeadTailProperties
<1>3. CASE Application
  BY <1>1, <1>3 DEF Application, StopLogging, StartLogging, Outcomes
<1>4. CASE Files
  BY <1>2, <1>4 DEF Files, FileTooLate, FileRefused, FileOpened, FileReply,
                    SettlePending, Outcomes
<1>5. CASE NetworkServiceCrashes
  <2>1. crashes + 1 \in 0..MaxCrashes
    <3>1. crashes \in 0..MaxCrashes /\ crashes < MaxCrashes
      BY <1>5 DEF NetworkServiceCrashes
    <3> QED
      BY ONLY <3>1, MaxCrashesAssumption
  <2> QED
    BY <1>5, <2>1 DEF NetworkServiceCrashes
<1>6. ASSUME NEW i \in Starts, Browser(i)
      PROVE  /\ patient' \in BOOLEAN
             /\ exporter' \in Starts \cup {None}
             /\ pending' \in Starts \cup {None}
             /\ start' \in [Starts -> Outcomes]
             /\ stop' \in [Starts -> Outcomes]
             /\ UNCHANGED <<opening, crashes>>
             /\ dead' \in BOOLEAN
  BY <1>6 DEF Browser, NetLogStarted, Stopped, OnConnectionError, SettlePending,
              Outcome, Outcomes
<1>7. ASSUME NEW i \in Starts, Service(i)
      PROVE  UNCHANGED <<patient, exporter, pending, start, stop, opening, crashes, dead>>
  BY <1>7 DEF Service, ExporterStarts, DirectoryReady, ExporterStops, ExporterStep
<1> QED
  BY <1>3, <1>4, <1>5, <1>6, <1>7 DEF Next

-----------------------------------------------------------------------------
(* What the network service does takes no exporter's pipe away.            *)
LEMMA ServiceKeepsPipes ==
    ASSUME TypeOK, NEW i \in Starts, Service(i), NEW j \in Starts
    PROVE  /\ UNCHANGED <<exporter, pending, start, stop>>
           /\ service[j].state \notin {"none", "gone"} =>
                service'[j].state \notin {"none", "gone"}
<1>1. /\ service \in [Starts -> Exporter]
      /\ service[i].state \in {"idle", "waiting", "running"}
  BY DEF TypeOK, Service, ExporterStarts, DirectoryReady, ExporterStops, Asked, Live
<1>2. PICK state, asked, replies :
        /\ state \in {"idle", "waiting", "running"}
        /\ ExporterStep(i, state, asked, replies)
  <2>1. CASE ExporterStarts(i)
    BY <1>1, <2>1 DEF ExporterStarts
  <2>2. CASE DirectoryReady(i)
    <3>1. PICK ok \in BOOLEAN :
            ExporterStep(i, IF ok THEN "running" ELSE "idle", service[i].asked,
                         <<[of |-> "start", ok |-> ok]>>)
      BY <2>2 DEF DirectoryReady
    <3> QED
      BY <3>1
  <2>3. CASE ExporterStops(i)
    BY <1>1, <2>3 DEF ExporterStops
  <2> QED
    BY <2>1, <2>2, <2>3 DEF Service
<1> DEFINE New == [state |-> state, asked |-> asked, told |-> service[i].told \o replies]
<1>3. service' = [service EXCEPT ![i] = New]
  BY <1>2 DEF ExporterStep
<1>4. New.state \notin {"none", "gone"}
  BY <1>2
<1>5. service'[j].state \in {service[j].state, New.state}
  <2> HIDE DEF New
  <2> QED
    BY <1>1, <1>3
<1> QED
  BY <1>2, <1>4, <1>5 DEF ExporterStep

(* What the steps do to an exporter that nobody has stopped.               *)
LEMMA UnstoppedKept ==
    ASSUME NEW e \in Exporter, Unstopped(e)
    PROVE  /\ Unstopped([e EXCEPT !.asked = Append(@, "start")])
           /\ e.told # <<>> => Unstopped([e EXCEPT !.told = Tail(@)])
           /\ Unstopped([e EXCEPT !.state = "lost", !.asked = <<>>])
           /\ \A state : Unstopped(In(state))
<1> USE DEF Unstopped
<1>1. e.asked \in Seq(Requests) /\ e.told \in Seq(Replies)
  BY DEF Exporter
<1>2. Unstopped([e EXCEPT !.asked = Append(@, "start")])
  <2>1. "start" \in Requests
    BY DEF Requests
  <2> DEFINE a == Append(e.asked, "start")
  <2>2. \A k \in 1..Len(a) : a[k] # "stop"
    <3>1. /\ Len(a) = Len(e.asked) + 1 /\ a[Len(e.asked) + 1] = "start"
          /\ \A k \in 1..Len(e.asked) : a[k] = e.asked[k]
      BY <1>1, <2>1, AppendProperties
    <3>2. Len(e.asked) \in Nat
      BY <1>1, LenProperties
    <3> HIDE DEF a
    <3> QED
      BY <3>1, <3>2
  <2>3. [e EXCEPT !.asked = a].asked = a /\ [e EXCEPT !.asked = a].told = e.told
    BY DEF Exporter
  <2> QED
    BY <2>2, <2>3
<1>3. ASSUME e.told # <<>>
      PROVE  Unstopped([e EXCEPT !.told = Tail(@)])
  <2> DEFINE t == Tail(e.told)
  <2>1. /\ Len(t) = Len(e.told) - 1
        /\ \A k \in 1..Len(t) : t[k] = e.told[k + 1]
    BY <1>1, <1>3, HeadTailProperties
  <2>2. Len(e.told) \in Nat
    BY <1>1, LenProperties
  <2>3. [e EXCEPT !.told = t].told = t /\ [e EXCEPT !.told = t].asked = e.asked
    BY DEF Exporter
  <2> HIDE DEF t
  <2>4. \A k \in 1..Len(t) : t[k].of # "stop"
    BY <2>1, <2>2
  <2> QED
    BY <2>3, <2>4 DEF t
<1>4. Unstopped([e EXCEPT !.state = "lost", !.asked = <<>>])
  BY EmptySeq DEF Exporter
<1>5. \A state : Unstopped(In(state))
  BY EmptySeq DEF In
<1> QED
  BY <1>2, <1>3, <1>4, <1>5

(* An exporter that was never asked to stop does not say that it has.      *)
LEMMA ServiceKeepsUnstopped ==
    ASSUME TypeOK, NEW i \in Starts, Service(i), Unstopped(service[i])
    PROVE  Unstopped(service'[i])
<1> DEFINE e == service[i]
<1>1. e \in Exporter /\ e.asked \in Seq(Requests) /\ e.told \in Seq(Replies)
  BY DEF TypeOK, Exporter
<1>2. ASSUME NEW state, NEW asked, NEW replies \in Seq(Replies),
             ExporterStep(i, state, asked, replies),
             \A k \in 1..Len(asked) : asked[k] # "stop",
             \A k \in 1..Len(replies) : replies[k].of # "stop"
      PROVE  Unstopped(service'[i])
  <2>1. service'[i] = [state |-> state, asked |-> asked, told |-> e.told \o replies]
    BY <1>2 DEF ExporterStep, TypeOK
  <2>2. \A k \in 1..Len(e.told \o replies) : (e.told \o replies)[k].of # "stop"
    <3> DEFINE t == e.told \o replies
    <3>1. /\ Len(t) = Len(e.told) + Len(replies)
          /\ \A k \in 1..Len(e.told) + Len(replies) :
               t[k] = IF k <= Len(e.told) THEN e.told[k] ELSE replies[k - Len(e.told)]
      BY <1>1, <1>2, ConcatProperties
    <3>2. Len(e.told) \in Nat /\ Len(replies) \in Nat
      BY <1>1, <1>2, LenProperties
    <3>3. \A k \in 1..Len(e.told) : e.told[k].of # "stop"
      BY DEF Unstopped
    <3> HIDE DEF t, e
    <3> QED
      BY <1>2, <3>1, <3>2, <3>3
  <2> QED
    BY <1>2, <2>1, <2>2 DEF Unstopped
<1>3. /\ <<>> \in Seq(Replies) /\ Len(<<>>) = 0
      /\ \A ok \in BOOLEAN : /\ <<[of |-> "start", ok |-> ok]>> \in Seq(Replies)
                             /\ \A k \in 1..Len(<<[of |-> "start", ok |-> ok]>>) :
                                  <<[of |-> "start", ok |-> ok]>>[k].of # "stop"
  BY EmptySeq DEF Replies, Requests
<1>4. /\ \A k \in 1..Len(e.asked) : e.asked[k] # "stop"
      /\ e.asked # <<>> => /\ Head(e.asked) # "stop"
                           /\ \A k \in 1..Len(Tail(e.asked)) : Tail(e.asked)[k] # "stop"
  <2>1. \A k \in 1..Len(e.asked) : e.asked[k] # "stop"
    BY DEF Unstopped
  <2>2. ASSUME e.asked # <<>>
        PROVE  /\ Head(e.asked) # "stop"
               /\ \A k \in 1..Len(Tail(e.asked)) : Tail(e.asked)[k] # "stop"
    <3>1. /\ Len(Tail(e.asked)) = Len(e.asked) - 1
          /\ \A k \in 1..Len(Tail(e.asked)) : Tail(e.asked)[k] = e.asked[k + 1]
      BY <1>1, <2>2, HeadTailProperties
    <3>2. Len(e.asked) \in Nat /\ Len(e.asked) >= 1 /\ Head(e.asked) = e.asked[1]
      BY <1>1, <2>2, EmptySeq, LenProperties
    <3> HIDE DEF e
    <3> QED
      BY <2>1, <3>1, <3>2
  <2> QED
    BY <2>1, <2>2
<1>5. CASE ExporterStarts(i)
  <2>1. \A k \in 1..Len(Tail(service[i].asked)) : Tail(service[i].asked)[k] # "stop"
    BY <1>4, <1>5 DEF ExporterStarts, Asked
  <2>2. CASE service[i].state = "idle"
    <3>1. ExporterStep(i, "waiting", Tail(service[i].asked), <<>>)
      BY <1>5, <2>2 DEF ExporterStarts
    <3>2. \A k \in 1..Len(<<>>) : <<>>[k].of # "stop"
      BY EmptySeq
    <3> HIDE DEF e
    <3> QED
      BY <1>2, <1>3, <2>1, <3>1, <3>2
  <2>3. CASE service[i].state # "idle"
    <3>1. ExporterStep(i, service[i].state, Tail(service[i].asked),
                       <<[of |-> "start", ok |-> FALSE]>>)
      BY <1>5, <2>3 DEF ExporterStarts
    <3> QED
      BY <1>2, <1>3, <2>1, <3>1
  <2> QED
    BY <2>2, <2>3
<1>6. CASE DirectoryReady(i)
  BY <1>2, <1>3, <1>4, <1>6 DEF DirectoryReady
<1>7. CASE ExporterStops(i)
  BY <1>4, <1>7 DEF ExporterStops, Asked
<1> QED
  BY <1>5, <1>6, <1>7 DEF Service

LEMMA StopIsMeantStep ==
    ASSUME TypeOK, StopIsMeant, Next
    PROVE  StopIsMeant'
<1> SUFFICES ASSUME NEW j \in Starts, stop'[j] = "unmade"
             PROVE  Unstopped(service'[j])
  BY DEF StopIsMeant
<1> USE DEF TypeOK
<1>1. service[j] \in Exporter
  OBVIOUS
<1>2. stop[j] = "unmade" => Unstopped(service[j])
  BY DEF StopIsMeant
<1>3. ASSUME NEW i \in Starts, StartLogging(i)
      PROVE  Unstopped(service'[j])
  BY <1>1, <1>2, <1>3, UnstoppedKept DEF StartLogging
<1>4. CASE StopLogging
  BY <1>2, <1>4 DEF StopLogging
<1>5. CASE Files
  BY <1>1, <1>2, <1>5, UnstoppedKept
     DEF Files, FileTooLate, FileRefused, FileOpened, SettlePending
<1>6. CASE NetworkServiceCrashes
  BY <1>1, <1>2, <1>6, UnstoppedKept DEF NetworkServiceCrashes
<1>7. ASSUME NEW i \in Starts, NetLogStarted(i)
      PROVE  Unstopped(service'[j])
  BY <1>1, <1>2, <1>7, UnstoppedKept DEF NetLogStarted, Told
<1>8. ASSUME NEW i \in Starts, Stopped(i)
      PROVE  Unstopped(service'[j])
  BY <1>1, <1>2, <1>8, UnstoppedKept DEF Stopped, Outcome
<1>9. ASSUME NEW i \in Starts, OnConnectionError(i)
      PROVE  Unstopped(service'[j])
  BY <1>1, <1>2, <1>9, UnstoppedKept DEF OnConnectionError
<1>10. ASSUME NEW i \in Starts, Service(i)
       PROVE  Unstopped(service'[j])
  <2>1. UNCHANGED stop /\ (j # i => service'[j] = service[j])
    BY <1>10 DEF Service, ExporterStarts, DirectoryReady, ExporterStops, ExporterStep
  <2> QED
    BY <1>2, <1>10, <2>1, ServiceKeepsUnstopped
<1> QED
  BY <1>3, <1>4, <1>5, <1>6, <1>7, <1>8, <1>9, <1>10 DEF Next, Application, Browser

LEMMA PartsStep ==
    ASSUME IInv, Next
    PROVE  /\ UnmadeHasNoStop'
           /\ SlotIsFresh'
           /\ PendingIsUnsettled'
           /\ StopWillBeAnswered'
<1> USE DEF IInv, TypeOK, UnmadeHasNoStop, SlotIsFresh, PendingIsUnsettled,
            StopWillBeAnswered, None
<1>0. \A i \in Starts : i # None
  BY DEF Starts
<1>1. ASSUME NEW i \in Starts, StartLogging(i)
      PROVE  /\ UnmadeHasNoStop' /\ SlotIsFresh'
             /\ PendingIsUnsettled' /\ StopWillBeAnswered'
  BY <1>1 DEF StartLogging, In
<1>2. CASE StopLogging
  <2>1. exporter \in Starts /\ exporter' = None
    BY <1>2 DEF StopLogging
  <2>2. \A j \in Starts : service'[j].state = service[j].state
    BY <1>2, <2>1 DEF StopLogging, Exporter
  <2>3. stop' = [stop EXCEPT ![exporter] = "pending"] /\ UNCHANGED <<start, pending>>
    BY <1>2 DEF StopLogging
  <2>5. UnmadeHasNoStop'
    <3>1. start[exporter] # "unmade" /\ stop \in [Starts -> Outcomes]
      BY <2>1, <1>0
    <3>2. \A i \in Starts : start[i] = "unmade" => stop[i] = "unmade"
      OBVIOUS
    <3> QED
      BY ONLY <2>1, <2>3, <3>1, <3>2 DEF UnmadeHasNoStop
  <2>6. SlotIsFresh'
    BY <2>1
  <2>7. PendingIsUnsettled'
    BY <2>3
  <2>8. StopWillBeAnswered'
    BY <1>0, <2>1, <2>2, <2>3
  <2> QED
    BY <2>5, <2>6, <2>7, <2>8
<1>3. CASE Files
  BY <1>0, <1>3 DEF Files, FileTooLate, FileRefused, FileOpened, SettlePending, In, Exporter
<1>4. CASE NetworkServiceCrashes
  BY <1>4 DEF NetworkServiceCrashes, Live, Exporter
<1>5. ASSUME NEW i \in Starts, NetLogStarted(i)
      PROVE  /\ UnmadeHasNoStop' /\ SlotIsFresh'
             /\ PendingIsUnsettled' /\ StopWillBeAnswered'
  BY <1>0, <1>5 DEF NetLogStarted, SettlePending, Outcome, Exporter
<1>6. ASSUME NEW i \in Starts, Stopped(i)
      PROVE  /\ UnmadeHasNoStop' /\ SlotIsFresh'
             /\ PendingIsUnsettled' /\ StopWillBeAnswered'
  <2>1. Outcome(i) \in {"resolved", "rejected"}
    BY DEF Outcome
  <2>2. /\ stop' = [stop EXCEPT ![i] = Outcome(i)]
        /\ service' = [service EXCEPT ![i] = In("gone")]
        /\ UNCHANGED <<exporter, pending, start>>
    BY <1>6 DEF Stopped
  <2>3. stop[i] # "unmade"
    <3>1. /\ service[i].told \in Seq(Replies) /\ service[i].told # <<>>
          /\ Head(service[i].told).of = "stop"
      BY <1>6 DEF Stopped, Told, Exporter
    <3>2. Len(service[i].told) >= 1 /\ service[i].told[1].of = "stop"
      BY <3>1, EmptySeq, LenProperties
    <3> QED
      BY <3>1, <3>2, LenProperties DEF StopIsMeant, Unstopped
  <2>4. UnmadeHasNoStop'
    BY <2>1, <2>2, <2>3
  <2>5. SlotIsFresh'
    BY <2>2, <2>3
  <2>6. PendingIsUnsettled' /\ StopWillBeAnswered'
    BY <2>1, <2>2
  <2> QED
    BY <2>4, <2>5, <2>6
<1>7. ASSUME NEW i \in Starts, OnConnectionError(i)
      PROVE  /\ UnmadeHasNoStop' /\ SlotIsFresh'
             /\ PendingIsUnsettled' /\ StopWillBeAnswered'
  <2>1. /\ stop' = [stop EXCEPT ![i] = IF @ = "pending" THEN "rejected" ELSE @]
        /\ start' = [j \in Starts |-> IF j = pending THEN "rejected" ELSE start[j]]
        /\ service' = [j \in Starts |-> IF j \in {i, exporter} THEN In("gone") ELSE service[j]]
        /\ exporter' = None /\ pending' = None
    BY <1>7 DEF OnConnectionError
  <2>2. UnmadeHasNoStop'
    BY <2>1
  <2>3. SlotIsFresh' /\ PendingIsUnsettled'
    BY <2>1
  <2>4. StopWillBeAnswered'
    <3> SUFFICES ASSUME NEW j \in Starts, stop'[j] = "pending"
                 PROVE  j # exporter' /\ service'[j].state \notin {"none", "gone"}
      OBVIOUS
    <3>1. j # i /\ stop[j] = "pending"
      BY <2>1
    <3>2. service'[j] = service[j]
      BY <2>1, <3>1
    <3> QED
      BY <1>0, <2>1, <3>1, <3>2
  <2> QED
    BY <2>2, <2>3, <2>4
<1>8. ASSUME NEW i \in Starts, Service(i)
      PROVE  /\ UnmadeHasNoStop' /\ SlotIsFresh'
             /\ PendingIsUnsettled' /\ StopWillBeAnswered'
  BY <1>8, ServiceKeepsPipes
<1> QED
  BY <1>1, <1>2, <1>3, <1>4, <1>5, <1>6, <1>7, <1>8 DEF Next, Application, Browser

LEMMA Inductive == Spec => []IInv
<1>1. IInv /\ UNCHANGED vars => IInv'
  BY DEF vars, IInv, TypeOK, UnmadeHasNoStop, SlotIsFresh, StopIsMeant, Unstopped,
         PendingIsUnsettled, StopWillBeAnswered
<1>2. IInv /\ Next => IInv'
  BY ServiceStepType, BrowserStepType, PartsStep, StopIsMeantStep DEF IInv, TypeOK
<1> QED
  BY <1>1, <1>2, InitIInv, PTL DEF Spec

(* Type correctness.                                                       *)
THEOREM TypeCorrect == Spec => []TypeOK
BY Inductive, PTL DEF IInv

(* The slot of the start in progress never holds a promise that has been   *)
(* settled, whatever the order of calls, answers and crashes.              *)
THEOREM SettledOnce == Spec => []PendingIsUnsettled
BY Inductive, PTL DEF IInv

(* stopLogging() gives its exporter away with a pipe that answers it.      *)
THEOREM StopIsAnswered == Spec => []StopWillBeAnswered
BY Inductive, PTL DEF IInv

-----------------------------------------------------------------------------
(***************************************************************************)
(* An application that awaits its promises, while the network service      *)
(* lives: one start is in progress at a time, and all else is quiet.       *)
(***************************************************************************)

(* An exporter that is not starting and has nothing to say about it.       *)
Quiet(e) ==
    /\ e.state \notin {"waiting", "lost"}
    /\ \A k \in 1..Len(e.asked) : e.asked[k] # "start"
    /\ \A k \in 1..Len(e.told) : e.told[k].of # "start"

(* How far an exporter that was told to start has come.                    *)
Starting(e) ==
    \/ e = [state |-> "idle", asked |-> <<"start">>, told |-> <<>>]
    \/ e = [state |-> "waiting", asked |-> <<>>, told |-> <<>>]
    \/ \E ok \in BOOLEAN :
         e = [state |-> IF ok THEN "running" ELSE "idle", asked |-> <<>>,
              told |-> <<[of |-> "start", ok |-> ok]>>]

InProgress ==
    /\ exporter = pending
    /\ \A i \in Starts : stop[i] # "pending"
    /\ \/ opening = <<pending>> /\ service[pending] = In("idle")
       \/ opening = <<>> /\ Starting(service[pending])

OneAtATime ==
    patient /\ crashes = 0 =>
      /\ ~dead
      /\ \A i \in Starts : start[i] = "pending" => i = pending
      /\ \A i \in Starts : i # pending => Quiet(service[i])
      /\ IF pending = None THEN opening = <<>> ELSE InProgress

LEMMA QuietKept ==
    ASSUME NEW e \in Exporter, Quiet(e)
    PROVE  /\ Quiet([e EXCEPT !.asked = Append(@, "stop")])
           /\ \A state \in {"idle", "running"}, ok \in BOOLEAN :
                e.asked # <<>> =>
                  Quiet([state |-> state, asked |-> Tail(e.asked),
                         told |-> e.told \o <<[of |-> "stop", ok |-> ok]>>])
<1>1. e.asked \in Seq(Requests) /\ e.told \in Seq(Replies) /\ "stop" \in Requests
  BY DEF Exporter, Requests
<1>2. /\ \A k \in 1..Len(e.asked) : e.asked[k] # "start"
      /\ \A k \in 1..Len(e.told) : e.told[k].of # "start"
      /\ e.state \notin {"waiting", "lost"}
  BY DEF Quiet
<1>3. \A k \in 1..Len(Append(e.asked, "stop")) : Append(e.asked, "stop")[k] # "start"
  BY <1>1, <1>2, AppendElements
<1>4. Quiet([e EXCEPT !.asked = Append(@, "stop")])
  <2>1. /\ [e EXCEPT !.asked = Append(@, "stop")].asked = Append(e.asked, "stop")
        /\ [e EXCEPT !.asked = Append(@, "stop")].told = e.told
        /\ [e EXCEPT !.asked = Append(@, "stop")].state = e.state
    BY DEF Exporter
  <2> QED
    BY <1>2, <1>3, <2>1 DEF Quiet
<1>5. ASSUME NEW state \in {"idle", "running"}, NEW ok \in BOOLEAN, e.asked # <<>>
      PROVE  Quiet([state |-> state, asked |-> Tail(e.asked),
                    told |-> e.told \o <<[of |-> "stop", ok |-> ok]>>])
  <2> DEFINE r == [of |-> "stop", ok |-> ok]
             told == e.told \o <<r>>
  <2>1. r \in Replies
    BY DEF Replies, Requests
  <2>2. told = Append(e.told, r)
    BY <1>1, <2>1, AppendIsConcat
  <2>3. \A k \in 1..Len(Append(e.told, r)) : Append(e.told, r)[k].of # "start"
    <3>1. r.of # "start"
      OBVIOUS
    <3> HIDE DEF r
    <3> QED
      BY <1>1, <1>2, <2>1, <3>1, AppendElements
  <2>4. \A k \in 1..Len(Tail(e.asked)) : Tail(e.asked)[k] # "start"
    BY <1>1, <1>2, <1>5, TailElements
  <2> HIDE DEF told
  <2> QED
    BY <2>2, <2>3, <2>4 DEF Quiet
<1> QED
  BY <1>4, <1>5

LEMMA QuietIn == Quiet(In("idle")) /\ Quiet(In("gone")) /\ Quiet(In("none"))
BY EmptySeq DEF Quiet, In

(* Nothing that is quiet starts, answers a start, or is lost.              *)
LEMMA QuietSteps ==
    ASSUME TypeOK, NEW i \in Starts, Quiet(service[i])
    PROVE  /\ ~NetLogStarted(i)
           /\ ~OnConnectionError(i)
           /\ ~ExporterStarts(i)
           /\ ~DirectoryReady(i)
<1>1. service[i].asked \in Seq(Requests) /\ service[i].told \in Seq(Replies)
  BY DEF TypeOK, Exporter
<1>2. ~NetLogStarted(i)
  BY <1>1, HeadIsElement DEF NetLogStarted, Told, Quiet
<1>3. ~ExporterStarts(i)
  BY <1>1, HeadIsElement DEF ExporterStarts, Asked, Quiet
<1> QED
  BY <1>2, <1>3 DEF OnConnectionError, DirectoryReady, Quiet

LEMMA OneAtATimeStep ==
    ASSUME IInv, OneAtATime, Next
    PROVE  OneAtATime'
<1> SUFFICES ASSUME patient', crashes' = 0
             PROVE  /\ ~dead'
                    /\ \A i \in Starts : start'[i] = "pending" => i = pending'
                    /\ \A i \in Starts : i # pending' => Quiet(service'[i])
                    /\ IF pending' = None THEN opening' = <<>> ELSE InProgress'
  BY DEF OneAtATime
<1>1. ~NetworkServiceCrashes
  <2>1. crashes \in 0..MaxCrashes
    BY DEF IInv, TypeOK
  <2>2. crashes + 1 # 0
    BY <2>1, MaxCrashesAssumption
  <2>3. NetworkServiceCrashes => crashes' = crashes + 1
    BY DEF NetworkServiceCrashes
  <2> QED
    BY <2>2, <2>3
<1>2. patient /\ crashes = 0
  BY <1>1 DEF Next, Application, Files, Browser, Service, StopLogging, StartLogging,
     FileTooLate, FileRefused, FileOpened, NetLogStarted, Stopped, OnConnectionError,
     ExporterStarts, DirectoryReady, ExporterStops, ExporterStep
<1>3. /\ ~dead
      /\ \A i \in Starts : start[i] = "pending" => i = pending
      /\ \A i \in Starts : i # pending => Quiet(service[i])
      /\ pending = None => opening = <<>>
      /\ pending # None => InProgress
  BY <1>2 DEF OneAtATime
<1>4. /\ service \in [Starts -> Exporter]
      /\ start \in [Starts -> Outcomes] /\ stop \in [Starts -> Outcomes]
      /\ pending \in Starts \cup {None} /\ exporter \in Starts \cup {None}
      /\ \A i \in Starts : i # None
      /\ pending # None => start[pending] = "pending"
  BY DEF IInv, TypeOK, PendingIsUnsettled, Starts, None
<1>5. Application => pending = None /\ opening = <<>>
  BY <1>2, <1>3, <1>4 DEF Application, StopLogging, StartLogging, JSCalls, Settled
<1>6. Application => \A i \in Starts : start[i] # "pending" /\ stop[i] # "pending"
  BY <1>2 DEF Application, StopLogging, StartLogging, JSCalls, Settled
<1>7. ASSUME NEW i \in Starts, Application, StartLogging(i)
      PROVE  /\ ~dead'
             /\ \A j \in Starts : start'[j] = "pending" => j = pending'
             /\ \A j \in Starts : j # pending' => Quiet(service'[j])
             /\ InProgress' /\ pending' # None
  <2>1. opening' = <<i>>
    BY <1>5, <1>7 DEF StartLogging
  <2>2. /\ pending' = i /\ exporter' = i /\ UNCHANGED <<stop, dead>>
        /\ start' = [start EXCEPT ![i] = "pending"]
        /\ service' = [service EXCEPT ![i] = In("idle")]
    BY <1>7 DEF StartLogging
  <2>3. InProgress'
    BY <1>4, <1>6, <1>7, <2>1, <2>2 DEF InProgress
  <2> QED
    BY <1>3, <1>4, <1>5, <1>6, <1>7, <2>2, <2>3
<1>8. ASSUME Application, StopLogging
      PROVE  /\ ~dead'
             /\ \A j \in Starts : start'[j] = "pending" => j = pending'
             /\ \A j \in Starts : j # pending' => Quiet(service'[j])
             /\ pending' = None /\ opening' = <<>>
  <2>1. /\ exporter \in Starts
        /\ service' = [service EXCEPT ![exporter].asked = Append(@, "stop")]
        /\ UNCHANGED <<pending, start, opening, dead>>
    BY <1>4, <1>8 DEF StopLogging
  <2>2. \A j \in Starts : Quiet(service'[j])
    BY <1>3, <1>4, <1>5, <1>8, <2>1, QuietKept
  <2> QED
    BY <1>3, <1>5, <1>8, <2>1, <2>2
<1>9. CASE Files
  <2>1. opening # <<>>
    BY <1>9 DEF Files, FileTooLate, FileRefused, FileOpened, FileReply
  <2>2. /\ exporter = pending /\ pending \in Starts /\ opening = <<pending>>
        /\ service[pending] = In("idle") /\ \A i \in Starts : stop[i] # "pending"
    BY <1>3, <1>4, <2>1 DEF InProgress
  <2>3. opening' = <<>>
    BY <1>9, <2>2 DEF Files, FileTooLate, FileRefused, FileOpened, FileReply
  <2>4. CASE FileTooLate
    BY <1>4, <2>2, <2>4 DEF FileTooLate
  <2>5. CASE FileRefused
    <3>1. /\ start' = [start EXCEPT ![pending] = "rejected"]
          /\ pending' = None /\ UNCHANGED dead
          /\ service' = [service EXCEPT ![pending] = In("gone")]
      BY <1>4, <2>2, <2>5 DEF FileRefused, SettlePending
    <3> QED
      BY <1>3, <1>4, <2>2, <2>3, <3>1, QuietIn
  <2>6. CASE FileOpened
    <3>1. /\ service' = [service EXCEPT ![pending].asked = Append(@, "start")]
          /\ UNCHANGED <<exporter, pending, start, stop, dead>>
      BY <2>2, <2>6 DEF FileOpened
    <3>2. service'[pending] = [state |-> "idle", asked |-> <<"start">>, told |-> <<>>]
      BY <1>4, <2>2, <3>1 DEF In
    <3> QED
      BY <1>3, <1>4, <2>2, <2>3, <3>1, <3>2 DEF InProgress, Starting
  <2> QED
    BY <1>9, <2>4, <2>5, <2>6 DEF Files
<1>10. ASSUME NEW i \in Starts, NetLogStarted(i)
       PROVE  /\ ~dead'
              /\ \A j \in Starts : start'[j] = "pending" => j = pending'
              /\ \A j \in Starts : j # pending' => Quiet(service'[j])
              /\ pending' = None /\ opening' = <<>>
  <2>1. i = pending /\ InProgress
    BY <1>3, <1>4, <1>10, QuietSteps DEF IInv
  <2>2. service[i].told # <<>>
    BY <1>10 DEF NetLogStarted, Told
  <2>3. PICK ok \in BOOLEAN :
          service[i] = [state |-> IF ok THEN "running" ELSE "idle", asked |-> <<>>,
                        told |-> <<[of |-> "start", ok |-> ok]>>]
    BY <2>1, <2>2 DEF InProgress, Starting, In
  <2>4. opening = <<>>
    BY <2>1, <2>2 DEF InProgress, In
  <2>5. /\ service' = [service EXCEPT ![i].told = Tail(@)]
        /\ start' = [start EXCEPT ![i] = Outcome(i)]
        /\ pending' = None /\ UNCHANGED <<opening, dead>>
    BY <1>4, <1>10, <2>1 DEF NetLogStarted, SettlePending
  <2>6. service'[i] = [state |-> IF ok THEN "running" ELSE "idle", asked |-> <<>>,
                       told |-> <<>>]
    BY <1>4, <2>3, <2>5
  <2>7. Quiet(service'[i])
    BY <2>6, EmptySeq DEF Quiet
  <2>8. Outcome(i) # "pending"
    BY DEF Outcome
  <2> QED
    BY <1>3, <1>4, <2>1, <2>4, <2>5, <2>7, <2>8
<1>11. ASSUME NEW i \in Starts, Stopped(i)
       PROVE  /\ ~dead'
              /\ \A j \in Starts : start'[j] = "pending" => j = pending'
              /\ \A j \in Starts : j # pending' => Quiet(service'[j])
              /\ IF pending' = None THEN opening' = <<>> ELSE InProgress'
  <2>1. /\ service' = [service EXCEPT ![i] = In("gone")]
        /\ stop' = [stop EXCEPT ![i] = Outcome(i)]
        /\ UNCHANGED <<exporter, pending, start, opening, dead>>
    BY <1>11 DEF Stopped
  <2>2. service[i].told # <<>> /\ Head(service[i].told).of = "stop"
    BY <1>11 DEF Stopped, Told
  <2>3. \A j \in Starts : j # pending' => Quiet(service'[j])
    BY <1>3, <1>4, <2>1, QuietIn
  <2>4. ASSUME pending # None
        PROVE  InProgress'
    <3>1. ASSUME i = pending
          PROVE  FALSE
      <4>1. service[i] = In("idle") \/ Starting(service[i])
        BY <1>3, <2>4, <3>1 DEF InProgress
      <4>2. service[i].told # <<>>
        BY <2>2
      <4>3. PICK ok \in BOOLEAN :
              service[i] = [state |-> IF ok THEN "running" ELSE "idle", asked |-> <<>>,
                            told |-> <<[of |-> "start", ok |-> ok]>>]
        BY <4>1, <4>2 DEF Starting, In
      <4>4. service[i].told = <<[of |-> "start", ok |-> ok]>>
        BY <4>3
      <4>5. Head(service[i].told).of = "start"
        BY <4>4
      <4> QED
        BY <2>2, <4>5
    <3>2. service'[pending] = service[pending]
      BY <1>4, <2>1, <2>4, <3>1
    <3>3. \A j \in Starts : stop'[j] # "pending"
      <4>1. Outcome(i) # "pending"
        BY DEF Outcome
      <4> QED
        BY <1>3, <1>4, <2>1, <2>4, <4>1 DEF InProgress
    <3> QED
      BY <1>3, <2>1, <2>4, <3>2, <3>3 DEF InProgress
  <2> QED
    BY <1>3, <2>1, <2>3, <2>4
<1>12. \A i \in Starts : ~OnConnectionError(i)
  <2>1. ASSUME NEW i \in Starts, i = pending
        PROVE  ~OnConnectionError(i)
    BY <1>3, <1>4, <2>1 DEF InProgress, Starting, In, OnConnectionError
  <2> QED
    BY <1>3, <2>1, QuietSteps DEF IInv
<1>13. ASSUME NEW i \in Starts, Service(i)
       PROVE  /\ ~dead'
              /\ \A j \in Starts : start'[j] = "pending" => j = pending'
              /\ \A j \in Starts : j # pending' => Quiet(service'[j])
              /\ IF pending' = None THEN opening' = <<>> ELSE InProgress'
  <2>1. /\ UNCHANGED <<exporter, pending, start, stop, opening, dead>>
        /\ \A j \in Starts : j # i => service'[j] = service[j]
    BY <1>4, <1>13 DEF Service, ExporterStarts, DirectoryReady, ExporterStops, ExporterStep
  <2>2. CASE i # pending
    <3>1. ExporterStops(i) /\ Quiet(service[i]) /\ service[i].asked # <<>>
      BY <1>3, <1>13, <2>2, QuietSteps DEF Service, IInv, ExporterStops, Asked
    <3>2. PICK state \in {"idle", "running"}, ok \in BOOLEAN :
            service'[i] = [state |-> state, asked |-> Tail(service[i].asked),
                           told |-> service[i].told \o <<[of |-> "stop", ok |-> ok]>>]
      BY <1>4, <3>1 DEF ExporterStops, ExporterStep, Asked, Live, Quiet
    <3>3. Quiet(service'[i])
      BY <1>4, <3>1, <3>2, QuietKept
    <3>4. pending # None => InProgress'
      BY <1>3, <1>4, <2>1, <2>2 DEF InProgress
    <3> QED
      BY <1>3, <2>1, <3>3, <3>4
  <2>3. CASE i = pending
    <3>1. InProgress
      BY <1>3, <1>4, <2>3
    <3>2. opening = <<>> /\ Starting(service[i])
      BY <1>13, <2>3, <3>1 DEF InProgress, In, Service, ExporterStarts, DirectoryReady,
         ExporterStops, Asked
    <3>3. Starting(service'[i])
      <4>1. CASE service[i] = [state |-> "idle", asked |-> <<"start">>, told |-> <<>>]
        <5>1. ExporterStep(i, "waiting", <<>>, <<>>)
          BY <1>13, <4>1 DEF Service, ExporterStarts, DirectoryReady, ExporterStops, Asked
        <5>2. service'[i] = [state |-> "waiting", asked |-> <<>>, told |-> <<>>]
          BY <1>4, <4>1, <5>1 DEF ExporterStep
        <5> QED
          BY <5>2 DEF Starting
      <4>2. CASE service[i] = [state |-> "waiting", asked |-> <<>>, told |-> <<>>]
        <5>1. PICK ok \in BOOLEAN :
                ExporterStep(i, IF ok THEN "running" ELSE "idle", <<>>,
                             <<[of |-> "start", ok |-> ok]>>)
          BY <1>13, <4>2 DEF Service, ExporterStarts, DirectoryReady, ExporterStops, Asked
        <5>2. service'[i] = [state |-> IF ok THEN "running" ELSE "idle", asked |-> <<>>,
                             told |-> <<[of |-> "start", ok |-> ok]>>]
          BY <1>4, <4>2, <5>1 DEF ExporterStep
        <5> QED
          BY <5>2 DEF Starting
      <4> QED
        BY <1>13, <3>2, <4>1, <4>2
           DEF Starting, Service, ExporterStarts, DirectoryReady, ExporterStops, Asked
    <3> QED
      BY <1>3, <2>1, <2>3, <3>1, <3>2, <3>3 DEF InProgress
  <2> QED
    BY <2>2, <2>3
<1>14. CASE Application
  BY <1>7, <1>8, <1>14 DEF Application
<1> QED
  BY <1>1, <1>9, <1>10, <1>11, <1>12, <1>13, <1>14 DEF Next, Browser

LEMMA InitOneAtATime == Init => OneAtATime
BY QuietIn DEF Init, OneAtATime, None

LEMMA InductiveOneAtATime == Spec => []OneAtATime
<1>1. OneAtATime /\ UNCHANGED vars => OneAtATime'
  BY DEF vars, OneAtATime, InProgress
<1>2. IInv /\ OneAtATime /\ Next => OneAtATime'
  BY OneAtATimeStep
<1> QED
  BY <1>1, <1>2, Inductive, InitOneAtATime, PTL DEF Spec

(* While the network service lives, whatever answers an application that   *)
(* awaits its promises finds the promise it settles.                       *)
THEOREM AnswersFindPromises == Spec => []AnswersFindTheirPromise
<1>1. OneAtATime => AnswersFindTheirPromise
  BY DEF OneAtATime, AnswersFindTheirPromise
<1> QED
  BY <1>1, InductiveOneAtATime, PTL

LEMMA ResolvedStep ==
    ASSUME IInv, OneAtATime, [Next]_vars, patient, crashes = 0,
           NEW i \in Starts, start[i] = "pending", start'[i] = "resolved"
    PROVE  service[i].state = "running"
<1>1. /\ start \in [Starts -> Outcomes] /\ pending \in Starts \cup {None}
      /\ pending # None => InProgress
      /\ \A j \in Starts : j # pending => Quiet(service[j])
      /\ \A j \in Starts : start[j] = "pending" => j = pending
  BY DEF IInv, TypeOK, OneAtATime
<1>2. ~(UNCHANGED start)
  OBVIOUS
<1>3. ASSUME NEW j \in Starts
      PROVE  ~StartLogging(j) /\ ~OnConnectionError(j)
  BY <1>1, <1>3 DEF StartLogging, OnConnectionError
<1>4. ~Files
  BY <1>1, <1>2 DEF Files, FileTooLate, FileRefused, FileOpened, SettlePending
<1>5. PICK j \in Starts : NetLogStarted(j)
  BY <1>2, <1>3, <1>4 DEF Next, vars, Application, StopLogging, NetworkServiceCrashes,
     Browser, Stopped, Service, ExporterStarts, DirectoryReady, ExporterStops, ExporterStep
<1>6. i = pending /\ j = pending
  BY <1>1, <1>5, QuietSteps DEF IInv
<1>7. PICK ok \in BOOLEAN :
        service[i] = [state |-> IF ok THEN "running" ELSE "idle", asked |-> <<>>,
                      told |-> <<[of |-> "start", ok |-> ok]>>]
  <2>1. service[i].told # <<>>
    BY <1>5, <1>6 DEF NetLogStarted, Told
  <2>2. InProgress
    BY <1>1, <1>6 DEF None, Starts
  <2> QED
    BY <1>6, <2>1, <2>2 DEF InProgress, Starting, In
<1>8. Outcome(i) = "resolved"
  BY <1>1, <1>5, <1>6 DEF NetLogStarted, SettlePending, None, Starts
<1>9. ok
  <2>1. service[i].told = <<[of |-> "start", ok |-> ok]>>
    BY <1>7
  <2> QED
    BY <1>8, <2>1 DEF Outcome
<1> QED
  BY <1>7, <1>9

(* While the network service lives, the promise of startLogging() tells    *)
(* the truth to an application that awaits it: its own exporter records.   *)
THEOREM ResolvedRecords == Spec => ResolvedMeansRecording
<1>1. IInv /\ OneAtATime /\ [Next]_vars =>
        [patient /\ crashes = 0 =>
           \A i \in Starts : start[i] = "pending" /\ start'[i] = "resolved" =>
             service[i].state = "running"]_vars
  BY ResolvedStep
<1> QED
  BY <1>1, Inductive, InductiveOneAtATime, PTL DEF Spec, ResolvedMeansRecording

=============================================================================
