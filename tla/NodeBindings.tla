---------------------------- MODULE NodeBindings ----------------------------
(***************************************************************************)
(* How Electron makes one thread serve both Chromium's message loop and    *)
(* libuv.  A second thread, the EMBED THREAD, waits for libuv's events     *)
(* (PollEvents) and posts a task to the loop thread, whose UvRunOnce runs  *)
(* the uv loop without waiting and hands the turn back through a           *)
(* semaphore.  One NodeBindings is modelled, with its host:                *)
(*   "process": the browser process or a utility process: started once;    *)
(*   "worker" : a worker thread: each Node.js environment of a pooled      *)
(*              worklet starts the polling anew, StopPolling ends it;      *)
(*   "frame"  : a renderer's main frame: each document's environment is    *)
(*              created first, the polling started by a task posted later. *)
(* The uv loop is reduced to one timer, one source of I/O, and the wakeup  *)
(* (dummy_uv_handle_, an async handle) that interrupts a poll.             *)
(***************************************************************************)
EXTENDS Naturals

CONSTANTS
    Hosts,    \* the kinds of host to consider
    MaxEpoch  \* bound: environments that use this NodeBindings in turn

ASSUME HostsAssumption == Hosts \subseteq {"process", "worker", "frame"}
ASSUME MaxEpochAssumption == MaxEpoch \in Nat \ {0}

VARIABLES
    host,
    epoch,       \* how many environments there have been
    env,         \* uv_env_ is set
    initialized, \* initialized_
    closed,      \* embed_closed_
    pc,          \* what the loop thread is doing
    starting,    \* a frame's Prepare + Start task is posted and its frame lives
    tasks,       \* UvRunOnce tasks in the loop thread's queue
    embed,       \* where the embed thread is
    tmo,         \* the timeout of its poll
    sem,         \* embed_sem_
    timer,       \* the uv loop's timer
    ready,       \* the backend has an I/O event to report
    wake         \* dummy_uv_handle_ is signalled

vars == <<host, epoch, env, initialized, closed, pc, starting, tasks,
          embed, tmo, sem, timer, ready, wake>>
life == <<host, epoch, env, initialized, closed, starting>>
uv   == <<timer, ready, wake>>

TypeOK ==
    /\ host \in Hosts
    /\ epoch \in 0..MaxEpoch
    /\ env \in BOOLEAN
    /\ initialized \in BOOLEAN
    /\ closed \in BOOLEAN
    /\ pc \in {"idle", "loading", "uvrun", "joining"}
    /\ starting \in BOOLEAN
    /\ tasks \in Nat
    /\ embed \in {"none", "wait", "woken", "polling", "polled", "exited"}
    /\ tmo \in {"infinite", "finite"}
    /\ sem \in Nat
    /\ timer \in {"off", "armed", "due"}
    /\ ready \in BOOLEAN
    /\ wake \in BOOLEAN

Init ==
    /\ host \in Hosts
    /\ epoch = 0
    /\ env = FALSE
    /\ initialized = FALSE
    /\ closed = FALSE
    /\ pc = "idle"
    /\ starting = FALSE
    /\ tasks = 0
    /\ embed = "none"
    /\ tmo = "infinite"
    /\ sem = 0
    /\ timer = "off"
    /\ ready = FALSE
    /\ wake = FALSE

-----------------------------------------------------------------------------
(* uv_run(NOWAIT): what was pending is dispatched; what arrives during the *)
(* run stays for the next one.                                             *)
Dispatch ==
    /\ timer' = IF timer = "due" THEN "off" ELSE timer
    /\ ready' = FALSE
    /\ wake' = FALSE

(* PrepareEmbedThread.                                                     *)
PrepareEmbedThread == embed' = IF initialized THEN embed ELSE "wait"

(* StartPolling: the first UvRunOnce is called, not posted.                *)
StartPolling ==
    IF initialized
      THEN pc' = "idle" /\ UNCHANGED <<initialized, uv>>
      ELSE pc' = "uvrun" /\ initialized' = TRUE /\ Dispatch

-----------------------------------------------------------------------------
(* The loop thread: hosts.                                                 *)

(* The first statements of WebWorkerObserver::InitializeNewEnvironment.    *)
(* Node.js is loaded while the embed thread already exists.                *)
WorkerInitialize ==
    /\ host = "worker"
    /\ pc = "idle"
    /\ ~env
    /\ epoch < MaxEpoch
    /\ epoch' = epoch + 1
    /\ PrepareEmbedThread
    /\ pc' = "loading"
    /\ UNCHANGED <<host, env, initialized, closed, starting, tasks, tmo, sem, uv>>

(* ... and its last ones: set_uv_env and StartPolling.                     *)
WorkerLoaded ==
    /\ host = "worker"
    /\ pc = "loading"
    /\ env' = TRUE
    /\ StartPolling
    /\ UNCHANGED <<host, epoch, closed, starting, tasks, embed, tmo, sem>>

(* ElectronRendererClient::DidCreateScriptContext: the primary bindings    *)
(* are free (uv_env() is null), and polling starts from a fresh task.      *)
FrameCreated ==
    /\ host = "frame"
    /\ pc = "idle"
    /\ ~env
    /\ epoch < MaxEpoch
    /\ epoch' = epoch + 1
    /\ env' = TRUE
    /\ starting' = TRUE
    /\ UNCHANGED <<host, initialized, closed, pc, tasks, embed, tmo, sem, uv>>

(* The fresh task.  The queue is FIFO: UvRunOnce tasks that are there were *)
(* posted before it.                                                       *)
FrameStart ==
    /\ starting
    /\ pc = "idle"
    /\ tasks = 0
    /\ starting' = FALSE
    /\ PrepareEmbedThread
    /\ StartPolling
    /\ UNCHANGED <<host, epoch, env, closed, tasks, tmo, sem>>

(* PreMainMessageLoopRun, NodeService::Initialize: once per process.       *)
ProcessStart ==
    /\ host = "process"
    /\ pc = "idle"
    /\ epoch = 0
    /\ epoch' = 1
    /\ env' = TRUE
    /\ PrepareEmbedThread
    /\ StartPolling
    /\ UNCHANGED <<host, closed, starting, tasks, tmo, sem>>

(* Fault: set_uv_env(nullptr) and StopPolling without WakeupEmbedThread.   *)
ReleaseWithoutWakeup ==
    /\ env
    /\ pc = "idle"
    /\ env' = FALSE
    /\ starting' = FALSE
    /\ closed' = initialized
    /\ sem' = IF initialized THEN sem + 1 ELSE sem
    /\ pc' = IF initialized THEN "joining" ELSE "idle"
    /\ UNCHANGED <<host, epoch, initialized, tasks, embed, tmo, uv>>

(* The environment ends: set_uv_env(nullptr), then StopPolling up to its   *)
(* join.  A frame that goes before its task has run was never started.     *)
Release ==
    /\ env
    /\ pc = "idle"
    /\ env' = FALSE
    /\ starting' = FALSE
    /\ IF initialized
         THEN /\ closed' = TRUE
              /\ sem' = sem + 1
              /\ wake' = TRUE
              /\ pc' = "joining"
         ELSE UNCHANGED <<closed, sem, wake, pc>>
    /\ UNCHANGED <<host, epoch, initialized, tasks, embed, tmo, timer, ready>>

(* Fault: StopPolling leaves initialized_ set.                             *)
StaysInitialized ==
    /\ pc = "joining"
    /\ embed = "exited"
    /\ embed' = "none"
    /\ sem' = 0
    /\ closed' = FALSE
    /\ pc' = "idle"
    /\ timer' = "off"
    /\ ready' = FALSE
    /\ UNCHANGED <<host, epoch, env, initialized, starting, tasks, tmo, wake>>

(* The join returns; the semaphore is drained; the environment is freed,   *)
(* which closes its handles and may run the loop.                          *)
Joined ==
    /\ pc = "joining"
    /\ embed = "exited"
    /\ embed' = "none"
    /\ sem' = 0
    /\ closed' = FALSE
    /\ initialized' = FALSE
    /\ pc' = "idle"
    /\ timer' = "off"
    /\ ready' = FALSE
    /\ wake' \in {wake, FALSE}
    /\ UNCHANGED <<host, epoch, env, starting, tasks, tmo>>

-----------------------------------------------------------------------------
(* The loop thread: UvRunOnce, and JavaScript in between.                  *)

(* Fault: the embed thread is released before the loop is run.             *)
UvRunOncePostsFirst ==
    /\ pc = "idle"
    /\ tasks > 0
    /\ tasks' = tasks - 1
    /\ IF env THEN pc' = "uvrun" /\ Dispatch /\ sem' = sem + 1
              ELSE UNCHANGED <<pc, uv, sem>>
    /\ UNCHANGED <<life, embed, tmo>>

(* A posted UvRunOnce, up to uv_run.  Without an environment it does       *)
(* nothing at all.                                                         *)
UvRunOnce ==
    /\ pc = "idle"
    /\ tasks > 0
    /\ tasks' = tasks - 1
    /\ IF env THEN pc' = "uvrun" /\ Dispatch ELSE UNCHANGED <<pc, uv>>
    /\ UNCHANGED <<life, embed, tmo, sem>>

(* A callback run by uv_run starts a timer: interrupts are suspended.      *)
CallbackArmsTimer ==
    /\ pc = "uvrun"
    /\ timer = "off"
    /\ timer' = "armed"
    /\ UNCHANGED <<life, pc, tasks, embed, tmo, sem, ready, wake>>

(* uv_run returns; uv_sem_post.                                            *)
UvRunReturns ==
    /\ pc = "uvrun"
    /\ sem' = sem + 1
    /\ pc' = "idle"
    /\ UNCHANGED <<life, tasks, embed, tmo, uv>>

(* Fault: the interrupts are suspended for a Chromium task too.            *)
TaskArmsTimerSilently ==
    /\ pc = "idle"
    /\ env
    /\ timer = "off"
    /\ timer' = "armed"
    /\ UNCHANGED <<life, pc, tasks, embed, tmo, sem, ready, wake>>

(* JavaScript run by a Chromium task starts a timer, which interrupts      *)
(* whoever polls (UV_LOOP_INTERRUPT_ON_IO_CHANGE).                         *)
TaskArmsTimer ==
    /\ pc = "idle"
    /\ env
    /\ timer = "off"
    /\ timer' = "armed"
    /\ wake' = TRUE
    /\ UNCHANGED <<life, pc, tasks, embed, tmo, sem, ready>>

-----------------------------------------------------------------------------
(* The embed thread: EmbedThreadRunner and PollEvents.                     *)

(* embed_closed_ is a plain bool: a thread that has not consumed           *)
(* StopPolling's own post, the last one, may still read the old value.     *)
ReadsClosed(synchronized) == IF synchronized THEN {closed} ELSE {closed, FALSE}

(* EmbedThreadRunner: uv_sem_wait and the first test of embed_closed_.     *)
SemWait ==
    /\ embed = "wait"
    /\ sem > 0
    /\ sem' = sem - 1
    /\ \E c \in ReadsClosed(sem = 1) : embed' = IF c THEN "exited" ELSE "woken"
    /\ UNCHANGED <<life, pc, tasks, tmo, uv>>

(* PollEvents reads uv_backend_timeout() and enters the poll.              *)
PollEvents ==
    /\ embed = "woken"
    /\ embed' = "polling"
    /\ tmo' = IF timer = "off" THEN "infinite" ELSE "finite"
    /\ UNCHANGED <<life, pc, tasks, sem, uv>>

PollReturns ==
    /\ embed = "polling"
    /\ \/ ready
       \/ wake
       \/ tmo = "finite" /\ timer # "armed"
    /\ embed' = "polled"
    /\ UNCHANGED <<life, pc, tasks, tmo, sem, uv>>

WakeupMainThread ==
    /\ embed = "polled"
    /\ \E c \in ReadsClosed(FALSE) :
         IF c THEN embed' = "exited" /\ UNCHANGED tasks
              ELSE embed' = "wait" /\ tasks' = tasks + 1
    /\ UNCHANGED <<life, pc, tmo, sem, uv>>

-----------------------------------------------------------------------------
(* The world.                                                              *)

TimeoutElapses ==
    /\ timer = "armed"
    /\ timer' = "due"
    /\ UNCHANGED <<life, pc, tasks, embed, tmo, sem, ready, wake>>

IOArrives ==
    /\ env
    /\ ~ready
    /\ ready' = TRUE
    /\ UNCHANGED <<life, pc, tasks, embed, tmo, sem, timer, wake>>

-----------------------------------------------------------------------------
HostStep == \/ WorkerInitialize
            \/ FrameCreated
            \/ ProcessStart
            \/ Release

LoopStep == \/ WorkerLoaded
            \/ FrameStart
            \/ Joined
            \/ UvRunOnce
            \/ UvRunReturns

EmbedStep == SemWait \/ PollEvents \/ PollReturns \/ WakeupMainThread

Next == \/ HostStep
        \/ LoopStep
        \/ CallbackArmsTimer
        \/ TaskArmsTimer
        \/ EmbedStep
        \/ TimeoutElapses
        \/ IOArrives

Spec == Init /\ [][Next]_vars

(* Both threads run and time passes.  Hosts create and release nothing on  *)
(* their own, JavaScript need not start a timer and I/O need not arrive.   *)
Fairness ==
    /\ WF_vars(LoopStep)
    /\ WF_vars(EmbedStep)
    /\ WF_vars(TimeoutElapses)

FairSpec == Spec /\ Fairness

-----------------------------------------------------------------------------
(* The turn of the protocol: a post, a task, the embed thread between its  *)
(* sem_wait and its task, and a running UvRunOnce each hold one.           *)
Turns == sem + tasks
         + (IF embed \in {"woken", "polling", "polled"} THEN 1 ELSE 0)
         + (IF pc = "uvrun" THEN 1 ELSE 0)

Parked == embed = "wait" /\ sem = 0

(* While UvRunOnce is in uv_run the embed thread is parked and no other    *)
(* UvRunOnce waits, as the suspended interrupts require, in the first      *)
(* environment of any host: for a process, always.                         *)
Lockstep == epoch = 1 /\ pc = "uvrun" => Parked /\ tasks = 0

(* An environment whose polling was started never loses its turn.          *)
NeverStalls == initialized /\ env /\ pc # "joining" => Turns > 0

(* StopPolling leaves no embed thread behind: at most one polls the loop.  *)
OneThread == pc = "idle" /\ ~initialized => embed = "none"

(* StopPolling returns: the embed thread is woken wherever it waits.       *)
StopReturns == pc = "joining" ~> pc # "joining"

(* I/O that is ready is dispatched and, in a host's first environment, a   *)
(* timer that is due is served, in whatever way it was started, unless the *)
(* environment goes first.                                                 *)
EventsServed ==
    /\ ready /\ env /\ initialized ~> ~ready \/ ~env
    /\ timer = "due" /\ env /\ initialized /\ epoch = 1 ~> timer # "due" \/ ~env

(* patches/node/feat_add_uv_loop_interrupt_on_io_change_...:10: "a poll    *)
(* started with a now-stale uv_backend_timeout() gets to see the change",  *)
(* after a restart too.  The interrupts are suspended on the assumption    *)
(* that the embed thread is parked (node_bindings.cc:1165).                *)
AllTimersServed ==
    timer = "due" /\ env /\ initialized ~> timer # "due" \/ ~env

=============================================================================
