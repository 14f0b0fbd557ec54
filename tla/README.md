# Electron: a verification project

TLA+ models of the parts of Electron's C++ code whose correctness depends on the
order in which things happen, TLC configurations that check them on small
instances, and proofs that TLAPS checks for every value of their constants.

Source references are relative to the repository (`shell/...`, `docs/...`).
`PROJECT.json` maps each definition to the lines it models.

## 1. The system

Electron embeds Chromium and Node.js in one browser process (the "main process")
and in renderer, utility and service processes. The code under `shell/` is mostly
an adapter between three worlds: content's callbacks, mojo pipes and JavaScript.
Three things make it hard to get right:

* **Re-entrancy.** The browser process's logic runs on one thread, but `Emit()`
  runs JavaScript that may call back into any API before the C++ function that
  emitted the event goes on.
* **Answers that come late.** Files, pipes, navigations, pages and other
  processes answer in later tasks, when what they were asked for has been
  replaced, destroyed or forgotten.
* **One real pair of threads:** libuv's loop is run by one thread and polled by
  another.

### Inventory

| component | state it keeps | operations | interacts with | what makes it correct |
|---|---|---|---|---|
| **Application lifecycle** `browser/browser.cc`, `window_list.cc` | `is_quitting_`, `is_exiting_`, `is_shutdown_`, the quit closure, `windows_` | `app.quit()`, `app.exit()`, `Shutdown`, `OnWindowAllClosed`, `OnWindowCloseCancelled`, close/destroy all | windows (calls and observers), JavaScript (events), the message loop | no quit is forgotten; exit asks nobody; every window is reached; the list is exact |
| **Window close paths** `native_window.cc`, `api/electron_api_{base,browser}_window.cc` | `is_closed_`, the observed page, the posted deletion | `Close`, `CloseImmediately`, `destroy()`, the page's unload | lifecycle, `WebContents` | closed once, whoever closes it |
| **Node.js event loop integration** `common/node_bindings*.cc` | `initialized_`, `embed_closed_`, the semaphore, the posted tasks, libuv's handles | Prepare, Start, Run, Poll, Stop | an embed thread; hosts: process, worker, frame | the threads alternate; no turn is lost; the thread is joined; timers and I/O are served |
| **Promises of `loadURL()`** `api/load_url_promises.cc`, parts of `electron_api_web_contents.cc` | the pending promises with two flags and an error each; loads posted; the refused-while-emitting flag; the URL awaiting an unload dialog | Add, and one handler per navigation event | content's main frame (external), JavaScript | every promise settles, once, with what happened to its own load |
| **Network log** `api/electron_api_net_log.cc` | one slot for the exporter, one for the promise | start, stop, three kinds of answers, disconnect | the network service, a file sequence | each promise is settled by its own start |
| **Utility process** `api/electron_api_utility_process.cc`, `services/node/parent_port.cc`, `lib/browser/api/utility-process.ts` | `terminated_`, `pid_`, `killed_`, the connector, read ends of stdio, the JavaScript handle | fork, launch, `postMessage`, `kill`, four reports of a death, shutdown | content's process host, the child and its port, the operating system | one `exit`, after the last message, with the code that was earned |
| **Message ports** `api/message_port.cc` | connector, started, closed, the self-reference | new channel, `postMessage` with transfer, `start`, `close`, disconnect, collection | mojo, pages, the garbage collector | a handle has one owner; a started port stays; `close` is emitted once |
| IPC dispatch and reply channels `common/gin_helper/reply_channel.cc` | an unanswered callback | send reply, collected | the renderer's invoke | answered exactly once, also when collected |
| **Permission manager** `electron_permission_manager.cc` | the handler, pending batches by id | request, answer, set and clear the handler, page gone | JavaScript handlers, content's permission controller | a page is answered once, with what was decided for it |
| **Web requests** `api/electron_api_web_request.cc`, `net/proxying_url_loader_factory.cc` | entries by request id, two pipes and their pauses, two kept callbacks, the factory | three questions, redirects, cancellation, late answers, lost pipes | a client, the network service, JavaScript listeners | events in order, the client agrees, one question at a time, every request ends |
| **Streamed responses** `net/node_stream_loader.cc` | the flags of a read and a write, a pending result, `readable_` | start, three events, read, write, disconnect | a stream of Node.js, the body's pipe, a client | the client is told once what happened, with the whole body; nothing of a deleted loader runs |
| Shared textures `common/api/electron_api_shared_texture.cc` | references by process, sync tokens | import, send, release | GPU and renderer processes | a texture lives as long as somebody uses it |
| Content tracing, debugger, downloads, protocols, off-screen rendering, ASAR, notifications, menus, updater, extensions, `lib/` | | | | see the components in `PROJECT.json` with the reason why each is left out |

Each hazard of this code that we know of is listed in `PROJECT.json` at the line
where it bites, with the properties aimed at it.

## 2. The modules

    AppLifecycle      <- MCAppLifecycle         AppLifecycleProofs
    NodeBindings      <- MCNodeBindings         NodeProofs
    LoadURLPromises   (checked as it is)        LoadURLPromisesProofs
    NetLog            (checked as it is)        NetLogProofs
    UtilityProcess    (checked as it is)        UtilityProcessProofs
      refines ChildProcess
    PermissionManager <- MCPermissionManager    PermissionManagerProofs
    WebRequest        (checked as it is)        WebRequestProofs
    MessagePorts      <- MCMessagePorts         MessagePortsProofs
    NodeStreamLoader  (checked as it is)        NodeProofs

Every module has one `TypeOK` (a theorem or a part of one, and not listed in a run for
itself), its actions in the order of the code's call chain,
and the properties at the end. A definition whose comment begins with `Fault:`
is not part of the specification: it is the definition below it with a plausible
mistake, which shows that a property can fail.

### AppLifecycle

The C++ call stack is a variable. A frame is a function about to run or an event
whose handlers are running; JavaScript may act on top of an event frame, and the
frame then returns with or without `preventDefault()`. This is what makes
re-entrancy visible: `BeforeQuitReturns` is the second half of `Browser::Quit()`,
with anything in between. An empty stack is the message loop between two tasks.

A page is `loaded`, `asking` (its `beforeunload` handlers run in the renderer) or
`closing`; the answer is a task. `fresh` is a history variable: the windows that
were opened since the last quit or exit looked at the list, the only ones it may
leave untouched.

Not modelled: the macOS window, whose close may be deferred by a sheet or full
screen, child windows that `CloseImmediately` closes first, the profile dump of
PGO builds, and dialogs that run nested message loops.

### NodeBindings

One `NodeBindings` and its two threads. The loop is abstracted to one timer, one
I/O source and one async handle. What matters is when the poller read its timeout
(`tmo`) and who is interrupted when a timer is started: a task of Chromium
interrupts the poll, a callback inside `uv_run` does not, because `UvRunOnce`
suspends the interrupts. The plain bool `embed_closed_` may be read as its old
value unless the semaphore has ordered the two accesses (`ReadsClosed`).
The host is chosen at the start: it decides how often and in which order
Prepare, Start and Stop are called. The polling of Linux is taken; Windows and
macOS have the same shape with another call.

Not modelled: `JoinAppCode()`, which pumps the loop while the application's script
loads and before there is an embed thread, and the bootstrap of Node.js.

### LoadURLPromises

The variables `outcome`, `started`, `inpage` and `error` are the pending entries of
the class; `posted`, `stack` and `unload_url` belong to `WebContents`. `nav`, `doc`
and `loading` stand for content: the navigation of the main frame that has not
committed, the main frame's document, and whether a stop is owed. Content is
external and taken from the events this code is sent.

`begun` and `replaced` are history variables, for the properties only.

Not modelled: restoring a history, and loads with a response body, which register
their promise the same way; subframes except for their in-page navigations.

### NetLog

Both slots, all answers, and per start an exporter with its pipe (`asked`, `told`).
The exporter follows Chromium's: it prepares a directory before it records, refuses
a second start, and answers a stop with an error unless it records. The file
sequence is a queue. `dead` says that a promise was moved out of an empty optional.
The three kinds of refusals that throw before anything is changed are not steps.

`patient` is chosen at the start: a patient application awaits each promise before its
next call, any other calls whenever it likes. Some promises of this class are kept to
patient applications only, and the properties say which.

Not modelled: the collection of the NetLog object.

### UtilityProcess and ChildProcess

`ChildProcess` is what the documentation of `utilityProcess` promises: a process is
`spawned` or not, messages arrive in the order in which they were sent, and there is
one `exit`, after which nothing comes. `UtilityProcess` is the wrapper with what it
hears of the process: the end of the service pipe (with a reason, when the child
exits by itself), the notice of the process host, the task of a launch that failed in
the constructor, and the shutdown of the browser. Each may come first, and before the
launch is known. `Promise` is the instance of the abstract module; `exit` there is the
step in which the handlers have run.

`pc` is the place in `HandleTermination()`: `draining` messages that wait in the pipe,
`handling` one of them (JavaScript runs), `exiting` (the handlers of `exit` run).
`os` groups what the operating system knows of the child: its status is there for the
first `waitpid` only, which `kill()`'s reaper may win.

Not modelled: the URL loader factory that the child is given, network observers,
errors of V8 that are forwarded as an event, ports that are transferred (see
MessagePorts).

### PermissionManager

One action for each turn of a loop that runs JavaScript, with the rest of the loop in
a frame: the loop over a batch (`request`), the reply to the page (`reply`), the removal
after it (`response`) and the walk of the map when the handler is cleared (`clear`).
JavaScript runs in the handler and in what a reply sets off, and there it may answer
any callback it holds, set the handler or clear it. `decisions` and `replies` are
history variables.

A callback can be called once. `CallTranslator()` marks it as called before its argument
is converted, and a call without an argument fails at that: it throws,
`OnPermissionResponse()` is not run, and the callback is used up (`CallWithoutArgument`,
`spent`; any argument converts to a boolean). `callbacks` are those that have decided
nothing, these included.

Not modelled: `setPermissionCheckHandler`, device grants and the other handlers, which
are looked up and asked in one call.

### WebRequest

A handler of `InProgressRequest` runs to its end in a chain of calls that ends in several
places, so this module is written with operators that give the record (or the set of
records) a function leaves, named for the functions; the actions are the entry points.
The two pipes are `unbound`, `open` or `paused`; `mail` and `ask` are what is in them.
`log` is what `webRequest` was told, heard or not, and `told` what the client was told.
The network service is external: a loader that connects, asks for headers, sends, may
be redirected or authenticate, answers from a file or a protocol handler without
asking, fails, or dies with its process. The callbacks of listeners can be called once,
and in vain, as those of permissions can: `CallWithoutArgument` again.

`Recreates` says that following a redirect gives a new loader, as content may do with
CORS. The properties are checked without it, and `web_request_cors` shows why.

Requests of one factory share the map from the ids that the network service uses to
the factory's own (`network_request_id_to_web_request_id_`). The model has one request,
so that two requests with one network id, which the comment in `CreateLoaderAndStart()`
does not rule out, are not modelled.

Not modelled: filters (each event may or may not find a listener), observed requests
on the IO thread, WebSockets, `onAuthRequired`, and responses given to `loadURL()`.

### MessagePorts

Objects, ends of channels and messages that carry ends. An end's handle is in the
connector of an object, in a message at some end (which may itself be in a message),
or away in a page. `calls` are the calls of `postMessage()` whose message is being
serialized, during which getters may close or transfer the ports of the call.
Closing an end closes everything its messages carry, and so on: `Doomed`, the least set
that is closed under that.

### NodeStreamLoader

The loader pulls chunks out of a stream and pushes them into a pipe. The calls that
subscribe (`on`, in which of the three calls of `On()` the loader is) and `read()` run
JavaScript, so the stream may emit any event inside them; a write goes on by itself
and its end is a task. `told` is what the client was told. The loader deletes itself
with the first answer: `Alive` says that its weak pointers are valid. `destroyed_` is
read off the stream's own state, since it decides only whether the destructor calls
`destroy()`.

The stream and the client are external. Chunks are counted: `read()` takes all that is
buffered, `announce` is a `readable` the stream owes, and `end` comes after the read that
found it had its last push, or at any time from an emitter that is not a stream of
Node.js. A stream that is destroyed without an error emits nothing and waits for the
client to go. `Init`, `Next` and `Spec` are called `ResponseInit` and so on here, since
NodeProofs extends this module beside NodeBindings.

Not modelled: streams in object mode, whose chunks are not buffers; the size of the pipe.

## 3. The runs

| run | shows | bounds | why they are enough |
|---|---|---|---|
| `quit` | window list exact; no quit forgotten; every window reached; exit silent and complete; a quit that nothing cancels concludes, a shutdown ends the process | 3 windows of the 3 kinds, 3 API calls; 252 thousand states | 3 calls put a quit, an exit and a close on one stack, the third window is the one opened meanwhile, two pages are the shortest chain of asking; the safety part is proved for any windows and any number of calls |
| `loop` | lockstep, no lost turn; stop returns; timers and I/O are served | all hosts, 3 environments; 4125 states | the third environment meets leftovers of two |
| `load` | no promise left behind; replaced loads abort; routing settles no load; every promise settles | 2 promises, 3 spontaneous acts; 66 thousand states | one load replaced and one replacing; the safety part is proved for any set of promises |
| `netlog` | every stop settles; for a patient application answers find their promise, and each start settles and tells the truth | 3 starts, 1 crash, patient or not; 170 thousand states | both slots can hold the wrong start, and a start follows a success and a failure; the safety part is proved for any bounds |
| `utility_process` | the refinement of ChildProcess; exit once, last, with its code; a death reported; posted messages heard; `kill()` ends; a quit emits exit | 2 messages, 2 posts each way; 149 thousand states | two messages show an order, and that one is dispatched while another waits; the safety part and the refinement are proved for any number |
| `permissions` | a page answered once, with its own decisions; the count of what is undecided is right; nobody forgotten | 2 requests, 2 pages, batches of 2, 5 frames; 872 thousand states | one request inside the handler of another, with a clear on top of both; proved for any bounds |
| `web_request` | order of events; the client agrees; one question; callbacks kept are awaited; no event while a question is open; the factory stays; every request ends that can still be answered | 1 request of each kind, 4 redirects or authentications; 29 thousand states | requests have their own entries and pipes, and share only the map of section 2; the fourth round repeats states of the second; the safety part is proved for any number of rounds |
| `message_ports` | one owner per handle; started ports stay; no message is sent without a connector; events of a port | 3 objects, 2 channels, 1 message per end, 1 port per message, 1 call; 418 thousand states | a port inside a message inside a port needs two channels; the third object is made of the port that arrives; proved for any bounds |
| `stream` | the answer is true and the body whole; no `readable` is forgotten; a deleted loader is silent; every request with a stream that ends or a client that goes is completed | 3 chunks; 5344 states | one chunk is written while the next is buffered and the third is announced from within `read()`; the safety part is proved for any number of chunks |

Deadlock is not checked: an application may stop calling anything, and the bounds
on what it does end every behaviour.

The constants whose names begin with `Max` are the bounds, and so are the finite sets. They are guards of the actions that spend them; the proofs hold for every
value.

### What the code does not do

Three runs end in a counterexample to something a document or a comment says. Each is
a finding of `PROJECT.json`:

* `netlog_crash`: after a crash of the network service a late file starts the wrong
  exporter, and its second answer finds no promise.
* `permissions_null`: a handler that removes itself during a batch leaves the loop with
  a null handler, which it runs.
* `web_request_cors`: after a redirect that gives a new loader, the header client is
  bound after the pause and asks for headers while `onBeforeRequest` is still asked.

Five more statements are defined beside the properties of their modules and do not
hold; TLC finds each counterexample in seconds when the definition is put into the
configuration of the run named here:

* `ExitIsImmediate` (`quit`): `app.exit()` destroys a snapshot of the list; a window
  opened by a `closed` handler keeps the application running.
* `QuitIgnoredOnlyWhileClosing` (`quit`): after a quit that such a window
  interrupted, `is_quitting_` stays set and `app.quit()` does nothing.
* `AllTimersServed` (`loop`, a temporal property): `StopPolling()` drains the semaphore but
  not the posted `UvRunOnce`. A worker that is given a new environment can then have two
  turns: its loop runs while it is polled, and a timer started by a callback is lost.
  (`Lockstep` is about the first environment; `NeverStalls`, that there is a turn at
  all, holds in every one.)
* `ResolvedMeansLoaded` (`load`): a subframe's in-page navigation resolves a load that is
  under way.
* `LateFileIsSettled` (`netlog`): a stop before the file is open leaves a promise pending
  for ever.

Three more consequences can be seen in the models and have no run of their own. The
failure of one `loadURL()` is the failure of every pending one, and the URL that is
remembered for a `beforeunload` dialog has the same effect: it outlives its navigation,
and a dialog about closing the window fails a later load. For an application
that does not await, the answer to one start of the network log resolves another. And
`callback()` without an argument, in a permission handler or in a listener of
`webRequest`, throws and uses the callback up: the permission request stays pending until
the handler is cleared or the page goes, the network request until it fails or is given up.

### Fairness

* AppLifecycle: the thread runs the frame it is at, handlers return, the message loop
  runs its tasks, and a page that was asked answers or is unloaded: content has a
  timer for it. The application is never obliged to call anything.
* NodeBindings: both threads run, time passes. Hosts are not obliged to do anything.
* LoadURLPromises: handlers return, posted tasks run, and content brings each
  navigation and each document to an end and reports it. Failures, crashes and the
  page's own navigations are never obliged to happen.
* NetLog: files open or fail, and the loops of both processes run.
* UtilityProcess: tasks run, handlers return, a launch ends, the host reports what
  happens, the child reads a port it has started, and a process that exits or was sent
  a signal ends: `base::EnsureProcessTerminated` sees to it.
* WebRequest: tasks and messages are run, a client follows its redirects, and a loader
  that has the next move and does nothing fails, by its timeout. Listeners answer:
  that is not the code's doing, but what `docs/api/web-request.md` asks of them, and
  `RequestEnds` holds for applications that comply. A call without an argument is a
  step of its own, `Mistakes`, without fairness, and `RequestEnds` says nothing of a request
  whose callback it has used up.
* NodeStreamLoader: calls return, tasks run, the client reads the pipe or closes it, and
  the stream emits the events it owes. Nobody is obliged to push, to end or to go.

## 4. The proofs

Theorems hold for every set of windows or promises and every bound. Each module
proves an inductive invariant, called `IInv` if it is alone: initially true, preserved by every step and by
stuttering, and implying what is claimed.

* **AppLifecycleProofs**: `IInv` is `TypeOK`, `QuitFollowedUp` (a quit or exit without
  windows has a frame on the stack that will reach the shutdown), `CallsOnTop`
  (below the top of the stack there are only event handlers and loops) and
  `NotifiedOnlyOnceDown` (a frame that emits `will-quit` is on the stack only if no
  exit came before). `NoStuckQuit` alone is not inductive since it speaks of an idle
  thread only. A second invariant, `WindowsInv`, says what the frames know: each is
  about windows that have been opened (`FramesKnow`), a `closed` frame is the only one
  of its window (`ClosedOnce`), the list is the open windows and those with such a frame
  (`ListedAre`), and while a quit or an exit is in progress every window it found is
  owed something, a frame that will ask or destroy it or the answer of its page
  (`QuitGoesOn`, `ExitGoesOn`). The last two are the properties below for a thread that
  is not idle. Proved: `TypeOK`, `NoStuckQuit`, `ExitSkipsWillQuit`, `WindowListExact`,
  `ExitDestroysAll`, `QuitReachesEveryWindow`.
* **NodeProofs** is about the two modules that drive machinery of Node.js. For
  NodeBindings, `IInv` adds which flags agree with which thread state, that an
  embed thread exists exactly while the polling is prepared, and that the first
  environment has exactly one turn. Proved: `TypeOK`, `Lockstep`, `NeverStalls`,
  `OneThread`. For NodeStreamLoader, `ResponseInv` adds `Working` (a loader reads or
  writes, not both, exactly while `readable_` is set and it lives), `Counted` (each chunk
  is in the stream, in the hands of the loader or in the pipe), `Answered` (what was told,
  or is kept in `pending_result_` until the work is done, has happened) and `WillBeRead`
  (what is in the stream is announced, or a read follows the one in progress). Proved:
  `AnswerIsTrue`, `NoReadableForgotten`, `DeadIsSilent`.
* **LoadURLPromisesProofs**: `IInv` adds `FlagsKnown` (what flags say about pending
  promises) and `RoutingAlone` (a routing event is emitted by the message loop only,
  with its flags still in place when it returns). Proved: `TypeOK`, `NoneLeftBehind`,
  `ReplacedAreAborted`, `RoutingSettlesNoLoad`.
* **NetLogProofs**: `IInv` adds `UnmadeHasNoStop`, `SlotIsFresh` (the exporter in the slot has
  a pipe and was not stopped) and `StopIsMeant` (an exporter nobody stopped neither has
  a stop in its pipe nor answers one). Proved: `TypeOK`, `PendingIsUnsettled`,
  `StopWillBeAnswered`. A second invariant, `OneAtATime`, is about a patient application
  while the network service lives: the start in progress is at one of four stages
  (file being opened, asked, preparing its directory, answered), and every other exporter
  is `Quiet`: it has no start in its pipe and no answer to one. Neither slot nor answer
  names its start, so the two properties it gives, `AnswersFindTheirPromise` and
  `ResolvedMeansRecording`, need to know of every exporter but one that it says nothing.
* **UtilityProcessProofs**: `IInv` ties the report of a death to what is still owed: who
  has the service pipe, the notice, the task of a failed launch, and which of the states
  of the process go with them. Proved: `TypeOK`, `ExitIsLast`, `StdioHasOwner`,
  `DeathWillBeReported`, `KilledIsGraceful`, and `Implements`: every step of
  `UtilityProcess` is a step of `ChildProcess` or leaves it unchanged, for any set of
  messages.
* **PermissionManagerProofs**: `IInv` adds `RequestLast` (a loop over a batch is the
  outermost call), `Names` (an id that is still in use belongs to one request, and a request that is
  answered or pending has one id), `Replied` (a pending entry still has its reply exactly
  if its page heard nothing), `Heard` (while a page waits its entry is in the map, also
  in the middle of the two loops that take entries out), `Decided` (what is in the hands
  of a callback, or of a loop that has not come so far, is undecided) and `Counted` (the
  remaining count and the results of an entry are those of its undecided callbacks).
  Its types leave out `spent`, which has a small invariant of its own: no step reads it
  but to refuse a call.
  The properties are about single requests or the time between tasks; these parts say
  what the frames on the stack still have to do. Proved: `TypeOK`, `AnsweredOnce`,
  `DecidedByItsOwn`, `CountsUndecided`, `DecidedIsHeard`.
* **MessagePortsProofs**: `IInv` is `Types`, `Owned` (a handle is in one object, in one
  message, in one place, and an open one is somewhere) and `PortsOK` (for each object,
  what its flags say of its connector and of its own handle). A transfer moves a handle and a
  close takes away all that its messages carry, so the proof is about the places a
  handle leaves and enters; `Doomed` is the least closed set, which is all it needs.
  Proved: `TypeOK`, `HandleHasOneOwner`, `KeptWhileStarted`, `NoNullConnector`,
  `EventsOfPort`.
* **WebRequestProofs**: `IInv` says that a request is in one of five situations: not
  yet there (`Unborn`), left by a handler that asks nobody (`Quiet`), `Questioned`, with
  an answer that is posted (`Answered`), or `Over`. None of the properties is inductive,
  as what a message does depends on what was sent before it. So in each situation the
  last event of the log is the request's place, and the rest has to go with that place:
  what the loader has done and what is in its pipe (`Pipes`), the callback that is kept
  (`Holds`), what loader and client may say next (`Fits`), and what a question has paused
  (`Paused`). The proof follows the operators of the module: a lemma for each function
  says in which situation it leaves the request, given the one in which it is called, and
  an action is the composition of such lemmas. The properties of the history, which are
  about the whole log, are carried along by two lemmas about one more event.
  Proved: `EventsInOrder`, `ClientAgrees`, `OneQuestion`, `HeldIsAwaited`,
  `FactoryStaysForRequest`, `FutureEventsWait`.

  The theorems of WebRequestProofs assume `~Recreates`, that a redirect keeps its loader.
  That is a fact about content and not about this code, and it is needed: with `Recreates`
  the finding `web_request_cors` applies, and TLC then refutes all of these properties
  but `ClientAgrees`, which it finds to hold for up to 3 rounds.

Six of the theorems are about invariants that no run lists, as the proof says more than a
run: `PendingIsUnsettled`, `StopWillBeAnswered`, `ExitIsLast`, `OneThread`, `StdioHasOwner`
and `KilledIsGraceful`.

The proofs use the assumptions named in the modules: kinds of windows are subsets of
the windows, the special model values are apart, bounds are naturals.

Only model-checked: liveness, since liveness under fairness is out of the prover's
reach. These are `QuitConcludes`, `StopReturns`, `EventsServed`, `EveryPromiseSettles`,
`PromisesSettle`, `PostedIsHeard`, `ExitComes`, `RequestEnds`, `Completes`, and the
fairness of ChildProcess that `KeepsPromise` adds to what `Implements` proves. Every other
property of a run is a theorem.

## 5. Plan

1. *Done:* the ten components of section 2, the refinement of ChildProcess, and the
   theorems of section 4, which state every invariant and action property of the runs.
2. Modules left, in this order: the reply channels of IPC (`ReplyChannel`: one answer,
   also when collected), `SharedTexture` (references across processes),
   `ContentTracing`, `Debugger`, `PowerSaveBlocker`.
3. Abstract specifications: a promise (`pending`, then settled once) implemented by
   LoadURLPromises and NetLog; a quit (`running`, `quitting`, `down`) implemented by
   AppLifecycle; an alternating pair implemented by NodeBindings in its first
   environment.
4. Theorems: the refinements of 3, and the safety of the modules of 2. `ClientAgrees` with
   loaders that are recreated, which TLC finds to hold.

## 6. Not modelled

The map covers a small share of the code because most of it is not of this kind.
`native_panel.cc`, the views, menus, trays and dialogs forward to the platform;
`electron_browser_client.cc` and large parts of `electron_api_app.cc`,
`electron_api_session.cc` and `electron_api_web_contents.cc` are tables of one-line
adapters that read or set something of content's; `node_event_emitter.cc` is a data
structure. What they do in an order is content's order. The reason for each component
is in `PROJECT.json`.
