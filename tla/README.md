# Verification of vncc

TLA+ models of the concurrent core of *vncc*, a launcher and a player for remote
Android and desktop sessions: what its worker threads, its thread pool, its
reconnecting network client, its command protocol, its audio and video paths and the
launcher's window with its requests and its WebSocket promise, which of these promises
TLC checks on small instances and which TLAPS proves for every instance.

- Every module models the code under `src/`; `PROJECT.json` maps each definition
  to the lines it stands for, lists the runs, a mutation of the code that each
  property catches, the theorems, the findings and the hazards.
- `tlc -config X.cfg MCModule.tla` repeats a run, `tlapm Module_proofs.tla` a proof.

## 1. The system and its parts

The repository builds three programs on one base library. It has no documentation
or tests of its own: the models follow the code and its comments.

| Part | State it keeps | Operations | Talks to |
|---|---|---|---|
| **Worker threads** `base/thread`, `base/callback` | two priority queues (immediate tasks, timers), `_done`, the map of registered threads, weak flags | `PostTask`, `PostDelayedTask`, `PostRepeatedTask`, `RegisterThread`, `RunMsgPump`, `RequestStop` | every other part posts closures to it |
| **Thread pool** `base/threadpool.h` | queue of tasks, mutex, condition variable, `_run`, idle count | `commit`, the workers' loop, the destructor | HTTP requests run on a pool of one |
| **TCP client** `common/eAVClient` | `_status`, `_bev`, `_bDone`, the map of clients | `Connect`, `Disconnect`, `SendData`; libevent's callbacks | libevent on a thread of its own; calls back into the control transport |
| **Control transport** `erender/econtroltrans` | callback maps of requests, `_status`, `_conn_type`, the state of the deframer | connect and error callbacks, `SendHeart`, `SendClearApps`, `SendTcpData`, `RemoveCB`, `RecvData`, `RouteCmd` | two TCP clients; its own pump; starts the stream |
| **Audio path** `erender/eAVRender` | ring buffer, gathered frames | `audio_decode`, `PlayFile`, `writeAudioRingBuf`, SDL's callback | decoder thread, stream thread, SDL's thread |
| **Video path** `erender/eAVRender`, `common/evideorender` | `b_play_done`, the picture buffer, the textures with `pic_w_`, `pic_h_`, `_pix_fmt`, the EGL context, `_b_timer_start`, `done_` | `videoCB`, `PlayFile`, `DecodeVideo`, `filldata`, `rotate`, `timerdraw`, `OnFrame`, `Destroy`, `Cleanup` | streaming library, decoding thread, GL thread |
| **WebSocket client** `eWebScoketCli` | `_bRun`, `_bDone`, `_bStopDone`, the endpoint, the connection handle | `Run`, `Stop`, `ReConnect`, `on_heart`, `SafeSend` | user interface; asio loop on a detached thread |
| **HTTP requests** `eWebRequest` | a pool of one worker, tokens | `RHLogin`, `briage_HttpsPostContent`, the signal of the answer | thread pool; answers go as signals to the user interface |
| **Launcher window** `mainwindow`, `playdialog` | the page shown, the addresses of the device, the players started | login, back, start of a player, switch of the device | HTTP requests, WebSocket, RPC manager |
| **RPC manager** `erpcmanager` | map of players by identifier | port scan, register, show buttons | player processes; the launcher's window |
| **Messages, widgets, helpers** | none that matters here | formatting, painting, digests, time | |

How they interact: the player's **control thread** is a message pump. It owns the
control transport and two TCP clients. The clients' callbacks run on the **libevent
thread** and post to the control thread; the control thread calls `SendData`, which
activates an event on the libevent thread. The control thread starts the **stream
thread**; frames go from there to the **decoder thread** (another pump), to the
**GL thread** (a third) and through the ring to **SDL's thread**. In the launcher the
user interface commits to the **pool's worker** and to the WebSocket's **asio
thread**, and has the answers posted back.

### What is hard here

- *Interleavings*: posts from any thread between two of the pump's critical
  sections; `SendData` against the loss of the connection; reads against writes of
  the ring; `Stop` against `ReConnect`; the destructor of the pool against its
  workers.
- *Ordering and time*: two queues with due ticks that are computed outside the lock,
  repeated timers, time-outs that race late answers, chains of timers that outlive
  what they were started for.
- *Failure*: connections that fail on the spot, later, or inside a package; an EGL
  context that is lost in the middle of a drawing; a handler that throws.
- *Numbers*: a 16-bit length, unsigned counters that wrap.

`PROJECT.json` lists these as hazards, each at the line where it bites, with the
properties that would catch it, or the reason why none does yet.

### What makes each part correct

- Worker threads: tasks in the order of their posts, none lost or doubled; timers
  neither early nor twice in a round, as often as asked; everything served in the end.
- Pool: every task taken once, in order; nobody sleeps on work; destruction ends.
- TCP client: always one connection or one plan to get one; messages whole, once, in
  order; nothing pending for a deleted client.
- Control transport: packages routed exactly; requests settle, and early only after a
  refused call; one chain of
  heartbeats and one stream per connection.
- Audio: what is heard is what was decoded, in order.
- Video: each picture is drawn as what it is; one chain of drawings; the screen never
  goes back, and the newest picture reaches it.
- WebSocket: one loop at a time, in an endpoint nobody takes away; what is stopped is at
  rest; `Stop` returns; a lost connection has a consequence.
- Launcher: every request is answered and its answer handled; the latest login wins;
  the first page has no WebSocket.

## 2. The modules

Each module that is checked has an `MC` module with the values for its constants
and one or more `.cfg` files. `*_proofs` modules hold the theorems.

### `TaskService` and `MsgPump`: the worker thread

`TaskService` is what a poster relies on: a FIFO and a bag of timers. `MsgPump` is
the code: an action is what one critical section of `_queue_mutex` does, or one read
of the clock. So `checkTopTask` and `getTask` are two actions and a producer may push
between them, and a timer's post is two actions (`PostDelayedTask` computes the due
tick, `PushTimer` pushes). The pump's place in `RunMsgPump` is `pc`; `Skip`, `Test`
and `Enter` are `PendingTask::Run` with the weak flag tested first; a closure may
post and stop the pump (`RequestStop`). A queue is its set of tasks with the next
sequence number: the heap's top is the one task that `operator<` puts before all
others. What is not kept: the closure's content, and `_data_lock`, which only the
pump takes.

`Destroyer` says which threads may end an owner. In the code the owners that post with
weak flags (the transport, the requests) live as long as the program or die on their own
thread, so the run lets the pump's thread do it; the theorems hold for any. No property
is about the flag: with owners that die on the pump's thread alone nothing can
come between its test and the call.

### `ThreadPool`

`threadpool.h` with the standard's condition variable: test under the lock, give it
up and sleep in one step, wake notified or spuriously, lock, test again. `_run` is
written without the lock, so `Stop` and `NotifyAll` may fall between a worker's
`Test` and its `Sleep`.

### `AVClient`: the reconnecting client

One `eAVClient`. A callback is one action, as only the libevent thread runs them;
`SendData` is two, the test of `_status` and `event_active`. libevent is external: a
FIFO of activated callbacks, timers that are activated when their time comes,
bufferevent callbacks when the network says so, and freeing a bufferevent takes its two
callbacks back (`Freed`), each of which is activated at most once. A message is its
length, which `EVENT_CTX` keeps in a `short`.

`NoTimerOutlives` speaks of connects and reconnects. For `do_send_cb` it would be
false: after `Disconnect` the loop may hold a heartbeat's `do_send_cb` behind
`do_close_cb`; the client deletes itself, and the send reads its `_status`. In
this program `Disconnect` is called by `close_self` alone, which has no live caller,
so the model lets a caller stop sending when it disconnects but not the heartbeat of
the connect callback, and the property leaves sends out. `Disconnect` while a
reconnect waits does not take it back: the client connects once more.

Lengths: with its header of 4 bytes a message of 32764 bytes or more has a negative
`short` length and is silently dropped; from 65533 bytes on a cut piece would be
written. `WholeMessages` is checked for lengths up to 32764; the program's own
messages are far shorter.

### `Deframer`: the command stream

`RecvData` with `_len`, `_remain`, `_head_size` and `_package`. A byte is its place
in the stream of its connection; one pass of the loop is one action; the chunks are
any cut of the stream, and connections may end anywhere without the decoder being
reset. What four bytes that are no header say is any value of `Garbage`.

### `ControlTrans`: what a connection sets going

The connect callback on the libevent thread, in its four steps, and the control
thread's tasks and timers, one action each. Timers are counted by the ticks they
have to wait, and time passes by `Tick`. The program sends one kind of request, so
the callback maps have an entry or none; `RouteCmd` never looks at them, so requests
end by their time-out. It abstracts `MsgPump` by what that module shows: tasks come
in order, timers when due; and `AVClient` by a connection that comes and goes.

A removal knows its request by the hash of its name only, so the one planned for an
earlier request can end a later one before its 30 s. The model does so: a refused call
erases a request that waits and leaves its removal behind, and the next request that is
sent loses its callbacks by it. `EarlyOnlyAfterErasure` says that this is the one way:
`wait` keeps the time a request has left, `erased` whether a call was ever refused while a
request waited, and without such a call no request ends with time left.

### `AudioRing`: from the decoder to SDL

The ring with unsigned counters that wrap at `Width`, its growth by reallocation, the
gathering of the first frames, the frames of the film that `PlayFile` writes from the
decoder thread meanwhile, and SDL's reads. Reads and writes hold `_audio_cs` from end
to end and are one action each. Bytes are numbered, those of the film negatively, and the
histories `frames` and `logo` keep where each frame ends, so no sum is needed. Not kept: the
content of a frame, and with it the resampler (`swr`) that the film's thread and the
stream's share without a lock.

### `VideoPath`: from the stream to the screen

Two threads that run tasks in order, `dec` and `gl`, and the callback of the streaming
library. `InitRender` is `eAVRender::Init` in its three steps; `videoCB` posts a package;
`PlayFile` holds the decoding thread while the film is played, so `DecodeVideo` drops
nothing but what was posted before `b_play_done`. `HandOver` is `filldata`. A task of the
GL thread is one action: `Fill` puts the picture into the buffer, renews the textures
when size or format differ (`CheckYUVTexture`) and starts the timers once; `InitContext`
may find no window, no surface or no programs; `Rotate` destroys and posts an
initialisation; `Draw` is `timerdraw` with `OnFrame`, which may find its context lost.

A picture is its number, its source and its shape. ffmpeg is external (a package gives a
picture or none), and so is EGL (a call fails or does not). `screen` keeps what the last
drawing read and by which size, format and textures, so `DrawsWhatFits` relates the four
places where the code remembers a shape. Not kept: the pixels, `PutData`'s copying, the
viewport, a package that gives more than one picture, the program without its film
(`g_play_logo_animation` false) and a turn that is queued before the renderer's first
initialisation. What the model shows besides its properties: two initialisations in a row (a
turn, and a loss or a second turn before the first has run) fail for the surface
that has the window already, and nothing tries again; hence `failed` in three
properties. The post of `eVideoRender::Create` finds the GL thread registered; if it did
not, the renderer would stay without a context.

### `WsClient`: the launcher's WebSocket

`eWebScoketCli` between the user interface's thread, whose `Stop` is five places long
and is followed by `Run` or by nothing, and the loops that the `Run`s started, each with
its endpoint, connection and timers. A handler is one action, as one thread runs them.
The wait of `Stop` has no predicate and a time limit, so it may end at any time: `early`
notes that it ended while the loop was there, and the two safety properties are stated
for what happens otherwise. What the model shows plainly is that `ReConnect` does not
reconnect: its timer calls `close` on the connection whose loss it answers,
websocketpp's `close` throws unless a connection is open, and what it throws ends the
loop before the new `Run` is started. The launcher has no WebSocket from then on until
the next login. That very exception is what makes `LoopOwnsEndpoint` true: without it
the new `Run` would destroy the endpoint whose loop is still running the timer, which
is the mutant that the property catches. The module has no run of its own: `Launcher`
extends it and its run checks the client's properties with the callers the program has.

### `Launcher`: the window, its requests and the WebSocket

`Launcher` adds to `WsClient` the window (`page`, `device`, `players`), the pool's worker
with its requests (`jobs`, `busy`) and the signals that wait for the user interface
(`answers`). Where `WsClient` lets the user interface call `Stop` and `Run` when it
pleases, here an answer (`Granted`, `LogIn`) or the back button tells it to, and
while it is inside `Stop` it handles no event. `action_Login` may be called twice for one
click, as the code connects both signals of the button. `Respond` is the end of a
request: an answer or its time limit, a signal either way. The pool is an abstraction of
`ThreadPool` with one worker, whose order that module's theorems give.

An answer that comes when the user has gone back logs in all the same: the
window shows the second page again. That is what the code does, and the properties
do not forbid it; what they say is that the WebSocket always fits the page and
the device always is the latest login's.

## 3. The runs

| Run | Bounds | Distinct states | Shows |
|---|---|---|---|
| `pump` (`MsgPump.cfg`) | two producers and the pump, 2 posts, delays 0 and 1, repeats 0, 2 and for ever, clock to 3 | 724 000 | order, timing, conservation, refinement of `TaskService`, every post served |
| `client` (`AVClient.cfg`) | 3 messages of 60, 32763 or 32764 bytes, 3 connections | 477 000 | one lifeline, order, wholeness, it keeps trying |
| `deframer` (`Deframer.cfg`) | packages of 3, 0 and 5 bytes, chunks to 9, 3 connections | 87 000 | packages routed exactly |
| `deframer_split` | the same, 1 connection | counterexample | a header in three pieces overruns the chunk |
| `control` (`ControlTrans.cfg`) | 3 connections, heartbeat and time-out 3 ticks, start of the stream 1 | 30 000 | time-outs, what ends a request early, heartbeats, streams, deadlock freedom |
| `control_resend` | the same | counterexample | a refused call forgets the request before it |
| `audio` (`AudioRing.cfg`) | ring of 5, 5 frames of the stream and 2 of the film, of 1 or 4 bytes, 2 gathered, growth to 18 | 139 000 | no byte lost or misplaced |
| `audio_wrap` | counters that wrap at 16 | counterexample | a ring whose size is no power of two breaks at the wrap |
| `pool` (`ThreadPool.cfg`) | 2 workers, 3 tasks | 5 800 | order, no lost notification, every task taken, end |
| `pool_stop` | the same | counterexample | the destructor may wait for ever |
| `launcher` (`Launcher.cfg`) | 3 requests, 1 player | 226 000 | endpoints owned, `Stop` stops and returns, a loss ends the loop, pages and logins fit, requests handled |
| `video` (`VideoPath.cfg`) | 2 pictures of the film, 2 packages, 3 shapes, 2 turns, 1 loss | 258 000 | pictures drawn as what they are, one chain, never back, the newest shown |

Why these bounds are enough to be interesting:

- Two posts of two threads meet in every order: both may be computed before either is
  pushed, one may come between the check and the removal of the other, and one may be
  served again and again while the other waits. Three ticks let a timer be due,
  overdue and repeated. The proofs lift the bounds for all five safety properties.
- Three connections let a stale timer or event of the first meet the third; the
  three lengths are the shortest that differ: one chunk, the longest that fits a
  `short`, the first that does not.
- Chunks of 1 to 9 bytes cut a header at every place and span a package, its
  neighbour's header and more.
- A time-out as long as the heartbeat, and a connection that may be lost and made
  again within it, let requests, refusals and stale time-outs overlap.
- The ring of 5 bytes is filled, wrapped and outgrown by frames of 1 and 4 bytes, and
  the counters reach several times its size. In `audio` 28 bytes at most are written,
  so its counters, which wrap at 64, do not: in the program they wrap after some
  18.6 hours at 64000 bytes a second, and that case is the run `audio_wrap`.
- With three logins two loops that were left behind can meet the third, a `Stop`
  comes between any two, and two answers can wait while a third request is under way.
- Two pictures of each source let an older one wait behind a newer and the shape change
  within the stream and between the two; two turns and a loss let initialisations overlap.
- Two workers can race for a task, for the mutex and for a notification.

`CHECK_DEADLOCK FALSE` stands where the system may stop: a stopped pump, a deleted
client, the end of a stream, a destroyed pool, the last login, a closed renderer.
`ControlTrans` never stops.

### Fairness

- `MsgPump`: the clock ticks, the pump's thread runs once it was started (its wait has
  a time limit of 5 ms, nobody notifies it), a thread inside a post finishes it. Nobody is obliged to post or
  to start the pump.
- `AVClient`: libevent's loop and timers run, a call of `SendData` ends. The network
  owes nothing: `KeepsTrying` holds though every connection fails.
- `ControlTrans`: time passes, the callback that was begun goes on, and what is posted
  or due is run, which `pump` shows of the pump.
- `ThreadPool`: strong fairness for a worker, as it needs a mutex that others give
  back again and again; weak fairness for the destructor and for `commit`'s
  notification. Tasks end.
- `VideoPath`: the GL thread does its tasks and its timers come due. Nothing obliges the
  stream to bring packages, nor anyone to turn or close the renderer.
- `Launcher`: the pool's worker works and its requests have a time limit, the user
  interface handles its events, `Stop` goes on and its time passes, the loop's thread runs
  and its timers come due. Nobody is obliged to log in, nor the network to answer.

### Findings

1. `RecvData` completes a header without looking how many bytes the chunk has
   (`econtroltrans.cpp:257`): a header in three pieces reads and erases past its end.
   `econtroltrans.h:184` says `_head_size` guards against incomplete headers.
2. `SendTcpData` (`econtroltrans.cpp:594`): a refused call erases the callbacks of the
   request that still waits; the comment at 576 says that while a request exists no
   other is sent.
3. `eAVRender.h:19` asks for ring sizes of 2^n; the sizes used are not, and the ring
   breaks when its counters wrap.
4. The pool's destructor can miss a worker (`threadpool.h:32`), against its comments
   at 33 and 37. `StopEnds` states what does hold.

## 4. What is proved

Eight modules of proofs, one for each module that is checked (`MsgPump_proofs` has also the
refinement of `TaskService`, `Launcher_proofs` also what holds of `WsClient` alone), for all
values of the constants that meet the named assumptions of the module they are about
(`PumpAssumption`, `ThreadPoolAssumption`, `AVClientAssumption`, `DeframerAssumption`,
`ControlTransAssumption`, `AudioRingAssumption`, `VideoAssumption`, `WsAssumption`,
`LauncherAssumption`). With them every safety property of the runs that pass is a theorem;
two theorems name a condition besides.

| Theorem | Property |
|---|---|
| `MsgPump_proofs!TypeCorrect` | `TypeOK` |
| `MsgPump_proofs!TasksAreFIFO` | `ImmediateFIFO` |
| `MsgPump_proofs!TimersConserved` | `TimerConservation` |
| `MsgPump_proofs!TimersNeverEarly` | `NeverEarly` |
| `MsgPump_proofs!TimersOncePerRound` | `OncePerRound` |
| `MsgPump_proofs!PumpImplementsTaskService` | `RefinesTaskService` |
| `MsgPump_proofs!TimersKeepPostersOrder` | `PosterOrder` |
| `AVClient_proofs!TypeCorrect` | `TypeOK` |
| `AVClient_proofs!OneFuture` | `OneLifeline` |
| `AVClient_proofs!NoPlanAfterTheEnd` | `NoTimerOutlives` |
| `AVClient_proofs!InSendOrder` | `SendOrder` |
| `AVClient_proofs!DroppedOnlyWithConnection` | `DroppedWithItsConnection` |
| `AVClient_proofs!WrittenWhole` | `WholeMessages`, if a message and its header fit 16 bits |
| `Deframer_proofs!DecoderKept` | `DecoderInv` |
| `Deframer_proofs!TypeCorrect` | `TypeOK` |
| `Deframer_proofs!PackagesRouted` | `RoutedExactly` |
| `ControlTrans_proofs!RequestsTimeOut` | `RequestTimesOut` |
| `ControlTrans_proofs!EarlyEndsNeedErasure` | `EarlyOnlyAfterErasure` |
| `ControlTrans_proofs!CountsKept` | `CountInv` |
| `ControlTrans_proofs!TypeCorrect` | `TypeOK` |
| `ControlTrans_proofs!HeartbeatsAddUp` | `HeartbeatPerConnection` |
| `ControlTrans_proofs!StreamsAddUp` | `StreamPerConnection` |
| `AudioRing_proofs!FramesKept` | `FrameInv` |
| `AudioRing_proofs!RingKeepsAll` | `NothingLost`, until an unsigned int's worth of bytes was written |
| `AudioRing_proofs!AllButOneFrame` | `OneFrameLost` |
| `ThreadPool_proofs!TasksTakenInOrder` | `TakenInOrder` |
| `ThreadPool_proofs!IdleIsCounted` | `IdleCounted` |
| `ThreadPool_proofs!TypeCorrect` | `TypeOK` |
| `ThreadPool_proofs!NoTaskSleptOn` | `NobodySleepsOnWork` |
| `Launcher_proofs!TypeCorrect` | `TypeOK` of `WsClient` |
| `Launcher_proofs!EndpointIsOwned` | `LoopOwnsEndpoint`, for any caller of `WsClient` |
| `Launcher_proofs!StopLeavesNoLoop` | `StoppedIsStopped`, for any caller of `WsClient` |
| `Launcher_proofs!LauncherImplementsWsClient` | the launcher's steps are steps of `WsClient!Spec` |
| `Launcher_proofs!LauncherTypeCorrect` | `LTypeOK` |
| `Launcher_proofs!LauncherOwnsEndpoint` | `LoopOwnsEndpoint` |
| `Launcher_proofs!LauncherStops` | `StoppedIsStopped` |
| `Launcher_proofs!FirstPageIsQuiet` | `NoSocketOnFirstPage` |
| `Launcher_proofs!LatestWins` | `LatestLoginWins` |
| `VideoPath_proofs!TypeCorrect` | `TypeOK` |
| `VideoPath_proofs!DrawsAreChained` | `OneChain` |
| `VideoPath_proofs!PicturesFit` | `DrawsWhatFits` |
| `VideoPath_proofs!ScreenNeverGoesBack` | `NeverBack` |

The pump's and the pool's `TypeOK`, `OncePerRound` and `IdleCounted` are proved and are
not among the runs' properties, nor are the inductive invariants named in the table.

The argument for the pump. `TypeOK` is inductive with a little help (the kind of the
task in hand fits the place of the pump). For the tasks, the sequence numbers in
`_task_queue` are exactly an interval from the number drained to the number pushed: a
push extends it at its end, and the top of the queue, all ticks being 0, is its first,
so a removal shortens it at its start. For the timers the induction needs more than
the property says: every task belongs to an accepted post and agrees with it
(`OwnPosts`); at most one copy of a timer is in the queue or in hand (`OneCopy`); and
the count left in a copy is the count asked for less the runs served (`Counted`,
`Spent`). With these every action either leaves a timer's copies alone or moves the one
copy between the queue and the hand. That a timer is never early does not follow from the check, as the
task taken may be another than the one checked: what holds is that the top can only be
replaced by one whose tick is smaller still, so whatever `getTask` finds is due; the
invariant says that at the place `take` some timer of the queue is due, hence the top,
whose tick is the smallest, is. And no timer runs
twice in a round because one that ran comes back with a tick not smaller than the
round's clock, is therefore not due in it, and everything that ran in the round is
kept apart from what is still due.

The argument for the order of one thread's timers (`PosterOrder`). A timer that
was not served yet, in the queue or in hand, is `Ahead` of everything its thread posted
later with at least its delay: of the ticket whose due tick is computed and not yet
pushed, of the copies in the queue (no later tick, a smaller sequence number), and of what
was served (nothing). A thread has one ticket at a time and the clock does not go back, so
the ticks are in order when they are computed; the push under the lock orders the
sequence numbers; and the heap's top, being `Before` all others, cannot be the later of
two. A timer that repeats comes back under its old number but has been served by then.

The argument for `TaskService`. Its FIFO is the list of the tasks in `_task_queue` by
sequence number, its timers are those in the queue and in the pump's hand. `Numbered`,
the part of `ImmediateFIFO` that says the numbers are an interval, makes a push an
`Append` (`FifoPush`) and a removal a `Tail` (`FifoPop`). Taking a timer from the queue is
a stutter, and its end is `Fire` with the round's clock, which `RoundInv` puts between the
due tick and the present; `OneCopy` tells the timer that fires from all others.

The argument for the client. `LifeInv` keeps what libevent's queue may hold: an event of a
connection is in it at most once, and only of the present connection, because freeing a
bufferevent takes its two events back; and the plans to connect, as timers or in the
queue, are counted by `PlanCount`: one as long as there is no connection and the client
lives, else none. Each handler removes the front of the queue, and what it frees, adds at
most one plan and so moves between the two cases; that a deleted client has no plan
follows. For the messages `SendInv` says that those of a sender wait in the order in which
they were accepted, that connections are used one after the other, that what waits was
accepted later than anything the same sender has on any wire, and that every message
waits, is written, is too long, or was accepted on a connection that is closed. A length
between 32764 and 65531 bytes is negative as a `short`, so `do_send_cb` writes nothing of
the message: whole or nothing, as long as the length and the 4 bytes of the header stay
below 65536, the condition that `WrittenWhole` names; `SendData` accepts any unsigned
length.

The argument for the deframer. As long as no connection was lost inside a package the
decoder stands where the stream does (`InStep`): at the start of a package, within its
header, with as many bytes of it as were received and are dealt with, or within its
payload, `_remain` bytes before its end. What is left of the chunk is what the stream has
from there on, so four bytes taken for a header are one, and `ValueOfHeader` makes them the
length of that very package: two packages never start at the same place. Each pass of the
loop moves from one of the three places to the next. `Start` is a recursive function, whose
values are defined at all only by an induction over the packages (see below).

The argument for the counts of `ControlTrans`. The timers of a kind are the set of
pairs of a wait and a number up to the count for that wait, so their sum is a cardinality
(`Timers`): planning one adds one pair, running one takes one away, and a tick is a
bijection that moves each wait down by one. With that each step either moves a connection
on to its heartbeat, its `SendClearApps` or its stream, or leaves both sides of the two
equations alone. The third count, `TimeOutsCovered`, is needed for `TypeOK`: a time-out is planned
only together with the start of a stream, so there are never more than connections.
For the requests, one is only noted in the step that plans its time-out, ticks drop
none, and the one action that takes a time-out away empties both maps. For the early ends
`RemovalInv` says that, as long as no refused call erased a request that waited, the
removals to come are exactly the kept request's own, at the end of its time
(`OwnRemovalOnly`): a request is only sent when none is kept, hence when none is to come.

The argument for the ring. `Holds(r, s)`: the cells from `front` on, around the end of the
buffer, hold the sequence s, and the counters have not wrapped. A counter modulo the size
moves by as many cells as the counter itself (`ModStep`, from the quotient and the rest);
`FilledNew` and `FilledOld` say which cells the two `memcpy`s change. So a put appends, a get
takes from the front, and a larger ring holds what the old one held. The counters are
never above the number of bytes written, hence the condition of `RingKeepsAll`; `audio_wrap`
shows the ring break where it ends. For the frames `FrameInv` says that the cache
is the stream so far as long as frames are gathered and is empty then, and that the bytes
written are, in order, those of all frames but the one.

The argument for the pool. `LockInv` says that the mutex is held exactly by the worker
between `Lock` and `Sleep` or `Take`, and that what it saw of the queue stays true
while it holds it. From this a worker never takes from an empty queue, which is what
the order of the tasks needs. The idle count is a cardinality, carried through each
step by the theorems on finite sets. `NobodySleepsOnWork` is inductive with `LockInv`: a commit
adds a task and owes a notification, the notification makes a sleeper ready, a worker
goes to sleep only when nothing waits, and one that takes a task removes one of each.

The argument for the WebSocket. `Connections` ties the reconnect timer to a lost
connection, so `close` throws whenever that timer fires and only a login calls `Run`.
`Loops` says that a loop which has still to clear `_bRun` is the one of the endpoint in
use and that `_bRun` is then set, so a `Stop` that finds it clear has nothing to stop;
and that `_bStopDone` is set only while `Stop` waits or when no such loop is left, so a
second `Stop` has nothing to do either. It holds as long as no wait was cut short.

The argument for the launcher. Each of its steps is a step of `WsClient` or leaves
that module's variables alone, so the theorems there hold here. The first page is shown
only when `Stop` has returned for it, and only a login, which shows the second, starts
a loop. The requests are numbered: those whose answers were taken are the ones up to
`Through`, and those in `answers`, with the worker and in the pool's queue follow without
a gap (`Order`). The one that is served is `Through` itself, and the user interface
takes no other answer before `Stop` has returned (`Served`), so each login that is granted
is later than all before it.

The argument for the video path. `Fitting`: textures that are neither none nor stale
have the shape noted last in `pic`, which is that of the picture in the buffer, and stale
ones come only after an initialisation failed, as a turn and a loss clear the names. The
chain: `_b_timer_start` is set with the first draw posted, and each draw, alone in the
queue or as a timer, is replaced by the next one until it finds the renderer closed;
`DrawsIn` counts the draws of the queue by their places. That the screen never goes back
is `Orderly`: what is drawn is not ahead of what is in the buffer, nor that of any picture
in the queue, whose pictures are in the order of their numbers, the stream's after the
film's, because the one task that plays the film is over before a package is decoded.

Induction over numbers is done by the least counterexample (`LeastOfNaturals`, from the
library's theorem on well-founded relations), as the prover cannot use the induction rules,
which take a predicate as parameter.

Model-checked only: liveness (`EveryPostServed`, `KeepsTrying`, `RequestSettles`,
`EveryTaskTaken`, `StopEnds`, `StopReturns`, `LossEndsTheLoop`, `RequestsHandled`,
`NewestIsShown`), which is beyond the prover, as is anything about `ENABLED`, so also that the
control transport never stops; and the counterexamples of the four runs
that expect one, which are about single instances.

## 5. What is not modelled

Most of the repository's lines are not its own logic, which is why the models cover few
of them: `json.hpp` (22 000 lines), `pevents`, `string_util`, the digests and everything
under `third_party` are vendored or taken over; `eInstructions` and `ePrivateProto` are
records with their JSON form, data without control; the windows, buttons and the dock
paint and turn input events into messages. Of the code with control:

- The requests of `eWebRequest` other than the login, and its downloads: no callers in
  this repository. Those with the login's way through the pool would add nothing to it.
- `gotAVData` and `msgCB`: they drive a closed library that is loaded at run time and
  whose contract is not in the repository.
- The start-up of the player (`eAVClient::Init`, `eControlTrans::Init`, the end of the
  libevent thread), and a post to a thread that is not registered yet, whose result no
  caller reads.
- The port scan of `erpcmanager`: one loop over what the operating system answers.
- `StartWithLoop` and `helpPump`: no callers. The creation of `ThreadManager` without a
  lock: a data race whose outcomes the build does not bound.
- `close_self`, `Disconnect`'s only caller, is itself called by nobody; `AVClient` models
  what it would do, `ControlTrans` leaves it out.

## 6. The plan

1. Start-up: `eAVClient::Init`, the poll for libevent's base, the order in which threads
   are registered, and posts that come before.
2. Proofs: that the connections `AVClient` gives its user are those `ControlTrans` assumes,
   and that `ControlTrans` uses its pump as `TaskService` lets posters use it, each as a
   refinement; a type invariant for the ring beyond the wrap of its counters.
3. `ThreadPool` with one worker as the pool of `Launcher`, by a refinement in place of the
   abstraction used now.
