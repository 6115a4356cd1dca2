# Verification of tubekit

tubekit is a multi-threaded TCP server framework: a main thread runs an epoll
loop, a pool of workers runs one *task* per wake-up of a connection, and an
application (HTTP, a protobuf stream, or WebSocket) is called from the task.
This directory holds TLA+ models of its core, the TLC runs that check them, and
TLAPS proofs of what matters most. Everything is translated from the C++ source;
`PROJECT.json` maps each definition to its lines.

## 1. Inventory

| Part | State | Operations | Hard because |
|---|---|---|---|
| Worker pool, task queues (`src/thread`) | a deque and a gid set per worker, `stop_flag`, `m_stoped` | `assign`, `push`, `pop`, `run`, `stop` | any thread pushes; flags are read without locks; a gid already queued is refused |
| Task pool (`object_pool<task>`, `task_mgr`) | set of free objects, condition variable | `allocate` (blocks), `release` | those who wait are those who give back |
| Event loop (`socket_handler`) | removal lists, the epoll batch, `gid_seq` | `handle`, `attach`, `detach`, `update_wait_remove`, `do_task` | sockets are recycled while events name them |
| `event_poller` | kernel ONESHOT set, `m_map_fd_envets` | `add`, `mod`, `del`, `wait` | a copy of kernel state keyed by a reused fd |
| `connection_mgr` | sharded map gid -> (socket, connection) | `insert`, `if_exist`, `remove`, `mark_close`, hooks | callbacks run with the shard's mutex held |
| connections | `close_flag`, buffers, `m_connected` | `mark_close`, `on_mark_close`, `reuse`, `sock2buf`, `buf2sock`, `send` | closed by two threads without a lock; buffers shared by three |
| tasks (`src/task`) | none beyond the gid | `run` | a sequence of unlocked steps with many early returns |
| HTTP connection and application (`http_task`, `http_app`, `url`) | `recv_end`, `process_end`, `response_end`, `everything_end`, `m_send_buffer`, the response object | parser callbacks, `process_callback`, `write_end_callback`, `destory_callback`, `encode`, `decode` | a response is produced in pieces over many runs; three conditions over four flags say what comes next |
| WebSocket framing (`websocket_app`) | the read pointer of `m_recv_buffer`; `global_player` | `process_connection`, `process_frame`, `send_packet` | frames arrive cut anywhere, lengths are the client's, sums of unsigned numbers wrap |
| `buffer` (`external/tubekit-buffer`) | array, read and write pointer, limit | `read`, `write`, `copy_all`, `blank_space`, ... | unsigned subtractions, moving, growing, limits |
| start-up, hooks, Lua, logger, parsers, timer, ipc, redis, sql, ... | | | sequential, third-party, or not called by the server |

How they interact: `handle` takes an event, detaches the socket and calls
`do_task`; `do_task` takes a task object, chooses the worker `gid % size` and
queues it; the worker looks the gid up in `connection_mgr`, works on the socket
and the connection **without any lock**, and finally `attach`es the socket
again. `send()` and `mark_close()` call `do_task` from any thread. A closed
connection is removed by its own task, which gives the connection back and lists
the socket; the main loop closes and recycles listed sockets on its next turn.

What makes it correct: one task of a connection at a time; no wake-up, close or
output forgotten; each object in one place; no event applied to the wrong
connection; no wedge of the blocking pool; bytes neither lost, repeated nor
reordered, in the order and at the length the protocols give them; a request
answered, or closed without a byte when it is malformed, its path has two dots or its
path cannot be looked up, and its connection returned either way. `PROJECT.json` lists
the hazards at their lines.

## 2. Modules

| Module | Models |
|---|---|
| `TaskDispatch` | `do_task` down to `worker::run`: pool, queues, stop protocol. One step per critical section or unlocked flag access. |
| `WakeUps` | what `do_task` promises its callers: one step that queues the connection at its worker unless it is queued there |
| `TaskDispatch_proofs` | the proofs of `TaskDispatch`, also that it implements `WakeUps` |
| `Reactor` | `handle`, epoll, `connection_mgr`, the three tasks, the life of sockets and connections. `do_task` is one step here, that of `WakeUps`. |
| `Reactor_proofs`, `ReactorWake_proofs` | its proofs: who owns which object; nothing is forgotten, and HTTP buffers have one user. The second extends the first. |
| `BufferOps`, `BufferOps_proofs` | `buffer` as pure operators, one per member function; lemmas on what each does to the contents |
| `Buffer`, `ByteQueue`, `Buffer_proofs` | a buffer in use; the bounded FIFO it promises; the proofs |
| `StreamIO` | the bytes of a stream or WebSocket connection through its three buffers and two inner buffers; uses `BufferOps` |
| `StreamIO_proofs` | its proofs, on the lemmas of `BufferOps_proofs` |
| `HttpTask`, `Url` | one HTTP connection from accept to its return to the pool; percent encoding and decoding; uses `BufferOps` |
| `HttpTask_proofs` | the proofs of `HttpTask`, on the same lemmas |
| `WebsocketFrame` | a client's frames through `process_connection`, `process_frame` and `send_packet` |
| `WebsocketFrame_proofs` | its proofs |
| `MC*` | instances for TLC |

**TaskDispatch.** `m_set`, `m_task`, `m_in_task`, `stop_flag`, `m_stoped` are the
members of the same names. `wpc`/`cur` is where `worker::run` is and
`will_run_task`; `cpc`/`ctask` is where each thread is inside `do_task`. `Allocate`
is `task_mgr::create` (the condition variable's loop is the guard that the pool is
not empty), `TestStopFlag` the unlocked test in `worker::push`, `PushTask` the
body of `task_queue::push`, `ReleaseUnqueued` the destruction of a refused task,
`Pop`/`CheckStop`/`RunReturns`/`Destory` the loop of `worker::run`, `StopNext`/
`StopPush`/`StopFlag`/`StopWait` `worker_pool::stop`. `m_stoped` starts true, as in
the constructor, so that stopping before a thread has started is covered.

**WakeUps.** The abstract specification of the above: a queue of gids per worker, the
gid each thread is calling `do_task` for, what each worker has taken, and how far its
end is. `Seen` in `TaskDispatch` is the refinement mapping. The pool, the waits, the sets
`m_in_task` and the objects do not appear: a call takes effect at the `task_queue::push`
it reaches, or is dropped, and that only after `stop_flag` of its worker was set. 0
stands for the sentinel.

**Reactor.** `Wait`, `Update`, `NextEvent`, `Act`, `ActHup`, `Accept`... are the
parts of one turn of `handle`, cut where a worker can interleave; `Pop`,
`Lookup`, `Check`, `RemoveClosed`, `SslAccepted`, `Rearm`, `Upgrade`, `Recv`,
`Send`, `Processed`, `Buf2sock`, `Attach` are the parts of the three `run`
functions, which share their skeleton; `TaskType` selects the differences.
`mark_close` is three steps (test, set, clear and submit) in the main thread and
in a worker. `shard_lock` records who holds a shard of the map over several
steps. Bytes are abstracted to "there is output left"; what the kernel returns is
chosen freely.

**StreamIO.** The bytes of each stream are numbered, so that loss, repetition and
reordering show. One step per critical section of a buffer or system call.
`mark_close` is one step because nothing is claimed of the buffers of a closed
connection. `PartialWrites` says whether `::send` may take a part of the bytes.
`Process(n)` is the loop of `process_connection`, each turn of which gives all remaining
bytes to `ParseFromArray` and advances by `ByteSizeLong`; `n`, the sum of these sizes, is
protobuf's and may be anything up to what was readable. `consumed` are the bytes passed
in this way, which need not be those of whole packages.

**HttpTask.** The four end flags, `close_flag`, `url`, `m_send_buffer`,
`buffer_start_use`, `ptr` and `write_end_callback` are the members of the same
names; `inner` is the used part of `buffer`. `Run`, `Release`, `Recv`, `RecvEnds`,
`Process`, `Send`, `SendEnds`, `Notify`, `Refill`, `Finish` are the parts of
`http_task::run`; `process_callback` and `AddPiece` are the two callbacks of
`http_app`; `Event` and `EventHup` the main thread; `Ask`, `PeerReads`, `HangUp`,
`Break` the peer and its TLS session. `Reactor` shows (`BuffersExclusive` in
`reactor_http`) that main thread and task take turns in HTTP mode, which is why
the parts of a run need not be cut at every lock. A request is the bytes of its
URL and two marks, for the end of the URL and of the message; the bytes of a
response are numbered. A path is a file, a directory, missing, or `"NOSTAT"`: its
status cannot be read, `fs::exists` throws out of `process_callback`, and the `catch` of
`run` (`http_task.cpp:288`) ends the connection with nothing written. `Errors` is what `socket::recv` and `socket::send` report:
with TLS every negative result is `EAGAIN` (`socket.cpp:211`), also a fatal one.
`allocated` is a history variable, the response objects not yet deleted.

**WebsocketFrame.** The byte is a parameter: `Base` is 256 in the code, `NOp` 16, and
`ByteXor` its exclusive or. The client decides what to send next as it goes (`Sends`), and
may leave a frame unfinished, as its last.
`Task(n, kept)` is `sock2buf` and the start of `process_connection`: it stores the chunk
that the last task kept (`sock2buf_data_len`), then `n` more bytes, also none, and if one
more chunk does not fit into `m_recv_buffer` it keeps that one. `Overflow` is a task that
finds the kept chunk still too long and closes. The limit `RecvMax` is `Inner + 2`, as in
`reuse`. A client that hangs up is left to `Reactor`: here it stays. Each of `LoopEnds`,
`Refuse`, `Leave`, `TooLong`, `Frame` is one way an iteration of the loop can go. Every task parses from the read pointer,
so bytes left by one are parsed again by the next. Lengths are numbers modulo
`Word`, so that `index - 1 + payload_length` wraps as it does in the code. `reached`
is a history variable, how far an iteration has looked; `ends` and `packed`, where each
frame ends in what was sent and in what was packed, are two more. One player stands for
all that a broadcast sends to.

## 3. Runs

| Run | Checks | Shows |
|---|---|---|
| `dispatch` | `TypeOK`, `OneOwner`, `InTaskExact`, `GidSerial`, `PoolProgress`, `IsWakeUps` (refinement), `QueuedRuns`, `CallsReturn`, `StopCompletes` | two workers, two gids, five task objects, a stop at any moment |
| `stop_drains` | `StopDrains` (violated) | finding 1 |
| `reactor_stream` | `TypeOK`, `NoOrphan`, `ClosedHasTask`, `NoLostOutput` | two stream connections, one worker |
| `reactor_tls` | `CloseOnce`, `TaskHoldsLive`, `EventIsFresh`, `PollerMapExact`, `NoOrphan`, `ClosedHasTask`, `NoLostOutput`, `PlayersExact` | WebSocket over TLS, one socket object recycled, two workers |
| `reactor_http` | `CloseOnce`, `ConnectionAvailable`, `BuffersExclusive`, `HangupFrees`, `CloseFrees` | two HTTP connections, two workers, repeated gids |
| `stream_race` | `BuffersExclusive` (violated) | finding 2 |
| `buffer_queue` | `InBounds`, `IsByteQueue` | every sequence of calls, up to 3 bytes each |
| `stream_bytes` | `OutputExact`, `RefillHasRoom`, `InputExact`, `CarryHasTask` | up to 6 bytes each way, packages up to 4 sent, any number of bytes parsed, inner buffers of 2 |
| `partial_send` | `OutputInOrder` (violated) | finding 3 |
| `http_response` | `ResponseExact`, `ResponseFreed`, `RequestWhole`, `RequestEnds` | six files and directories, a missing path, one whose status cannot be read, a refused one, a malformed request, in the clear and over TLS |
| `http_segments` | `RequestWhole` (violated) | finding 4 |
| `ws_frames` | `HandledExact`, `NoOverread`, `BroadcastDecodes`, `ClosedExactly` | up to three frames out of fifteen, cut anywhere, a receive buffer that overflows |

### Bounds

* `TaskDispatch`: `MaxSends` caps the calls of `do_task` in one run of a task.
  Five objects exceed two gids plus two workers, the condition of `PoolProgress`
  (the server has `3 * max_conn` objects and one gid per connection), and are few
  enough for the pool to run empty. Both gids are odd, so that two connections
  share the second worker while the first only starts and stops; with work for
  both, the liveness properties exceed what TLC does in minutes. `GidSerial`,
  `OneOwner`, `InTaskExact`, `PoolProgress` and `IsWakeUps` are proved for all sizes. `CallsReturn`
  is about the threads that can call: the main thread and the workers with connections.
* `Reactor`: `Seconds` and `MaxSeq` bound the gids, `NFd` the descriptors, `Shift`
  stands for 2^32 and only has to exceed `MaxSeq`. An accept with no free descriptor
  fails and ends the loop, as `accept()` with `EMFILE` does. The clock may take any value of
  `Seconds` at each turn, so it also steps back, gids repeat and `insert` fails.
  Two connections are needed for sends between connections and for a batch of two
  events; one socket object is enough, and best, for recycling. Two connections
  *and* two workers in stream mode exceed seven million states and are not run:
  stream runs have either two connections or two workers; HTTP has both. Symmetry over the pool
  objects is used in safety runs only.
* `Buffer`: `MinSize` is 2 instead of 1024; three-byte calls with limits 1, 3, 4
  reach the move, the growth, the refusal and a limit below the smallest. Proved
  for all values.
* `StreamIO`: the inner buffer is 2 bytes and the limit 4, so that 6 bytes fill,
  wrap and overflow every buffer.
* `HttpTask`: a piece is 3 bytes (102400 in the code), the buffer of one `send` 2,
  the kernel's room 2, and `m_send_buffer` holds the head and one piece exactly.
  The files are empty, of two whole pieces, and of two pieces and a rest. A
  listing of one piece is exact; of a longer one `ResponseExact` claims only the
  length, because the code takes every piece from the start of the text
  (`http_app.cpp:277`). Names with a byte below 16 are excluded: `encode` pads it
  with a space (`url.cpp:51`), and a URL cannot hold one. One request per
  connection. `SplitUrl` is whether the URL may arrive in parts (finding 4).
* `WebsocketFrame`: with three bits to a byte the forms of the length change at
  1|2 and 63|64, and frames lie on both sides; the long form has the 8 digits of the
  code, so `Word` is 2^24. `MaxFrames` is 3: two frames are enough for bytes left between
  tasks and for what a refused or empty frame does to the next one, and a third lets one
  task parse two and leave one. `Inner` is 78, so `RecvMax` is 80, above the longest frame and
  below two of them; `MaxBytes`, 86, leaves room for a long frame and enough of the next to
  fill the buffer, to have a chunk kept, stored by the next task, or refused a second time.
  Proved for all values.

### Fairness

`TaskDispatch!FairSpec` gives weak fairness to each thread's `do_task`, to each
worker and to a stop that has begun: the operating system runs runnable threads,
the condition variables wake waiters, and `task::run` returns. It assumes neither
that events arrive nor that a stop is requested. `Reactor!FairSpec` gives weak
fairness to the main thread and to each worker; `Send`, which an application may
do or not, gets none. Peers owe nothing. `HttpTask!FairSpec` gives weak fairness
to the main thread, to the task, and to the peer reading what was sent to it (a
peer that stays and never reads keeps its connection); nobody has to send a
request, to hang up or to connect. `RequestEnds` excepts one case, a TLS session
that fails under a peer that stays: its errors pass for `EAGAIN`. Deadlock is checked in every run.

## 4. Findings

1. **`worker::stop` does not drain.** The comment says "wait task_queue empty"
   (`worker.cpp:128`), but `worker::run` leaves as soon as it pops the sentinel or
   sees `stop_flag`; tasks queued behind, and the one just popped, are neither run
   nor given back.
2. **ONESHOT does not prevent the race the comment names.** `event_poller.h:48`
   says that with ONESHOT there is no race on a socket. In stream and WebSocket
   mode tasks also come from `send()` while the socket is armed, so a hang-up
   makes the main thread clear, that is free, `m_recv_buffer` while the task parses
   it in place. HTTP connections, whose tasks come from events only, are free of
   this (`reactor_http`).
3. **A partial `::send` corrupts the output.** `buf2sock` reduces
   `should_send_size` and leaves `should_send_idx` (`stream_connection.cpp:199`,
   `websocket_connection.cpp:266`): the beginning is sent again and the end is
   lost. When the kernel takes all or nothing the output is exact
   (`stream_bytes`).
4. **A URL in two segments loses its beginning.** `on_url` assigns the part it is
   given (`http_task.cpp:46`), while the parser's manual says that data callbacks
   may be called more than once (`external/http-parser/README.md:206`). The server
   answers for the last part. `websocket_task` collects header values in the same
   way. When the URL arrives whole the path is the one asked for
   (`http_response`).

Seen while modelling, with no document that says otherwise, and kept in the
models as they are: the pieces of a long listing (`http_app.cpp:277`); a WebSocket
frame without payload stops the parsing of its connection for good
(`websocket_app.cpp:211`); fatal TLS errors reported as `EAGAIN`
(`socket.cpp:211`); the padding of `encode` (`url.cpp:51`). `ParseFromArray` is given all
remaining bytes (`stream_app.cpp:105`), and protobuf messages do not end by themselves:
packages that arrive together become one message, with the last body, and as only its size
is passed (`stream_app.cpp:119`) the last may be parsed again; a package cut between two
fields parses as it is. A chunk that twice finds no room beside the leftover of an
unfinished frame closes the connection (`websocket_connection.cpp:95`), also when that
frame is one the server could take: as a chunk may be as long as the buffer less two bytes,
three bytes of leftover are enough. A lookup that throws (`http_app.cpp:147`) closes the
connection without an answer.

## 5. Proofs

All are checked by TLAPS for every value of the constants. What is assumed of the
constants is in the named assumptions of the modules, which TLC evaluates in every
run: sizes are natural numbers, `NW` and `MinSize` are positive, gids are positive
and finitely many, the pools are finite, `Shift` exceeds `MaxSeq`, null values are
not objects, a file that cannot be opened has no bytes to send. Four theorems have
further hypotheses; they are named with the theorem, with the reason.

| Theorem | States | In |
|---|---|---|
| `TypeCorrect` | `TypeOK` | `TaskDispatch_proofs` |
| `TaskObjectsHaveOneOwner` | `OneOwner` | |
| `InTaskIsExact` | `InTaskExact` | |
| `ConnectionsAreSerial` | `GidSerial` | |
| `PoolNeverWedges` | `PoolProgress` | |
| `DispatchIsWakeUps` | `IsWakeUps` | |
| `TypeCorrect` | `TypeOK` | `Reactor_proofs` |
| `HoldsStayLive` | `TaskHoldsLive` | |
| `EventsStayFresh` | `EventIsFresh` | |
| `PollerMapStaysExact` | `PollerMapExact` | |
| `ClosesOnce` | `CloseOnce` | |
| `ConnectionStaysAvailable` | `ConnectionAvailable` | |
| `ClosedIsNotForgotten` | `ClosedHasTask` | `ReactorWake_proofs` |
| `NothingIsOrphaned` | `NoOrphan` | |
| `OutputIsNotLost` | `NoLostOutput` | |
| `PlayersStayExact` | `PlayersExact` | |
| `HttpBuffersAreExclusive` | `BuffersExclusive` if `TaskType = "HTTP_TASK"` | |
| `BufferInBounds` | `InBounds` | `Buffer_proofs` |
| `BufferImplementsQueue` | `IsByteQueue` | |
| `InputIsExact` | `InputExact` | `StreamIO_proofs` |
| `RefillAlwaysHasRoom` | `RefillHasRoom` | |
| `CarryAlwaysHasTask` | `CarryHasTask` | |
| `OutputIsExact` | `OutputExact` if `~ PartialWrites` | |
| `ResponseIsFreed` | `ResponseFreed` | `HttpTask_proofs` |
| `RequestIsWhole` | `RequestWhole` if `~ SplitUrl`, `LinksDecode` | |
| `ResponseIsExact` | `ResponseExact` if `~ SplitUrl`, `LinksDecode`, `HeadLen + Piece <= LimitMax` | |
| `FramesAreHandledExactly` | `HandledExact` | `WebsocketFrame_proofs` |
| `NothingIsOverread` | `NoOverread` | |
| `BroadcastIsDecodable` | `BroadcastDecodes` | |
| `ClosesExactly` | `ClosedExactly` | |

**TaskDispatch_proofs.** The properties are not inductive by themselves: that a
pushed task goes to the right worker needs that the object a call holds carries
the call's gid; that releasing does not duplicate an object needs that nothing
else holds it. The inductive invariant `Inv` conjoins

* `TypeOK`;
* `CallInv`, `RunInv`: what each program counter says of the object in hand;
* `Affinity`: a task queued at or held by worker `w` has `gid % NW = w`;
* `FreeExcl`, `CallExcl`, `CurExcl`, `QueueExcl`, `NoLoss`: the places are
  exclusive and exhaustive, stated pairwise rather than with sets of places;
* `InTaskInv`: `InTaskExact`, position by position.

One lemma per action that moves an object (`AllocateStep`, `PushStep`, ...) and
one for all that move none (`QuietStep`) give `InvInductive`. `PoolNeverWedges`
counts: were the pool empty and no call had an object, every object would be held
by a worker, at most one each, or queued, where by `Affinity` and `InTaskInv` no gid
appears twice. The held ones inject into the workers and the waiting ones into the
gids, and there are more objects than both together.

`DispatchIsWakeUps` shows every step to be a step of `WakeUps` or unseen. It needs `Inv`
and one fact more, `StopInv`: a worker that `worker_pool::stop` has not reached has its
flag down, so each worker is asked once. What carries it: `task_queue::push` refuses a gid
exactly when the gid is seen in the queue (`InTaskInv`, in `PushSeen`); an object that is
allocated or released is in no queue, call or worker's hands, so that the change of its gid
is not seen (`FreeExcl`, `CallExcl`, `CurExcl`, in `AllocateUnseen`, `ReleaseUnseen`,
`DestoryUnseen`); and what a worker has taken is never the sentinel while it calls
(`RunInv`, `Affinity`). `Reactor`, which has no stop, takes `do_task` for this one step; it
does so by its definition `do_task`, not by an `INSTANCE`.

**Reactor_proofs.** `TaskHoldsLive` and `EventIsFresh` depend on each other's
reasons: a task's socket stays its own because nobody else removes the mapping,
which holds because the queue and the removal lists name an object once. `Inv` is

* `SocketInv`, `PairInv`, `ListInv`: a free socket has neither descriptor nor gid,
  descriptors and mapped connections are not shared, a socket is listed for removal
  once, after its mapping is gone;
* `SocketKept`, `ConnKept`: no object is nowhere;
* `QueueInv`, `TaskInv`, `MainInv`: what a queue position and a program counter say
  of the gid; between the steps of `mark_close` the main thread holds the shard;
* `EventInv`: an event of the batch is that of the socket it names, or the socket was
  removed in this turn, which is what `removed_socket` is for;
* `TaskHoldsLive`, `PollerMapExact`, `TypeOK`.

Each conjunct has a lemma (`SocketStep`, `PairStep`, ...) that goes through the
actions; `ConnectionStaysAvailable` adds an injection of the connections in use into
the sockets in use.

**ReactorWake_proofs.** `WakeInv` adds `DisarmedInv` (a descriptor that epoll knows
and that is not armed has its event still to come: the early return of `attach` is
right), `TaskStage`, `MainStage`, `ConnStage` (what a step of a task says of TLS,
handshake and output), and `ClosedHasTask`. The four theorems share the lemmas on
what becomes of the objects of a gid while it stays mapped (`PairKept`).
`HttpInv`, for the fifth, adds that a mapped HTTP connection has one token: it
is queued once, or in the main thread's hands, or running, or watched by epoll, and
never two of these (`QueuedOnce`, `BatchInv`, `TokenInv`, `WatchedInv`). It fails in the
other modes, where `send()` makes a second token: finding 2.

**BufferOps_proofs, Buffer_proofs.** The invariant is `IsBuffer` (array of `size`
cells, `rd <= wr <= size <= limit`, `MinSize <= limit`, readable cells hold bytes).
`NewBuffer`, `CheckInit`, `PutAppends`, `MoveKeeps`, `GrowKeeps`, `WriteAppends`,
`SkipDrops` say what each member function does to the contents; `WriteStep`,
`ReadStep`, `MoveStep`, `LookStep`, `LimitStep` turn them into steps of `ByteQueue`,
under the mapping `data <- Contents(buf)`.

**StreamIO_proofs.** `Inv` is the types with `IsBuffer` for the three buffers, `RoomInv`
(`m_send_buffer` never needs more than the inner buffer, and is empty when it is
refilled), `OffsetInv` (the bytes passed and not yet dropped), `CarryInv` and
`InputExact`. `OutInv` adds `WholeInv` (nothing of the inner buffer has been sent when
some is left, which is what a whole `::send` gives) and `OutputExact`. The hypothesis
`PartialWrites = FALSE` cannot be dropped: finding 3.

**HttpTask_proofs.** `TurnInv` says where each flag can be up and that queued, armed
and running exclude each other; with `PtrInv` it gives `ResponseIsFreed`. `ExactInv`
is about bytes: `Produced`, what is on the wire, in the inner buffer and in
`m_send_buffer`, is always the beginning of the response, and `Left`, what the
callback has not produced yet, is exactly what is missing (`ProducedInv`); sending
moves bytes within `Produced`, and a callback only appends. The hypotheses:

* `SplitUrl = FALSE`: otherwise false, finding 4;
* `LinksDecode`: `decode` undoes `encode` on the names of the requests. This is an
  induction over the name, which the prover cannot do; `MCHttpTask` lets TLC evaluate
  it on the requests of the runs and on every name of one or two bytes from 16 up;
* `HeadLen + Piece <= LimitMax`: the piece is 102400 bytes (`http_app.cpp:189`), the
  limit 1048576 (`http_connection.cpp:123`). The callbacks do not notice a write that
  throws, so a smaller limit would lose a piece.

**WebsocketFrame_proofs.** The assumptions: `Base` is even and positive, an opcode is the
low bits of a byte (`ByteAssumption`); `ByteXor` gives a byte and undoes itself
(`XorAssumption`); `RecvMax`, that is `Inner + 2`, is at most half of `Word`, as the limit
of a buffer is (`RecvAssumption`); a frame's length is one that its form can say (`FramesAssumption`).
The properties say what the bytes of all frames together make the parser do, which no
single step shows. `Inv` is

* `StreamInv`, `OutInv`: `stream` and `out` are the runs of bytes of their frames, end to
  end (`Joined`), and only the last frame of a client may be unfinished;
* `ParseInv`: the read pointer is where the frame after the last handled one begins, and
  `base + index` with it while the loop runs;
* `NotMissed`: no whole acceptable frame is left when a task ends;
* `CloseInv`, `OpenInv`: the two halves of `ClosedExactly`, a close being for the frame
  whose turn it is (`Refused`) or for an overflow (`Overfull`); that no whole frame is
  waiting at an overflow is `NotMissed`; `NoOverread`; `TypeInv`.

Lemmas in the order of the argument: digits of a number and the number of its digits are
inverse, for two and for eight (`DigitsAre`, `ShortNumber`, `LongNumber`); what a frame's
bytes are, part by part (`BytesAre`, `PackIs`); the bytes of one frame within the run
(`SliceIs`, `AtIs`); hence what the parser reads is what the client wrote, as far as it
has arrived (`OpcodeIs`, `HeaderIs`, `LengthIs`); the sum of index and length wraps only
for lengths that no string has (`NoWrap`); so the payload test is true exactly when the
frame is whole, or its length is refused (`FrameIsWhole`, `TooLongIsRefused`). One lemma
per action then gives `Invariance`.

**Only model-checked.** All liveness properties (`QueuedRuns`, `CallsReturn`,
`StopCompletes`, `HangupFrees`, `CloseFrees`, `RequestEnds`), which are outside this
prover's reach. That `decode` undoes `encode`, an induction over a name.

## 6. Plan

Done: all modules above, and proofs of every safety property and of both refinements.
Open, in this order:

1. `ObjectPool`: mutex, condition variable and lost wake-ups, refining the atomic
   pool of `TaskDispatch`.
2. `Reactor` over an `INSTANCE` of `WakeUps`, with the stop, so that its queues are
   those of `WakeUps` by construction.
3. `TimerManager`, and start-up (`system.cpp:77` swaps two arguments of `config`).

## 7. Not modelled

HTTP headers, bodies and pipelined requests; which messages protobuf makes of the bytes
it is given (external code: `StreamIO` says which bytes these are and lets it pass any
number of them, so neither the merging of packages nor the end of the parsing loop is a
matter of the model); the header values of the WebSocket handshake with base64 and SHA-1, and the table of MIME
types, which are third-party code or data; OpenSSL beyond the outcome of a call;
failing `malloc`, thread creation and exceptions of hooks, which here only lock, erase and
log; pthread cancellation; the Lua plugin, the logger, configuration, and the libraries
under `external/` that the server does not call or that are third-party.

Two steps are coarser than the code. `Reactor!RemoveClosed` releases the connection and
lists the socket at once, under the shard's mutex, so the order of `http_task.cpp:180` and
`:181` is not distinguished. `Reactor!Check` reads `close_flag` once, where `stream_task`
and `websocket_task` test `is_close()` again in the condition of the TLS branch
(`stream_task.cpp:91`, `websocket_task.cpp:161`): a flag set between the two sends the task
past the handshake with a task for the close already due.

`Url` keeps the digits of percent encoding, more than the other data abstractions do,
because `RequestWhole` rests on them: what `encode` pads with and what `operator>>` takes
for a number decide whether a link leads to the file it names (`LinksDecode`).
