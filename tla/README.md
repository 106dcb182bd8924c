# A TLA+ specification of mod_tile and renderd

mod_tile serves map tiles: an Apache module answers HTTP requests from a tile
store and asks a daemon, renderd, for the tiles that are missing or old; the
daemon queues the requests, renders metatiles with a pool of threads and answers
over sockets. Command line tools feed the same daemon with bulk work. This
directory specifies the parts of that system where processes, threads,
descriptors, files and configuration interact, checks them with TLC on small
instances, and proves with TLAPS the central properties of the request queue,
of start-up, of the stores and of the names of files.

Paths below are relative to the repository root, without the leading `src/`
that `PROJECT.json` gives them.

## The system

| Part | State | Operations | Talks to |
|---|---|---|---|
| request queue (`src/request_queue.c`) | five bounded lists, the render list, counters, duplicate chains, hash index, statistics, one mutex, one condition variable | add, fetch, remove, clear by descriptor, read statistics | the connection loop, render and slave threads, statistics thread |
| connection loop (`process_loop` in `src/renderd.c`) | table of poll slots, counters, exit pipe | poll, accept, receive, close, exit | clients, the queue |
| render threads (`src/gen_tile.cpp`, `send_response`) | the request in hand, the chain still to be answered | fetch, render and save, release, answer | the queue, the store, clients |
| slave threads (`slave_thread` in `src/renderd.c`) | connection to another renderd, request in hand, retry counter | connect, fetch, send, receive, release, answer | the queue, the other daemon |
| start-up (`main`, `render_thread` prologue) | map loading mutex, count of threads that loaded each map, signal handlers | load maps, wait for all, time out | all threads |
| statistics thread (`stats_writeout_thread`) | snapshot, failure counter | copy, write, rename | the queue, a file |
| job queue of the tools (`src/render_submit_queue.c`) | bounded queue, two condition variables, workers | enqueue, fetch, process, reconnect, finish | renderd |
| the tools (`src/render_list.c`, `render_old.c`, `render_expired.c`) | the tiles still to be visited | enumerate, filter by age, touch, delete, enqueue | job queue, store |
| mod_tile (`src/mod_tile.c`) | shared counters and their mutex, delay pools, per-request state | look up a tile, ask for rendering, set expiry headers, serve, count | renderd, the stores |
| stores (`src/store_*.c`, `src/metatile.cpp`) | files, objects, the last metatile read | read, stat, write, delete, expire | renderd, mod_tile, the tools |

The behaviours that make this hard: descriptors that are closed and reused
while answers for them are under way; requests for the same metatile that meet
on the queue or during rendering; signals of condition variables that go to a
thread that loses the race for the work; lists at their limit; connections to
slaves that break between the steps of an exchange; processes of Apache that
share counters; crashes while a metatile is written.

## Modules

| Module | Models |
|---|---|
| `RequestQueue` | `src/request_queue.c`: every operation of the queue, as one atomic action each because each holds `qLock` throughout |
| `RequestQueueProofs` | theorems about `RequestQueue` |
| `TileIndex`, `HashIndex` | the hash index of the queue: what it promises, and the buckets and cells that keep the promise |
| `HashIndexProofs` | theorems about `HashIndex` |
| `RenderService` | what renderd promises a client about a request |
| `Renderd` | `process_loop`, `rx_request`, `recv_cmd`, the main loop of `render_thread`, `send_response`, composed with `RequestQueue`; clients and the kernel are external |
| `RenderdSlaves` | `Renderd` with slave threads, and the refinement of `RenderService` |
| `ProcessLoopProofs`, `RenderdProofs` | theorems about `Renderd` and `RenderdSlaves`: the part about `process_loop`, and the whole |
| `Startup` | start-up of renderd: handlers, socket, threads, map loading, the wait for all maps, signals; and the statistics thread |
| `SubmitQueue` | `src/render_submit_queue.c`, the job queue of the command line tools |
| `TileServe` | the life of a request in `src/mod_tile.c` and the statistics in shared memory |
| `TileServeProofs` | theorems about `TileServe` |
| `DelayPool` | `delay_allowed` of `src/mod_tile.c`, the throttling of clients |
| `MutexProofs` | theorems about `Startup` and `DelayPool` |
| `FileStore` | `src/store_file.c`: one metatile file under writers, readers, tools and crashes |
| `ObjectStore` | `src/store_memcached.c` and `src/store_rados.c`: metatiles as objects of a remote service |
| `ProxyStore` | `src/store_ro_http_proxy.c` and `src/store_ro_composite.c`: tiles of other servers |
| `Storage` | `src/store.c`: the three above behind one interface |
| `TilePaths` | `src/store_file_utils.c`: coordinates to paths and back, the corners of metatiles |
| `StorageToolProofs` | theorems about `Storage` and `TilePaths`; and about `SubmitQueue` |
| `RenderTools` | `src/render_list.c`, `src/render_old.c`, `src/render_expired.c`: what the tools look at and what they ask for |
| `RenderdConfig` | `src/renderd_config.c`: the sections of `renderd.conf` |
| `ModTileConfig` | the directives of mod_tile, the merging of virtual hosts, the shared counters, the stores of a thread |
| `ModTileConfigProofs` | theorems about `ModTileConfig` |
| `MC...` | instances for TLC |

### RequestQueue

A request is a number in order of arrival, and stands for its `struct item`.
`queue` holds the five waiting lists as sequences and `num` the five counters
beside them, so that their agreement is a property and not an assumption.
`rendering` is the render list, a set because the code only searches it.
`duplicates[r]` is the chain at `item->duplicates`. `index` is the set of
requests in the hash table. `thread` says for each fetching thread whether it
is outside `pthread_cond_wait`, blocked in it, or woken; a wake-up may be
spurious. `stats` is `stats_struct`.

`request_queue_add_request` is split into the five ways the function can go.
`life` records who owns the memory of a request: nobody yet, the queue, or
nobody any more (freed, or handed back to the caller of `remove_request`).

### Renderd

`conn`, `hup`, `inbox` and `fdConn` are the kernel's and the clients' side:
which connections exist, which have been hung up, which messages wait, and
which connection a descriptor number means now. Numbers are reused as soon as
they are closed. `pfd`, `revents`, `num_cslots`, `num_conns`, `listening` are
the poll table; `loop` and `slot` say where `process_loop` stands. One
iteration of the loop is a poll, then the accept branch, then one action per
slot whose `revents` are set, in slot order. `job` and `rest` are the request
in a thread's hands and the part of its chain that `send_response` has still
to answer: taking the request off the queue is one step and each answer is
another, because the code does not hold the lock between them.

### RenderdSlaves

`link`, `step` and `retry` are the connection of a slave thread, its place in
`slave_thread` and its send retries. The thread connects, fetches, sends up to
three times, receives, releases. Every way the code names for a send or receive
to fail is an action. `gaveUp` records the requests a slave thread dropped
without releasing them. The refinement mapping calls a request lost if it, or
the request it is chained to, is one of them and still on the render list;
nothing else may be lost. With no slaves nothing is.

### HashIndex

A bucket is a cell embedded in the table; cells beyond the first are
allocated. Removing the first cell of a bucket copies the second over it and
frees the second; removing a later one relinks. The module keeps `next`
pointers and the set of allocated cells explicitly and implements `TileIndex`.

### Startup

`main` installs the handlers, creates the socket, starts the threads, counts
again and again which maps all threads have loaded (one step per map, since the
counters change meanwhile), gives up after a time (which may pass between any
two rounds), and enters `process_loop`, which creates the exit pipe. Each
render thread takes `map_load_mutex`, loads a map or throws, and counts it. A
signal may arrive at any step; `request_exit` writes to `exit_pipe_fd`, which
is 0 at first.

The statistics thread runs beside: it opens the temporary file, writes, closes
(a write that fails is not noticed, so the file may be cut short), renames, and
counts its failures. The counter is never reset; when it is used up the thread
ends. The numbers themselves are those of `RequestQueue`.

### SubmitQueue

The list with its head and tail, the two condition variables (a thread in
`pthread_cond_wait` is asleep or woken), one main thread that enqueues and then
calls `finish`, and workers that connect, fetch, send, receive, record the time
and reconnect. A worker whose first connection over a Unix socket fails ends; a
lost one it tries to make again until it succeeds. Over TCP a connection that
cannot be made ends the program. Which of the two is in use is chosen at first.
`answered` is a history variable, the jobs that renderd has answered.

### TileServe

`pc` follows a request through `tile_translate`, `tile_storage_hook`,
`request_tile` and a handler; a step is whatever lies between two accesses to
something shared (the store, the socket, the lock). All requests are for one
tile, which is rendered, expires, ages and disappears at any moment. What
renderd does with a request is free: whole answers, partial answers, answers
for other tiles, end of file, nothing. `todo` holds the counters that the code
at hand is about to increase, each under the lock or, if the lock is not had in
time, not at all. `seen`, `gone` and `tally` record what was true of the tile
and what was counted during the request. Every `tile_stat` and `tile_read` may
fail; `fault` records that the one the answer rests on did although there was a
tile.

### DelayPool

One hash bucket that two addresses share, the flag `locked`, both token counts,
both clocks, and requests that sleep between two looks at the bucket. The
flag is read outside the mutex, as in the code.

### FileStore

A file is an inode that outlives its name. Writers create and fill a temporary
file in steps, and rename it; they fail, or the daemon dies, between any two
steps. A reader opens, reads the header, then the tile, from the inode it
opened. A tool that expires the metatile reads the time with `stat` and sets it
with `utime`, by name, in two steps; either fails. Time is the year.
`file_metatile_expire` takes the UTC calendar apart with `gmtime_r` and puts it
together with `mktime`, which expects local time: near New Year the result can
be in the year before or after. `Shift` is the set of years by which it may
miss.

### ObjectStore

An object is a `struct stat_info` and a metatile; both are named by the number
of the write they come from. A call to the service is atomic, an operation of a
store is one or two calls with anything in between, and calls fail. `expire`
reads and writes back; memcached replaces the whole object if there is one,
rados overwrites the `stat_info` and creates the object if there is none.
`cache` is the header that a rados context keeps. `fresh` is a history
variable: whether the object is still the one the header was read from.

### ProxyStore

`kept` is the one tile that a proxy context keeps. A request to the other
server ends in one of four ways, each of which leaves the cache in its own
state; tiles there change at any moment. The composite store reads two proxies
one after the other and paints one tile over the other.

### TilePaths, RenderTools

`TilePaths` has the arithmetic: the five hashed directories of a path are the
digits of both coordinates to base 16, interleaved, and `path_to_xyz` inverts
them. It fails where the code does: for the directory of a map whose name has
more than 40 characters (`Cut` gives the first 40), for parts that are not
numbers or not bytes, and for tiles that do not exist; the results are then
what had been stored by then. `RenderTools` starts with a command line and a
configuration, chosen from small sets, and lets a tool work: `render_expired`
reads lines and climbs from each to the coarsest zoom level or to a metatile it
has seen; `render_list` loops over a range or a box, or reads lines;
`render_old` descends through the files of a store, with the local variables
`mapname`, `x`, `y`, `z` of each call of `descend` kept in `frame`, since after
a path that cannot be read it enqueues what is left in them. `log` records
every metatile looked at and what was done about it; what is enqueued goes to
module `SubmitQueue`. Positions on the map are integers, 1024 to each side, in
place of degrees: the projection is abstracted to a division.

### RenderdConfig, ModTileConfig

`RenderdConfig` maps a file, as a sequence of sections, to the maps and threads
it defines or to the exit it causes. `ModTileConfig` executes directives in any
order for the main server and virtual hosts, merges them, sizes the shared
counters, and then serves requests: `tile_translate` finds the layer by the
beginning of the path, `get_storage_backend` the store of the layer in the
thread. It does not check the layer number against its array. Beyond the end it
finds an unknown word, which it takes for a store, or a null word, and then
opens the store of the layer and writes it there; nobody closes that one. What
else the write destroys is not modelled. A composite store is two connections,
of which either may fail.

## What the runs check

| Run | Bounds | Shows |
|---|---|---|
| `queue` | 3 requests, all 5 commands, 3 metatiles, 2 threads, lists of 1, dirty list of 2 | one listed request per metatile, every request owned once, no lost wake-up, statistics that balance; clearing a descriptor leaves none behind; the inductive invariant of the proofs holds |
| `hash_index` | 5 items, 2 buckets, 3 cells | no leak, no dangling cell, lookups are exact; refinement of `TileIndex` |
| `renderd` | 2 requests, 3 clients, 2 slots, bad messages, exit | slots and counters agree; a queued descriptor belongs to the client that sent the request; a connected client gets its own answer, once; a connection ends only after a hang-up or a bad message |
| `slaves` | 2 requests for one or two metatiles from 1 client, exit, 1 slave thread, 1 render thread | refinement of `RenderService`, liveness included |
| `submit_queue` | 4 jobs, 2 workers, 3 durations, both kinds of socket | the list is exact, nobody sleeps without cause, no job is left without an answer, the tool ends |
| `startup` | 2 threads, 2 maps, every failure; 1 failed open and 2 failed renames of the statistics file | clients are served only when every thread has every map; one thread loads at a time; start-up ends; the statistics file is never one still being written |
| `delaypool` | 2 requests at a time, 2 addresses in one bucket of 2 tiles and 1 rendering, 3 clock values | throttling is skipped only during a fill-up; the rate the fill-up enforces; every call returns |
| `tile_serve` | 1 request from its beginning; 1 request and 1 statistics page, or 2 requests, about to serve; 2 versions of the tile | what the client is told was true during its request, unless the store failed; every response is counted once and consistently; sockets and locks are given back; every request is answered |
| `storage` | files: 2 writers, 1 reader, 2 tools, 3 files, the years 2033 and 2034 and a shift of 1; objects: 2 metatiles, 2 options, 3 writes, 1 client, 2 tools; proxies: 2 tiles, 3 versions, 1 thread | what is read is whole and of one version; a marked metatile is out of date until replaced and keeps its time of writing; an undone write is marked as expired; tiles fit their header; a proxied tile is the one asked for |
| `tools` | metatiles of 2 x 2, zoom levels 0 to 4 and 10, 3 lines or 3 files, stray files and a map with too long a name among them, some 500 command lines | `render_expired` misses no ancestor; `render_list` covers its range; `render_old` asks for every old metatile and, but for what stray files account for, nothing else |
| `configuration` | 3 layers, 2 virtual hosts, 3 files, 1 thread | the counters have room for every layer; every accepted map can be reached; a thread uses the right store if its hosts have the same layers; no connection is lost, unless it was opened beyond the array |
| `layer_store` | the same | counterexample: the store of another host's layer |

Lists of one fill up and overflow into the dirty list and beyond with three
requests. Three requests for one metatile make a chain of two. Fewer slots than
clients force reuse. Five items in two buckets make chains of three and more
cells. Four jobs and two workers fill the job queue and empty it. `renderd` has
the clients that compete for slots and descriptors, and `slaves` the threads
that compete for requests: together in one instance they are more than TLC can
check for liveness. In three clock values tile tokens arrive twice and render
tokens once, after a fill-up that left a remainder. In `tile_serve` requests
meet only in the counters and in the store: the store may do anything, so one
request sees all that several could do to it, and the counters need only the
ends of two. 2035 is the last year in which `file_metatile_expire` can tell
marked metatiles from others, 2034 if `mktime` adds a year; after it a marked
metatile is set back again. TLC checks the shift that comes closest to that
limit, the theorem all of them. The lists of `renderd` do not overflow, since
its requests are for one metatile; those of `queue` do, and the theorems about
`Renderd` hold for any lists. Three writes let a tool bring back the first
after the second while the third is still to come. Three lines are enough for
one to stop its climb at an ancestor that another one, in turn, did not reach
by itself. Two hosts with three layers between them can differ in their layers
and in the number of them.

Deadlock is not checked where an instance runs out of input: once all the
requests of an instance have arrived and been answered, all files have been
created or all directives executed, nothing is left to do.

### Counterexample

`get_storage_backend` (`src/mod_tile.c:448`) keeps the stores of a thread in
one array, whatever the virtual host. The host that is served first gives the
array its size; every later request uses the layer number of its own host as
the index. `docs/man/mod_tile.5:31` describes the directory of a layer as the
"Custom storage directory path for this layer's tile cache": with hosts that
have different layers a thread reads from the store of another host's layer, or
from whatever lies beyond the array. `StoreOfSameLayers` is what does hold.

### Observations without a run

renderd:

* `send_response` removes a request from the queue and then writes to
  `item->fd` (`src/renderd.c:104`). In between `process_loop` may close that
  descriptor and accept another client on the same number.
  `request_queue_clear_requests_by_fd` exists "to not send feedback to invalid
  FDs" (`src/request_queue.c:216`) but cannot see a request that has left the
  queue. `OneAnswerToItsClient` holds for connected clients and excepts this.
* `slave_thread` gives up a request it cannot send without releasing it
  (`src/renderd.c:729`), which the comment at `src/gen_tile.cpp:481` describes
  as the failure to avoid. `RenderService` allows exactly this loss.
* An exception after `map_load_mutex` was unlocked unlocks it again
  (`src/gen_tile.cpp:368`), perhaps while another thread holds it. `OneLoader`
  holds until then and excepts what follows.
* `main` installs `request_exit` before `process_loop` has created the pipe it
  writes to (`src/renderd.c:170`: "Any write to the exit pipe will trigger a
  graceful exit"). A signal during start-up goes to descriptor 0 and is lost.
* `includes/protocol.h:32` says `cmdDirty` has no response; `process_loop`
  sends `cmdNotDone` for it.
* The statistics thread never resets its counter of failures, tries again
  without sleeping after one, and does not notice failed writes.

mod_tile:

* The fill-up of the delay pools credits a bucket with time from before it
  existed, so that a new client may take two pools at once. The bound that
  does hold is `RateBound`.
* A throttled request does not check after its sleep that the bucket still
  belongs to its address.
* `tile_handler_mod_stats` and `tile_handler_metrics` read a pointer that
  `get_stats_copy` leaves unset when it cannot get the lock.
* `request_tile` waits for an answer after two failed sends although nothing
  was sent; the timeout ends the wait.
* `ModTileTileDir` has no effect on layers that were defined before it.
* Layers of different virtual hosts with the same number share a counter.
* A tile that exists is answered with 404 when reading it fails, and one whose
  `tile_stat` fails is taken to be missing. `AnswerIsTrue` excepts both.

Stores and tools:

* The memcached store ignores the options when it writes and uses them when it
  reads. The rados store compares neither options nor time before it uses a
  cached header, which `TileFitsHeader` excepts; `expire` of a deleted object
  leaves a stub without a metatile.
* The composite store takes the state of a tile from its first store alone.
* `render_list --min-x` with a value that is not the corner of a metatile can
  miss the last metatile of its range; `ListCovers` excepts this.
* `render_expired` expands a line coarser than the finest zoom level to one
  descendant only, and raises a minimal zoom level below 3 to 3.
* In the job queue a shortest time of 0 also means "none yet"; the property
  about the statistics excepts the minimum then.
* `render_old` does not look at what `path_to_xyz` returns
  (`src/render_old.c:84`). For a `.meta` file that the store did not write it
  asks for whatever `mapname`, `x`, `y` and `z` hold: the values of an earlier
  file of the directory, or none. It cannot read the path of any tile of a map
  whose name has more than 40 characters.

## Fairness

* `SlavesFairSpec`: the connection loop keeps running (it blocks in `poll`, and
  in `send` to a client that does not read, `src/protocol_helper.c:64`, which
  is assumed to have room for the short answers), each render thread keeps
  running and rendering ends, a thread that is awake gets the mutex eventually,
  and a slave that was sent a request answers or its connection ends. Nothing
  else is assumed of clients.
* `SubmitFairSpec`: the main thread and the workers keep running, and a worker
  that sends jobs again and again is answered at some point: renderd, or the
  network, does not break every connection for ever (strong fairness). Every
  request that is sent is answered or its connection ends. This is more than
  `RenderService` promises: a request that a slave thread of the daemon gave up
  is never answered while the connection lasts, and a tool that waits for it
  would wait for good.
* `FairSpec` of `Startup`: `main` and the render threads keep running. Signals
  are not promised.
* `DelayFairSpec`: requests keep running, the clock advances.
* `ServeFairSpec`: requests keep running, as far as they can; renderd, the
  store and the statistics pages owe nothing. That suffices because the waits
  for an answer, for the lock and between attempts have a limit. Two calls have
  none of their own and are assumed to return: `connect`, and on platforms
  without `apr_global_mutex_trylock` the lock that replaces it
  (`src/mod_tile.c:136`).

## Proofs

`RequestQueueProofs` proves for all values of the constants that satisfy
`ConstantsAssumption` (any number of requests, threads, descriptors,
metatiles, any limits) that `QueueInv` is an invariant of `QueueSpec`, and
from it the properties named in `PROJECT.json`. The properties are not
inductive by themselves. That a metatile is listed at most once needs that the
index holds every listed request, which needs that removal finds exactly the
entry of the removed request, which needs the property again; that removal
frees each chain once needs that chains are disjoint, hold only requests
marked `queueDuplicate`, and hang only off listed requests. `QueueInv`
collects these: `BirthInv` (what is not yet born is nowhere), `ListInv` (lists
hold distinct queued requests marked with the list, as many as counted, within
the limit), `IndexInv` (index and lists hold the same requests, one per
metatile), `OriginInv` (where a request came from, and that dirty requests have
no descriptor), `ChainInv` (chains are disjoint and hang off listed requests)
and `NoOvertaking`. `NoLostWakeup` compares the number of waiting requests with
the number of woken threads; the facts about sizes of sets that its step needs
are hypotheses of the lemma (`ThreadsCounted`) and proved in `RenderdProofs`,
where the theorem is.

`ProcessLoopProofs` and `RenderdProofs` prove of the whole daemon, for any
number of connections, slots, descriptors, requests, render threads and slave
threads, `SlotsExact`, `QueuedFdCurrent`, `OneAnswerToItsClient`,
`ClosedForCause` (for `Spec`, the daemon without slave threads, because the
property is about the variables of `Renderd`) and `DaemonUsesTheQueue`: the
steps of the daemon are steps of `QueueSpec`, so the theorems about the queue
hold inside the daemon too. One invariant, `DaemonInv`, serves both kinds of
threads; `DaemonStep` is what they have in common, and `StepOfDaemon` says that
every step of `Spec` and of `SlavesSpec` is one. None of the properties is
inductive:

* `SlotInv`: the slots hold the open descriptors, each once, and a connection
  has one descriptor. A new connection takes a free slot below `num_cslots`, or
  the next one while `num_cslots` is below the limit; that `num_conns` is the
  number of slots in use needs the count (`ConnsCounted`).
* `EventsInv`: what `poll` found in a slot is still there when `process_loop`
  comes to it. Closing an earlier slot must not disturb it, and an accept
  between `poll` and the loop may take a free slot whose `revents` must then be
  clear. `ClosedForCause` follows.
* `AnswerInv`: a request on the queue, or in the chain a thread still has to
  answer, that has a descriptor has no answer yet, and the descriptor leads to
  its client unless the client is gone. For what is still queued the stronger
  `QueuedFdCurrent` holds, because a hang-up clears the queue before the
  descriptor can be given away; for what a thread has taken off the queue only
  the weaker form holds, and this is why `OneAnswerToItsClient` excepts clients
  that have left.
* `RestInv`: the chains that threads hold are disjoint and off the queue. It
  rests on `OwnedOnce` and on chains being disjoint in the queue.

`DaemonIsARenderService` proves the safety part of the refinement of
`RenderService`: `SlavesSpec => S!Safety`, with the mapping of `RenderdSlaves`.
It needs two more invariants. `JobInv` says that a thread with a job is the only
one to have it, that the job is being rendered and was not dropped, that the
thread has then nothing left to answer, and that a dropped request stays among
those being rendered: this is why a request that is lost stays lost and one that
joins its chain is lost on arrival. `OwedInv` says of a request in flight that
an answer it has went to its client, and that without answer and without
descriptor it is a `cmdDirty` or its client's connection is closed: this is why
what `send_response` passes over may be forgotten. `QuietSteps` sorts the steps
of the daemon, and `ServiceStep` maps them:

* `Receive` is the abstract `Receive`: answered on arrival, waiting, or lost;
* `SendNext` is `Answer`, `Forget`, or no step if the request was answered on
  arrival;
* a hang-up, a closed slot and a refused connection are `HangUp`;
* `GivesUp` is `Lose`, of the dropped request and the waiting ones in its chain;
* writing to the exit pipe is `Exit`;
* every other step, taking a request off the queue included, is no step.

The two invariants were model-checked before they were proved. That every
request is concluded in the end is liveness, and stays with TLC.

`MutexProofs` proves three properties of `Startup` for any number of threads
and maps. `StartsReady` by itself is not inductive: `main` reads the counters
one after the other while they change. The invariant says that the counter of a
map is the number of threads that are past it with `ok` set (which needs
`ThreadInv`: where `ok` can be set at each place of a thread's loop). Such a
thread stays so. Hence what `main` saw once remains true, and a round that
counts every map has seen what still holds. `OneLoader` follows from `LoadInv`:
until a thread unlocks what is not its own, `map_load_mutex` is held exactly by
the thread that loads. `StatsFileWhole` follows from `WriteInv`:
`stats_writeout_thread` is about to rename only a file that it has closed.

The same module proves `SkipsOnlyDuringFillup` and `RateBound` for any sizes,
rates, addresses and number of requests. `RateBound` mentions neither the clock
of the fill-ups nor the fill-up that is going on, so `DelayInv` does: until the
first fill-up after its creation a bucket has handed out at most one full
bucket (first case of `Credit`); that fill-up may count time from before the
creation, but is capped at one more bucket; after it every token is paid for by
an advance of `last_tile_fillup` or `last_render_fillup` (second case), which
never passes the clock. `FillReaches` says that a fill-up that has been computed
comes within one token of the clock, and `Holds` that nobody else touches the
table before it is done.

`TileServeProofs` proves `AnswerIsTrue`, `CountedOnce`, `StatsConsistent` and
`NothingHeld` for any number of requests and statistics pages. The invariant
`ServeInv` says for each stage of a request what it has done (`Staged`), what it
knows of the tile (`Known`) and what it meant to count (`Tallied`). `Known` is
the part that could be wrong: what a request read of the tile may be stale when
it is used, but a tile that was missing becomes readable only by being rendered,
and is then current at a moment of the request, unless a call to the store
failed, which `fault` records. `CountersBounded` compares a
counter with the requests that are done with it, not with those that have still
to increase it. `Balanced` says that the arrays differ from the struct by one
exactly while a request that holds `stats_mutex` is between the two, and
`Copied` that a page that holds the mutex has copied what is still there.

`StorageToolProofs` proves the properties of the stores, four at once with the
invariant `StorageInv`, for any number of processes, metatiles and writes:

* files (`FileInv`): a temporary file has no other name, writer or reader, and
  is whole once its writer has written it; what has or had the name of the
  metatile and is still open is whole and does not change any more. Without
  the first part a rename could publish a file somebody still writes to.
* objects (`ObjectInv`): what is stored under a key, or held by a tool that is
  about to store it again, is of the metatile of the key; a fresh header is
  that of its object, and stays while a tile is read with it; memcached has
  whole objects only.
* proxies (`ProxyInv`): also the parts still to be painted are of the tile
  asked for.

`MarkedKeepsReference` needs more than this (`MarkInv`, on top of `FileInv`):
the time of a metatile is the year of its writing, or that of a metatile that
had its name less twenty and shifted; only the second if it is marked; and what
a tool has read with `stat` is one of the two, perhaps of a file that is gone
when it calls `utime` (`StatDated`). A temporary file is never marked. The two
kinds of times can be told apart by the fixed test "greater than 2015" only
while nothing is written before 2016 or after 2035, less the shift, so this
theorem, and no other, assumes `YearsAssumption`: later a marked tile would be
set back again.

It also proves that `path_to_xyz` succeeds on what `xyzo_to_meta` made and
inverts it up to the corner of the metatile, for the tiles that exist and names
that are not cut off, and that tiles share a file exactly if they share a
metatile, for coordinates below 2^20, which zoom level 20 needs, and every size
of metatiles: a number is its five hexadecimal digits put together, and a byte
of two digits can be taken apart.

For the job queue of the tools it proves `ListExact` and `NothingLeftBehind`,
for any number of workers and jobs. The list is the interval from the first job
not yet fetched to the last one enqueued. `EndsEmpty` is what the end needs
besides: a worker ends only with the flag set and the queue empty, nothing is
enqueued once the flag is set, and `main` is done only when every worker has
ended or failed. `HandsInv` says that a job that was fetched is answered or in
the hands of a worker that has not ended. The statistics are exact in every
state (`StatExact`), not only at the end. `StatInv` says that the total is the
last of a list of partial sums.

`HashIndexProofs` proves `IndexExact` and the refinement of `TileIndex` for any
items, metatiles, buckets and cells, and any hash function. The invariant
`IndexInv` says that the walk from each bucket is a list without repetition that
ends at a null pointer; that the lists of two buckets have no cell in common;
that the cells in the lists are the buckets and the allocated cells; that only a
bucket alone in its list is empty; and that an item is in the bucket of its
metatile, the only one for it. An insertion appends a cell, the
removal of a cell behind the bucket cuts it out, and the removal of the bucket's
own item copies the next cell into it and cuts that one out.

`ModTileConfigProofs` proves the four properties of the configuration for any
number of hosts, threads, files and layers, and directives in any order.
`ConfigInv` says that `layerCount` is at least what each host will have once the
layers of the main server are put before its own, and that the maps of a file
stand together and in their order in the layers of a host (`FromFiles`), which
appending and merging keep. `RunInv` says which layer `tile_translate` took
(`Taken`), that the array of a thread is that of the layers of its hosts as long
as these agree and always as long as the layers of some host (`KnownInv`), and
that a connection is that of a store its thread knows, or was opened beyond the
array, which takes hosts with different numbers of layers (`OpenInv`). That
every map is served rests on the first part: the layer
that is taken is the first whose URI begins the path; were it not that of the
map, it would be an earlier map of the same file whose URI begins that of the
map, and `process_map_sections` would not have accepted the file.

What a recursive definition computes is normally shown by induction, which the
prover cannot instantiate. Where such a definition is part of a property (the
walk along `next` pointers, the sum of the times), the proofs use that a set of
natural numbers has a least element (`LeastNumber`): two functions that satisfy
the recursive equation cannot differ at a least argument. A solution of the
equation is part of the invariant, and is then the function the definition
chooses.

The assumptions are those named in the modules (`ConstantsAssumption`,
`RenderdAssumption`, `SlavesAssumption`, `StartupAssumption`,
`SubmitAssumption`, `TileServeAssumption`, `DelayAssumption`,
`FileStoreAssumption`, `YearsAssumption`, `ObjectStoreAssumption`,
`ProxyStoreAssumption`, `TilePathsAssumption`, `IndexAssumption`,
`ConfigAssumption`): sets of processes are finite where they are counted,
limits and bounds are natural numbers, and special values are not ordinary
ones. `ConfigAssumption` also gives the types of the sections of the files, and
says that no URI contains the name of a tile. TLC evaluates them in the runs.

Checked by TLC only:

* liveness, because fairness and `ENABLED` are beyond the prover: this includes
  the liveness part of the refinement of `RenderService`;
* `StatsBalance` of the queue, which compares sums over sets of requests;
* the properties of `RenderTools`, which compare what recursive walks over
  trees of directories and tiles produce.

## Not modelled

* HTCP cache expiry (`src/cache_expire.c`): formats one datagram per tile and
  sends it; nothing comes back and nothing is kept.
* Drawing (`render` in `src/gen_tile.cpp`) and style parameters
  (`src/parameterize_style.cpp`): calls into mapnik. What drawing can return is
  modelled; the picture is not, and with it the question whether a picture
  shows the data of the moment it was asked for.
* Logging, `daemon`, load average, the benchmark: no state of the system.
* URLs with style parameters, which have one more part before the coordinates:
  `tile_translate` finds the layer in the same way for them.
* Directives of mod_tile that assign one number or string; the texts of the
  TileJSON, statistics and metrics pages.
* The death of a single Apache process while it holds a mutex or has set the
  flag `locked` in shared memory.
