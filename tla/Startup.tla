------------------------------ MODULE Startup ------------------------------
(***************************************************************************)
(* How renderd starts and stops (main, stats_writeout_thread and           *)
(* request_exit in src/src/renderd.c, the first part of render_thread in   *)
(* src/src/gen_tile.cpp).                                                  *)
(*                                                                         *)
(* main spawns the render threads, each of which loads every map under     *)
(* map_load_mutex and counts itself as ready for it; main adds up the      *)
(* counters, map by map, until all threads are ready for all maps, and     *)
(* only then creates the exit pipe and serves clients.                     *)
(***************************************************************************)
EXTENDS Integers, FiniteSets

CONSTANTS
    Thread,        \* the render threads
    num_maps,      \* the configured maps are 1..num_maps
    ManyThreads,   \* more than 10 threads: datasources are parameterised
    MaxOpenFailures, MaxRenameFailures, \* the statistics thread gives up after these
    MayFail,       \* what can go wrong while a map is loaded
    Free           \* "no thread holds map_load_mutex"

ASSUME StartupAssumption ==
    /\ IsFiniteSet(Thread) /\ Thread # {}
    /\ num_maps \in Nat
    /\ ManyThreads \in BOOLEAN
    /\ MayFail \subseteq {"store", "load", "fixup"}
    /\ Free \notin Thread
    /\ MaxOpenFailures \in Nat /\ MaxRenameFailures \in Nat

Map == 1..num_maps
num_threads == Cardinality(Thread)

VARIABLES
    main,              \* where main stands
    checking,          \* the map main looks at next
    total_maps_ok,     \* how many of the maps before it were ready
    late,              \* the start-up timeout has passed
    at, map,           \* where a render thread stands, and with which map
    mutex,             \* the thread that holds map_load_mutex, or Free
    ok,                \* maps[i].ok of each thread
    total_threads_ok,  \* how many threads are ready for a map
    exit_pipe_fd,      \* "zero" until process_loop sets it
    written,           \* a byte waits in the exit pipe
    doubleUnlock,      \* history: a thread unlocked a mutex it did not hold
    stats,             \* where the statistics thread stands
    noFailedAttempts,
    tmpName,           \* the file it writes: "none", "partial" while it does, then
                       \* "whole", or "truncated" if the disk was full
    stats_filename     \* the file the administrator's tools read

mainVars == <<main, checking, total_maps_ok>>
threadVars == <<at, map, mutex, ok, total_threads_ok, doubleUnlock>>
exitVars == <<exit_pipe_fd, written>>
statsVars == <<stats, noFailedAttempts, tmpName, stats_filename>>
vars == <<mainVars, late, threadVars, exitVars, statsVars>>

Init ==
    /\ main = "init"
    /\ checking = 1 /\ total_maps_ok = 0
    /\ late = FALSE
    /\ at = [t \in Thread |-> "unborn"]
    /\ map = [t \in Thread |-> 1]
    /\ mutex = Free
    /\ ok = [t \in Thread |-> [m \in Map |-> FALSE]]
    /\ total_threads_ok = [m \in Map |-> 0]
    /\ exit_pipe_fd = "zero" /\ written = FALSE
    /\ doubleUnlock = FALSE
    /\ stats = "unborn" /\ noFailedAttempts = 0
    /\ tmpName = "none" /\ stats_filename = "none"

-----------------------------------------------------------------------------
(* main *)

Exit == main' = "exited" /\ UNCHANGED <<checking, total_maps_ok>>

(* The configuration is read, the queue and the server socket are made and *)
(* the handlers installed.                                                 *)
InstallHandlers ==
    /\ main = "init"
    /\ main' = "spawn"
    /\ UNCHANGED <<checking, total_maps_ok, late, threadVars, exitVars, statsVars>>

(* The socket cannot be made, memory or threads cannot be had. *)
SetupFails ==
    /\ main \in {"init", "spawn"}
    /\ Exit
    /\ UNCHANGED <<late, threadVars, exitVars, statsVars>>

Spawn ==
    /\ main = "spawn"
    /\ at' = [t \in Thread |-> "next"]
    /\ main' = "count"
    /\ stats' \in {"unborn", "open"}   \* with or without stats_file
    /\ UNCHANGED <<checking, total_maps_ok, late, map, mutex, ok, total_threads_ok, doubleUnlock, exitVars,
                   noFailedAttempts, tmpName, stats_filename>>

(* Mutation: a map counts as soon as one thread has it. *)
CountMapAny ==
    /\ main = "count"
    /\ checking \in Map
    /\ total_maps_ok' = IF total_threads_ok[checking] > 0
                        THEN total_maps_ok + 1 ELSE total_maps_ok
    /\ checking' = checking + 1
    /\ UNCHANGED <<main, late, threadVars, exitVars, statsVars>>

(* One turn of the inner loop: an atomic load of one counter. *)
CountMap ==
    /\ main = "count"
    /\ checking \in Map
    /\ total_maps_ok' = IF total_threads_ok[checking] = num_threads
                        THEN total_maps_ok + 1 ELSE total_maps_ok
    /\ checking' = checking + 1
    /\ UNCHANGED <<main, late, threadVars, exitVars, statsVars>>

Restart == checking' = 1 /\ total_maps_ok' = 0

(* Mutation: the timeout counts only while no map is ready. *)
TimedOutIdle == late /\ total_maps_ok = 0

TimedOut == late

CountAgain ==
    /\ main = "count"
    /\ checking \notin Map
    /\ total_maps_ok < num_maps
    /\ ~TimedOut
    /\ Restart
    /\ UNCHANGED <<main, late, threadVars, exitVars, statsVars>>

TimesOut ==
    /\ main = "count"
    /\ checking \notin Map
    /\ total_maps_ok < num_maps
    /\ TimedOut
    /\ Exit
    /\ UNCHANGED <<late, threadVars, exitVars, statsVars>>

(* process_loop makes the pipe, or returns and main ends. *)
CreatePipe ==
    /\ main = "count"
    /\ checking \notin Map
    /\ total_maps_ok >= num_maps
    /\ main' = "loop"
    /\ exit_pipe_fd' = "pipe"
    /\ UNCHANGED <<checking, total_maps_ok, late, threadVars, written, statsVars>>

PipeFails ==
    /\ main = "count"
    /\ checking \notin Map
    /\ total_maps_ok >= num_maps
    /\ Exit
    /\ UNCHANGED <<late, threadVars, exitVars, statsVars>>

LoopExits ==
    /\ main = "loop"
    /\ written
    /\ Exit
    /\ UNCHANGED <<late, threadVars, exitVars, statsVars>>

mainThread == \/ InstallHandlers \/ Spawn \/ CountMap \/ CountAgain
              \/ TimesOut \/ CreatePipe \/ LoopExits

TimePasses ==
    /\ late' = TRUE
    /\ UNCHANGED <<mainVars, threadVars, exitVars, statsVars>>

(* SIGHUP, SIGINT or SIGTERM.  Without a handler they end the process; the *)
(* handler is request_exit, whose byte goes to descriptor 0 while          *)
(* exit_pipe_fd is still 0.                                                *)
Killed ==
    /\ main = "init"
    /\ Exit
    /\ UNCHANGED <<late, threadVars, exitVars, statsVars>>

request_exit ==
    /\ main \notin {"init", "exited"}
    /\ written' = (written \/ exit_pipe_fd = "pipe")
    /\ UNCHANGED <<mainVars, late, threadVars, exit_pipe_fd, statsVars>>

-----------------------------------------------------------------------------
(* render_thread up to its main loop *)

GoTo(t, p) == at' = [at EXCEPT ![t] = p]
NextMap(t) == map' = [map EXCEPT ![t] = @ + 1] /\ GoTo(t, "next")

(* All maps have been tried: the thread serves the queue. *)
Serves(t) ==
    /\ at[t] = "next"
    /\ map[t] \notin Map
    /\ GoTo(t, "serving")
    /\ UNCHANGED <<mainVars, late, map, mutex, ok, total_threads_ok, doubleUnlock, exitVars, statsVars>>

(* init_storage_backend fails: the map is not ok. *)
NoStore(t) ==
    /\ at[t] = "next"
    /\ map[t] \in Map
    /\ "store" \in MayFail
    /\ NextMap(t)
    /\ UNCHANGED <<mainVars, late, mutex, ok, total_threads_ok, doubleUnlock, exitVars, statsVars>>

(* Mutation: the mutex is not taken. *)
LockIgnored(t) ==
    /\ at[t] = "next"
    /\ map[t] \in Map
    /\ mutex' = t
    /\ ok' = [ok EXCEPT ![t][map[t]] = TRUE]
    /\ GoTo(t, "loading")
    /\ UNCHANGED <<mainVars, late, map, total_threads_ok, doubleUnlock, exitVars, statsVars>>

(* ok is set before the map is loaded. *)
Lock(t) ==
    /\ at[t] = "next"
    /\ map[t] \in Map
    /\ mutex = Free
    /\ mutex' = t
    /\ ok' = [ok EXCEPT ![t][map[t]] = TRUE]
    /\ GoTo(t, "loading")
    /\ UNCHANGED <<mainVars, late, map, total_threads_ok, doubleUnlock, exitVars, statsVars>>

Loads(t) ==
    /\ at[t] = "loading"
    /\ mutex' = Free
    /\ GoTo(t, "loaded")
    /\ UNCHANGED <<mainVars, late, map, ok, total_threads_ok, doubleUnlock, exitVars, statsVars>>

(* The catch clauses: unlock, not ok, next map.  Unlocking a default mutex *)
(* does not look at who holds it.                                          *)
Catch(t) ==
    /\ mutex' = Free
    /\ doubleUnlock' = (doubleUnlock \/ mutex # t)
    /\ ok' = [ok EXCEPT ![t][map[t]] = FALSE]
    /\ NextMap(t)
    /\ UNCHANGED <<mainVars, late, total_threads_ok, exitVars, statsVars>>

LoadThrows(t) ==
    /\ at[t] = "loading"
    /\ "load" \in MayFail
    /\ Catch(t)

(* parameterize_map_max_connections, only with many threads; the mutex has *)
(* already been unlocked when it throws.                                   *)
FixupThrows(t) ==
    /\ at[t] = "loaded"
    /\ ManyThreads
    /\ "fixup" \in MayFail
    /\ Catch(t)

(* The projection is chosen and the thread counts itself, atomically. *)
Counts(t) ==
    /\ at[t] = "loaded"
    /\ total_threads_ok' = [total_threads_ok EXCEPT ![map[t]] = @ + 1]
    /\ NextMap(t)
    /\ UNCHANGED <<mainVars, late, mutex, ok, doubleUnlock, exitVars, statsVars>>

render_thread(t) ==
    /\ main # "exited"
    /\ Serves(t) \/ NoStore(t) \/ Lock(t) \/ Loads(t) \/ LoadThrows(t) \/ FixupThrows(t) \/ Counts(t)

-----------------------------------------------------------------------------
(* stats_writeout_thread *)

(* Mutation: the file is written under its own name. *)
StatsOpenInPlace ==
    /\ stats = "open"
    /\ stats' = "write" /\ stats_filename' = "partial"
    /\ UNCHANGED <<noFailedAttempts, tmpName>>

(* The queue's statistics are copied, and the temporary file is opened. *)
StatsOpen ==
    /\ stats = "open"
    /\ stats' = "write" /\ tmpName' = "partial"
    /\ UNCHANGED <<noFailedAttempts, stats_filename>>

(* Nothing is made of a write that fails. *)
StatsClose ==
    /\ stats = "write"
    /\ stats' = "rename" /\ tmpName' \in {"whole", "truncated"}
    /\ UNCHANGED <<noFailedAttempts, stats_filename>>

StatsRename ==
    /\ stats = "rename"
    /\ stats_filename' = tmpName /\ tmpName' = "none"
    /\ stats' = "sleep"
    /\ UNCHANGED noFailedAttempts

StatsSleep ==
    /\ stats = "sleep" /\ stats' = "open"
    /\ UNCHANGED <<noFailedAttempts, tmpName, stats_filename>>

(* The counter is never reset. *)
Fails(limit) ==
    /\ noFailedAttempts' = noFailedAttempts + 1
    /\ stats' = IF noFailedAttempts' > limit THEN "ended" ELSE "open"
    /\ UNCHANGED <<tmpName, stats_filename>>

stats_writeout_thread ==
    /\ main # "exited"
    /\ \/ StatsOpen \/ StatsClose \/ StatsRename \/ StatsSleep
       \/ stats = "open" /\ Fails(MaxOpenFailures)
       \/ stats = "rename" /\ Fails(MaxRenameFailures)
    /\ UNCHANGED <<mainVars, late, threadVars, exitVars>>

-----------------------------------------------------------------------------
Next ==
    \/ mainThread \/ SetupFails \/ PipeFails \/ TimePasses \/ Killed \/ request_exit
    \/ \E t \in Thread : render_thread(t)
    \/ stats_writeout_thread

Spec == Init /\ [][Next]_vars

(* The threads run, maps are loaded or refused, and time passes. *)
Fairness ==
    /\ WF_vars(mainThread)
    /\ WF_vars(TimePasses)
    /\ \A t \in Thread : WF_vars(render_thread(t))

FairSpec == Spec /\ Fairness

-----------------------------------------------------------------------------
(* Properties *)

(* When clients are first served every thread has loaded every map, so no  *)
(* request can meet a map that "failed to load" (gen_tile.cpp:465),        *)
(* although main reads the counters one by one while the threads go on.    *)
StartsReady == main = "loop" => \A t \in Thread, m \in Map : ok[t][m] /\ map[t] > m

(* At most one thread is inside mapnik::load_map, unless an exception      *)
(* after the unlock made a thread unlock a mutex somebody else held.       *)
OneLoader ==
    ~doubleUnlock => /\ Cardinality({t \in Thread : at[t] = "loading"}) <= 1
                     /\ \A t \in Thread : at[t] = "loading" <=> mutex = t

(* Start-up ends: clients are served or renderd has given up. *)
StartupEnds == <>(main \in {"loop", "exited"})

(* Whenever renderd ends, in the middle of writing its statistics too, the *)
(* file that other programs read is never one that is still being written  *)
(* (stats_writeout_thread); only failed writes can cut it short.           *)
StatsFileWhole == stats_filename # "partial"
=============================================================================
