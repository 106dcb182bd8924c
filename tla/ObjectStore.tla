---------------------------- MODULE ObjectStore ----------------------------
(***************************************************************************)
(* The stores that keep a metatile as one object of a remote service:      *)
(* src/src/store_memcached.c and src/src/store_rados.c.  An object is a    *)
(* struct stat_info followed by the metatile.  Every call to the service   *)
(* is atomic; an operation of a store makes one or two of them, and the    *)
(* other threads and processes make theirs in between.                     *)
(***************************************************************************)
EXTENDS Naturals, Sequences

CONSTANTS
    Meta,        \* metatiles of a map
    Opt, NoOpt,  \* the options a map is drawn with; NoOpt is the empty string
    Client,      \* contexts that read and stat tiles
    Marker,      \* contexts that mark metatiles as expired
    MaxWrites    \* bound on the number of metatiles written

ASSUME ObjectStoreAssumption == NoOpt \in Opt /\ MaxWrites \in Nat

Absent == [time |-> 0, expired |-> FALSE, data |-> 0]
None == <<>>

VARIABLES
    object,    \* [time, expired, data] under every key; time and data are
               \* the number of the write they come from, data 0 is "nothing
               \* after the stat_info", time 0 is "no such object"
    made,      \* history: the metatile and the options of every write
    newest,    \* history: the last write under every key
    cache,     \* [meta, opt, data, fresh] of a client: metadata_cache of struct
               \* rados_ctx; opt and fresh are history: the options it was read
               \* with, and whether the object is still the one it was read from
    reply,     \* [at, meta, opt, head, body, fits] of a tile_read of a client
    mark       \* [at, meta, copy] of a metatile_expire of a marker

objectVars == <<object, made, newest, cache, reply, mark>>

Key == Meta \X Opt
NoReply == [at |-> "idle", meta |-> None, opt |-> NoOpt, head |-> 0, body |-> 0, fits |-> FALSE]
Unmarked == [at |-> "idle", meta |-> None, copy |-> Absent]

ObjectInit ==
    /\ object = [k \in Key |-> Absent]
    /\ made = <<>>
    /\ newest = [k \in Key |-> 0]
    /\ cache = [c \in Client |-> [meta |-> None, opt |-> NoOpt, data |-> 0, fresh |-> FALSE]]
    /\ reply = [c \in Client |-> NoReply]
    /\ mark = [e \in Marker |-> Unmarked]

-----------------------------------------------------------------------------
(* What both have in common *)

(* The headers read from this object are of the past. *)
Stale(k) == [c \in Client |-> IF k = <<cache[c].meta, cache[c].opt>>
                              THEN [cache[c] EXCEPT !.fresh = FALSE] ELSE cache[c]]

(* A metatile drawn for these options is stored under the key: expired = 0 *)
(* and the time of day, then the metatile.                                 *)
Put(k, m, o) ==
    /\ Len(made) < MaxWrites
    /\ made' = Append(made, <<m, o>>)
    /\ object' = [object EXCEPT ![k] = [time |-> Len(made'), expired |-> FALSE, data |-> Len(made')]]
    /\ newest' = [newest EXCEPT ![k] = Len(made')]
    /\ cache' = Stale(k)
    /\ UNCHANGED <<reply, mark>>

Remove(k) ==
    /\ object[k] # Absent
    /\ object' = [object EXCEPT ![k] = Absent]
    /\ cache' = Stale(k)
    /\ UNCHANGED <<made, newest, reply, mark>>

(* The object, or its stat_info, is read in order to mark it. *)
Fetch(e, m) ==
    /\ mark[e].at = "idle" /\ object[<<m, NoOpt>>] # Absent
    /\ mark' = [mark EXCEPT ![e] = [at |-> "fetched", meta |-> m, copy |-> object[<<m, NoOpt>>]]]
    /\ UNCHANGED <<object, made, newest, cache, reply>>

(* Mutation: the flag is forgotten. *)
MarkedUnchanged(copy) == copy

Marked(copy) == [copy EXCEPT !.expired = TRUE]

StoreMark(e, new) ==
    /\ mark[e].at = "fetched"
    /\ object' = [object EXCEPT ![<<mark[e].meta, NoOpt>>] = new]
    /\ mark' = [mark EXCEPT ![e] = Unmarked]
    /\ UNCHANGED <<made, newest, cache, reply>>

(* The second call fails. *)
StoreFails(e) ==
    /\ mark[e].at = "fetched" /\ mark' = [mark EXCEPT ![e] = Unmarked]
    /\ UNCHANGED <<object, made, newest, cache, reply>>

Return(c, m, o, head, body, fits) ==
    reply' = [reply EXCEPT ![c] = [at |-> "returned", meta |-> m, opt |-> o,
                                   head |-> head, body |-> body, fits |-> fits]]

(* The caller has used the tile. *)
Taken(c) ==
    /\ reply[c].at = "returned" /\ reply' = [reply EXCEPT ![c] = NoReply]
    /\ UNCHANGED <<object, made, newest, cache, mark>>

-----------------------------------------------------------------------------
(* memcached *)

(* The options are not part of the key a metatile is written under. *)
memcached_metatile_write(m, o) == Put(<<m, NoOpt>>, m, o)

memcached_metatile_delete(m) == Remove(<<m, NoOpt>>)

(* memcached_replace stores the copy, whatever is there now, if anything   *)
(* is.                                                                     *)
memcached_metatile_expire(e) ==
    \/ \E m \in Meta : Fetch(e, m)
    \/ StoreFails(e)
    \/ LET k == <<mark[e].meta, NoOpt>>
       IN  /\ mark[e].at = "fetched"
           /\ StoreMark(e, IF object[k] = Absent THEN Absent ELSE Marked(mark[e].copy))

(* One memcached_get for header and tile. *)
memcached_tile_read(c, m, o) ==
    LET obj == object[<<m, o>>]
    IN  /\ reply[c].at = "idle" /\ obj # Absent
        /\ Return(c, m, o, obj.data, obj.data, TRUE)
        /\ UNCHANGED <<object, made, newest, cache, mark>>

MemcachedNext ==
    \/ \E m \in Meta, o \in Opt : memcached_metatile_write(m, o)
    \/ \E m \in Meta : memcached_metatile_delete(m)
    \/ \E e \in Marker : memcached_metatile_expire(e)
    \/ \E c \in Client : Taken(c) \/ \E m \in Meta, o \in Opt : memcached_tile_read(c, m, o)

-----------------------------------------------------------------------------
(* rados *)

(* Mutation: the coordinates are not compared. *)
CachedAny(c, m) == cache[c].meta # None

(* Neither the options nor the time are compared. *)
Cached(c, m) == cache[c].meta = m

(* The metadata_cache after read_meta_data; rados may fail.  If the object *)
(* is too short for a header the old bytes of the buffer stay.             *)
read_meta_data(c, m, o, fails) ==
    LET obj == object[<<m, o>>]
    IN  IF Cached(c, m) THEN cache[c]
        ELSE IF obj = Absent \/ fails THEN [cache[c] EXCEPT !.meta = None]
        ELSE [meta |-> m, opt |-> o, data |-> IF obj.data = 0 THEN cache[c].data ELSE obj.data,
              fresh |-> obj.data # 0]

rados_tile_stat(c, m, o, fails) ==
    /\ reply[c].at = "idle"
    /\ cache' = [cache EXCEPT ![c] = read_meta_data(c, m, o, fails)]
    /\ UNCHANGED <<object, made, newest, reply, mark>>

(* No header, or no magic in it: an error.  Otherwise the place of the     *)
(* tile is known.                                                          *)
LocateTile(c, m, o, fails) ==
    LET header == read_meta_data(c, m, o, fails)
    IN  /\ reply[c].at = "idle"
        /\ cache' = [cache EXCEPT ![c] = header]
        /\ reply' = IF header.meta = None \/ header.data = 0 THEN reply
                    ELSE [reply EXCEPT ![c] = [NoReply EXCEPT !.at = "located", !.meta = m, !.opt = o,
                                                              !.head = header.data]]
        /\ UNCHANGED <<object, made, newest, mark>>

(* What the object has there now; nothing is compared with the header. *)
ReadLocated(c, fails) ==
    LET r == reply[c]
        obj == object[<<r.meta, r.opt>>]
    IN  /\ r.at = "located"
        /\ IF obj = Absent \/ fails THEN reply' = [reply EXCEPT ![c] = NoReply]
           ELSE Return(c, r.meta, r.opt, r.head, obj.data, cache[c].fresh /\ cache[c].opt = r.opt)
        /\ UNCHANGED <<object, made, newest, cache, mark>>

rados_tile_read(c, fails) == (\E m \in Meta, o \in Opt : LocateTile(c, m, o, fails)) \/ ReadLocated(c, fails)

rados_metatile_write(m, o) == Put(<<m, o>>, m, o)

rados_metatile_delete(m) == Remove(<<m, NoOpt>>)

(* rados_write replaces the stat_info and nothing else, and creates the    *)
(* object if there is none.                                                *)
rados_metatile_expire(e) ==
    \/ \E m \in Meta : Fetch(e, m)
    \/ StoreFails(e)
    \/ /\ mark[e].at = "fetched"
       /\ StoreMark(e, [Marked(mark[e].copy) EXCEPT !.data = object[<<mark[e].meta, NoOpt>>].data])

RadosNext ==
    \/ \E m \in Meta, o \in Opt : rados_metatile_write(m, o)
    \/ \E m \in Meta : rados_metatile_delete(m)
    \/ \E e \in Marker : rados_metatile_expire(e)
    \/ \E c \in Client, fails \in BOOLEAN :
          Taken(c) \/ rados_tile_read(c, fails) \/ \E m \in Meta, o \in Opt : rados_tile_stat(c, m, o, fails)

-----------------------------------------------------------------------------
(* Properties *)

(* metatile_expire reads, changes and writes without a lock ("a            *)
(* compare-and-swap cannot be used here"), so it can undo a write that     *)
(* came in between.  What it then leaves is marked as expired: an object   *)
(* whose time or content is not that of the last write under its key will  *)
(* be rendered again, and a new metatile is never lost for good.           *)
LostUpdateIsMarked ==
    \A k \in Key : object[k] # Absent /\ ~object[k].expired
                     => object[k].time = newest[k] /\ object[k].data = newest[k]

(* A tile that tile_read returns is cut out of the metatile it was asked   *)
(* for, at the place the header of that very metatile gave.  For rados     *)
(* this is so unless the object was replaced or removed after the header   *)
(* was cached, or the header was cached for other options.                 *)
TileFitsHeader ==
    \A c \in Client : LET r == reply[c]
                      IN  r.at = "returned" /\ r.fits => /\ r.head = r.body
                                                         /\ made[r.head][1] = r.meta
=============================================================================
