----------------------------- MODULE ProxyStore -----------------------------
(***************************************************************************)
(* The read-only stores: src/src/store_ro_http_proxy.c fetches tiles from  *)
(* another server and keeps the last one; src/src/store_ro_composite.c     *)
(* paints the tile of one store over that of another, here two proxies.    *)
(***************************************************************************)
EXTENDS Naturals, Sequences

CONSTANTS
    Tile,         \* coordinates
    Thread,       \* threads of Apache: each has its own contexts
    MaxVersion    \* bound on the versions of a tile on the other server

ASSUME ProxyStoreAssumption == <<>> \notin Tile /\ MaxVersion \in Nat

NoTile == [of |-> <<>>, ver |-> 0]
Part == {"primary", "secondary"}

VARIABLES
    upstream,   \* version of every tile on the server of each part; 0: it has none
    kept,       \* [key, tile] of every context: the cache of struct ro_http_proxy_ctx
    answer      \* [at, tile, got] of a tile_read of a thread

proxyVars == <<upstream, kept, answer>>

NoAnswer == [at |-> "idle", tile |-> <<>>, got |-> <<>>]

ProxyInit ==
    /\ upstream = [p \in Part |-> [t \in Tile |-> 0]]
    /\ kept = [x \in Thread \X Part |-> [key |-> <<>>, tile |-> NoTile]]
    /\ answer = [t \in Thread |-> NoAnswer]

(* The tile is drawn again, or removed. *)
Publish(p, t, v) ==
    /\ v # upstream[p][t]
    /\ upstream' = [upstream EXCEPT ![p][t] = v]
    /\ UNCHANGED <<kept, answer>>

-----------------------------------------------------------------------------
(* What ro_http_proxy_tile_retrieve leaves in the cache of a context when  *)
(* the request for the tile ends in this way.                              *)

(* Mutation: an unexpected response code is not told from the others. *)
RetrievedUnchecked(x, t, outcome) ==
    IF kept[x].key = t THEN kept[x]
    ELSE CASE outcome = "answer" -> [key |-> t, tile |-> [of |-> t, ver |-> upstream[x[2]][t]]]
           [] outcome = "unexpected code" -> [kept[x] EXCEPT !.key = t]
           [] outcome = "no response" -> [kept[x] EXCEPT !.key = <<>>]
           [] outcome = "no memory" -> kept[x]

Retrieved(x, t, outcome) ==
    IF kept[x].key = t THEN kept[x]
    ELSE CASE outcome = "answer" -> [key |-> t, tile |-> [of |-> t, ver |-> upstream[x[2]][t]]]
           [] outcome = "unexpected code" -> [kept[x] EXCEPT !.key = <<>>]
           [] outcome = "no response" -> [kept[x] EXCEPT !.key = <<>>]
           [] outcome = "no memory" -> kept[x]

Outcome == {"answer", "unexpected code", "no response", "no memory"}

ro_http_proxy_tile_retrieve(x, t, outcome) ==
    kept' = [kept EXCEPT ![x] = Retrieved(x, t, outcome)] /\ UNCHANGED upstream

(* tile_stat, of the primary store if there are two. *)
ro_http_proxy_tile_stat(th, t, outcome) ==
    /\ answer[th].at = "idle"
    /\ ro_http_proxy_tile_retrieve(<<th, "primary">>, t, outcome)
    /\ UNCHANGED answer

(* tile_read of one store: an error if the tile was not retrieved, does    *)
(* not exist or does not fit into the caller's buffer.                     *)
ReadFrom(th, p, t, outcome, from, then) ==
    LET new == Retrieved(<<th, p>>, t, outcome)
    IN  /\ answer[th].at = from
        /\ ro_http_proxy_tile_retrieve(<<th, p>>, t, outcome)
        /\ \E fits \in BOOLEAN : answer' = [answer EXCEPT ![th] =
               IF new.key # t \/ new.tile.ver = 0 \/ ~fits THEN NoAnswer
               ELSE [at |-> then, tile |-> t, got |-> Append(answer[th].got, new.tile)]]

ro_http_proxy_tile_read(th, t, outcome) ==
    ReadFrom(th, "primary", t, outcome, "idle", "returned")

(* The tile is not a PNG image: ro_composite_tile_read gives up. *)
DecodeFails(th) ==
    /\ answer[th].at \in {"secondary", "painting"}
    /\ answer' = [answer EXCEPT ![th] = NoAnswer]
    /\ UNCHANGED <<upstream, kept>>

Paint(th) ==
    /\ answer[th].at = "painting"
    /\ answer' = [answer EXCEPT ![th].at = "returned"]
    /\ UNCHANGED <<upstream, kept>>

ro_composite_tile_read(th, t, outcome) ==
    \/ ReadFrom(th, "primary", t, outcome, "idle", "secondary")
    \/ t = answer[th].tile /\ ReadFrom(th, "secondary", t, outcome, "secondary", "painting")
    \/ DecodeFails(th) \/ Paint(th)

Used(th) ==
    /\ answer[th].at = "returned"
    /\ answer' = [answer EXCEPT ![th] = NoAnswer]
    /\ UNCHANGED <<upstream, kept>>

-----------------------------------------------------------------------------
Upstream == \E p \in Part, t \in Tile, v \in 0..MaxVersion : Publish(p, t, v)

ProxyNext ==
    \/ Upstream
    \/ \E th \in Thread : \/ Used(th)
                          \/ \E t \in Tile, o \in Outcome : \/ ro_http_proxy_tile_read(th, t, o)
                                                            \/ ro_http_proxy_tile_stat(th, t, o)

CompositeNext ==
    \/ Upstream
    \/ \E th \in Thread : \/ Used(th)
                          \/ \E t \in Tile, o \in Outcome : \/ ro_composite_tile_read(th, t, o)
                                                            \/ ro_http_proxy_tile_stat(th, t, o)
-----------------------------------------------------------------------------
(* Properties *)

(* Whatever the other server answers in between, the cached tile of a      *)
(* context is the one of its cached coordinates, and a tile that is        *)
(* returned, or painted from two, exists and is of the coordinates asked   *)
(* for: an unexpected response must not leave "the previously cached tile" *)
(* to be "served for these coordinates".                                   *)
ProxiedTileIsAsked ==
    /\ \A x \in Thread \X Part : kept[x].key # <<>> => kept[x].tile.of = kept[x].key
    /\ \A th \in Thread : answer[th].at = "returned" =>
           \A i \in DOMAIN answer[th].got : /\ answer[th].got[i].of = answer[th].tile
                                            /\ answer[th].got[i].ver # 0
=============================================================================
