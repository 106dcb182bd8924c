---------------------------- MODULE RenderTools ----------------------------
(***************************************************************************)
(* What the tools visit: render_expired reads tiles that changed and       *)
(* climbs from each to the coarser zoom levels, render_list walks over     *)
(* ranges of tiles, render_old over the files of the store.  Each looks at *)
(* a metatile in the store and deletes it, touches it or asks renderd to   *)
(* render it (enqueue; what follows is module SubmitQueue).                *)
(***************************************************************************)
EXTENDS TilePaths, RenderdConfig, FiniteSets

CONSTANTS
    Line,        \* tiles <<z, x, y>> that may be on standard input
    MaxLines,    \* bound on their number
    Options,     \* command lines of the three programs, see MCRenderTools
    Clean,       \* sets of metatiles that may be in the store and up to date
    Tree         \* sets of files in the store, [name, z, hash, options, suffix, mtime,
                 \* tile]: the path, and the tile of a metatile, <<>> for any other file

NotPassed == -1

VARIABLES
    opt,         \* the command line; config is the file, <<>> for none
    maps,        \* the map sections of that file
    at,          \* where the program stands
    tile,        \* <<z, x, y>>: the tile it looks at
    range,       \* [x0, y0, x1, y1]: the loops of render_list
    requested,   \* tile_requested: metatiles render_expired has dealt with
    clean,       \* the metatiles render_list need not render
    files,       \* the files render_old has still to see
    frame,       \* mapname, z, x and y of descend, for each directory
    lines,       \* history: the tiles, or the files, read
    log          \* history: [meta, found, what] for every metatile looked at

toolVars == <<opt, maps, at, tile, range, requested, clean, files, frame, lines, log>>

Nowhere == <<0, 0, 0>>
NoRange == [x0 |-> 0, y0 |-> 0, x1 |-> 0, y1 |-> 0]

-----------------------------------------------------------------------------
(* The zoom levels: from the command line, else from the map's section, the*)
(* last of that name, if there is a configuration file, else the defaults. *)
Zooms(o, name) ==
    LET conf == IF maps = <<>> THEN [min_zoom |-> 0, max_zoom |-> MAX_ZOOM]
                ELSE maps[Max({i \in DOMAIN maps : maps[i].name = name})]
    IN  [min |-> IF o.min = NotPassed THEN conf.min_zoom ELSE o.min,
         max |-> IF o.max = NotPassed THEN conf.max_zoom ELSE o.max]

(* The command line alone is checked, before the file is read. *)
ZoomsRejected(o) ==
    LET min == IF o.min = NotPassed THEN 0 ELSE o.min
        max == IF o.max = NotPassed THEN MAX_ZOOM ELSE o.max
    IN  max < min

(* With a file, the map must have a section; render_old without a map is   *)
(* about all of them.                                                      *)
ConfigRejected(o, file) ==
    /\ o.config # <<>>
    /\ \/ file.exit
       \/ o.name # "" /\ \A i \in DOMAIN file.maps : file.maps[i].name # o.name

Look(z, x, y, found, what) ==
    log' = Append(log, [meta |-> MetaOf(z, x, y), found |-> found, what |-> what])

-----------------------------------------------------------------------------
(* render_expired *)

(* "excess_zoomlevels is how many zoom levels at the large end we can      *)
(* ignore because their tiles will share one metatile"                     *)
excess_zoomlevels == CHOOSE n \in 0..METATILE : 2^n = METATILE

ExpireZooms(o) ==
    LET given == Zooms(o, o.name)
    IN  [given EXCEPT !.min = IF given.min < excess_zoomlevels THEN excess_zoomlevels ELSE given.min]

(* Mutation: a set of tiles of all zoom levels. *)
tile_key_flat(z, x, y) == <<x, y>>

tile_key(z, x, y) == <<z, x, y>>

(* The key of the metatile a tile is in. *)
Key(t) == tile_key(t[1] - excess_zoomlevels, t[2] \div METATILE, t[3] \div METATILE)

(* Render threads are needed. *)
doRender(o) ==
    \/ o.touch_from # NotPassed /\ ExpireZooms(o).min < o.touch_from
    \/ o.delete_from # NotPassed /\ ExpireZooms(o).min < o.delete_from
    \/ o.touch_from = NotPassed /\ o.delete_from = NotPassed

(* What is done with a tile that exists. *)
Treatment(o, z) ==
    IF o.delete_from # NotPassed /\ z >= o.delete_from THEN "delete"
    ELSE IF o.touch_from # NotPassed /\ z >= o.touch_from THEN "touch"
    ELSE IF doRender(o) THEN "render" ELSE "nothing"

(* A tile of the finest zoom level: the one that contains this one, or the *)
(* first of those in it.                                                   *)
AtZoom(t, z) ==
    IF t[1] >= z THEN <<z, t[2] \div 2^(t[1] - z), t[3] \div 2^(t[1] - z)>>
                 ELSE <<z, t[2] * 2^(z - t[1]), t[3] * 2^(z - t[1])>>

Parent(t) == <<t[1] - 1, t[2] \div 2, t[3] \div 2>>

ReadLine ==
    /\ opt.tool = "render_expired" /\ at = "read"
    /\ Len(lines) < MaxLines
    /\ \E t \in Line : lines' = Append(lines, t) /\ tile' = AtZoom(t, ExpireZooms(opt).max)
    /\ at' = "climb"
    /\ UNCHANGED <<opt, maps, range, requested, clean, files, frame, log>>

(* The zoom levels are done, or this metatile and then all coarser ones    *)
(* were already looked at: on to the next line.                            *)
Leave ==
    /\ at = "climb"
    /\ tile[1] < ExpireZooms(opt).min \/ Key(tile) \in requested
    /\ at' = "read" /\ tile' = Nowhere
    /\ UNCHANGED <<opt, maps, range, requested, clean, files, frame, lines, log>>

Expire(found) ==
    /\ at = "climb" /\ tile[1] >= ExpireZooms(opt).min
    /\ Key(tile) \notin requested
    /\ requested' = requested \cup {Key(tile)}
    /\ Look(tile[1], tile[2], tile[3], found, IF found THEN Treatment(opt, tile[1]) ELSE "nothing")
    /\ tile' = Parent(tile)
    /\ UNCHANGED <<opt, maps, at, range, clean, files, frame, lines>>

render_expired == ReadLine \/ Leave \/ \E found \in BOOLEAN : Expire(found)
-----------------------------------------------------------------------------
(* render_list *)

(* Longitudes and latitudes as they lie on the map, in tiles of zoom level *)
(* MAX_ZOOM from the left and from the top; the right border is 2^MAX_ZOOM *)
lon2tilex(lon, z) == lon \div 2^(MAX_ZOOM - z)
lat2tiley(lat, z) == lat \div 2^(MAX_ZOOM - z)

Lower(a, b) == IF a < b THEN a ELSE b

LastTile(z) == 2^z - 1

Restricted(o) == \E v \in {o.x0, o.y0, o.x1, o.y1} : v # NotPassed

(* The command lines --all does not accept. *)
RangeRejected(o) ==
    LET z == Zooms(o, o.name)
        Above(v) == v # NotPassed /\ v > LastTile(z.min)
    IN  \/ o.box # {} /\ Restricted(o)
        \/ \E b \in o.box : b.south < b.north \/ b.east < b.west
        \/ Restricted(o) /\ z.min # z.max
        \/ o.x0 # NotPassed /\ o.x1 # NotPassed /\ o.x1 < o.x0
        \/ o.y0 # NotPassed /\ o.y1 # NotPassed /\ o.y1 < o.y0
        \/ z.min = z.max /\ \E v \in {o.x0, o.y0, o.x1, o.y1} : Above(v)

(* Mutation: the box begins where it begins. *)
RangeAtUnaligned(o, z) ==
    IF o.box = {}
    THEN [x0 |-> IF o.x0 = NotPassed THEN 0 ELSE o.x0, y0 |-> IF o.y0 = NotPassed THEN 0 ELSE o.y0,
          x1 |-> IF o.x1 = NotPassed THEN LastTile(z) ELSE o.x1,
          y1 |-> IF o.y1 = NotPassed THEN LastTile(z) ELSE o.y1]
    ELSE LET b == CHOOSE b \in o.box : TRUE
         IN  [x0 |-> lon2tilex(b.west, z), y0 |-> lat2tiley(b.north, z),
              x1 |-> Lower(lon2tilex(b.east, z), LastTile(z)),
              y1 |-> Lower(lat2tiley(b.south, z), LastTile(z))]

(* The loops at a zoom level: what was passed, or everything; or the tiles *)
(* of the box, from the corner of a metatile.                              *)
RangeAt(o, z) ==
    IF o.box = {}
    THEN [x0 |-> IF o.x0 = NotPassed THEN 0 ELSE o.x0, y0 |-> IF o.y0 = NotPassed THEN 0 ELSE o.y0,
          x1 |-> IF o.x1 = NotPassed THEN LastTile(z) ELSE o.x1,
          y1 |-> IF o.y1 = NotPassed THEN LastTile(z) ELSE o.y1]
    ELSE LET b == CHOOSE b \in o.box : TRUE
         IN  [x0 |-> Corner(lon2tilex(b.west, z)), y0 |-> Corner(lat2tiley(b.north, z)),
              x1 |-> Lower(lon2tilex(b.east, z), LastTile(z)),
              y1 |-> Lower(lat2tiley(b.south, z), LastTile(z))]

StartZoom(z) ==
    IF z > Zooms(opt, opt.name).max THEN at' = "done" /\ tile' = Nowhere /\ range' = NoRange
    ELSE LET r == RangeAt(opt, z)
         IN  at' = "visit" /\ range' = r /\ tile' = <<z, r.x0, r.y0>>

BeginAll ==
    /\ opt.tool = "render_list" /\ opt.all /\ at = "read"
    /\ StartZoom(Zooms(opt, opt.name).min)
    /\ UNCHANGED <<opt, maps, requested, clean, files, frame, lines, log>>

(* The tile is stat'ed, unless --force, and rendered if it is missing or   *)
(* expired.                                                                *)
RenderIfNeeded(z, x, y) ==
    LET found == MetaOf(z, x, y) \in clean
    IN  Look(z, x, y, found, IF opt.force \/ ~found THEN "render" ELSE "nothing")

Visit ==
    LET z == tile[1]  x == tile[2]  y == tile[3]
    IN  /\ at = "visit" /\ x <= range.x1 /\ y <= range.y1
        /\ RenderIfNeeded(z, x, y)
        /\ tile' = <<z, x, y + METATILE>>
        /\ UNCHANGED <<opt, maps, at, range, requested, clean, files, frame, lines>>

NextColumn ==
    /\ at = "visit" /\ tile[2] <= range.x1 /\ tile[3] > range.y1
    /\ tile' = <<tile[1], tile[2] + METATILE, range.y0>>
    /\ UNCHANGED <<opt, maps, at, range, requested, clean, files, frame, lines, log>>

NextZoom ==
    /\ at = "visit" /\ tile[2] > range.x1
    /\ StartZoom(tile[1] + 1)
    /\ UNCHANGED <<opt, maps, requested, clean, files, frame, lines, log>>

(* Without --all: the tiles on standard input, if their zoom is asked for. *)
ReadTile ==
    /\ opt.tool = "render_list" /\ ~opt.all /\ at = "read"
    /\ Len(lines) < MaxLines
    /\ \E t \in Line :
         /\ lines' = Append(lines, t)
         /\ IF Zooms(opt, opt.name).min <= t[1] /\ t[1] <= Zooms(opt, opt.name).max
            THEN RenderIfNeeded(t[1], t[2], t[3])
            ELSE UNCHANGED log
    /\ UNCHANGED <<opt, maps, at, tile, range, requested, clean, files, frame>>

render_list == BeginAll \/ Visit \/ NextColumn \/ NextZoom \/ ReadTile

-----------------------------------------------------------------------------
(* render_old *)

(* The maps render_old goes through. *)
Asked(name) == opt.name \in {"", name} /\ \E i \in DOMAIN maps : maps[i].name = name

(* Mutation: the last zoom level is left out. *)
InLayerBelow(f) ==
    Asked(f.name) /\ LET z == Zooms(opt, f.name) IN z.min <= f.z /\ f.z < z.max

(* render_layer opens the directories of the zoom levels of a map. *)
InLayer(f) ==
    Asked(f.name) /\ LET z == Zooms(opt, f.name) IN z.min <= f.z /\ f.z <= z.max

Dir(f) == <<f.name, f.z, SubSeq(f.hash, 1, Len(f.hash) - 1)>>

(* What is in a variable that was never assigned. *)
Garbage == -1
Unassigned == [name |-> "?", z |-> Garbage, x |-> Garbage, y |-> Garbage]

(* descend comes to a file; one that is gone by then is left out.  Only    *)
(* names that end in .meta count, not the temporary files next to them.    *)
(* What path_to_xyz returns is not looked at: after a path it cannot read, *)
(* the variables still have the values of an earlier file of the           *)
(* directory, or none.                                                     *)
descend(f, gone) ==
    /\ opt.tool = "render_old" /\ at = "read"
    /\ f \in files /\ files' = files \ {f}
    /\ lines' = IF gone THEN lines ELSE Append(lines, f)
    /\ IF InLayer(f) /\ ~gone /\ f.suffix = ".meta" /\ f.mtime < opt.planet
       THEN LET t == path_to_xyz(f, frame[Dir(f)], MAX_ZOOM).out
            IN  /\ frame' = [frame EXCEPT ![Dir(f)] = t]
                /\ log' = Append(log, [meta |-> <<t.z, t.x, t.y>>, found |-> t.name, what |-> "render"])
       ELSE UNCHANGED <<frame, log>>
    /\ UNCHANGED <<opt, maps, at, tile, range, requested, clean>>

render_old == \E f \in files, gone \in BOOLEAN : descend(f, gone)

-----------------------------------------------------------------------------
ToolInit ==
    /\ opt \in Options
    /\ LET file == process_config_file(opt.config, 0)
       IN  IF ZoomsRejected(opt) \/ ConfigRejected(opt, file)
           THEN maps = <<>> /\ at = "rejected"
           ELSE /\ maps = IF opt.config = <<>> THEN <<>> ELSE file.maps
                /\ at = IF opt.tool = "render_list" /\ opt.all /\ RangeRejected(opt) THEN "rejected" ELSE "read"
    /\ tile = Nowhere /\ range = NoRange
    /\ requested = {}
    /\ clean \in IF opt.tool = "render_list" THEN Clean ELSE {{}}
    /\ files \in IF opt.tool = "render_old" THEN Tree ELSE {{}}
    /\ frame = [d \in {Dir(f) : f \in files} |-> Unassigned]
    /\ lines = <<>> /\ log = <<>>

ToolNext == render_expired \/ render_list \/ render_old

ToolSpec == ToolInit /\ [][ToolNext]_toolVars
-----------------------------------------------------------------------------
(* Properties *)

(* render_expired leaves the climb from a line as soon as it meets a       *)
(* metatile it has seen.  Still, after every line, each metatile from the  *)
(* finest zoom level to the coarsest that contains a changed tile was      *)
(* looked at, exactly once, and if it exists it was deleted, touched or    *)
(* sent to renderd, never passed over because no threads were started.     *)
ExpiryComplete ==
    opt.tool = "render_expired" /\ at = "read" =>
        LET zooms == ExpireZooms(opt)
        IN  /\ \A i \in DOMAIN lines : \A z \in zooms.min..Lower(zooms.max, lines[i][1]) :
                 LET t == AtZoom(lines[i], z)
                 IN  Cardinality({j \in DOMAIN log : log[j].meta = MetaOf(t[1], t[2], t[3])}) = 1
            /\ \A j \in DOMAIN log : log[j].found <=> log[j].what # "nothing"

(* --all visits every tile of the range: each is in a metatile that was    *)
(* looked at, and that was sent to renderd if it is missing or expired.    *)
(* For a box this holds for all zoom levels; for a range given in tiles it *)
(* holds if the range begins at the corner of a metatile.                  *)
ListCovers ==
    at = "done" =>
        \A z \in Zooms(opt, opt.name).min..Zooms(opt, opt.name).max :
            LET box == CHOOSE b \in opt.box : TRUE
                r == IF opt.box = {} THEN RangeAt(opt, z)
                     ELSE [x0 |-> lon2tilex(box.west, z), x1 |-> lon2tilex(box.east, z),
                           y0 |-> lat2tiley(box.north, z), y1 |-> lat2tiley(box.south, z)]
            IN  opt.box # {} \/ (Corner(r.x0) = r.x0 /\ Corner(r.y0) = r.y0) =>
                \A x \in r.x0..Lower(r.x1, LastTile(z)), y \in r.y0..Lower(r.y1, LastTile(z)) :
                    \E j \in DOMAIN log : /\ log[j].meta = MetaOf(z, x, y)
                                          /\ MetaOf(z, x, y) \notin clean => log[j].what = "render"

(* render_old finds out what to render from the names of the files alone.  *)
(* It asks for every metatile, of the maps and zoom levels asked for,      *)
(* whose file is older than the planet import, and without stray files for *)
(* nothing else.  What it makes of a stray file, one that the store did    *)
(* not write or that is in the directory of a map with too long a name, is *)
(* the tile the numbers in its path give, or, if they give none, no more   *)
(* than that map and zoom with coordinates never assigned: the values that *)
(* an earlier file left in mapname, x, y and z never are those of another  *)
(* directory.                                                              *)
OldExact ==
    opt.tool = "render_old" =>
        LET old == {f \in {lines[i] : i \in DOMAIN lines} :
                      /\ f.suffix = ".meta" /\ f.mtime < opt.planet /\ Asked(f.name)
                      /\ f.z \in Zooms(opt, f.name).min..Zooms(opt, f.name).max}
            stray == {f \in old : f.tile = <<>> \/ f.name \in DOMAIN Cut}
            due == {[name |-> f.name, meta |-> MetaOf(f.z, f.tile[1], f.tile[2])] : f \in old \ stray}
            asked == {[name |-> log[j].found, meta |-> log[j].meta] : j \in DOMAIN log}
        IN  /\ due \subseteq asked
            /\ \A a \in asked \ due : \E f \in stray :
                 IF f.name \in DOMAIN Cut
                 THEN a.name = Cut[f.name] /\ a.meta = <<Garbage, Garbage, Garbage>>
                 ELSE /\ a.name = f.name
                      /\ a.meta = IF FiveNumbers(f.hash) /\ FiveBytes(f.hash)
                                  THEN <<f.z, HighJoined(f.hash), LowJoined(f.hash)>>
                                  ELSE <<f.z, Garbage, Garbage>>
=============================================================================
