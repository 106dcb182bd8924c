----------------------------- MODULE TilePaths -----------------------------
(***************************************************************************)
(* Which file a tile is in: src/src/store_file_utils.c.  "The two must     *)
(* both agree on the file layout for metatiling to work": mod_tile,        *)
(* renderd and the tools all go through xyzo_to_meta, and render_old comes *)
(* back from a path to a metatile through path_to_xyz.                     *)
(***************************************************************************)
EXTENDS Integers, Sequences

CONSTANTS
    METATILE,   \* tiles along a side of a metatile
    Cut         \* for the names of maps over 40 characters long, the first 40

ASSUME TilePathsAssumption == METATILE \in Nat \ {0}

(* The tile at (0,0) of the metatile: x &= ~mask. *)
Corner(n) == n - (n % METATILE)
MetaOf(z, x, y) == <<z, Corner(x), Corner(y)>>

(* The five lowest hexadecimal digits, the lowest first. *)
Nibbles(n) == <<n % 16, (n \div 16) % 16, ((n \div 16) \div 16) % 16,
                (((n \div 16) \div 16) \div 16) % 16, ((((n \div 16) \div 16) \div 16) \div 16) % 16>>

(* A digit of x and the same digit of y in one byte. *)
HashByte(nx, ny, i) == nx[i] * 16 + ny[i]

(* The directories from the zoom to the file, which is named after the     *)
(* last byte and the options.                                              *)
xyzo_to_meta(name, options, z, x, y) ==
    LET nx == Nibbles(Corner(x))
        ny == Nibbles(Corner(y))
    IN  [name |-> name, z |-> z, opt |-> options,
         hash |-> <<HashByte(nx, ny, 5), HashByte(nx, ny, 4), HashByte(nx, ny, 3),
                    HashByte(nx, ny, 2), HashByte(nx, ny, 1)>>]

(* The digits of the bytes put together again, the first byte first: the   *)
(* high digit of each for x, the low one for y.                            *)
Joined(d1, d2, d3, d4, d5) == (((d1 * 16 + d2) * 16 + d3) * 16 + d4) * 16 + d5
HighJoined(h) == Joined(h[1] \div 16, h[2] \div 16, h[3] \div 16, h[4] \div 16, h[5] \div 16)
LowJoined(h) == Joined(h[1] % 16, h[2] % 16, h[3] % 16, h[4] % 16, h[5] % 16)

(* Whether there is no such tile. *)
check_xyz(x, y, z, max_zoom) ==
    IF z \in 0..max_zoom /\ x \in 0..(2^z - 1) /\ y \in 0..(2^z - 1) THEN 0 ELSE 1

(* A part of a path that does not begin with a number. *)
NoNumber == -1

FiveNumbers(h) == Len(h) >= 5 /\ \A i \in 1..5 : h[i] # NoNumber
FiveBytes(h) == \A i \in 1..5 : h[i] \in 0..255

(* The map, the zoom level and what follows it in the path.  Where the     *)
(* path cannot be read the results are left as they were, all but those    *)
(* that sscanf has already stored.                                         *)
path_to_xyz(path, out, max_zoom) ==
    LET h == path.hash
        x == HighJoined(h)
        y == LowJoined(h)
    IN  IF path.name \in DOMAIN Cut
        THEN [ret |-> 1, out |-> [out EXCEPT !.name = Cut[path.name]]]
        ELSE IF FiveNumbers(h) /\ FiveBytes(h)
        THEN [ret |-> check_xyz(x, y, path.z, max_zoom),
              out |-> [name |-> path.name, z |-> path.z, x |-> x, y |-> y]]
        ELSE [ret |-> IF FiveNumbers(h) THEN 2 ELSE 1,
              out |-> [out EXCEPT !.name = path.name, !.z = path.z]]
=============================================================================
