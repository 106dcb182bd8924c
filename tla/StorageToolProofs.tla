------------------------- MODULE StorageToolProofs --------------------------
(***************************************************************************)
(* What is proved of the stores, for any number of processes, metatiles    *)
(* and writes: there is one file per metatile, files are read whole, a     *)
(* lost update is marked, and a tile is cut out of, or proxied for, the    *)
(* metatile or tile it was asked for.  Then, independently of the stores,  *)
(* of the job queue of the command line tools that work on them: the order *)
(* of the jobs, the end of the threads and the statistics.                 *)
(***************************************************************************)
EXTENDS TilePaths, Storage, SubmitQueue, TLAPS

-----------------------------------------------------------------------------
(* Paths.  The file layout is exact for all coordinates of twenty bits,    *)
(* the widest that zoom level 20 (MAX_ZOOM of the code) needs.             *)

Coordinate == {n \in Nat : n < 1048576}   \* 2^20

(* Taking off the last hexadecimal digit. *)
LEMMA LastDigit ==
    ASSUME NEW n \in Nat, NEW k \in Nat, n < k * 16
    PROVE  /\ n \div 16 \in Nat /\ n \div 16 < k
           /\ n % 16 \in 0..15
           /\ n = (n \div 16) * 16 + (n % 16)
PROOF
<1>1. n \div 16 \in Nat /\ n % 16 \in 0..15 /\ n = (n \div 16) * 16 + (n % 16)
  BY SMT
<1>2. ASSUME NEW a \in Nat, NEW d \in 0..15, n = a * 16 + d
      PROVE  a < k
  BY <1>2, SMT
<1> QED
  BY <1>1, <1>2, Zenon

(* A number is its five hexadecimal digits put together. *)
LEMMA JoinedNibbles ==
    ASSUME NEW n \in Coordinate
    PROVE  LET d == Nibbles(n)
           IN  /\ \A i \in 1..5 : d[i] \in 0..15
               /\ Joined(d[5], d[4], d[3], d[2], d[1]) = n
PROOF
<1> DEFINE a == n \div 16
           b == a \div 16
           c == b \div 16
           e == c \div 16
           f == e \div 16
<1> n \in Nat /\ n < 65536 * 16
  BY DEF Coordinate
<1>1. n % 16 \in 0..15 /\ n = a * 16 + (n % 16) /\ a \in Nat /\ a < 4096 * 16
  BY LastDigit
<1>2. a % 16 \in 0..15 /\ a = b * 16 + (a % 16) /\ b \in Nat /\ b < 256 * 16
  BY <1>1, LastDigit
<1>3. b % 16 \in 0..15 /\ b = c * 16 + (b % 16) /\ c \in Nat /\ c < 16 * 16
  BY <1>2, LastDigit
<1>4. c % 16 \in 0..15 /\ c = e * 16 + (c % 16) /\ e \in Nat /\ e < 1 * 16
  BY <1>3, LastDigit
<1>5. e % 16 \in 0..15 /\ e = f * 16 + (e % 16) /\ f \in Nat /\ f < 1
  BY <1>4, LastDigit
<1>6. e % 16 = e
  BY <1>4, <1>5, SMT
<1>7. Nibbles(n) = <<n % 16, a % 16, b % 16, c % 16, e % 16>>
  BY DEF Nibbles
<1> HIDE DEF a, b, c, e, f
<1>8. Joined(e % 16, c % 16, b % 16, a % 16, n % 16) = n
  BY <1>1, <1>2, <1>3, <1>4, <1>6, SMT DEF Joined
<1> QED
  BY <1>1, <1>2, <1>3, <1>4, <1>5, <1>7, <1>8, SMT

(* A byte made of two digits is taken apart into the same two digits. *)
LEMMA ByteDigits ==
    ASSUME NEW p \in 0..15, NEW q \in 0..15
    PROVE  (p * 16 + q) \div 16 = p /\ (p * 16 + q) % 16 = q
PROOF
  BY SMT

(* The corner of a metatile is a coordinate again, not beyond the tile. *)
LEMMA CornerCoordinate ==
    ASSUME NEW n \in Coordinate
    PROVE  Corner(n) \in Coordinate /\ Corner(n) <= n
PROOF
<1>1. METATILE \in Nat /\ METATILE > 0
  BY TilePathsAssumption
<1>2. n % METATILE \in Nat /\ n % METATILE <= n
  BY <1>1, SMT DEF Coordinate
<1> QED
  BY <1>2, SMT DEF Corner, Coordinate

(* The bytes of the path xyzo_to_meta makes hold the corner.               *)
LEMMA CornerFromHash ==
    ASSUME NEW name, NEW options, NEW z, NEW x \in Coordinate, NEW y \in Coordinate,
           NEW path, path = xyzo_to_meta(name, options, z, x, y)
    PROVE  /\ path.name = name /\ path.z = z /\ path.opt = options
           /\ FiveNumbers(path.hash) /\ FiveBytes(path.hash)
           /\ HighJoined(path.hash) = Corner(x) /\ LowJoined(path.hash) = Corner(y)
PROOF
<1> DEFINE nx == Nibbles(Corner(x))
           ny == Nibbles(Corner(y))
           hash == <<HashByte(nx, ny, 5), HashByte(nx, ny, 4), HashByte(nx, ny, 3),
                     HashByte(nx, ny, 2), HashByte(nx, ny, 1)>>
<1>1. /\ \A i \in 1..5 : nx[i] \in 0..15
      /\ Joined(nx[5], nx[4], nx[3], nx[2], nx[1]) = Corner(x)
  BY CornerCoordinate, JoinedNibbles
<1>2. /\ \A i \in 1..5 : ny[i] \in 0..15
      /\ Joined(ny[5], ny[4], ny[3], ny[2], ny[1]) = Corner(y)
  BY CornerCoordinate, JoinedNibbles, SMTT(40)
<1> HIDE DEF nx, ny
<1>3. \A i \in 1..5 : /\ HashByte(nx, ny, i) \div 16 = nx[i] /\ HashByte(nx, ny, i) % 16 = ny[i]
                      /\ HashByte(nx, ny, i) \in 0..255
  BY <1>1, <1>2, ByteDigits, SMTT(40) DEF HashByte
<1>4. HighJoined(hash) = Corner(x)
  BY <1>1, <1>3, SMTT(40) DEF HighJoined
<1>5. LowJoined(hash) = Corner(y)
  BY <1>2, <1>3, SMTT(40) DEF LowJoined
<1>6. FiveNumbers(hash) /\ FiveBytes(hash)
  <2>1. Len(hash) = 5 /\ \A i \in 1..5 : hash[i] \in 0..255
    BY <1>3
  <2> QED
    BY <2>1, SMTT(40) DEF FiveNumbers, FiveBytes, NoNumber
<1>7. path = [name |-> name, z |-> z, opt |-> options, hash |-> hash]
  BY DEF xyzo_to_meta, nx, ny
<1> HIDE DEF hash
<1> QED
  BY <1>4, <1>5, <1>6, <1>7

(* What path_to_xyz reads from the path xyzo_to_meta made is the metatile  *)
(* of the tile, whatever its results were before, and it returns 0: every  *)
(* tile of a metatile leads to its one file, and the file back to the      *)
(* metatile.  It takes a map whose name is not too long, and a zoom level  *)
(* and a tile that exist.                                                  *)
THEOREM PathRoundTrip ==
    ASSUME NEW name, name \notin DOMAIN Cut, NEW options, NEW out,
           NEW max_zoom \in Nat, NEW z \in 0..max_zoom,
           NEW x \in Coordinate, NEW y \in Coordinate, x \in 0..(2^z - 1), y \in 0..(2^z - 1)
    PROVE  path_to_xyz(xyzo_to_meta(name, options, z, x, y), out, max_zoom)
             = [ret |-> 0, out |-> [name |-> name, z |-> z, x |-> Corner(x), y |-> Corner(y)]]
PROOF
<1>1. PICK path : path = xyzo_to_meta(name, options, z, x, y)
  BY Zenon
<1>2. /\ path.name = name /\ path.z = z /\ FiveNumbers(path.hash) /\ FiveBytes(path.hash)
      /\ HighJoined(path.hash) = Corner(x) /\ LowJoined(path.hash) = Corner(y)
  BY <1>1, CornerFromHash
<1>3. PICK limit : limit = 2^z - 1
  BY Zenon
<1>4. Corner(x) \in 0..limit /\ Corner(y) \in 0..limit
  <2>1. Corner(x) \in Nat /\ Corner(x) <= x /\ Corner(y) \in Nat /\ Corner(y) <= y
    BY CornerCoordinate DEF Coordinate
  <2> QED
    BY <1>3, <2>1 DEF Coordinate
<1>5. check_xyz(Corner(x), Corner(y), z, max_zoom) = 0
  BY <1>3, <1>4, Zenon DEF check_xyz
<1> QED
  BY <1>1, <1>2, <1>5, Zenon DEF path_to_xyz

(* Two tiles are in the same file exactly if they are in the same          *)
(* metatile of the same map, drawn with the same options: mod_tile never   *)
(* reads, and no tool ever touches or deletes, the file of another         *)
(* metatile.                                                               *)
THEOREM OneFilePerMetatile ==
    ASSUME NEW name1, NEW options1, NEW z1, NEW x1 \in Coordinate, NEW y1 \in Coordinate,
           NEW name2, NEW options2, NEW z2, NEW x2 \in Coordinate, NEW y2 \in Coordinate
    PROVE  xyzo_to_meta(name1, options1, z1, x1, y1) = xyzo_to_meta(name2, options2, z2, x2, y2)
             <=> /\ name1 = name2 /\ options1 = options2
                 /\ MetaOf(z1, x1, y1) = MetaOf(z2, x2, y2)
PROOF
<1>1. ASSUME xyzo_to_meta(name1, options1, z1, x1, y1) = xyzo_to_meta(name2, options2, z2, x2, y2)
      PROVE  name1 = name2 /\ options1 = options2 /\ MetaOf(z1, x1, y1) = MetaOf(z2, x2, y2)
  <2>1. PICK path : path = xyzo_to_meta(name1, options1, z1, x1, y1)
    BY Zenon
  <2>2. /\ path.name = name1 /\ path.z = z1 /\ path.opt = options1
        /\ HighJoined(path.hash) = Corner(x1) /\ LowJoined(path.hash) = Corner(y1)
    BY <2>1, CornerFromHash
  <2>3. /\ path.name = name2 /\ path.z = z2 /\ path.opt = options2
        /\ HighJoined(path.hash) = Corner(x2) /\ LowJoined(path.hash) = Corner(y2)
    BY <1>1, <2>1, CornerFromHash
  <2> QED
    BY <2>2, <2>3, Zenon DEF MetaOf
<1>2. ASSUME name1 = name2, options1 = options2, MetaOf(z1, x1, y1) = MetaOf(z2, x2, y2)
      PROVE  xyzo_to_meta(name1, options1, z1, x1, y1) = xyzo_to_meta(name2, options2, z2, x2, y2)
  BY <1>2 DEF MetaOf, xyzo_to_meta
<1> QED
  BY <1>1, <1>2

-----------------------------------------------------------------------------
(* Files *)

Link == Inode \cup {NoFile}

FileTypes ==
    /\ files \in Nat /\ files <= MaxFiles
    /\ inode \in [Inode -> [size : {0, Half, Whole}, ver : Nat, mtime : Int, born : Int]]
    /\ now \in Int
    /\ meta \in Link
    /\ tmp \in [Writer -> Link]
    /\ save \in [Writer -> {"idle", "opened", "half", "written"}]
    /\ rd \in [Reader -> [at : {"idle", "header", "tile", "returned"}, fd : Link, head : Nat, body : Nat,
                          len : {0, Half, Whole}]]
    /\ touch \in [Expirer -> [at : {"idle", "stat"}, mtime : Int]]

(* A file has no name and no reader before it is created. *)
Created ==
    /\ meta <= files
    /\ \A w \in Writer : tmp[w] <= files
    /\ \A r \in Reader : rd[r].fd <= files

Reading(r) == rd[r].at \in {"header", "tile"}

(* A temporary file is the business of its writer alone. *)
TmpPrivate ==
    /\ \A w \in Writer : tmp[w] # NoFile =>
          /\ tmp[w] # meta
          /\ \A v \in Writer : v # w => tmp[v] # tmp[w]
          /\ \A r \in Reader : Reading(r) => rd[r].fd # tmp[w]
    /\ \A w \in Writer : save[w] # "idle" => tmp[w] # NoFile
    /\ \A w \in Writer : save[w] = "written" => inode[tmp[w]].size = Whole

(* What has, or had, the name of the metatile is whole. *)
PublishedWhole ==
    /\ meta # NoFile => inode[meta].size = Whole
    /\ \A r \in Reader : Reading(r) => rd[r].fd # NoFile /\ inode[rd[r].fd].size = Whole
    /\ \A r \in Reader : rd[r].at = "tile" => rd[r].head = inode[rd[r].fd].ver

FileInv == FileTypes /\ Created /\ TmpPrivate /\ PublishedWhole /\ ReadIsWhole

(* The store is empty at first. *)
LEMMA FileInitInv == FileInit => FileInv
PROOF
  BY FileStoreAssumption, SMT
  DEF FileInit, Unread, HasRead, FileInv, FileTypes, Created, TmpPrivate, PublishedWhole, ReadIsWhole, Reading,
      Link, Inode, NoFile, Half, Whole

(* Opening the temporary file truncates a file that nobody else has.       *)
LEMMA OpenTmpKeepsInv == ASSUME FileInv, NEW w \in Writer, OpenTmp(w) PROVE FileInv'
PROOF
<1> DEFINE i == IF tmp[w] = NoFile THEN files + 1 ELSE tmp[w]
<1> USE DEF FileInv
<1>1. /\ files' = files + 1 /\ files < MaxFiles
      /\ inode' = [inode EXCEPT ![i] = [size |-> 0, ver |-> files', mtime |-> now, born |-> now]]
      /\ tmp' = [tmp EXCEPT ![w] = i]
      /\ save[w] = "idle" /\ save' = [save EXCEPT ![w] = "opened"]
      /\ UNCHANGED <<now, meta, rd, touch>>
  BY Zenon DEF OpenTmp, At, history
<1>2. tmp[w] # NoFile => i = tmp[w] /\ i \in Inode
  BY Zenon DEF FileTypes, Link
<1>3. tmp[w] = NoFile => i = files + 1 /\ i \in Inode
  BY <1>1, FileStoreAssumption, SMT DEF FileTypes, Inode
<1> HIDE DEF i
<1>4. i \in Inode /\ i # NoFile /\ i <= files'
  BY <1>1, <1>2, <1>3, FileStoreAssumption, SMTT(40) DEF FileTypes, Inode, NoFile, Created
<1>5. i # meta
  BY <1>2, <1>3, FileStoreAssumption, SMT DEF FileTypes, Inode, NoFile, Created, TmpPrivate, Link
<1>6. \A v \in Writer : v # w => tmp[v] # i
  BY <1>2, <1>3, FileStoreAssumption, SMT DEF FileTypes, Inode, NoFile, Created, TmpPrivate, Link
<1>7. \A r \in Reader : Reading(r) => rd[r].fd # i
  BY <1>2, <1>3, FileStoreAssumption, SMT DEF FileTypes, Inode, NoFile, Created, TmpPrivate, Link
<1>8. FileTypes'
  BY <1>1, <1>4, FileStoreAssumption, SMT DEF FileTypes, Link, Half, Whole
<1>9. Created'
  <2>1. /\ meta \in Nat /\ files \in Nat /\ i \in Nat
        /\ \A v \in Writer : tmp[v] \in Nat
        /\ \A r \in Reader : rd[r].fd \in Nat
    BY <1>4, FileStoreAssumption, SMTT(40) DEF FileTypes, Link, Inode, NoFile
  <2>2. \A v \in Writer : tmp'[v] = tmp[v] \/ tmp'[v] = i
    BY <1>1, Zenon DEF FileTypes
  <2> QED
    BY <1>1, <1>4, <2>1, <2>2, SMT DEF Created
<1>10. TmpPrivate'
  BY <1>1, <1>4, <1>5, <1>6, <1>7, SMT DEF TmpPrivate, FileTypes, Reading
<1>11. PublishedWhole'
  BY <1>1, <1>4, <1>5, <1>7, Zenon DEF PublishedWhole, FileTypes, Reading, Link
<1>12. ReadIsWhole'
  BY <1>1, Zenon DEF ReadIsWhole
<1> QED
  BY <1>8, <1>9, <1>10, <1>11, <1>12, Zenon

(* Bytes go to the temporary file of the writer. *)
LEMMA FillKeepsInv ==
    ASSUME FileInv, NEW w \in Writer, WriteHeader(w) \/ WriteTiles(w) PROVE FileInv'
PROOF
<1> USE DEF FileInv
<1>1. PICK size \in {Half, Whole} :
        /\ save[w] \in {"opened", "half"} /\ Fill(w, size)
        /\ \/ save' = [save EXCEPT ![w] = "half"]
           \/ save' = [save EXCEPT ![w] = "written"] /\ size = Whole
  BY Zenon DEF WriteHeader, WriteTiles, At
<1> DEFINE i == tmp[w]
<1>2. UNCHANGED <<now, files, meta, tmp, rd, touch>>
  BY <1>1, Zenon DEF Fill
<1>3. i \in Inode /\ i # NoFile
  BY <1>1, ZenonT(60) DEF TmpPrivate, FileTypes, Link
<1>4. /\ i # meta
      /\ \A v \in Writer : v # w => tmp[v] # i
      /\ \A r \in Reader : Reading(r) => rd[r].fd # i
  BY <1>3, Zenon DEF TmpPrivate
<1>5. /\ inode' \in [Inode -> [size : {0, Half, Whole}, ver : Nat, mtime : Int, born : Int]]
      /\ inode'[i].size = size
      /\ \A j \in Inode : j # i => inode'[j] = inode[j]
  <2>1. inode[i].ver \in Nat /\ now \in Int
    BY <1>3, Zenon DEF FileTypes
  <2> QED
    BY <1>1, <1>3, <2>1, Zenon DEF Fill, FileTypes
<1>6. FileTypes'
  <2>1. save' \in [Writer -> {"idle", "opened", "half", "written"}]
    BY <1>1 DEF FileTypes
  <2> QED
    BY <1>2, <1>5, <2>1, Zenon DEF FileTypes
<1>7. Created'
  BY <1>2, Zenon DEF Created
<1>8. TmpPrivate'
  <2>1. \A v \in Writer : save'[v] # "idle" => tmp'[v] # NoFile
    BY <1>1, <1>2, <1>3, ZenonT(60) DEF TmpPrivate, FileTypes
  <2>2. \A v \in Writer : save'[v] = "written" => inode'[tmp'[v]].size = Whole
    BY <1>1, <1>2, <1>3, <1>4, <1>5, SMT DEF TmpPrivate, FileTypes, Link
  <2> QED
    BY <1>2, <2>1, <2>2, Zenon DEF TmpPrivate, Reading
<1>9. PublishedWhole'
  BY <1>2, <1>4, <1>5, SMT DEF PublishedWhole, FileTypes, Link, Reading
<1>10. ReadIsWhole'
  BY <1>2, Zenon DEF ReadIsWhole
<1> QED
  BY <1>6, <1>7, <1>8, <1>9, <1>10, Zenon

(* A write fails, or all of them die: the files stay as they are. *)
LEMMA GivingUpKeepsInv ==
    ASSUME FileInv, Crash \/ \E w \in Writer : WriteFails(w) PROVE FileInv'
PROOF
<1> USE DEF FileInv
<1>1. /\ UNCHANGED <<now, files, inode, meta, tmp, rd, touch>>
      /\ save' \in [Writer -> {"idle", "opened", "half", "written"}]
      /\ \A v \in Writer : save'[v] \in {save[v], "idle"}
  BY ZenonT(60) DEF Crash, WriteFails, At, fsVars, FileTypes
<1>2. FileTypes' /\ Created' /\ ReadIsWhole'
  BY <1>1, Zenon DEF FileTypes, Created, ReadIsWhole
<1>3. TmpPrivate'
  BY <1>1, Zenon DEF TmpPrivate, Reading
<1>4. PublishedWhole'
  BY <1>1, Zenon DEF PublishedWhole, Reading
<1> QED
  BY <1>2, <1>3, <1>4, Zenon

(* rename moves a complete file to the name of the metatile; when it fails *)
(* the file is gone.                                                       *)
LEMMA RenameKeepsInv ==
    ASSUME FileInv, NEW w \in Writer, Rename(w) \/ RenameFails(w) PROVE FileInv'
PROOF
<1> USE DEF FileInv
<1>1. /\ save[w] = "written" /\ save' = [save EXCEPT ![w] = "idle"]
      /\ tmp' = [tmp EXCEPT ![w] = NoFile]
      /\ meta' \in {meta, tmp[w]}
      /\ UNCHANGED <<now, files, inode, rd, touch>>
  BY Zenon DEF Rename, RenameFails, At
<1>2. tmp[w] # NoFile /\ inode[tmp[w]].size = Whole
  BY <1>1, Zenon DEF TmpPrivate
<1>3. FileTypes'
  BY <1>1, SMT DEF FileTypes, Link
<1>4. Created'
  <2>1. files \in Nat /\ NoFile <= files
    BY SMT DEF FileTypes, NoFile
  <2> QED
    BY <1>1, <2>1, Zenon DEF Created, FileTypes
<1>5. TmpPrivate'
  BY <1>1, <1>2, SMT DEF TmpPrivate, Reading, FileTypes
<1>6. PublishedWhole' /\ ReadIsWhole'
  BY <1>1, <1>2, Zenon DEF PublishedWhole, ReadIsWhole, Reading
<1> QED
  BY <1>3, <1>4, <1>5, <1>6, Zenon

(* A reader keeps to the file it has opened. *)
LEMMA ReadKeepsInv == ASSUME FileInv, NEW r \in Reader, file_tile_read(r) PROVE FileInv'
PROOF
<1> USE DEF FileInv
<1> DEFINE R == [at : {"idle", "header", "tile", "returned"}, fd : Link, head : Nat, body : Nat,
                 len : {0, Half, Whole}]
           Good(x) == /\ x \in R /\ x.fd <= files
                      /\ x.at \in {"header", "tile"} =>
                            /\ x.fd # NoFile /\ inode[x.fd].size = Whole
                            /\ \A w \in Writer : tmp[w] # NoFile => x.fd # tmp[w]
                      /\ x.at = "tile" => x.head = inode[x.fd].ver
                      /\ x.at = "returned" => x.head = x.body /\ x.len = Whole
<1>1. Good(Unread)
  BY FileStoreAssumption, SMT DEF Unread, HasRead, Link, NoFile, FileTypes, Half, Whole
<1>2. ASSUME NEW from, NEW new, ReadStep(r, from, new), Good(new) PROVE FileInv'
  <2>1. /\ UNCHANGED <<now, inode, files, meta, tmp, save, touch>>
        /\ rd' = [rd EXCEPT ![r] = new]
    BY <1>2, Zenon DEF ReadStep, fsVars
  <2>2. FileTypes'
    BY <1>2, <2>1, Zenon DEF FileTypes
  <2>3. Created'
    BY <1>2, <2>1, Zenon DEF Created, FileTypes
  <2>4. TmpPrivate'
    BY <1>2, <2>1, ZenonT(60) DEF TmpPrivate, Reading, FileTypes
  <2>5. PublishedWhole' /\ ReadIsWhole'
    BY <1>2, <2>1, SMT DEF PublishedWhole, ReadIsWhole, Reading, FileTypes
  <2> QED
    BY <2>2, <2>3, <2>4, <2>5, Zenon
<1>3. CASE OpenMeta(r)
  <2> DEFINE new == HasRead("header", meta, 0, 0, 0)
  <2>1. Good(new)
    BY <1>3, Zenon DEF HasRead, OpenMeta, FileTypes, Created, TmpPrivate, PublishedWhole
  <2> QED
    BY <1>2, <1>3, <2>1, Zenon DEF OpenMeta
<1>4. CASE ReadHeader(r)
  <2> DEFINE new == HasRead("tile", rd[r].fd, inode[rd[r].fd].ver, 0, 0)
  <2>1. rd[r].at = "header" /\ rd[r] \in R
    BY <1>4, Zenon DEF ReadHeader, ReadStep, FileTypes
  <2>2. /\ rd[r].fd \in Inode /\ inode[rd[r].fd].ver \in Nat /\ inode[rd[r].fd].size = Whole
        /\ rd[r].fd # NoFile /\ rd[r].fd <= files
        /\ \A w \in Writer : tmp[w] # NoFile => rd[r].fd # tmp[w]
    BY <2>1, Zenon DEF FileTypes, PublishedWhole, TmpPrivate, Created, Reading, Link
  <2>3. new \in R /\ new.at = "tile" /\ new.fd = rd[r].fd /\ new.head = inode[new.fd].ver
    BY <2>1, <2>2, Zenon DEF HasRead
  <2>4. Good(new)
    BY <2>2, <2>3, ZenonT(60)
  <2>5. ReadStep(r, "header", new)
    BY <1>4, <2>2, SMTT(40) DEF ReadHeader, Half, Whole
  <2> QED
    BY <1>2, <2>4, <2>5, Zenon
<1>5. CASE ReadTile(r)
  <2> DEFINE new == HasRead("returned", rd[r].fd, rd[r].head, inode[rd[r].fd].ver, inode[rd[r].fd].size)
  <2>1. rd[r].at = "tile" /\ rd[r] \in R
    BY <1>5, Zenon DEF ReadTile, ReadStep, FileTypes
  <2>2. /\ rd[r].fd \in Inode /\ inode[rd[r].fd].ver \in Nat /\ inode[rd[r].fd].size = Whole
        /\ rd[r].fd <= files /\ rd[r].head = inode[rd[r].fd].ver
    BY <2>1, Zenon DEF FileTypes, PublishedWhole, Created, Reading, Link
  <2>3. new \in R /\ new.at = "returned" /\ new.fd = rd[r].fd /\ new.head = new.body /\ new.len = Whole
    BY <2>1, <2>2, Zenon DEF HasRead
  <2>4. Good(new)
    BY <2>2, <2>3, ZenonT(60)
  <2> QED
    BY <1>2, <1>5, <2>4, Zenon DEF ReadTile
<1>6. CASE Reread(r)
  BY <1>1, <1>2, <1>6, Zenon DEF Reread
<1> QED
  BY <1>3, <1>4, <1>5, <1>6, Zenon DEF file_tile_read

(* Setting the time of a file, or removing its name, leaves its content. *)
LEMMA OtherFileStepsKeepInv ==
    ASSUME FileInv,
           file_metatile_delete \/ NewYear \/ NewPlanet \/ \E e \in Expirer : file_metatile_expire(e)
    PROVE  FileInv'
PROOF
<1> USE DEF FileInv
<1> DEFINE I == [size : {0, Half, Whole}, ver : Nat, mtime : Int, born : Int]
<1>1. /\ UNCHANGED <<files, tmp, save, rd>>
      /\ meta' \in {meta, NoFile} /\ now' \in Int
      /\ touch' \in [Expirer -> [at : {"idle", "stat"}, mtime : Int]]
      /\ inode' \in [Inode -> I]
      /\ \A i \in Inode : inode'[i].size = inode[i].size /\ inode'[i].ver = inode[i].ver
  <2>1. CASE file_metatile_delete
    BY <2>1, Zenon DEF file_metatile_delete, FileTypes
  <2>2. CASE NewYear \/ NewPlanet
    BY <2>2, SMT DEF NewYear, NewPlanet, fsVars, FileTypes
  <2>3. ASSUME NEW e \in Expirer, StatMeta(e)
        PROVE  /\ UNCHANGED <<files, tmp, save, rd, inode, meta, now>>
               /\ touch' \in [Expirer -> [at : {"idle", "stat"}, mtime : Int]]
    BY <2>3, Zenon DEF StatMeta, fsVars, FileTypes, Link
  <2>4. ASSUME NEW e \in Expirer, Touch(e)
        PROVE  /\ UNCHANGED <<files, tmp, save, rd, meta, now>>
               /\ touch' \in [Expirer -> [at : {"idle", "stat"}, mtime : Int]]
               /\ inode' \in [Inode -> I]
               /\ \A i \in Inode : inode'[i].size = inode[i].size /\ inode'[i].ver = inode[i].ver
    <3>1. /\ UNCHANGED <<files, tmp, save, rd, meta, now>>
          /\ touch' \in [Expirer -> [at : {"idle", "stat"}, mtime : Int]]
      BY <2>4, SMT DEF Touch, FileTypes
    <3>2. CASE inode' = inode
      BY <3>1, <3>2, Zenon DEF FileTypes
    <3>3. ASSUME meta # NoFile, NEW d \in Shift, inode' = [inode EXCEPT ![meta].mtime = TouchTime(touch[e].mtime, d)]
          PROVE  /\ inode' \in [Inode -> I]
                 /\ \A i \in Inode : inode'[i].size = inode[i].size /\ inode'[i].ver = inode[i].ver
      <4>1. PICK t \in Int : t = TouchTime(touch[e].mtime, d)
        BY FileStoreAssumption, SMT DEF TouchTime, FileTypes
      <4>2. meta \in Inode /\ inode' = [inode EXCEPT ![meta].mtime = t]
        BY <3>3, <4>1, Zenon DEF FileTypes, Link
      <4> QED
        BY <4>2, SMTT(40) DEF FileTypes
    <3> QED
      BY <2>4, <3>1, <3>2, <3>3, Zenon DEF Touch
  <2> QED
    BY <2>1, <2>2, <2>3, <2>4, Zenon DEF file_metatile_expire, FileTypes
<1>2. FileTypes'
  BY <1>1, Zenon DEF FileTypes, Link
<1>3. Created' /\ ReadIsWhole'
  <2>1. NoFile <= files
    BY SMT DEF NoFile, FileTypes
  <2> QED
    BY <1>1, <2>1, Zenon DEF Created, ReadIsWhole
<1>4. TmpPrivate'
  BY <1>1, SMT DEF TmpPrivate, Reading, FileTypes, Link
<1>5. PublishedWhole'
  BY <1>1, SMT DEF PublishedWhole, Reading, FileTypes, Link
<1> QED
  BY <1>2, <1>3, <1>4, <1>5, Zenon

(* Every step of the file store keeps the invariant. *)
LEMMA FileStepKeepsInv == FileInv /\ FileNext => FileInv'
PROOF
  BY OpenTmpKeepsInv, FillKeepsInv, GivingUpKeepsInv, RenameKeepsInv, ReadKeepsInv, OtherFileStepsKeepInv, Zenon
  DEF FileNext, file_metatile_write

-----------------------------------------------------------------------------
(* Objects *)

Object == [time : Nat, expired : BOOLEAN, data : Nat]
MetaOrNone == Meta \cup {None}

ObjectTypes ==
    /\ object \in [Key -> Object]
    /\ made \in Seq(Meta \X Opt)
    /\ newest \in [Key -> Nat]
    /\ cache \in [Client -> [meta : MetaOrNone, opt : Opt, data : Nat, fresh : BOOLEAN]]
    /\ reply \in [Client -> [at : {"idle", "located", "returned"}, meta : MetaOrNone, opt : Opt,
                             head : Nat, body : Nat, fits : BOOLEAN]]
    /\ mark \in [Marker -> [at : {"idle", "fetched"}, meta : MetaOrNone, copy : Object]]

(* Write number d was one of metatile m. *)
IsOf(d, m) == d \in 1..Len(made) /\ made[d][1] = m

(* What is stored, or about to be stored again, under a key is of its      *)
(* metatile.                                                               *)
StoredIsOfKey ==
    /\ \A k \in Key : object[k].data # 0 => IsOf(object[k].data, k[1])
    /\ \A e \in Marker : mark[e].at = "fetched" =>
          mark[e].meta \in Meta /\ (mark[e].copy.data # 0 => IsOf(mark[e].copy.data, mark[e].meta))

(* A cached header is that of its object until the object is replaced, and *)
(* it stays in place while a tile is read with it.                         *)
HeaderKept ==
    \A c \in Client :
        /\ cache[c].fresh /\ cache[c].meta # None =>
              cache[c].data # 0 /\ object[<<cache[c].meta, cache[c].opt>>].data = cache[c].data
        /\ reply[c].at = "located" =>
              /\ reply[c].meta \in Meta /\ reply[c].meta # None /\ cache[c].meta = reply[c].meta
              /\ cache[c].data = reply[c].head

(* memcached has no headers to keep, and whole objects only. *)
WholeObjects ==
    /\ \A k \in Key : object[k] # Absent => object[k].data # 0
    /\ \A e \in Marker : mark[e].at = "fetched" => mark[e].copy.data # 0
    /\ \A c \in Client : ~cache[c].fresh

RepliesFit ==
    \A c \in Client : reply[c].at = "returned" /\ reply[c].fits =>
        reply[c].head = reply[c].body /\ IsOf(reply[c].head, reply[c].meta)

(* kind is the backend that was chosen. *)
ObjectInv(kind) ==
    /\ ObjectTypes /\ StoredIsOfKey /\ HeaderKept /\ RepliesFit /\ LostUpdateIsMarked
    /\ kind = "memcached" => WholeObjects

(* The invariant holds in the empty object store. *)
LEMMA ObjectInitInv == ASSUME NEW kind, ObjectInit PROVE ObjectInv(kind)
PROOF
<1>1. ObjectTypes
  <2>1. <<>> \in Seq(Meta \X Opt)
    OBVIOUS
  <2>2. Absent \in Object
    BY Zenon DEF Absent, Object
  <2>3. 0 \in Nat /\ FALSE \in BOOLEAN /\ None \in MetaOrNone /\ NoOpt \in Opt
    BY ObjectStoreAssumption, Zenon DEF MetaOrNone
  <2> QED
    BY <2>1, <2>2, <2>3, Zenon DEF ObjectInit, ObjectTypes, NoReply, Unmarked
<1>2. StoredIsOfKey /\ LostUpdateIsMarked
  BY Zenon DEF ObjectInit, StoredIsOfKey, LostUpdateIsMarked, Absent, Unmarked
<1>3. HeaderKept /\ RepliesFit
  BY Zenon DEF ObjectInit, HeaderKept, RepliesFit, NoReply
<1>4. WholeObjects
  BY Zenon DEF ObjectInit, WholeObjects, Unmarked
<1> QED
  BY <1>1, <1>2, <1>3, <1>4, Zenon DEF ObjectInv

(* Invalidating headers takes away their freshness and nothing else.       *)
LEMMA StaleFacts ==
    ASSUME ObjectTypes, NEW k \in Key, cache' = Stale(k)
    PROVE  /\ cache' \in [Client -> [meta : MetaOrNone, opt : Opt, data : Nat, fresh : BOOLEAN]]
           /\ \A c \in Client :
                 /\ cache'[c].meta = cache[c].meta /\ cache'[c].opt = cache[c].opt /\ cache'[c].data = cache[c].data
                 /\ cache'[c].fresh => cache[c].fresh /\ k # <<cache[c].meta, cache[c].opt>>
PROOF
<1> DEFINE C == [meta : MetaOrNone, opt : Opt, data : Nat, fresh : BOOLEAN]
<1>1. ASSUME NEW x \in C
      PROVE  LET y == [x EXCEPT !.fresh = FALSE]
             IN  y \in C /\ y.meta = x.meta /\ y.opt = x.opt /\ y.data = x.data /\ y.fresh = FALSE
  BY Zenon
<1>2. \A c \in Client : cache[c] \in C
  BY Zenon DEF ObjectTypes
<1> QED
  BY <1>1, <1>2, Zenon DEF Stale

(* A new metatile is the newest under its key. *)
LEMMA PutKeepsInv ==
    ASSUME NEW kind, ObjectInv(kind), NEW m \in Meta, NEW o \in Opt, NEW k \in Key, k[1] = m, Put(k, m, o)
    PROVE  ObjectInv(kind)'
PROOF
<1> USE DEF ObjectInv
<1>0. PICK n : n = Len(made) + 1
  BY ZenonT(60)
<1> DEFINE new == [time |-> n, expired |-> FALSE, data |-> n]
<1>1. /\ made' = Append(made, <<m, o>>)
      /\ Len(made') = n /\ n \in Nat /\ n # 0 /\ made' \in Seq(Meta \X Opt)
      /\ \A i \in 1..Len(made) : made'[i] = made[i] /\ i \in 1..n
      /\ made'[n] = <<m, o>> /\ n \in 1..n
  BY <1>0, SMTT(40) DEF Put, ObjectTypes
<1>2. /\ object' = [object EXCEPT ![k] = new]
      /\ newest' = [newest EXCEPT ![k] = n]
      /\ cache' = Stale(k) /\ UNCHANGED <<reply, mark>>
  BY <1>1, Zenon DEF Put
<1>3. new \in Object /\ new.data = n /\ new.time = n /\ new.expired = FALSE
  BY <1>1, Zenon DEF Object
<1> HIDE DEF new
<1>4. /\ object'[k] = new /\ newest'[k] = n
      /\ \A j \in Key : j # k => object'[j] = object[j] /\ newest'[j] = newest[j]
  BY <1>2, Zenon DEF ObjectTypes
<1>5. /\ cache' \in [Client -> [meta : MetaOrNone, opt : Opt, data : Nat, fresh : BOOLEAN]]
      /\ \A c \in Client :
            /\ cache'[c].meta = cache[c].meta /\ cache'[c].opt = cache[c].opt /\ cache'[c].data = cache[c].data
            /\ cache'[c].fresh => cache[c].fresh /\ k # <<cache[c].meta, cache[c].opt>>
  <2>1. cache' = Stale(k) /\ ObjectTypes
    BY <1>2, Zenon
  <2> HIDE DEF ObjectInv
  <2> QED
    BY <2>1, StaleFacts, Zenon
<1>5a. ObjectTypes'
  BY <1>1, <1>2, <1>3, <1>5, Zenon DEF ObjectTypes
<1>6. \A d, x : IsOf(d, x) => IsOf(d, x)'
  BY <1>1, Zenon DEF IsOf
<1>7. IsOf(n, m)'
  BY <1>1, SMTT(40) DEF IsOf
<1>8. StoredIsOfKey'
  BY <1>2, <1>3, <1>4, <1>6, <1>7, SMTT(40) DEF StoredIsOfKey
<1>9. HeaderKept'
  <2> SUFFICES ASSUME NEW c \in Client
               PROVE  /\ cache'[c].fresh /\ cache'[c].meta # None =>
                            /\ cache'[c].data # 0
                            /\ object'[<<cache'[c].meta, cache'[c].opt>>].data = cache'[c].data
                      /\ reply'[c].at = "located" =>
                            /\ reply'[c].meta \in Meta /\ reply'[c].meta # None /\ cache'[c].meta = reply'[c].meta
                            /\ cache'[c].data = reply'[c].head
    BY Zenon DEF HeaderKept
  <2>1. /\ cache'[c].meta = cache[c].meta /\ cache'[c].opt = cache[c].opt /\ cache'[c].data = cache[c].data
        /\ cache'[c].fresh => cache[c].fresh /\ k # <<cache[c].meta, cache[c].opt>>
    BY <1>5, Zenon
  <2>2. cache[c].meta # None => <<cache[c].meta, cache[c].opt>> \in Key
    BY Zenon DEF ObjectTypes, MetaOrNone, Key
  <2> QED
    BY <1>2, <1>4, <2>1, <2>2, SMTT(40) DEF HeaderKept
<1>10. kind = "memcached" => WholeObjects'
  <2> SUFFICES ASSUME kind = "memcached" PROVE WholeObjects'
    BY Zenon
  <2>1. \A j \in Key : object'[j] # Absent => object'[j].data # 0
    BY <1>1, <1>3, <1>4, Zenon DEF WholeObjects
  <2>2. \A c \in Client : ~cache'[c].fresh
    BY <1>5, Zenon DEF WholeObjects
  <2> QED
    BY <1>2, <2>1, <2>2, ZenonT(60) DEF WholeObjects, Absent
<1>11. RepliesFit'
  BY <1>2, <1>6, Zenon DEF RepliesFit
<1>12. LostUpdateIsMarked'
  BY <1>3, <1>4, Zenon DEF LostUpdateIsMarked
<1> QED
  BY <1>5a, <1>8, <1>9, <1>10, <1>11, <1>12, Zenon

(* A removed object leaves no fresh header of itself behind. *)
LEMMA RemoveKeepsInv ==
    ASSUME NEW kind, ObjectInv(kind), NEW k \in Key, Remove(k) PROVE ObjectInv(kind)'
PROOF
<1> USE DEF ObjectInv
<1>1. /\ object' = [object EXCEPT ![k] = Absent]
      /\ cache' = Stale(k) /\ UNCHANGED <<made, newest, reply, mark>>
  BY Zenon DEF Remove
<1>2. Absent \in Object /\ Absent.data = 0
  BY Zenon DEF Absent, Object
<1>3. object'[k] = Absent /\ \A j \in Key : j # k => object'[j] = object[j]
  BY <1>1, Zenon DEF ObjectTypes
<1>4. /\ cache' \in [Client -> [meta : MetaOrNone, opt : Opt, data : Nat, fresh : BOOLEAN]]
      /\ \A c \in Client :
            /\ cache'[c].meta = cache[c].meta /\ cache'[c].opt = cache[c].opt /\ cache'[c].data = cache[c].data
            /\ cache'[c].fresh => cache[c].fresh /\ k # <<cache[c].meta, cache[c].opt>>
  <2>1. cache' = Stale(k) /\ ObjectTypes
    BY <1>1, Zenon
  <2> HIDE DEF ObjectInv
  <2> QED
    BY <2>1, StaleFacts, Zenon
<1>5. ObjectTypes'
  BY <1>1, <1>2, <1>4, Zenon DEF ObjectTypes
<1>6. StoredIsOfKey'
  BY <1>1, <1>2, <1>3, ZenonT(60) DEF StoredIsOfKey, IsOf
<1>7. HeaderKept'
  <2> SUFFICES ASSUME NEW c \in Client
               PROVE  /\ cache'[c].fresh /\ cache'[c].meta # None =>
                            /\ cache'[c].data # 0
                            /\ object'[<<cache'[c].meta, cache'[c].opt>>].data = cache'[c].data
                      /\ reply'[c].at = "located" =>
                            /\ reply'[c].meta \in Meta /\ reply'[c].meta # None /\ cache'[c].meta = reply'[c].meta
                            /\ cache'[c].data = reply'[c].head
    BY Zenon DEF HeaderKept
  <2>1. cache[c].meta # None => <<cache[c].meta, cache[c].opt>> \in Key
    BY Zenon DEF ObjectTypes, MetaOrNone, Key
  <2> QED
    BY <1>1, <1>3, <1>4, <2>1, SMTT(40) DEF HeaderKept
<1>8. kind = "memcached" => WholeObjects'
  <2> SUFFICES ASSUME kind = "memcached" PROVE WholeObjects'
    BY Zenon
  <2>1. \A j \in Key : object'[j] # Absent => object'[j].data # 0
    BY <1>3, Zenon DEF WholeObjects
  <2>2. \A c \in Client : ~cache'[c].fresh
    BY <1>4, Zenon DEF WholeObjects
  <2> QED
    BY <1>1, <2>1, <2>2, Zenon DEF WholeObjects, Absent
<1>9. RepliesFit'
  BY <1>1, Zenon DEF RepliesFit, IsOf
<1>10. LostUpdateIsMarked'
  BY <1>1, <1>3, Zenon DEF LostUpdateIsMarked
<1> QED
  BY <1>5, <1>6, <1>7, <1>8, <1>9, <1>10, Zenon

(* The first call of expire copies the object, a failed second one forgets *)
(* the copy.                                                               *)
LEMMA FetchKeepsInv ==
    ASSUME NEW kind, ObjectInv(kind), NEW e \in Marker,
           StoreFails(e) \/ \E m \in Meta : Fetch(e, m)
    PROVE  ObjectInv(kind)'
PROOF
<1> USE DEF ObjectInv
<1>1. UNCHANGED <<object, made, newest, cache, reply>>
  BY ZenonT(60) DEF StoreFails, Fetch
<1>2. PICK new \in [at : {"idle", "fetched"}, meta : MetaOrNone, copy : Object] :
        /\ mark' = [mark EXCEPT ![e] = new]
        /\ new.at = "fetched" =>
              /\ new.meta \in Meta
              /\ new.copy.data # 0 => IsOf(new.copy.data, new.meta)
              /\ kind = "memcached" => new.copy.data # 0
  <2>1. CASE StoreFails(e)
    <3>1. Unmarked \in [at : {"idle", "fetched"}, meta : MetaOrNone, copy : Object] /\ Unmarked.at = "idle"
      BY Zenon DEF Unmarked, MetaOrNone, Object, Absent
    <3> QED
      BY <2>1, <3>1, Zenon DEF StoreFails
  <2>2. ASSUME NEW m \in Meta, Fetch(e, m)
        PROVE  \E new \in [at : {"idle", "fetched"}, meta : MetaOrNone, copy : Object] :
                  /\ mark' = [mark EXCEPT ![e] = new]
                  /\ new.at = "fetched" =>
                        /\ new.meta \in Meta
                        /\ new.copy.data # 0 => IsOf(new.copy.data, new.meta)
                        /\ kind = "memcached" => new.copy.data # 0
    <3> DEFINE k == <<m, NoOpt>>
               new == [at |-> "fetched", meta |-> m, copy |-> object[k]]
    <3>1. k \in Key /\ k[1] = m /\ object[k] \in Object
      BY ObjectStoreAssumption, Zenon DEF Key, ObjectTypes
    <3>2. mark' = [mark EXCEPT ![e] = new] /\ object[k] # Absent
      BY <2>2, Zenon DEF Fetch
    <3>3. object[k].data # 0 => IsOf(object[k].data, m)
      BY <3>1, Zenon DEF StoredIsOfKey
    <3>4. kind = "memcached" => object[k].data # 0
      BY <3>1, <3>2, Zenon DEF WholeObjects
    <3> HIDE DEF k
    <3>5. new \in [at : {"idle", "fetched"}, meta : MetaOrNone, copy : Object]
      BY <3>1, Zenon DEF MetaOrNone
    <3>6. new.meta = m /\ new.copy = object[k]
      BY Zenon
    <3> HIDE DEF new
    <3> QED
      BY <3>2, <3>3, <3>4, <3>5, <3>6, ZenonT(60)
  <2> QED
    BY <2>1, <2>2, Zenon
<1>3. mark'[e] = new /\ \A d \in Marker : d # e => mark'[d] = mark[d]
  BY <1>2, Zenon DEF ObjectTypes
<1>4. ObjectTypes'
  BY <1>1, <1>2, ZenonT(60) DEF ObjectTypes
<1>5. StoredIsOfKey'
  BY <1>1, <1>2, <1>3, SMTT(40) DEF StoredIsOfKey, IsOf
<1>6. kind = "memcached" => WholeObjects'
  <2> SUFFICES ASSUME kind = "memcached" PROVE WholeObjects'
    BY Zenon
  <2>1. \A d \in Marker : mark'[d].at = "fetched" => mark'[d].copy.data # 0
    BY <1>2, <1>3, Zenon DEF WholeObjects
  <2> QED
    BY <1>1, <2>1, Zenon DEF WholeObjects, Absent
<1>7. HeaderKept' /\ RepliesFit' /\ LostUpdateIsMarked'
  BY <1>1, ZenonT(60) DEF HeaderKept, RepliesFit, IsOf, LostUpdateIsMarked
<1> QED
  BY <1>4, <1>5, <1>6, <1>7, Zenon

(* The second call stores what is marked, or nothing.  It can bring back   *)
(* an old metatile, but never one that passes for the newest; with rados   *)
(* it leaves the metatile alone.                                           *)
LEMMA StoreMarkKeepsInv ==
    ASSUME NEW kind, ObjectInv(kind), NEW e \in Marker, NEW new \in Object, StoreMark(e, new),
           new = Absent \/ new.expired,
           new.data # 0 => IsOf(new.data, mark[e].meta),
           kind = "memcached" => (new # Absent => new.data # 0),
           kind # "memcached" => new.data = object[<<mark[e].meta, NoOpt>>].data
    PROVE  ObjectInv(kind)'
PROOF
<1> USE DEF ObjectInv
<1> DEFINE k == <<mark[e].meta, NoOpt>>
<1>1. /\ object' = [object EXCEPT ![k] = new]
      /\ mark' = [mark EXCEPT ![e] = Unmarked]
      /\ mark[e].at = "fetched" /\ UNCHANGED <<made, newest, cache, reply>>
  BY Zenon DEF StoreMark
<1>2. k \in Key /\ k[1] = mark[e].meta
  BY <1>1, ObjectStoreAssumption, Zenon DEF StoredIsOfKey, Key
<1>3. PICK key \in Key : key = k
  BY <1>2, Zenon
<1> HIDE DEF k
<1>4. object'[key] = new /\ \A j \in Key : j # key => object'[j] = object[j]
  BY <1>1, <1>3, Zenon DEF ObjectTypes
<1>5. Unmarked \in [at : {"idle", "fetched"}, meta : MetaOrNone, copy : Object] /\ Unmarked.at = "idle"
  BY Zenon DEF Unmarked, MetaOrNone, Object, Absent
<1>6. mark'[e] = Unmarked /\ \A d \in Marker : d # e => mark'[d] = mark[d]
  BY <1>1, Zenon DEF ObjectTypes
<1>7. ObjectTypes'
  BY <1>1, <1>3, <1>5, Zenon DEF ObjectTypes
<1>8. StoredIsOfKey'
  <2>1. \A d, x : IsOf(d, x) <=> IsOf(d, x)'
    BY <1>1, ZenonT(60) DEF IsOf
  <2>2. \A j \in Key : object'[j].data # 0 => IsOf(object'[j].data, j[1])
    BY <1>2, <1>3, <1>4, Zenon DEF StoredIsOfKey
  <2>3. \A d \in Marker : mark'[d].at = "fetched" =>
          mark'[d].meta \in Meta /\ (mark'[d].copy.data # 0 => IsOf(mark'[d].copy.data, mark'[d].meta))
    BY <1>5, <1>6, ZenonT(60) DEF StoredIsOfKey
  <2> QED
    BY <2>1, <2>2, <2>3, Zenon DEF StoredIsOfKey
<1>9. HeaderKept'
  <2> SUFFICES ASSUME NEW c \in Client, cache[c].fresh, cache[c].meta # None
               PROVE  object'[<<cache[c].meta, cache[c].opt>>].data = cache[c].data
    BY <1>1, ZenonT(60) DEF HeaderKept
  <2>1. <<cache[c].meta, cache[c].opt>> \in Key
    BY Zenon DEF ObjectTypes, MetaOrNone, Key
  <2>2. new.data = object[key].data
    BY <1>3, Zenon DEF WholeObjects, k
  <2> QED
    BY <1>4, <2>1, <2>2, Zenon DEF HeaderKept
<1>10. kind = "memcached" => WholeObjects'
  <2> SUFFICES ASSUME kind = "memcached" PROVE WholeObjects'
    BY Zenon
  <2>1. \A j \in Key : object'[j] # Absent => object'[j].data # 0
    BY <1>4, ZenonT(60) DEF WholeObjects
  <2>2. \A d \in Marker : mark'[d].at = "fetched" => mark'[d].copy.data # 0
    BY <1>5, <1>6, ZenonT(60) DEF WholeObjects
  <2> QED
    BY <1>1, <2>1, <2>2, Zenon DEF WholeObjects, Absent
<1>11. RepliesFit'
  BY <1>1, ZenonT(60) DEF RepliesFit, IsOf
<1>12. LostUpdateIsMarked'
  BY <1>1, <1>4, ZenonT(60) DEF LostUpdateIsMarked, Absent
<1> QED
  BY <1>7, <1>8, <1>9, <1>10, <1>11, <1>12, Zenon

(* Setting the flag keeps time and content. *)
LEMMA MarkedFacts ==
    ASSUME NEW copy \in Object
    PROVE  /\ Marked(copy) \in Object /\ Marked(copy).expired
           /\ Marked(copy).data = copy.data
           /\ \A d \in Nat : LET new == [Marked(copy) EXCEPT !.data = d]
                             IN  new \in Object /\ new.expired /\ new.data = d
PROOF
  BY Zenon DEF Marked, Object

(* Both forms of metatile_expire keep the invariant. *)
LEMMA ExpireKeepsInv ==
    ASSUME NEW kind, ObjectInv(kind), NEW e \in Marker,
           \/ kind = "memcached" /\ memcached_metatile_expire(e)
           \/ kind # "memcached" /\ rados_metatile_expire(e)
    PROVE  ObjectInv(kind)'
PROOF
<1> DEFINE k == <<mark[e].meta, NoOpt>>
<1>1. CASE StoreFails(e) \/ \E m \in Meta : Fetch(e, m)
  BY <1>1, FetchKeepsInv, Zenon
<1> SUFFICES ASSUME mark[e].at = "fetched" PROVE ObjectInv(kind)'
  BY <1>1, Zenon DEF memcached_metatile_expire, rados_metatile_expire
<1>2. /\ k \in Key /\ k[1] = mark[e].meta /\ mark[e].copy \in Object /\ object[k] \in Object
      /\ mark[e].copy.data # 0 => IsOf(mark[e].copy.data, mark[e].meta)
      /\ object[k].data # 0 => IsOf(object[k].data, mark[e].meta)
      /\ kind = "memcached" => mark[e].copy.data # 0
  BY ObjectStoreAssumption, SMTT(40) DEF ObjectInv, ObjectTypes, StoredIsOfKey, WholeObjects, Key
<1>3. Absent \in Object /\ Absent.data = 0
  BY Zenon DEF Absent, Object
<1>4. ASSUME kind = "memcached", StoreMark(e, IF object[k] = Absent THEN Absent ELSE Marked(mark[e].copy))
      PROVE  ObjectInv(kind)'
  <2> DEFINE new == IF object[k] = Absent THEN Absent ELSE Marked(mark[e].copy)
  <2>1. new \in Object /\ (new = Absent \/ (new.expired /\ new.data = mark[e].copy.data))
    BY <1>2, <1>3, MarkedFacts, Zenon
  <2>2. StoreMark(e, new)
    BY <1>4, Zenon
  <2> HIDE DEF new
  <2> QED
    BY <1>2, <1>3, <1>4, <2>1, <2>2, StoreMarkKeepsInv, Zenon
<1>5. ASSUME kind # "memcached", StoreMark(e, [Marked(mark[e].copy) EXCEPT !.data = object[k].data])
      PROVE  ObjectInv(kind)'
  <2> DEFINE new == [Marked(mark[e].copy) EXCEPT !.data = object[k].data]
  <2>1. object[k].data \in Nat
    BY <1>2, Zenon DEF Object
  <2>2. new \in Object /\ new.expired /\ new.data = object[k].data
    BY <1>2, <2>1, MarkedFacts, Zenon
  <2>3. StoreMark(e, new)
    BY <1>5, Zenon
  <2> HIDE DEF new
  <2> QED
    BY <1>2, <1>5, <2>2, <2>3, StoreMarkKeepsInv, Zenon
<1> QED
  BY <1>1, <1>4, <1>5, Zenon DEF memcached_metatile_expire, rados_metatile_expire

Reply == [at : {"idle", "located", "returned"}, meta : MetaOrNone, opt : Opt, head : Nat, body : Nat, fits : BOOLEAN]
Header == [meta : MetaOrNone, opt : Opt, data : Nat, fresh : BOOLEAN]

(* A step of one client: what must be true of its new header and of its    *)
(* new reply.                                                              *)
LEMMA ClientStepKeepsInv ==
    ASSUME NEW kind, ObjectInv(kind), UNCHANGED <<object, made, newest, mark>>, NEW c \in Client,
           NEW h \in Header, cache' = [cache EXCEPT ![c] = h],
           NEW r \in Reply, reply' = [reply EXCEPT ![c] = r],
           h.fresh /\ h.meta # None => h.data # 0 /\ object[<<h.meta, h.opt>>].data = h.data,
           kind = "memcached" => ~h.fresh,
           r.at = "located" => r.meta \in Meta /\ r.meta # None /\ h.meta = r.meta /\ h.data = r.head,
           r.at = "returned" /\ r.fits => r.head = r.body /\ IsOf(r.head, r.meta)
    PROVE  ObjectInv(kind)'
PROOF
<1> USE DEF ObjectInv
<1>1. /\ cache'[c] = h /\ reply'[c] = r
      /\ \A d \in Client : d # c => cache'[d] = cache[d] /\ reply'[d] = reply[d]
  BY Zenon DEF ObjectTypes
<1>2. ObjectTypes'
  BY Zenon DEF ObjectTypes, Header, Reply
<1>3. StoredIsOfKey' /\ LostUpdateIsMarked'
  BY ZenonT(60) DEF StoredIsOfKey, LostUpdateIsMarked, IsOf
<1>4. HeaderKept'
  <2> SUFFICES ASSUME NEW d \in Client
               PROVE  /\ cache'[d].fresh /\ cache'[d].meta # None =>
                            /\ cache'[d].data # 0
                            /\ object[<<cache'[d].meta, cache'[d].opt>>].data = cache'[d].data
                      /\ reply'[d].at = "located" =>
                            /\ reply'[d].meta \in Meta /\ reply'[d].meta # None /\ cache'[d].meta = reply'[d].meta
                            /\ cache'[d].data = reply'[d].head
    BY Zenon DEF HeaderKept
  <2>1. CASE d = c
    BY <1>1, <2>1, ZenonT(60)
  <2>2. CASE d # c
    BY <1>1, <2>2, ZenonT(60) DEF HeaderKept
  <2> QED
    BY <2>1, <2>2, Zenon
<1>5. RepliesFit'
  BY <1>1 DEF RepliesFit, IsOf
<1>6. kind = "memcached" => WholeObjects'
  <2> SUFFICES ASSUME kind = "memcached" PROVE WholeObjects'
    BY Zenon
  <2>1. \A d \in Client : ~cache'[d].fresh
    BY <1>1, Zenon DEF WholeObjects
  <2> QED
    BY <2>1, ZenonT(60) DEF WholeObjects, Absent
<1> QED
  BY <1>2, <1>3, <1>4, <1>5, <1>6, Zenon

(* What a client already has is as required. *)
LEMMA ClientFacts ==
    ASSUME NEW kind, ObjectInv(kind), NEW c \in Client
    PROVE  /\ cache[c] \in Header /\ cache = [cache EXCEPT ![c] = cache[c]]
           /\ reply[c] \in Reply /\ reply = [reply EXCEPT ![c] = reply[c]]
           /\ cache[c].fresh /\ cache[c].meta # None =>
                 cache[c].data # 0 /\ object[<<cache[c].meta, cache[c].opt>>].data = cache[c].data
           /\ kind = "memcached" => ~cache[c].fresh
           /\ reply[c].at = "located" =>
                 /\ reply[c].meta \in Meta /\ reply[c].meta # None /\ cache[c].meta = reply[c].meta
                 /\ cache[c].data = reply[c].head
PROOF
  BY Zenon DEF ObjectInv, ObjectTypes, HeaderKept, WholeObjects, Header, Reply

(* The reply of a client that waits for nothing is well formed. *)
LEMMA NoReplyFacts == NoReply \in Reply /\ NoReply.at = "idle"
PROOF
  BY ObjectStoreAssumption, Zenon DEF NoReply, Reply, MetaOrNone

(* A client that takes its reply keeps the invariant. *)
LEMMA TakenKeepsInv ==
    ASSUME NEW kind, ObjectInv(kind), NEW c \in Client, Taken(c) PROVE ObjectInv(kind)'
PROOF
<1>1. /\ reply' = [reply EXCEPT ![c] = NoReply] /\ UNCHANGED <<object, made, newest, cache, mark>>
  BY Zenon DEF Taken
<1>2. cache' = [cache EXCEPT ![c] = cache[c]]
  BY <1>1, ClientFacts, Zenon
<1> QED
  BY <1>1, <1>2, ClientFacts, NoReplyFacts, ClientStepKeepsInv, ZenonT(60)

(* A reply of memcached is one object. *)
LEMMA MemcachedReadKeepsInv ==
    ASSUME NEW kind, ObjectInv(kind), kind = "memcached",
           NEW c \in Client, NEW m \in Meta, NEW o \in Opt, memcached_tile_read(c, m, o)
    PROVE  ObjectInv(kind)'
PROOF
<1> DEFINE obj == object[<<m, o>>]
           r == [at |-> "returned", meta |-> m, opt |-> o, head |-> obj.data, body |-> obj.data, fits |-> TRUE]
<1>1. obj # Absent /\ reply' = [reply EXCEPT ![c] = r] /\ UNCHANGED <<object, made, newest, cache, mark>>
  BY Zenon DEF memcached_tile_read, Return
<1>2. <<m, o>> \in Key /\ <<m, o>>[1] = m
  BY Zenon DEF Key
<1>3. obj.data # 0 /\ IsOf(obj.data, m) /\ obj.data \in Nat
  BY <1>1, <1>2, Zenon DEF ObjectInv, WholeObjects, StoredIsOfKey, ObjectTypes, Object
<1>4. r \in Reply /\ r.at = "returned" /\ r.head = r.body /\ IsOf(r.head, r.meta)
  BY <1>3, ZenonT(60) DEF Reply, MetaOrNone
<1>5. cache' = [cache EXCEPT ![c] = cache[c]]
  BY <1>1, ClientFacts, ZenonT(60)
<1> HIDE DEF r
<1> QED
  BY <1>1, <1>4, <1>5, ClientFacts, ClientStepKeepsInv, ZenonT(60)

(* The header after read_meta_data is that of the object, if it is fresh.  *)
LEMMA HeaderFacts ==
    ASSUME NEW kind, ObjectInv(kind), NEW c \in Client, NEW m \in Meta, NEW o \in Opt, NEW fails \in BOOLEAN
    PROVE  LET h == read_meta_data(c, m, o, fails)
           IN  /\ h \in Header /\ h.meta \in {m, None}
               /\ h.fresh /\ h.meta # None => h.data # 0 /\ object[<<h.meta, h.opt>>].data = h.data
PROOF
<1> DEFINE obj == object[<<m, o>>]
           new == [meta |-> m, opt |-> o, data |-> IF obj.data = 0 THEN cache[c].data ELSE obj.data,
                   fresh |-> obj.data # 0]
           gone == [cache[c] EXCEPT !.meta = None]
<1>1. /\ cache[c] \in Header
      /\ cache[c].fresh /\ cache[c].meta # None =>
            cache[c].data # 0 /\ object[<<cache[c].meta, cache[c].opt>>].data = cache[c].data
  BY ClientFacts, Zenon
<1>2. gone \in Header /\ gone.meta = None
  BY <1>1, Zenon DEF Header, MetaOrNone
<1>3. obj \in Object
  BY Zenon DEF ObjectInv, ObjectTypes, Key
<1>4. new \in Header /\ new.meta = m /\ new.opt = o /\ (new.fresh => new.data = obj.data /\ new.data # 0)
  BY <1>1, <1>3, Zenon DEF Header, MetaOrNone, Object
<1>5. read_meta_data(c, m, o, fails) = IF Cached(c, m) THEN cache[c]
                                       ELSE IF obj = Absent \/ fails THEN gone ELSE new
  BY Zenon DEF read_meta_data
<1> HIDE DEF gone, new
<1> QED
  BY <1>1, <1>2, <1>4, <1>5, Zenon DEF Cached

(* The two reads of a rados tile, header and body, keep the invariant. *)
LEMMA RadosReadKeepsInv ==
    ASSUME NEW kind, ObjectInv(kind), kind # "memcached", NEW c \in Client, NEW fails \in BOOLEAN,
           \/ rados_tile_read(c, fails)
           \/ \E m \in Meta, o \in Opt : rados_tile_stat(c, m, o, fails)
    PROVE  ObjectInv(kind)'
PROOF
<1>1. ASSUME NEW m \in Meta, NEW o \in Opt, rados_tile_stat(c, m, o, fails) PROVE ObjectInv(kind)'
  <2> DEFINE h == read_meta_data(c, m, o, fails)
  <2>1. /\ h \in Header /\ h.meta \in {m, None}
        /\ h.fresh /\ h.meta # None => h.data # 0 /\ object[<<h.meta, h.opt>>].data = h.data
    BY HeaderFacts, Zenon
  <2>2. /\ reply[c].at = "idle" /\ cache' = [cache EXCEPT ![c] = h]
        /\ UNCHANGED <<object, made, newest, reply, mark>>
    BY <1>1, ZenonT(60) DEF rados_tile_stat
  <2>3. reply' = [reply EXCEPT ![c] = reply[c]] /\ reply[c] \in Reply
    BY <2>2, ClientFacts, Zenon
  <2> HIDE DEF h
  <2> QED
    BY <2>1, <2>2, <2>3, ClientStepKeepsInv, ZenonT(60)
<1>2. ASSUME NEW m \in Meta, NEW o \in Opt, LocateTile(c, m, o, fails) PROVE ObjectInv(kind)'
  <2> DEFINE h == read_meta_data(c, m, o, fails)
             r == [NoReply EXCEPT !.at = "located", !.meta = m, !.opt = o, !.head = h.data]
  <2>1. /\ h \in Header /\ h.meta \in {m, None}
        /\ h.fresh /\ h.meta # None => h.data # 0 /\ object[<<h.meta, h.opt>>].data = h.data
    BY HeaderFacts, Zenon
  <2>2. /\ reply[c].at = "idle" /\ cache' = [cache EXCEPT ![c] = h]
        /\ reply' = IF h.meta = None \/ h.data = 0 THEN reply ELSE [reply EXCEPT ![c] = r]
        /\ UNCHANGED <<object, made, newest, mark>>
    BY <1>2, Zenon DEF LocateTile
  <2>3. h.data \in Nat
    BY <2>1, Zenon DEF Header
  <2> HIDE DEF h
  <2>4. r \in Reply /\ r.at = "located" /\ r.meta = m /\ r.head = h.data
    BY <2>3, NoReplyFacts, Zenon DEF Reply, MetaOrNone
  <2> HIDE DEF r
  <2>5. CASE h.meta = None \/ h.data = 0
    <3>1. reply' = [reply EXCEPT ![c] = reply[c]] /\ reply[c] \in Reply
      BY <2>2, <2>5, ClientFacts, ZenonT(60)
    <3> QED
      BY <2>1, <2>2, <3>1, ClientStepKeepsInv, Zenon
  <2>6. CASE ~(h.meta = None \/ h.data = 0)
    BY <2>1, <2>2, <2>4, <2>6, ClientStepKeepsInv, Zenon
  <2> QED
    BY <2>5, <2>6, Zenon
<1>3. ASSUME ReadLocated(c, fails) PROVE ObjectInv(kind)'
  <2> DEFINE q == reply[c]
             obj == object[<<q.meta, q.opt>>]
             r == [at |-> "returned", meta |-> q.meta, opt |-> q.opt, head |-> q.head, body |-> obj.data,
                   fits |-> cache[c].fresh /\ cache[c].opt = q.opt]
  <2>1. /\ q.at = "located" /\ UNCHANGED <<object, made, newest, cache, mark>>
        /\ reply' = IF obj = Absent \/ fails THEN [reply EXCEPT ![c] = NoReply] ELSE [reply EXCEPT ![c] = r]
    BY <1>3, Zenon DEF ReadLocated, Return
  <2>2. cache' = [cache EXCEPT ![c] = cache[c]]
    BY <2>1, ClientFacts, Zenon
  <2>3. q \in Reply /\ <<q.meta, q.opt>> \in Key /\ <<q.meta, q.opt>>[1] = q.meta
    BY <2>1, ClientFacts, ZenonT(60) DEF Reply, Key
  <2>4. obj \in Object /\ (obj.data # 0 => IsOf(obj.data, q.meta))
    BY <2>3, Zenon DEF ObjectInv, ObjectTypes, StoredIsOfKey
  <2>5. r \in Reply /\ r.at = "returned" /\ r.meta = q.meta /\ r.head = q.head /\ r.body = obj.data
        /\ (r.fits => cache[c].fresh /\ cache[c].opt = q.opt)
    BY <2>3, <2>4, Zenon DEF Reply, Object
  <2>6. r.fits => r.head = r.body /\ IsOf(r.head, r.meta)
    <3> SUFFICES ASSUME r.fits PROVE r.head = r.body /\ IsOf(r.head, r.meta)
      BY ZenonT(60)
    <3>1. cache[c].meta = q.meta /\ cache[c].data = q.head /\ q.meta # None
      BY <2>1, ClientFacts, Zenon
    <3>2. cache[c].data # 0 /\ obj.data = cache[c].data
      BY <2>5, <3>1, ClientFacts, ZenonT(60)
    <3> QED
      BY <2>4, <2>5, <3>1, <3>2, ZenonT(60)
  <2>7. PICK h \in Header :
          /\ cache' = [cache EXCEPT ![c] = h]
          /\ h.fresh /\ h.meta # None => h.data # 0 /\ object[<<h.meta, h.opt>>].data = h.data
    BY <2>2, ClientFacts, Zenon
  <2>8. PICK new \in Reply :
          /\ reply' = [reply EXCEPT ![c] = new]
          /\ new.at # "located"
          /\ new.at = "returned" /\ new.fits => new.head = new.body /\ IsOf(new.head, new.meta)
    <3> HIDE DEF r, obj
    <3> QED
      BY <2>1, <2>5, <2>6, NoReplyFacts, Zenon
  <2>9. UNCHANGED <<object, made, newest, mark>>
    BY <2>1, Zenon
  <2>10. /\ new.at = "located" =>
              new.meta \in Meta /\ new.meta # None /\ h.meta = new.meta /\ h.data = new.head
         /\ kind = "memcached" => ~h.fresh
    BY <2>8, Zenon
  <2> QED
    BY <2>7, <2>8, <2>9, <2>10, ClientStepKeepsInv, ZenonT(60)
<1> QED
  BY <1>1, <1>2, <1>3, Zenon DEF rados_tile_read

(* Every step of either object store keeps the invariant. *)
LEMMA ObjectStepKeepsInv ==
    ASSUME NEW kind, ObjectInv(kind),
           (kind = "memcached" /\ MemcachedNext) \/ (kind = "rados" /\ RadosNext)
    PROVE  ObjectInv(kind)'
PROOF
<1>1. \A m \in Meta, o \in Opt : /\ <<m, o>> \in Key /\ <<m, o>>[1] = m
                                /\ <<m, NoOpt>> \in Key /\ <<m, NoOpt>>[1] = m
  BY ObjectStoreAssumption, Zenon DEF Key
<1>2. ASSUME NEW m \in Meta, NEW o \in Opt, memcached_metatile_write(m, o) \/ rados_metatile_write(m, o)
      PROVE  ObjectInv(kind)'
  BY <1>1, <1>2, PutKeepsInv, Zenon DEF memcached_metatile_write, rados_metatile_write
<1>3. ASSUME NEW m \in Meta, memcached_metatile_delete(m) \/ rados_metatile_delete(m)
      PROVE  ObjectInv(kind)'
  BY <1>1, <1>3, ObjectStoreAssumption, RemoveKeepsInv, Zenon DEF memcached_metatile_delete, rados_metatile_delete
<1>4. CASE kind = "memcached" /\ MemcachedNext
  BY <1>2, <1>3, <1>4, ExpireKeepsInv, TakenKeepsInv, MemcachedReadKeepsInv, Zenon DEF MemcachedNext
<1>5. CASE kind = "rados" /\ RadosNext
  BY <1>2, <1>3, <1>5, ExpireKeepsInv, TakenKeepsInv, RadosReadKeepsInv, Zenon DEF RadosNext
<1> QED
  BY <1>4, <1>5, Zenon

-----------------------------------------------------------------------------
(* Proxied tiles *)

CoordinatesOrNone == Tile \cup {<<>>}
ProxiedTile == [of : CoordinatesOrNone, ver : Nat]

(* Also the parts that are still to be painted are of the tile asked for. *)
ProxyInv ==
    /\ upstream \in [Part -> [Tile -> Nat]]
    /\ kept \in [Thread \X Part -> [key : CoordinatesOrNone, tile : ProxiedTile]]
    /\ answer \in [Thread -> [at : {"idle", "secondary", "painting", "returned"}, tile : CoordinatesOrNone,
                              got : Seq(ProxiedTile)]]
    /\ \A x \in Thread \X Part : kept[x].key # <<>> => kept[x].tile.of = kept[x].key
    /\ \A th \in Thread : /\ answer[th].at = "idle" => answer[th].got = <<>>
                          /\ \A i \in 1..Len(answer[th].got) : /\ answer[th].got[i].of = answer[th].tile
                                                                /\ answer[th].got[i].ver # 0

(* The invariant holds before any tile is asked for. *)
LEMMA ProxyInitInv == ProxyInit => ProxyInv
PROOF
<1> SUFFICES ASSUME ProxyInit PROVE ProxyInv
  BY Zenon
<1>1. NoTile \in ProxiedTile
  BY Zenon DEF NoTile, ProxiedTile, CoordinatesOrNone
<1>2. /\ <<>> \in CoordinatesOrNone /\ 0 \in Nat
      /\ <<>> \in Seq(ProxiedTile) /\ 1..Len(<<>>) = {}
  BY SMTT(40) DEF CoordinatesOrNone
<1> QED
  BY <1>1, <1>2, Zenon DEF ProxyInit, ProxyInv, NoAnswer

Cache == [key : CoordinatesOrNone, tile : ProxiedTile]
Answer == [at : {"idle", "secondary", "painting", "returned"}, tile : CoordinatesOrNone, got : Seq(ProxiedTile)]

(* However a request ends, the cache it leaves has the tile of its key. *)
LEMMA RetrievedFacts ==
    ASSUME ProxyInv, NEW x \in Thread \X Part, NEW t \in Tile, NEW o \in Outcome
    PROVE  LET new == Retrieved(x, t, o)
           IN  new \in Cache /\ (new.key # <<>> => new.tile.of = new.key)
PROOF
<1> DEFINE drawn == [of |-> t, ver |-> upstream[x[2]][t]]
           loaded == [key |-> t, tile |-> drawn]
           none == [kept[x] EXCEPT !.key = <<>>]
<1>1. kept[x] \in Cache /\ (kept[x].key # <<>> => kept[x].tile.of = kept[x].key)
  BY ZenonT(60) DEF ProxyInv, Cache
<1>2. upstream[x[2]][t] \in Nat
  BY SMTT(40) DEF ProxyInv
<1>3. drawn \in ProxiedTile /\ drawn.of = t
  BY <1>2, Zenon DEF ProxiedTile, CoordinatesOrNone
<1> HIDE DEF drawn
<1>4. loaded \in Cache /\ loaded.key = t /\ loaded.tile = drawn
  BY <1>3, Zenon DEF Cache, CoordinatesOrNone
<1>5. none \in Cache /\ none.key = <<>>
  BY <1>1, Zenon DEF Cache, CoordinatesOrNone
<1>6. Retrieved(x, t, o) \in {kept[x], loaded, none}
  BY ZenonT(60) DEF Retrieved, Outcome, drawn
<1> HIDE DEF loaded, none
<1> QED
  BY <1>1, <1>3, <1>4, <1>5, <1>6, Zenon

(* A step of one thread: what must be true of its new cache and answer.    *)
LEMMA ThreadStepKeepsInv ==
    ASSUME ProxyInv, UNCHANGED upstream,
           NEW x \in Thread \X Part, NEW new \in Cache, kept' = [kept EXCEPT ![x] = new],
           new.key # <<>> => new.tile.of = new.key,
           NEW th \in Thread, NEW a \in Answer, answer' = [answer EXCEPT ![th] = a],
           a.at = "idle" => a.got = <<>>,
           \A i \in 1..Len(a.got) : a.got[i].of = a.tile /\ a.got[i].ver # 0
    PROVE  ProxyInv'
PROOF
<1>1. kept'[x] = new /\ \A y \in Thread \X Part : y # x => kept'[y] = kept[y]
  BY Zenon DEF ProxyInv
<1>2. answer'[th] = a /\ \A d \in Thread : d # th => answer'[d] = answer[d]
  BY Zenon DEF ProxyInv
<1>3. /\ kept' \in [Thread \X Part -> Cache]
      /\ answer' \in [Thread -> Answer]
      /\ upstream' \in [Part -> [Tile -> Nat]]
  BY Zenon DEF ProxyInv, Cache, Answer
<1>4. \A y \in Thread \X Part : kept'[y].key # <<>> => kept'[y].tile.of = kept'[y].key
  BY <1>1, ZenonT(60) DEF ProxyInv
<1>5. \A d \in Thread : /\ answer'[d].at = "idle" => answer'[d].got = <<>>
                        /\ \A i \in 1..Len(answer'[d].got) : /\ answer'[d].got[i].of = answer'[d].tile
                                                              /\ answer'[d].got[i].ver # 0
  <2> SUFFICES ASSUME NEW d \in Thread
               PROVE  /\ answer'[d].at = "idle" => answer'[d].got = <<>>
                      /\ \A i \in 1..Len(answer'[d].got) : /\ answer'[d].got[i].of = answer'[d].tile
                                                            /\ answer'[d].got[i].ver # 0
    BY Zenon
  <2>1. CASE d = th
    BY <1>2, <2>1, ZenonT(60)
  <2>2. CASE d # th
    BY <1>2, <2>2, ZenonT(60) DEF ProxyInv
  <2> QED
    BY <2>1, <2>2, Zenon
<1> QED
  BY <1>3, <1>4, <1>5, ZenonT(60) DEF ProxyInv, Cache, Answer

(* What a thread already has is as required. *)
LEMMA ThreadFacts ==
    ASSUME ProxyInv, NEW th \in Thread, NEW x \in Thread \X Part
    PROVE  /\ kept[x] \in Cache /\ kept = [kept EXCEPT ![x] = kept[x]]
           /\ kept[x].key # <<>> => kept[x].tile.of = kept[x].key
           /\ answer[th] \in Answer /\ answer = [answer EXCEPT ![th] = answer[th]]
           /\ answer[th].at = "idle" => answer[th].got = <<>>
           /\ \A i \in 1..Len(answer[th].got) : answer[th].got[i].of = answer[th].tile /\ answer[th].got[i].ver # 0
           /\ NoAnswer \in Answer /\ NoAnswer.got = <<>> /\ 1..Len(NoAnswer.got) = {}
PROOF
<1>1. NoAnswer \in Answer /\ NoAnswer.got = <<>> /\ 1..Len(NoAnswer.got) = {}
  BY SMTT(40) DEF NoAnswer, Answer, CoordinatesOrNone
<1> QED
  BY <1>1, Zenon DEF ProxyInv, Cache, Answer

(* A read from one part of a proxied or composite store keeps it. *)
LEMMA ReadFromKeepsInv ==
    ASSUME ProxyInv, NEW th \in Thread, NEW p \in Part, NEW t \in Tile, NEW o \in Outcome,
           NEW from \in {"idle", "secondary"}, NEW then \in {"secondary", "painting", "returned"},
           from = "idle" \/ t = answer[th].tile,
           ReadFrom(th, p, t, o, from, then)
    PROVE  ProxyInv'
PROOF
<1> DEFINE x == <<th, p>>
           new == Retrieved(x, t, o)
           a == [at |-> then, tile |-> t, got |-> Append(answer[th].got, new.tile)]
<1>1. x \in Thread \X Part
  BY Zenon
<1>2. new \in Cache /\ (new.key # <<>> => new.tile.of = new.key)
  BY <1>1, RetrievedFacts, Zenon
<1>3. /\ answer[th].at = from /\ UNCHANGED upstream /\ kept' = [kept EXCEPT ![x] = new]
      /\ \/ answer' = [answer EXCEPT ![th] = NoAnswer]
         \/ new.key = t /\ new.tile.ver # 0 /\ answer' = [answer EXCEPT ![th] = a]
  BY ZenonT(60) DEF ReadFrom, ro_http_proxy_tile_retrieve
<1> HIDE DEF x, new
<1>4. CASE answer' = [answer EXCEPT ![th] = NoAnswer]
  BY <1>1, <1>2, <1>3, <1>4, ThreadFacts, ThreadStepKeepsInv, ZenonT(60)
<1>5. CASE new.key = t /\ new.tile.ver # 0 /\ answer' = [answer EXCEPT ![th] = a]
  <2> DEFINE got == answer[th].got
  <2>1. new.tile.of = t /\ new.tile \in ProxiedTile
    <3>1. new.key = t /\ new.key # <<>>
      BY <1>5, ProxyStoreAssumption, Zenon
    <3>2. new.tile \in ProxiedTile
      BY <1>2, Zenon DEF Cache
    <3> QED
      BY <1>2, <3>1, <3>2, Zenon
  <2>2. got \in Seq(ProxiedTile) /\ \A i \in 1..Len(got) : got[i].of = t /\ got[i].ver # 0
    <3>1. CASE from = "idle"
      <4>1. got = <<>>
        BY <1>1, <1>3, <3>1, ThreadFacts, Zenon
      <4>2. <<>> \in Seq(ProxiedTile) /\ 1..Len(<<>>) = {}
        BY SMTT(40)
      <4> HIDE DEF got
      <4> QED
        BY <4>1, <4>2, Zenon
    <3>2. CASE t = answer[th].tile
      BY <1>1, <3>2, ThreadFacts, ZenonT(60) DEF Answer
    <3> QED
      BY <3>1, <3>2, ZenonT(60)
  <2> HIDE DEF got
  <2>3. LET s == Append(got, new.tile)
        IN  s \in Seq(ProxiedTile) /\ \A i \in 1..Len(s) : s[i].of = t /\ s[i].ver # 0
    BY <1>5, <2>1, <2>2, SMTT(40)
  <2>4. /\ a \in Answer /\ a.at # "idle"
        /\ \A i \in 1..Len(a.got) : a.got[i].of = a.tile /\ a.got[i].ver # 0
    BY <2>3, Zenon DEF Answer, CoordinatesOrNone, got
  <2> HIDE DEF a
  <2> QED
    BY <1>1, <1>2, <1>3, <1>5, <2>4, ThreadStepKeepsInv, ZenonT(60)
<1> QED
  BY <1>3, <1>4, <1>5, Zenon

(* Every step of the proxy and composite stores keeps the invariant. *)
LEMMA ProxyStepKeepsInv == ProxyInv /\ (ProxyNext \/ CompositeNext) => ProxyInv'
PROOF
<1> SUFFICES ASSUME ProxyInv, ProxyNext \/ CompositeNext PROVE ProxyInv'
  BY Zenon
<1>1. ASSUME NEW p \in Part, NEW t \in Tile, NEW v \in 0..MaxVersion, Publish(p, t, v) PROVE ProxyInv'
  <2>1. v \in Nat
    BY ProxyStoreAssumption
  <2>2. upstream' = [upstream EXCEPT ![p][t] = v] /\ UNCHANGED <<kept, answer>>
    BY <1>1, Zenon DEF Publish
  <2>3. upstream' \in [Part -> [Tile -> Nat]]
    BY <2>1, <2>2, Zenon DEF ProxyInv
  <2> QED
    BY <2>2, <2>3, Zenon DEF ProxyInv
<1>2. ASSUME NEW th \in Thread, NEW a \in {NoAnswer, [answer[th] EXCEPT !.at = "returned"]},
             answer' = [answer EXCEPT ![th] = a], UNCHANGED <<upstream, kept>>
      PROVE  ProxyInv'
  <2> DEFINE x == <<th, "primary">>
             ret == [answer[th] EXCEPT !.at = "returned"]
  <2>1. x \in Thread \X Part
    BY Zenon DEF Part
  <2>2. /\ answer[th] \in Answer /\ NoAnswer \in Answer /\ NoAnswer.got = <<>> /\ 1..Len(NoAnswer.got) = {}
        /\ \A i \in 1..Len(answer[th].got) : answer[th].got[i].of = answer[th].tile /\ answer[th].got[i].ver # 0
        /\ kept' = [kept EXCEPT ![x] = kept[x]] /\ kept[x] \in Cache
        /\ kept[x].key # <<>> => kept[x].tile.of = kept[x].key
    BY <1>2, <2>1, ThreadFacts, Zenon
  <2>3. ret \in Answer /\ ret.at = "returned" /\ ret.got = answer[th].got /\ ret.tile = answer[th].tile
    BY <2>2, Zenon DEF Answer
  <2> HIDE DEF ret, x
  <2>4. a \in {NoAnswer, ret}
    BY Zenon DEF ret
  <2>5. /\ a \in Answer /\ (a.at = "idle" => a.got = <<>>)
        /\ \A i \in 1..Len(a.got) : a.got[i].of = a.tile /\ a.got[i].ver # 0
    BY <2>2, <2>3, <2>4, Zenon
  <2> QED
    BY <1>2, <2>1, <2>2, <2>5, ThreadStepKeepsInv, Zenon
<1>3. ASSUME NEW th \in Thread, Used(th) \/ DecodeFails(th) \/ Paint(th) PROVE ProxyInv'
  <2>1. [answer EXCEPT ![th].at = "returned"] = [answer EXCEPT ![th] = [answer[th] EXCEPT !.at = "returned"]]
    BY Zenon DEF ProxyInv
  <2> QED
    BY <1>2, <1>3, <2>1, Zenon DEF Used, DecodeFails, Paint
<1>4. ASSUME NEW th \in Thread, NEW t \in Tile, NEW o \in Outcome, ro_http_proxy_tile_stat(th, t, o)
      PROVE  ProxyInv'
  <2> DEFINE x == <<th, "primary">>
             new == Retrieved(x, t, o)
  <2>1. x \in Thread \X Part
    BY Zenon DEF Part
  <2>2. new \in Cache /\ (new.key # <<>> => new.tile.of = new.key)
    BY <2>1, RetrievedFacts, Zenon
  <2>3. UNCHANGED <<upstream, answer>> /\ kept' = [kept EXCEPT ![x] = new]
    BY <1>4, Zenon DEF ro_http_proxy_tile_stat, ro_http_proxy_tile_retrieve
  <2> HIDE DEF new, x
  <2>4. PICK a \in Answer :
          /\ answer' = [answer EXCEPT ![th] = a] /\ (a.at = "idle" => a.got = <<>>)
          /\ \A i \in 1..Len(a.got) : a.got[i].of = a.tile /\ a.got[i].ver # 0
    BY <2>1, <2>3, ThreadFacts, Zenon
  <2> QED
    BY <2>1, <2>2, <2>3, <2>4, ThreadStepKeepsInv, ZenonT(60)
<1>5. ASSUME NEW th \in Thread, NEW t \in Tile, NEW o \in Outcome,
             ro_http_proxy_tile_read(th, t, o) \/ ro_composite_tile_read(th, t, o)
      PROVE  ProxyInv'
  <2>1. "primary" \in Part /\ "secondary" \in Part
    BY Zenon DEF Part
  <2>2. ASSUME NEW then \in {"secondary", "returned"}, ReadFrom(th, "primary", t, o, "idle", then)
        PROVE  ProxyInv'
    BY <2>1, <2>2, ReadFromKeepsInv, Zenon
  <2>3. ASSUME t = answer[th].tile, ReadFrom(th, "secondary", t, o, "secondary", "painting")
        PROVE  ProxyInv'
    BY <2>1, <2>3, ReadFromKeepsInv, Zenon
  <2> QED
    BY <1>3, <1>5, <2>2, <2>3, Zenon DEF ro_http_proxy_tile_read, ro_composite_tile_read
<1> QED
  BY <1>1, <1>3, <1>4, <1>5, Zenon DEF ProxyNext, CompositeNext, Upstream

-----------------------------------------------------------------------------
(* A store that was not chosen does not move. *)
LEMMA IdleObjectsKeepInv == ASSUME NEW kind, ObjectInv(kind), UNCHANGED objectVars PROVE ObjectInv(kind)'
PROOF
<1>1. UNCHANGED <<object, made, newest, cache, reply, mark>>
  BY ZenonT(60) DEF objectVars
<1>2. ObjectTypes'
  BY <1>1, Zenon DEF ObjectInv, ObjectTypes
<1>3. StoredIsOfKey'
  BY <1>1, Zenon DEF ObjectInv, StoredIsOfKey, IsOf
<1>4. HeaderKept'
  BY <1>1, Zenon DEF ObjectInv, HeaderKept
<1>5. LostUpdateIsMarked'
  BY <1>1, Zenon DEF ObjectInv, LostUpdateIsMarked
<1>6. kind = "memcached" => WholeObjects'
  BY <1>1, Zenon DEF ObjectInv, WholeObjects, Absent
<1>7. RepliesFit'
  BY <1>1, Zenon DEF ObjectInv, RepliesFit, IsOf
<1> QED
  BY <1>2, <1>3, <1>4, <1>5, <1>6, <1>7, Zenon DEF ObjectInv

(* The same for the proxied stores. *)
LEMMA IdleProxyKeepsInv == ProxyInv /\ UNCHANGED proxyVars => ProxyInv'
PROOF
  BY ZenonT(60) DEF ProxyInv, proxyVars

-----------------------------------------------------------------------------
(* All stores *)

StorageInv == FileInv /\ ObjectInv(backend) /\ ProxyInv

(* The file store does not move while another store is chosen. *)
LEMMA IdleFilesKeepInv == FileInv /\ UNCHANGED fileVars => FileInv'
PROOF
<1> SUFFICES ASSUME FileInv, UNCHANGED fileVars PROVE FileInv'
  BY Zenon
<1>1. UNCHANGED <<now, inode, files, meta, tmp, save, rd, touch>>
  BY ZenonT(60) DEF fileVars, fsVars
<1>2. FileTypes' /\ Created'
  BY <1>1, Zenon DEF FileInv, FileTypes, Created
<1>3. TmpPrivate' /\ PublishedWhole' /\ ReadIsWhole'
  BY <1>1, Zenon DEF FileInv, TmpPrivate, PublishedWhole, ReadIsWhole, Reading
<1> QED
  BY <1>2, <1>3, Zenon DEF FileInv

(* The invariants of the stores hold in every state of the storage. *)
LEMMA StorageInvariant == StorageSpec => []StorageInv
PROOF
<1>1. StorageInit => StorageInv
  BY FileInitInv, ObjectInitInv, ProxyInitInv, Zenon DEF StorageInit, StorageInv
<1>2. StorageInv /\ [StorageNext]_storageVars => StorageInv'
  <2> SUFFICES ASSUME StorageInv, [StorageNext]_storageVars PROVE StorageInv'
    BY Zenon
  <2>1. FileInv /\ ObjectInv(backend) /\ ProxyInv
    BY Zenon DEF StorageInv
  <2>2. PICK kind : kind = backend
    BY Zenon
  <2>3. ObjectInv(kind)
    BY <2>1, <2>2, Zenon
  <2>4. backend' = kind
    BY <2>2, Zenon DEF StorageNext, storageVars
  <2>5. FileInv'
    BY <2>1, FileStepKeepsInv, IdleFilesKeepInv, Zenon DEF StorageNext, storageVars
  <2>6. ObjectInv(kind)'
    BY <2>2, <2>3, ObjectStepKeepsInv, IdleObjectsKeepInv, Zenon DEF StorageNext, storageVars
  <2>7. ProxyInv'
    BY <2>1, ProxyStepKeepsInv, IdleProxyKeepsInv, Zenon DEF StorageNext, storageVars
  <2>8. ObjectInv(backend)'
    BY <2>4, <2>6, Zenon DEF ObjectInv
  <2> QED
    BY <2>5, <2>7, <2>8, Zenon DEF StorageInv
<1> QED
  BY <1>1, <1>2, PTL DEF StorageSpec

(* file_tile_read returns whole tiles of one version of the metatile,      *)
(* however many threads write it, whatever fails and whenever renderd dies *)
(* or a tool deletes or touches the file.                                  *)
THEOREM TilesAreReadWhole == StorageSpec => []ReadIsWhole
PROOF
<1>1. StorageInv => ReadIsWhole
  BY Zenon DEF StorageInv, FileInv
<1> QED
  BY <1>1, StorageInvariant, PTL

-----------------------------------------------------------------------------
(* Marks.  A metatile has the year it was written in, or that of a metatile*)
(* under its name less twenty, which is before all years of writing.       *)

Year == FirstYear..LastYear
Calendar == now \in Year /\ planet \in Year /\ years \in SUBSET Year

(* A year of writing less twenty, and what mktime is off by. *)
SetBack(t, ys) == \E d \in Shift : t + 20 - d \in ys

(* A tool marks only what has the name of the metatile. *)
TmpUnmarked ==
    /\ \A i \in marked : i \in Inode /\ i <= files
    /\ \A w \in Writer : tmp[w] # NoFile =>
          /\ tmp[w] \notin marked
          /\ inode[tmp[w]].mtime = inode[tmp[w]].born /\ inode[tmp[w]].born \in Year

MetaDated ==
    /\ meta # NoFile => /\ inode[meta].born \in years
                        /\ inode[meta].mtime = inode[meta].born \/ SetBack(inode[meta].mtime, years)
    /\ meta \in marked => SetBack(inode[meta].mtime, years)

(* What a tool has read may be the time of a file that is gone. *)
StatDated ==
    \A e \in Expirer : touch[e].at = "stat" => touch[e].mtime \in years \/ SetBack(touch[e].mtime, years)

MarkInv == Calendar /\ TmpUnmarked /\ MetaDated /\ StatDated

(* Nothing is written and nothing marked at first. *)
LEMMA InitMarkInv == FileInit => MarkInv
PROOF
<1> SUFFICES ASSUME FileInit PROVE MarkInv
  OBVIOUS
<1>1. /\ now = FirstYear /\ planet = FirstYear /\ meta = NoFile /\ tmp = [w \in Writer |-> NoFile]
      /\ touch = [e \in Expirer |-> [at |-> "idle", mtime |-> 0]] /\ marked = {} /\ years = {}
  BY Zenon DEF FileInit
<1>2. FirstYear \in Year
  BY FileStoreAssumption DEF Year
<1>3. Calendar
  BY <1>1, <1>2, Zenon DEF Calendar
<1>4. TmpUnmarked
  BY <1>1, Zenon DEF TmpUnmarked
<1>5. MetaDated
  BY <1>1, Zenon DEF MetaDated
<1>6. StatDated
  <2>1. \A e \in Expirer : touch[e].at = "idle"
    BY <1>1, Zenon
  <2>2. "idle" # "stat"
    OBVIOUS
  <2> QED BY <2>1, <2>2, Zenon DEF StatDated
<1> QED BY <1>3, <1>4, <1>5, <1>6, Zenon DEF MarkInv

(* Steps that touch no file, and the passing of time. *)
LEMMA FilesStayMarkInv ==
    ASSUME MarkInv, UNCHANGED <<inode, files, meta, tmp, touch, marked, years>>, now' \in Year, planet' \in Year
    PROVE  MarkInv'
PROOF
<1>1. inode' = inode /\ files' = files /\ meta' = meta /\ tmp' = tmp /\ touch' = touch /\ marked' = marked /\ years' = years
  OBVIOUS
<1> QED BY <1>1, Zenon DEF MarkInv, Calendar, TmpUnmarked, MetaDated, StatDated

(* A file nobody else has is written: its two times are the present one.   *)
LEMMA WrittenMarkInv ==
    ASSUME FileInv, MarkInv, NEW w \in Writer, NEW i \in Inode, i # meta, i \notin marked,
           \A v \in Writer : v # w => tmp[v] # i,
           NEW file, file.mtime = now, file.born = now,
           inode' = [inode EXCEPT ![i] = file], tmp' = [tmp EXCEPT ![w] = i],
           files' \in Nat, files <= files',
           UNCHANGED <<now, planet, meta, touch, marked, years>>
    PROVE  MarkInv'
PROOF
<1>1. now' = now /\ planet' = planet /\ meta' = meta /\ touch' = touch /\ marked' = marked /\ years' = years
  OBVIOUS
<1>2. DOMAIN inode = Inode /\ DOMAIN tmp = Writer /\ files \in Nat /\ \A v \in Writer : tmp[v] \in Link
  BY Zenon DEF FileInv, FileTypes
<1>3. inode'[i] = file /\ \A j \in Inode : j # i => inode'[j] = inode[j]
  BY <1>2, Zenon
<1>4. tmp'[w] = i /\ \A v \in Writer : v # w => tmp'[v] = tmp[v]
  BY <1>2, Zenon
<1>5. Calendar' /\ StatDated'
  BY <1>1, Zenon DEF MarkInv, Calendar, StatDated
<1>6. MetaDated'
  <2>1. meta # NoFile => inode'[meta] = inode[meta]
    BY <1>3, Zenon DEF FileInv, FileTypes, Link
  <2>2. meta \in marked => inode'[meta] = inode[meta]
    BY <1>3, Zenon DEF MarkInv, TmpUnmarked
  <2> QED BY <1>1, <2>1, <2>2, Zenon DEF MarkInv, MetaDated
<1>7. TmpUnmarked'
  <2>1. ASSUME NEW j \in marked PROVE j \in Inode /\ j <= files'
    <3>1. j \in Inode /\ j <= files
      BY Zenon DEF MarkInv, TmpUnmarked
    <3>2. j \in Nat
      BY <3>1, FileStoreAssumption DEF Inode
    <3> QED BY <1>2, <3>1, <3>2
  <2>2. ASSUME NEW v \in Writer, tmp'[v] # NoFile
        PROVE  /\ tmp'[v] \notin marked
               /\ inode'[tmp'[v]].mtime = inode'[tmp'[v]].born /\ inode'[tmp'[v]].born \in Year
    <3>1. CASE v = w
      <4>1. tmp'[v] = i /\ inode'[tmp'[v]] = file
        BY <1>3, <1>4, <3>1, Zenon
      <4>2. inode'[tmp'[v]].mtime = now /\ inode'[tmp'[v]].born = now
        BY <4>1, Zenon
      <4> QED BY <4>1, <4>2, Zenon DEF MarkInv, Calendar
    <3>2. CASE v # w
      <4>1. tmp'[v] = tmp[v] /\ tmp[v] # i /\ tmp[v] # NoFile
        BY <1>4, <2>2, <3>2, Zenon
      <4>2. inode'[tmp[v]] = inode[tmp[v]]
        BY <1>2, <1>3, <4>1, Zenon DEF Link
      <4> QED BY <4>1, <4>2, Zenon DEF MarkInv, TmpUnmarked
    <3> QED BY <3>1, <3>2, Zenon
  <2> QED BY <1>1, <2>1, <2>2, ZenonT(60) DEF TmpUnmarked
<1> QED BY <1>5, <1>6, <1>7, ZenonT(60) DEF MarkInv

(* The steps of file_metatile_write before the name is changed. *)
LEMMA WriteMarkInv ==
    ASSUME FileInv, MarkInv, NEW w \in Writer, OpenTmp(w) \/ WriteHeader(w) \/ WriteTiles(w)
    PROVE  MarkInv'
PROOF
<1>1. CASE OpenTmp(w)
  <2> DEFINE i == IF tmp[w] = NoFile THEN files + 1 ELSE tmp[w]
             file == [size |-> 0, ver |-> files + 1, mtime |-> now, born |-> now]
  <2>1. /\ files' = files + 1 /\ files < MaxFiles
        /\ inode' = [inode EXCEPT ![i] = file] /\ tmp' = [tmp EXCEPT ![w] = i]
        /\ UNCHANGED <<now, planet, meta, touch, marked, years>>
    BY <1>1, Zenon DEF OpenTmp, At, history
  <2>2. file.mtime = now /\ file.born = now
    BY Zenon
  <2>3. files \in Nat /\ meta \in Link /\ meta <= files /\ \A v \in Writer : tmp[v] \in Link /\ tmp[v] <= files
    BY Zenon DEF FileInv, FileTypes, Created
  <2>4. \A j \in marked : j \in Inode /\ j <= files
    BY Zenon DEF MarkInv, TmpUnmarked
  <2>5. CASE tmp[w] = NoFile
    <3>1. i = files + 1
      BY <2>5, ZenonT(60)
    <3>2. i \in Inode /\ ~(i <= files)
      BY <2>1, <2>3, <3>1, FileStoreAssumption DEF Inode
    <3>3. i # meta /\ i \notin marked /\ \A v \in Writer : v # w => tmp[v] # i
      BY <2>3, <2>4, <3>2, ZenonT(60)
    <3>4. files' \in Nat /\ files <= files'
      BY <2>1, <2>3
    <3> HIDE DEF i, file
    <3> QED BY <2>1, <2>2, <3>2, <3>3, <3>4, WrittenMarkInv, Zenon
  <2>6. CASE tmp[w] # NoFile
    <3>1. i = tmp[w]
      BY <2>6, Zenon
    <3>2. i \in Inode /\ i # meta /\ \A v \in Writer : v # w => tmp[v] # i
      BY <2>3, <2>6, <3>1, Zenon DEF Link, FileInv, TmpPrivate
    <3>3. i \notin marked
      BY <2>6, <3>1, Zenon DEF MarkInv, TmpUnmarked
    <3>4. files' \in Nat /\ files <= files'
      BY <2>1, <2>3
    <3> HIDE DEF i, file
    <3> QED BY <2>1, <2>2, <3>2, <3>3, <3>4, WrittenMarkInv, Zenon
  <2> QED BY <2>5, <2>6, Zenon
<1>2. ASSUME NEW size, save[w] # "idle", Fill(w, size) PROVE MarkInv'
  <2> DEFINE i == tmp[w]
             file == [size |-> size, ver |-> inode[tmp[w]].ver, mtime |-> now, born |-> now]
  <2>1. /\ inode' = [inode EXCEPT ![i] = file] /\ tmp' = tmp /\ files' = files
        /\ UNCHANGED <<now, planet, meta, touch, marked, years>>
    BY <1>2, Zenon DEF Fill, history
  <2>2. file.mtime = now /\ file.born = now
    BY Zenon
  <2>3. tmp \in [Writer -> Link] /\ files \in Nat /\ i # NoFile
    BY <1>2, Zenon DEF FileInv, FileTypes, TmpPrivate
  <2>4. i \in Inode /\ i # meta /\ (\A v \in Writer : v # w => tmp[v] # i) /\ i \notin marked
    BY <2>3, Zenon DEF Link, FileInv, TmpPrivate, MarkInv, TmpUnmarked
  <2>5. tmp' = [tmp EXCEPT ![w] = i]
    BY <2>1, <2>3
  <2>6. files' \in Nat /\ files <= files'
    BY <2>1, <2>3
  <2> HIDE DEF i, file
  <2> QED BY <2>1, <2>2, <2>4, <2>5, <2>6, WrittenMarkInv, Zenon
<1>3. WriteHeader(w) => save[w] # "idle" /\ Fill(w, Half)
  BY DEF WriteHeader, At
<1>4. WriteTiles(w) => save[w] # "idle" /\ Fill(w, Whole)
  BY DEF WriteTiles, At
<1> QED BY <1>1, <1>2, <1>3, <1>4, Zenon

(* A metatile that gets its name is not marked, and its year is one of     *)
(* writing.                                                                *)
LEMMA RenameMarkInv == ASSUME FileInv, MarkInv, NEW w \in Writer, Rename(w) PROVE MarkInv'
PROOF
<1>1. /\ meta' = tmp[w] /\ tmp' = [tmp EXCEPT ![w] = NoFile] /\ years' = years \cup {inode[tmp[w]].born}
      /\ now' = now /\ planet' = planet /\ inode' = inode /\ files' = files /\ touch' = touch /\ marked' = marked
  BY DEF Rename
<1>2. save[w] # "idle"
  BY DEF Rename, At
<1>3. tmp[w] # NoFile /\ DOMAIN tmp = Writer
  BY <1>2, Zenon DEF FileInv, FileTypes, TmpPrivate
<1>4. tmp[w] \notin marked /\ inode[tmp[w]].mtime = inode[tmp[w]].born /\ inode[tmp[w]].born \in Year
  BY <1>3, Zenon DEF MarkInv, TmpUnmarked
<1>5. Calendar'
  BY <1>1, <1>4, Zenon DEF MarkInv, Calendar
<1>6. TmpUnmarked'
  <2>1. \A v \in Writer : tmp'[v] # NoFile => tmp'[v] = tmp[v]
    BY <1>1, <1>3, Zenon
  <2>2. inode' = inode /\ files' = files /\ marked' = marked
    BY <1>1, Zenon
  <2>3. TmpUnmarked
    BY Zenon DEF MarkInv
  <2> QED BY <2>1, <2>2, <2>3, Zenon DEF TmpUnmarked
<1>7. MetaDated'
  BY <1>1, <1>4, Zenon DEF MetaDated
<1>8. StatDated'
  BY <1>1, Zenon DEF SetBack, MarkInv, StatDated
<1> QED BY <1>5, <1>6, <1>7, <1>8, Zenon DEF MarkInv

(* A name is given up: of a temporary file, or of the metatile. *)
LEMMA UnlinkMarkInv ==
    ASSUME FileInv, MarkInv, file_metatile_delete \/ \E w \in Writer : RenameFails(w)
    PROVE  MarkInv'
PROOF
<1>1. /\ now' = now /\ planet' = planet /\ inode' = inode /\ files' = files
      /\ touch' = touch /\ marked' = marked /\ years' = years
  BY DEF file_metatile_delete, RenameFails, history
<1>2. \A v \in Writer : tmp'[v] # NoFile => tmp'[v] = tmp[v]
  <2>1. DOMAIN tmp = Writer
    BY Zenon DEF FileInv, FileTypes
  <2>2. tmp' = tmp \/ \E w \in Writer : tmp' = [tmp EXCEPT ![w] = NoFile]
    BY DEF file_metatile_delete, RenameFails
  <2> QED BY <2>1, <2>2, Zenon
<1>3. meta' = meta \/ meta' = NoFile
  BY DEF file_metatile_delete, RenameFails
<1>4. NoFile \notin marked
  BY FileStoreAssumption DEF MarkInv, TmpUnmarked, Inode, NoFile
<1>5. TmpUnmarked'
  BY <1>1, <1>2, Zenon DEF MarkInv, TmpUnmarked
<1>6. MetaDated'
  BY <1>1, <1>3, <1>4, Zenon DEF MarkInv, MetaDated
<1> QED BY <1>1, <1>5, <1>6, Zenon DEF MarkInv, Calendar, StatDated

(* The time a tool sets is one of writing set back, whichever it read.     *)
LEMMA TouchTimeDated ==
    ASSUME Calendar, NEW t \in Int, t \in years \/ SetBack(t, years), NEW d \in Shift
    PROVE  SetBack(TouchTime(t, d), years)
PROOF
<1>1. FirstYear \in Int /\ LastYear \in Int /\ d \in Int
  BY FileStoreAssumption
<1>2. CASE t \in years
  <2>1. t > 115
    BY <1>1, <1>2, YearsAssumption DEF Calendar, Year
  <2>2. TouchTime(t, d) + 20 - d = t
    BY <1>1, <2>1 DEF TouchTime
  <2> QED BY <1>2, <2>2, Zenon DEF SetBack
<1>3. CASE SetBack(t, years)
  <2>1. PICK c \in Shift : t + 20 - c \in years
    BY <1>3, Zenon DEF SetBack
  <2>2. t + 20 - c <= LastYear /\ LastYear + c <= 135 /\ c \in Int
    BY <1>1, <2>1, FileStoreAssumption, YearsAssumption DEF Calendar, Year
  <2>3. TouchTime(t, d) = t
    BY <1>1, <2>2 DEF TouchTime
  <2> QED BY <1>3, <2>3, Zenon
<1> QED BY <1>2, <1>3, Zenon

(* The steps of file_metatile_expire, the second of which may find another *)
(* file than the first.                                                    *)
LEMMA ExpireMarkInv ==
    ASSUME FileInv, MarkInv, NEW e \in Expirer, file_metatile_expire(e)
    PROVE  MarkInv'
PROOF
<1>0. /\ DOMAIN touch = Expirer /\ touch[e].mtime \in Int /\ DOMAIN inode = Inode /\ meta \in Link /\ meta <= files
      /\ \A v \in Writer : tmp[v] \in Link
  BY DEF FileInv, FileTypes, Created
<1>1. CASE StatMeta(e)
  <2>1. /\ now' = now /\ planet' = planet /\ inode' = inode /\ files' = files /\ meta' = meta /\ tmp' = tmp
        /\ marked' = marked /\ years' = years
    BY <1>1 DEF StatMeta, fsVars, history
  <2>2. meta # NoFile /\ touch' = [touch EXCEPT ![e] = [at |-> "stat", mtime |-> inode[meta].mtime]]
    BY <1>1, Zenon DEF StatMeta
  <2>3. inode[meta].mtime \in years \/ SetBack(inode[meta].mtime, years)
    <3>1. inode[meta].born \in years
      BY <2>2, Zenon DEF MarkInv, MetaDated
    <3>2. inode[meta].mtime = inode[meta].born \/ SetBack(inode[meta].mtime, years)
      BY <2>2, Zenon DEF MarkInv, MetaDated
    <3> QED BY <3>1, <3>2, Zenon
  <2>4. touch'[e].mtime = inode[meta].mtime /\ \A d \in Expirer : d # e => touch'[d] = touch[d]
    BY <1>0, <2>2, Zenon
  <2>5. StatDated'
    BY <2>1, <2>3, <2>4, Zenon DEF MarkInv, StatDated
  <2> QED BY <2>1, <2>5, ZenonT(60) DEF MarkInv, Calendar, TmpUnmarked, MetaDated
<1>2. CASE Touch(e)
  <2>1. /\ now' = now /\ planet' = planet /\ files' = files /\ meta' = meta /\ tmp' = tmp /\ years' = years
    BY <1>2 DEF Touch
  <2>2. touch[e].at = "stat" /\ touch' = [touch EXCEPT ![e] = [at |-> "idle", mtime |-> 0]]
    BY <1>2, Zenon DEF Touch
  <2>3. StatDated'
    <3>1. touch'[e].at = "idle" /\ \A d \in Expirer : d # e => touch'[d] = touch[d]
      BY <1>0, <2>2, Zenon
    <3>2. "idle" # "stat"
      OBVIOUS
    <3> QED BY <2>1, <3>1, <3>2, Zenon DEF MarkInv, StatDated
  <2>4. CASE inode' = inode /\ marked' = marked
    BY <2>1, <2>3, <2>4, Zenon DEF MarkInv, Calendar, TmpUnmarked, MetaDated
  <2>5. ASSUME meta # NoFile, NEW d \in Shift, inode' = [inode EXCEPT ![meta].mtime = TouchTime(touch[e].mtime, d)],
               marked' = marked \cup {meta}
        PROVE  MarkInv'
    <3>1. PICK t : t = TouchTime(touch[e].mtime, d)
      BY Zenon
    <3>2. inode' = [inode EXCEPT ![meta].mtime = t] /\ marked' = marked \cup {meta}
      BY <2>5, <3>1, Zenon
    <3>3. meta \in Inode
      BY <1>0, <2>5, Zenon DEF Link
    <3>4. SetBack(t, years)
      BY <1>0, <2>2, <3>1, TouchTimeDated, Zenon DEF MarkInv, StatDated
    <3>5. \A j \in Inode : j # meta => inode'[j] = inode[j]
      BY <1>0, <3>2, <3>3, Zenon
    <3>6. inode'[meta].mtime = t /\ inode'[meta].born = inode[meta].born
      <4>1. inode[meta] \in [size : {0, Half, Whole}, ver : Nat, mtime : Int, born : Int]
        BY <3>3, Zenon DEF FileInv, FileTypes
      <4>2. inode'[meta] = [inode[meta] EXCEPT !.mtime = t]
        BY <1>0, <3>2, <3>3, Zenon
      <4> QED BY <4>1, <4>2
    <3>7. MetaDated'
      <4>1. inode[meta].born \in years
        BY <2>5, Zenon DEF MarkInv, MetaDated
      <4>2. \E d2 \in Shift : inode'[meta'].mtime + 20 - d2 \in years'
        BY <2>1, <3>4, <3>6, ZenonT(60) DEF SetBack
      <4> QED BY <2>1, <3>6, <4>1, <4>2, Zenon DEF SetBack, MetaDated
    <3>8. TmpUnmarked'
      <4>1. \A v \in Writer : tmp[v] # NoFile => tmp[v] # meta
        BY Zenon DEF FileInv, TmpPrivate
      <4>2. \A v \in Writer : tmp[v] # NoFile => inode'[tmp[v]] = inode[tmp[v]]
        BY <1>0, <3>5, <4>1, Zenon DEF Link
      <4>3. TmpUnmarked /\ meta <= files /\ tmp' = tmp /\ files' = files /\ marked' = marked \cup {meta}
        BY <1>0, <2>1, <3>2, Zenon DEF MarkInv
      <4>4. \A j \in marked' : j \in Inode /\ j <= files'
        BY <3>3, <4>3, Zenon DEF TmpUnmarked
      <4> QED BY <4>1, <4>2, <4>3, <4>4, Zenon DEF TmpUnmarked
    <3> QED BY <2>1, <2>3, <3>7, <3>8, Zenon DEF MarkInv, Calendar
  <2> QED BY <1>2, <2>4, <2>5, Zenon DEF Touch
<1> QED BY <1>1, <1>2, Zenon DEF file_metatile_expire

(* Every other step leaves the files, and the calendar goes on to the last *)
(* year.                                                                   *)
LEMMA FileStepMarkInv == FileInv /\ MarkInv /\ FileNext => MarkInv'
PROOF
<1> SUFFICES ASSUME FileInv, MarkInv, FileNext PROVE MarkInv'
  OBVIOUS
<1> DEFINE Same == UNCHANGED <<inode, files, meta, tmp, touch, marked, years>>
<1>0. now \in Year /\ planet \in Year
  BY Zenon DEF MarkInv, Calendar
<1>1. ASSUME NEW w \in Writer, WriteFails(w) PROVE MarkInv'
  <2>1. Same /\ now' = now /\ planet' = planet
    BY <1>1 DEF WriteFails, fsVars, history
  <2> QED BY <1>0, <2>1, FilesStayMarkInv, Zenon
<1>2. CASE Crash
  <2>1. Same /\ now' = now /\ planet' = planet
    BY <1>2 DEF Crash, fsVars, history
  <2> QED BY <1>0, <2>1, FilesStayMarkInv, Zenon
<1>3. ASSUME NEW r \in Reader, file_tile_read(r) PROVE MarkInv'
  <2>1. PICK from, new : ReadStep(r, from, new)
    BY <1>3, Zenon DEF file_tile_read, OpenMeta, ReadHeader, ReadTile, Reread
  <2>2. Same /\ now' = now /\ planet' = planet
    BY <2>1 DEF ReadStep, fsVars, history
  <2> QED BY <1>0, <2>2, FilesStayMarkInv, Zenon
<1>4. CASE NewYear
  <2>1. Same /\ now' = now + 1 /\ now < LastYear /\ planet' = planet
    BY <1>4 DEF NewYear, fsVars, history
  <2>2. now' \in Year
    BY <1>0, <2>1, FileStoreAssumption DEF Year
  <2> QED BY <1>0, <2>1, <2>2, FilesStayMarkInv, ZenonT(60)
<1>5. CASE NewPlanet
  <2>1. Same /\ now' = now /\ planet' = now
    BY <1>5 DEF NewPlanet, fsVars, history
  <2> QED BY <1>0, <2>1, FilesStayMarkInv, Zenon
<1> QED
  BY <1>1, <1>2, <1>3, <1>4, <1>5, WriteMarkInv, RenameMarkInv, UnlinkMarkInv, ExpireMarkInv, ZenonT(60)
  DEF FileNext, file_metatile_write

(* What file_metatile_expire marked is out of date for file_tile_stat until*)
(* it is replaced, and the year it was written in is not lost, however many*)
(* tools touch it, write it, remove it and stop in between, for any number *)
(* of writers, readers and tools, in any of the years 2016 to 2035.        *)
THEOREM MarksKeepTheYear == StorageSpec => []MarkedKeepsReference
PROOF
<1>1. StorageInit => MarkInv
  BY InitMarkInv, Zenon DEF StorageInit
<1>2. StorageInv /\ MarkInv /\ [StorageNext]_storageVars => MarkInv'
  <2> SUFFICES ASSUME StorageInv, MarkInv, [StorageNext]_storageVars PROVE MarkInv'
    OBVIOUS
  <2>1. FileInv
    BY Zenon DEF StorageInv
  <2>2. FileNext \/ UNCHANGED fileVars
    BY DEF StorageNext, storageVars
  <2>3. CASE UNCHANGED fileVars
    <3>1. UNCHANGED <<inode, files, meta, tmp, touch, marked, years>> /\ now' = now /\ planet' = planet
      BY <2>3 DEF fileVars, fsVars, history
    <3>2. now \in Year /\ planet \in Year
      BY Zenon DEF MarkInv, Calendar
    <3> QED BY <3>1, <3>2, FilesStayMarkInv, Zenon
  <2> QED BY <2>1, <2>2, <2>3, FileStepMarkInv, Zenon
<1>3. StorageInv /\ MarkInv => MarkedKeepsReference
  <2> SUFFICES ASSUME StorageInv, MarkInv PROVE MarkedKeepsReference
    OBVIOUS
  <2>1. ASSUME meta \in marked PROVE file_tile_stat.expired
    <3>1. meta \in Inode /\ SetBack(inode[meta].mtime, years) /\ planet \in Year /\ years \in SUBSET Year
      BY <2>1, Zenon DEF MarkInv, TmpUnmarked, MetaDated, Calendar
    <3>2. meta # NoFile
      BY <3>1, FileStoreAssumption DEF Inode, NoFile
    <3>3. inode[meta].mtime \in Int
      BY <3>1 DEF StorageInv, FileInv, FileTypes
    <3>4. inode[meta].mtime < planet
      <4>1. PICK d \in Shift : inode[meta].mtime + 20 - d \in years
        BY <3>1, Zenon DEF SetBack
      <4> QED BY <3>1, <3>3, <4>1, FileStoreAssumption, YearsAssumption DEF Year
    <3>5. file_tile_stat.expired = Expired(IF meta = NoFile THEN 0 ELSE inode[meta].mtime)
      BY Zenon DEF file_tile_stat
    <3>6. (IF meta = NoFile THEN 0 ELSE inode[meta].mtime) = inode[meta].mtime
      BY <3>2, Zenon
    <3> QED BY <3>4, <3>5, <3>6, Zenon DEF Expired
  <2>2. meta # NoFile => inode[meta].mtime = inode[meta].born \/ SetBack(inode[meta].mtime, years)
    BY Zenon DEF MarkInv, MetaDated
  <2> QED BY <2>1, <2>2, Zenon DEF MarkedKeepsReference, SetBack
<1> QED BY <1>1, <1>2, <1>3, StorageInvariant, PTL DEF StorageSpec

-----------------------------------------------------------------------------
(* The unlocked read and write of memcached_metatile_expire and            *)
(* rados_metatile_expire may undo a write, for any number of tools and     *)
(* writers, but what they leave is marked as expired.                      *)
THEOREM LostUpdatesAreMarked == StorageSpec => []LostUpdateIsMarked
PROOF
<1>1. StorageInv => LostUpdateIsMarked
  BY Zenon DEF StorageInv, ObjectInv
<1> QED
  BY <1>1, StorageInvariant, PTL

(* memcached_tile_read and, while its cached header is still that of the   *)
(* object, rados_tile_read cut a tile out of the metatile asked for, at    *)
(* the place the header of the same write gave.                            *)
THEOREM TilesFitTheirHeader == StorageSpec => []TileFitsHeader
PROOF
<1>1. StorageInv => TileFitsHeader
  BY Zenon DEF StorageInv, ObjectInv, RepliesFit, IsOf, TileFitsHeader
<1> QED
  BY <1>1, StorageInvariant, PTL

(* ro_http_proxy_tile_read and ro_composite_tile_read return what was      *)
(* fetched for the coordinates asked for, for any sequence of answers and  *)
(* failures of the other servers.                                          *)
THEOREM ProxiedTilesAreAsked == StorageSpec => []ProxiedTileIsAsked
PROOF
<1>1. StorageInv => ProxiedTileIsAsked
  <2> SUFFICES ASSUME ProxyInv PROVE ProxiedTileIsAsked
    BY ZenonT(60) DEF StorageInv
  <2>1. \A th \in Thread : DOMAIN answer[th].got = 1..Len(answer[th].got)
    BY DEF ProxyInv
  <2> QED
    BY <2>1, ZenonT(60) DEF ProxyInv, ProxiedTileIsAsked
<1> QED
  BY <1>1, StorageInvariant, PTL

-----------------------------------------------------------------------------
(***************************************************************************)
(* The job queue of the command line tools neither loses, repeats nor      *)
(* reorders a job, for any number of workers and jobs.                     *)
(*                                                                         *)
(* The argument: jobs are numbered as they are enqueued, so the list is    *)
(* the interval from the first job not yet fetched to the last enqueued,   *)
(* and its links lead from each job to the next number.  Once the flag is  *)
(* set nothing is enqueued, so a queue that a worker has found empty       *)
(* stays empty until the threads are joined.                               *)
(***************************************************************************)

MainStates == {"run", "blockedFull", "wokenFull", "blockedEmpty", "wokenEmpty", "broadcast", "join", "done"}

SubmitTypes ==
    /\ enqueued \in 0..MaxJobs
    /\ qHead \in 0..MaxJobs /\ qTail \in 0..MaxJobs
    /\ next \in [Job -> 0..MaxJobs]
    /\ qLen \in Nat
    /\ work_complete \in BOOLEAN
    /\ mainAt \in MainStates
    /\ worker \in [Worker -> {"start", "loop", "blocked", "woken", "process", "lost", "ended", "failed"}]
    /\ fetched \in Seq(Nat)

(* The flag is set once enqueueing is over, workers end only then and with *)
(* nothing left to fetch, and are joined before mainAt is done.              *)
EndsEmpty ==
    /\ work_complete <=> mainAt \in {"broadcast", "join", "done"}
    /\ \A w \in Worker : worker[w] = "ended" => work_complete /\ qLen = 0
    /\ mainAt = "done" => \A w \in Worker : worker[w] \in {"ended", "failed"}

(* The inductive invariant. *)
SubmitInv == SubmitTypes /\ ListExact /\ EndsEmpty

(* What ListExact says, by the number n of jobs fetched. *)
Fetched(n) == Len(fetched) = n /\ fetched = [i \in 1..n |-> i]
Linked(n) ==
    /\ qLen = enqueued - n /\ qLen <= qMaxLen
    /\ qLen = 0 => qHead = NULL /\ qTail = NULL
    /\ qLen # 0 => qHead = n + 1 /\ qTail = enqueued
    /\ \A j \in (n + 1)..(enqueued - 1) : next[j] = j + 1

(* The two forms say the same. *)
LEMMA ListForm ==
    ASSUME NEW n \in Nat
    PROVE  ListExact /\ Len(fetched) = n <=> Fetched(n) /\ Linked(n)
PROOF
  BY Zenon DEF ListExact, Fetched, Linked

(* So they do after a step. *)
LEMMA ListFormNext == ASSUME NEW n \in Nat, Fetched(n)', Linked(n)' PROVE ListExact'
PROOF
  BY Zenon DEF ListExact, Fetched, Linked

(* The queue is empty when spawn_workers starts the threads. *)
LEMMA InitSubmitInv == spawn_workers => SubmitInv
PROOF
<1> SUFFICES ASSUME spawn_workers PROVE SubmitInv
  BY Zenon
<1>1. SubmitTypes
  <2>1. <<>> \in Seq(Nat) /\ 0 \in 0..MaxJobs /\ 0 \in Nat
    BY SubmitAssumption
  <2>2. next \in [Job -> 0..MaxJobs] /\ "run" \in MainStates
    BY <2>1, Zenon DEF spawn_workers, NULL, MainStates
  <2> QED
    BY <2>1, <2>2, Zenon DEF spawn_workers, SubmitTypes, NULL
<1>2. ListExact
  <2>1. Fetched(0)
    BY DEF spawn_workers, Fetched
  <2>2. Linked(0)
    BY SubmitAssumption DEF spawn_workers, Linked, NULL
  <2> QED
    BY <2>1, <2>2, ListForm, ZenonT(60)
<1>3. EndsEmpty
  BY Zenon DEF spawn_workers, EndsEmpty
<1> QED
  BY <1>1, <1>2, <1>3, Zenon DEF SubmitInv

(* enqueue links the new job behind the last one. *)
LEMMA EnqueueKeepsInv == ASSUME SubmitInv, EnqueueAppends PROVE SubmitInv'
PROOF
<1>1. PICK n \in Nat : Fetched(n) /\ Linked(n)
  <2>1. Len(fetched) \in Nat
    BY DEF SubmitInv, SubmitTypes
  <2> QED
    BY <2>1, ListForm, Zenon DEF SubmitInv
<1>2. /\ MaxJobs \in Nat /\ enqueued \in 0..MaxJobs /\ qLen \in Nat /\ qMaxLen \in Nat
      /\ qTail \in 0..MaxJobs /\ qHead \in 0..MaxJobs /\ next \in [Job -> 0..MaxJobs]
  BY SubmitAssumption, Zenon DEF SubmitInv, SubmitTypes
<1>3. /\ enqueued' = enqueued + 1 /\ enqueued < MaxJobs /\ qLen # qMaxLen /\ qLen' = qLen + 1
      /\ qHead' = IF qTail = NULL THEN enqueued + 1 ELSE qHead
      /\ next' = IF qTail = NULL THEN next ELSE [next EXCEPT ![qTail] = enqueued + 1]
      /\ qTail' = enqueued + 1
      /\ mainAt \in {"run", "wokenFull"} /\ mainAt' = "run"
      /\ UNCHANGED <<work_complete, fetched>>
  BY Zenon DEF EnqueueAppends, AppendItem, QueueFull
<1>4. /\ worker' \in [Worker -> {"start", "loop", "blocked", "woken", "process", "lost", "ended", "failed"}]
      /\ \A w \in Worker : worker'[w] = worker[w] \/ worker'[w] = "woken"
  BY ZenonT(60) DEF EnqueueAppends, SignalNotEmpty, SubmitInv, SubmitTypes
<1>5. /\ qTail = NULL <=> qLen = 0
      /\ qLen' = enqueued' - n /\ qLen' <= qMaxLen /\ qLen' \in Nat /\ qLen' # 0
      /\ qHead' = n + 1 /\ qTail' = enqueued'
  BY <1>1, <1>2, <1>3 DEF Linked, NULL
<1>6. next' \in [Job -> 0..MaxJobs]
  <2>1. enqueued + 1 \in 0..MaxJobs
    BY <1>2, <1>3
  <2> QED
    BY <1>2, <1>3, <2>1, ZenonT(60)
<1>7. SubmitTypes'
  <2>1. /\ enqueued' \in 0..MaxJobs /\ qTail' \in 0..MaxJobs /\ qHead' \in 0..MaxJobs
        /\ "run" \in MainStates
    BY <1>2, <1>3 DEF MainStates
  <2> QED
    BY <1>3, <1>4, <1>5, <1>6, <2>1, ZenonT(60) DEF SubmitInv, SubmitTypes
<1>8. ASSUME NEW j \in (n + 1)..(enqueued' - 1) PROVE next'[j] = j + 1
  <2>1. qLen # 0 /\ qTail = enqueued /\ enqueued \in Job /\ j \in Job
    BY <1>1, <1>2, <1>3 DEF Linked, Job
  <2>2. next' = [next EXCEPT ![enqueued] = enqueued + 1]
    BY <1>3, <1>5, <2>1, ZenonT(60)
  <2>3. j # enqueued => next[j] = j + 1
    BY <1>1, <1>2, <1>3 DEF Linked
  <2> QED
    BY <1>2, <2>1, <2>2, <2>3, ZenonT(60)
<1>9. ListExact'
  <2>1. Linked(n)'
    BY <1>5, <1>8, Zenon DEF Linked, qMaxLen
  <2>2. Fetched(n)'
    BY <1>1, <1>3, Zenon DEF Fetched
  <2> QED
    BY <2>1, <2>2, ListFormNext, Zenon
<1>10. EndsEmpty'
  BY <1>3, <1>4, Zenon DEF SubmitInv, EndsEmpty
<1> QED
  BY <1>7, <1>9, <1>10, Zenon DEF SubmitInv

(* fetch takes the oldest job off the list. *)
LEMMA FetchKeepsSubmitInv == ASSUME SubmitInv, NEW w \in Worker, FetchTakes(w) PROVE SubmitInv'
PROOF
<1>1. PICK n \in Nat : Fetched(n) /\ Linked(n)
  <2>1. Len(fetched) \in Nat
    BY DEF SubmitInv, SubmitTypes
  <2> QED
    BY <2>1, ListForm, Zenon DEF SubmitInv
<1>2. /\ MaxJobs \in Nat /\ enqueued \in 0..MaxJobs /\ qLen \in Nat /\ qMaxLen \in Nat
      /\ qTail \in 0..MaxJobs /\ qHead \in 0..MaxJobs
  BY SubmitAssumption, Zenon DEF SubmitInv, SubmitTypes
<1>3. /\ qLen > 0 /\ qLen' = qLen - 1
      /\ qHead' = IF qLen = 1 THEN NULL ELSE next[qHead]
      /\ qTail' = IF qLen = 1 THEN NULL ELSE qTail
      /\ fetched' = Append(fetched, qHead)
      /\ worker' = [worker EXCEPT ![w] = "process"] /\ worker[w] \in {"loop", "woken"}
      /\ UNCHANGED <<enqueued, next, work_complete>>
  BY Zenon DEF FetchTakes, TakeHead, WorkerTo
<1>4. /\ mainAt' \in MainStates /\ (mainAt' = "done" => mainAt = "done")
      /\ mainAt' \in {"broadcast", "join", "done"} <=> mainAt \in {"broadcast", "join", "done"}
  BY Zenon DEF FetchTakes, SignalNotFull, SubmitInv, SubmitTypes, MainStates
<1>5. qHead = n + 1 /\ qTail = enqueued
  BY <1>1, <1>2, <1>3 DEF Linked
<1>6. qLen # 1 => qHead' = n + 2 /\ qTail' = enqueued
  BY <1>1, <1>2, <1>3, <1>5 DEF Linked
<1>7. Fetched(n + 1)'
  <2>1. fetched \in Seq(Nat) /\ Len(fetched) = n /\ \A i \in 1..n : fetched[i] = i
    BY <1>1, ZenonT(60) DEF SubmitInv, SubmitTypes, Fetched
  <2>2. /\ fetched' \in Seq(Nat) /\ Len(fetched') = n + 1
        /\ \A i \in 1..n : fetched'[i] = i
        /\ fetched'[n + 1] = n + 1
    BY <1>3, <1>5, <2>1
  <2>3. \A i \in 1..(n + 1) : fetched'[i] = i
    BY <2>2
  <2>4. fetched' = [i \in 1..(n + 1) |-> fetched'[i]]
    BY <2>2
  <2>5. fetched' = [i \in 1..(n + 1) |-> i]
    BY <2>3, <2>4, Zenon
  <2> QED
    BY <2>2, <2>5, Zenon DEF Fetched
<1>8. SubmitTypes'
  <2>1. qHead' \in 0..MaxJobs /\ qTail' \in 0..MaxJobs /\ qLen' \in Nat
    BY <1>1, <1>2, <1>3, <1>6, SMTT(40) DEF Linked, NULL
  <2>2. fetched' \in Seq(Nat)
    BY <1>2, <1>3 DEF SubmitInv, SubmitTypes
  <2>3. worker' \in [Worker -> {"start", "loop", "blocked", "woken", "process", "lost", "ended", "failed"}]
    BY <1>3, Zenon DEF SubmitInv, SubmitTypes
  <2> QED
    BY <1>3, <1>4, <2>1, <2>2, <2>3, ZenonT(60) DEF SubmitInv, SubmitTypes
<1>9. ListExact'
  <2>1. Linked(n + 1)'
    BY <1>1, <1>2, <1>3, <1>6 DEF Linked, qMaxLen
  <2> QED
    BY <1>7, <2>1, ListFormNext
<1>10. EndsEmpty'
  <2>1. \A v \in Worker : worker[v] # "ended" /\ worker'[v] # "ended"
    BY <1>2, <1>3 DEF SubmitInv, EndsEmpty, SubmitTypes
  <2>2. mainAt # "done"
    BY <1>3, Zenon DEF SubmitInv, EndsEmpty
  <2> QED
    BY <1>3, <1>4, <2>1, <2>2, ZenonT(60) DEF SubmitInv, EndsEmpty
<1> QED
  BY <1>8, <1>9, <1>10, Zenon DEF SubmitInv

(* A step that leaves the list alone keeps the invariant if it keeps the   *)
(* types and the order of the end.                                         *)
LEMMA SameListKeepsInv == ASSUME SubmitInv, UNCHANGED listVars, SubmitTypes', EndsEmpty' PROVE SubmitInv'
PROOF
<1>1. ListExact'
  BY Zenon DEF SubmitInv, ListExact, listVars
<1> QED
  BY <1>1, Zenon DEF SubmitInv

(* The steps of the main thread that wait, wake up or finish. *)
LEMMA MainKeepsSubmitInv ==
    ASSUME SubmitInv, EnqueueWaits \/ wait_for_empty_queue \/ finish_workers \/ MainWakesSpuriously
    PROVE  SubmitInv'
PROOF
<1> SubmitTypes /\ EndsEmpty
  BY Zenon DEF SubmitInv
<1>1. CASE EnqueueWaits \/ wait_for_empty_queue \/ MainWakesSpuriously
  <2>1. UNCHANGED <<listVars, work_complete, worker>> /\ mainAt \notin {"broadcast", "join", "done"}
        /\ mainAt' \in MainStates \ {"broadcast", "join", "done"}
    BY <1>1, Zenon DEF EnqueueWaits, wait_for_empty_queue, EmptyWaits, EmptyReturns, MainWakesSpuriously, MainStates
  <2> QED
    BY <2>1, SameListKeepsInv, Zenon DEF SubmitTypes, EndsEmpty, listVars
<1>2. CASE FinishSetsFlag
  BY <1>2, SameListKeepsInv, Zenon DEF FinishSetsFlag, SubmitTypes, EndsEmpty, listVars, MainStates
<1>3. CASE FinishBroadcasts
  <2>1. /\ worker' \in [Worker -> {"start", "loop", "blocked", "woken", "process", "lost", "ended", "failed"}]
        /\ \A w \in Worker : worker'[w] = worker[w] \/ worker'[w] = "woken"
    BY <1>3, Zenon DEF FinishBroadcasts, WakeAll, SubmitTypes
  <2> QED
    BY <1>3, <2>1, SameListKeepsInv, Zenon DEF FinishBroadcasts, SubmitTypes, EndsEmpty, listVars, MainStates
<1>4. CASE FinishJoins
  BY <1>4, SameListKeepsInv, Zenon DEF FinishJoins, SubmitTypes, EndsEmpty, listVars, MainStates
<1> QED
  BY <1>1, <1>2, <1>3, <1>4, Zenon DEF finish_workers

(* The steps of a worker that take no job. *)
LEMMA WorkerKeepsInv ==
    ASSUME SubmitInv, NEW w \in Worker,
           \/ Connects(w) \/ FetchEnds(w) \/ FetchWaits(w) \/ process(w) \/ Reconnects(w)
           \/ ConnectFails(w) \/ ReconnectFails(w) \/ WakesSpuriously(w)
    PROVE  SubmitInv'
PROOF
<1> SubmitTypes /\ EndsEmpty
  BY Zenon DEF SubmitInv
<1>1. UNCHANGED <<listVars, work_complete, mainAt>>
  BY Zenon DEF Connects, FetchEnds, FetchWaits, process, ProcessDone, ProcessNotDone, ProcessLost, Reconnects,
         ConnectFails, ReconnectFails, WakesSpuriously
<1>2. ASSUME NEW s \in {"loop", "blocked", "woken", "process", "lost", "failed"}, WorkerTo(w, s),
             worker[w] \in {"start", "loop", "blocked", "woken", "process", "lost"}
      PROVE  SubmitInv'
  <2>1. worker' \in [Worker -> {"start", "loop", "blocked", "woken", "process", "lost", "ended", "failed"}]
        /\ \A v \in Worker : (v # w => worker'[v] = worker[v]) /\ (v = w => worker'[v] = s)
    BY <1>2, ZenonT(60) DEF WorkerTo, SubmitTypes
  <2> QED
    BY <1>1, <1>2, <2>1, SameListKeepsInv, Zenon DEF SubmitTypes, EndsEmpty, listVars
<1>3. CASE FetchEnds(w)
  <2>1. worker' \in [Worker -> {"start", "loop", "blocked", "woken", "process", "lost", "ended", "failed"}]
        /\ \A v \in Worker : (v # w => worker'[v] = worker[v]) /\ (v = w => worker'[v] = "ended")
    BY <1>3, ZenonT(60) DEF FetchEnds, WorkerTo, SubmitTypes
  <2> QED
    BY <1>1, <1>3, <2>1, SameListKeepsInv DEF FetchEnds, SubmitTypes, EndsEmpty, listVars
<1>4. CASE ReconnectFails(w)
  BY <1>1, <1>4, SameListKeepsInv DEF ReconnectFails, SubmitTypes, EndsEmpty, listVars
<1> QED
  BY <1>2, <1>3, <1>4, Zenon DEF Connects, FetchWaits, process, ProcessDone, ProcessNotDone, ProcessLost, Reconnects,
         ConnectFails, WakesSpuriously

(* The invariant holds in every state of the job queue. *)
LEMMA SubmitInvariant == SubmitSpec => []SubmitInv
PROOF
<1>1. SubmitInv /\ [SubmitNext]_submitVars => SubmitInv'
  <2> SUFFICES ASSUME SubmitInv, [SubmitNext]_submitVars PROVE SubmitInv'
    BY Zenon
  <2>1. CASE UNCHANGED submitVars
    BY <2>1, SameListKeepsInv, Zenon DEF SubmitInv, SubmitTypes, EndsEmpty, submitVars, listVars
  <2>2. CASE enqueue \/ wait_for_empty_queue \/ finish_workers \/ MainWakesSpuriously
    BY <2>2, EnqueueKeepsInv, MainKeepsSubmitInv, Zenon DEF enqueue
  <2>3. ASSUME NEW w \in Worker, thread_main(w) \/ ConnectFails(w) \/ ReconnectFails(w) \/ WakesSpuriously(w)
        PROVE  SubmitInv'
    BY <2>3, FetchKeepsSubmitInv, WorkerKeepsInv, Zenon DEF thread_main, fetch
  <2> QED
    BY <2>1, <2>2, <2>3, Zenon DEF SubmitNext
<1> QED
  BY <1>1, InitSubmitInv, PTL DEF SubmitSpec

(* The linked list is exact in every state: enqueue and fetch neither lose *)
(* nor repeat nor reorder a job, the queue never holds more than qMaxLen,  *)
(* and fetch never meets a null qHead.                                     *)
THEOREM JobsAreFetchedInOrder == SubmitSpec => []ListExact
PROOF
<1>1. SubmitInv => ListExact
  BY Zenon DEF SubmitInv
<1> QED
  BY <1>1, SubmitInvariant, PTL

(***************************************************************************)
(* Every job is answered.  A job that has been fetched stays in the hands  *)
(* of the worker that fetched it, through broken connections, until        *)
(* renderd has answered it; a worker that ends has none.                   *)
(***************************************************************************)

Busy == {"process", "lost"}

(* The jobs fetched are those answered and those in somebody's hands. *)
HandsInv ==
    /\ DOMAIN cmd = Worker
    /\ answered \subseteq 1..Len(fetched)
    /\ \A w \in Worker : worker[w] \in Busy => cmd[w] \in 1..Len(fetched)
    /\ \A j \in 1..Len(fetched) : j \in answered \/ \E w \in Worker : worker[w] \in Busy /\ cmd[w] = j

(* A step that gives no job to a worker and takes none away. *)
LEMMA SameHands ==
    ASSUME HandsInv, fetched' = fetched, answered' = answered, cmd' = cmd,
           \A w \in Worker : worker'[w] \in Busy <=> worker[w] \in Busy
    PROVE  HandsInv'
PROOF
  BY Zenon DEF HandsInv

(* fetch gives the oldest job to the worker. *)
LEMMA FetchHands == ASSUME SubmitInv, HandsInv, NEW w \in Worker, FetchTakes(w) PROVE HandsInv'
PROOF
<1>1. PICK n \in Nat : n = Len(fetched) /\ Linked(n)
  BY ListForm DEF SubmitInv, SubmitTypes
<1>2. /\ qLen > 0 /\ qLen \in Nat /\ fetched \in Seq(Nat) /\ fetched' = Append(fetched, qHead) /\ qHead \in Nat
      /\ cmd' = [cmd EXCEPT ![w] = qHead] /\ answered' = answered
      /\ worker' = [worker EXCEPT ![w] = "process"] /\ worker[w] \in {"loop", "woken"} /\ DOMAIN worker = Worker
  BY SubmitAssumption DEF FetchTakes, WorkerTo, SubmitInv, SubmitTypes
<1>3. qHead = n + 1 /\ Len(fetched') = n + 1 /\ n + 1 \in 1..(n + 1)
  BY <1>1, <1>2 DEF Linked
<1>4. \A j : j \in 1..(n + 1) <=> j \in 1..n \/ j = n + 1
  BY <1>1
<1>5. /\ DOMAIN cmd' = Worker /\ cmd'[w] = n + 1 /\ \A v \in Worker : v # w => cmd'[v] = cmd[v]
      /\ worker'[w] = "process" /\ \A v \in Worker : v # w => worker'[v] = worker[v]
      /\ worker[w] \notin Busy /\ "process" \in Busy
  <2>1. DOMAIN cmd = Worker
    BY Zenon DEF HandsInv
  <2>2. worker[w] \notin Busy /\ "process" \in Busy
    BY <1>2, Zenon DEF Busy
  <2> QED
    BY <1>2, <1>3, <2>1, <2>2, Zenon
<1>6. answered' \subseteq 1..(n + 1)
  BY <1>1, <1>2, <1>4, Zenon DEF HandsInv
<1>7. \A v \in Worker : worker'[v] \in Busy => cmd'[v] \in 1..(n + 1)
  BY <1>1, <1>3, <1>4, <1>5, Zenon DEF HandsInv
<1>8. ASSUME NEW j \in 1..(n + 1)
      PROVE  j \in answered' \/ \E v \in Worker : worker'[v] \in Busy /\ cmd'[v] = j
  <2>1. CASE j = n + 1
    BY <1>5, <2>1, Zenon
  <2>2. CASE j \in 1..n /\ j \notin answered
    <3>1. PICK v \in Worker : worker[v] \in Busy /\ cmd[v] = j
      BY <1>1, <2>2, Zenon DEF HandsInv
    <3>2. v # w
      BY <1>5, <3>1, Zenon
    <3> QED
      BY <1>5, <3>1, <3>2, Zenon
  <2> QED
    BY <1>2, <1>4, <2>1, <2>2, Zenon
<1> QED
  BY <1>3, <1>5, <1>6, <1>7, <1>8, Zenon DEF HandsInv

(* The answer takes the job from the worker. *)
LEMMA AnswerHands ==
    ASSUME SubmitTypes, HandsInv, NEW w \in Worker, worker[w] = "process", WorkerTo(w, "loop"),
           fetched' = fetched, answered' = answered \cup {cmd[w]}, cmd' = [cmd EXCEPT ![w] = NULL]
    PROVE  HandsInv'
PROOF
<1>1. "process" \in Busy /\ "loop" \notin Busy /\ DOMAIN worker = Worker /\ DOMAIN cmd = Worker
  BY Zenon DEF Busy, SubmitTypes, HandsInv
<1>2. /\ DOMAIN cmd' = Worker /\ \A v \in Worker : v # w => cmd'[v] = cmd[v] /\ worker'[v] = worker[v]
      /\ worker'[w] = "loop"
  BY <1>1, Zenon DEF WorkerTo
<1>3. cmd[w] \in 1..Len(fetched)
  BY <1>1, Zenon DEF HandsInv
<1>4. answered' \subseteq 1..Len(fetched)
  BY <1>3, Zenon DEF HandsInv
<1>5. ASSUME NEW v \in Worker, worker'[v] \in Busy PROVE cmd'[v] \in 1..Len(fetched)
  <2>1. v # w
    BY <1>1, <1>2, <1>5, Zenon
  <2> QED
    BY <1>2, <1>5, <2>1, Zenon DEF HandsInv
<1>6. ASSUME NEW j \in 1..Len(fetched)
      PROVE  j \in answered' \/ \E v \in Worker : worker'[v] \in Busy /\ cmd'[v] = j
  <2>1. CASE j \in answered
    BY <2>1, Zenon
  <2>2. CASE j \notin answered
    <3>1. PICK v \in Worker : worker[v] \in Busy /\ cmd[v] = j
      BY <2>2, Zenon DEF HandsInv
    <3> QED
      BY <1>2, <3>1, Zenon
  <2> QED
    BY <2>1, <2>2, Zenon
<1> QED
  BY <1>2, <1>4, <1>5, <1>6, Zenon DEF HandsInv

(* One step. *)
LEMMA NextHands == SubmitInv /\ HandsInv /\ [SubmitNext]_submitVars => HandsInv'
PROOF
<1> SUFFICES ASSUME SubmitInv, HandsInv, [SubmitNext]_submitVars PROVE HandsInv'
  BY Zenon
<1>1. worker \in [Worker -> {"start", "loop", "blocked", "woken", "process", "lost", "ended", "failed"}] /\ SubmitTypes
  BY Zenon DEF SubmitInv, SubmitTypes
<1>2. CASE UNCHANGED submitVars
  BY <1>2, SameHands, Zenon DEF submitVars, listVars, jobVars
<1>3. CASE enqueue \/ wait_for_empty_queue \/ finish_workers \/ MainWakesSpuriously
  <2>1. fetched' = fetched /\ answered' = answered /\ cmd' = cmd
    BY <1>3, ZenonT(60) DEF enqueue, EnqueueWaits, EnqueueAppends, wait_for_empty_queue, EmptyWaits, EmptyReturns,
           finish_workers, FinishSetsFlag, FinishBroadcasts, FinishJoins, MainWakesSpuriously, listVars, jobVars
  <2>2. \A w \in Worker : worker'[w] = worker[w] \/ (worker[w] = "blocked" /\ worker'[w] = "woken")
    BY <1>1, <1>3, ZenonT(60) DEF enqueue, EnqueueWaits, EnqueueAppends, SignalNotEmpty, wait_for_empty_queue,
           EmptyWaits, EmptyReturns, finish_workers, FinishSetsFlag, FinishBroadcasts, WakeAll, FinishJoins,
           MainWakesSpuriously
  <2>3. \A w \in Worker : worker'[w] \in Busy <=> worker[w] \in Busy
    BY <2>2, Zenon DEF Busy
  <2> QED
    BY <2>1, <2>3, SameHands, Zenon
<1>4. ASSUME NEW w \in Worker, NEW s \in {"loop", "blocked", "woken", "ended", "failed", "process", "lost"}, WorkerTo(w, s),
             s \in Busy <=> worker[w] \in Busy, UNCHANGED <<listVars, jobVars>>
      PROVE  HandsInv'
  <2>1. \A v \in Worker : worker'[v] \in Busy <=> worker[v] \in Busy
    BY <1>1, <1>4, Zenon DEF WorkerTo
  <2> QED
    BY <1>4, <2>1, SameHands, Zenon DEF listVars, jobVars
<1>5. ASSUME NEW w \in Worker, thread_main(w) \/ ConnectFails(w) \/ ReconnectFails(w) \/ WakesSpuriously(w)
      PROVE  HandsInv'
  <2>1. CASE Connects(w) \/ ConnectFails(w) \/ FetchEnds(w) \/ FetchWaits(w) \/ WakesSpuriously(w)
    BY <1>4, <1>5, <2>1, ZenonT(60) DEF Connects, ConnectFails, FetchEnds, FetchWaits, WakesSpuriously, Busy
  <2>2. CASE ProcessLost(w) \/ Reconnects(w)
    BY <1>4, <1>5, <2>2, ZenonT(60) DEF ProcessLost, Reconnects, Busy
  <2>3. CASE ReconnectFails(w)
    BY <2>3, SameHands, Zenon DEF ReconnectFails, listVars, jobVars
  <2>4. CASE FetchTakes(w)
    BY <1>5, <2>4, FetchHands, Zenon
  <2>5. CASE ProcessNotDone(w) \/ \E t \in Duration : ProcessDone(w, t)
    BY <1>1, <1>5, <2>5, AnswerHands, ZenonT(60) DEF ProcessNotDone, ProcessDone, listVars
  <2> QED
    BY <1>5, <2>1, <2>2, <2>3, <2>4, <2>5, Zenon DEF thread_main, fetch, process
<1> QED
  BY <1>2, <1>3, <1>5, Zenon DEF SubmitNext

(* In every state. *)
LEMMA HandsInvariant == SubmitSpec => []HandsInv
PROOF
<1>1. spawn_workers => HandsInv
  <2> SUFFICES ASSUME spawn_workers PROVE HandsInv
    BY Zenon
  <2>1. fetched = <<>> /\ answered = {} /\ cmd = [w \in Worker |-> NULL] /\ worker = [w \in Worker |-> "start"]
    BY Zenon DEF spawn_workers
  <2>2. Len(fetched) = 0 /\ \A j \in 1..0 : FALSE
    BY <2>1
  <2>3. \A w \in Worker : worker[w] \notin Busy
    BY <2>1, Zenon DEF Busy
  <2> QED
    BY <2>1, <2>2, <2>3, Zenon DEF HandsInv
<1> QED
  BY <1>1, NextHands, SubmitInvariant, PTL DEF SubmitSpec

(* When finish_workers has joined the threads renderd has answered every   *)
(* job, unless no worker ever got a connection.                            *)
THEOREM NoJobIsLeft == SubmitSpec => []EveryJobAnswered
PROOF
<1>1. SubmitInv /\ HandsInv => EveryJobAnswered
  <2> SUFFICES ASSUME SubmitInv, HandsInv, mainAt = "done", NEW w \in Worker, worker[w] # "failed"
               PROVE  qLen = 0 /\ answered = 1..enqueued
    BY Zenon DEF EveryJobAnswered
  <2>1. qLen = 0 /\ \A v \in Worker : worker[v] \in {"ended", "failed"}
    BY Zenon DEF SubmitInv, EndsEmpty
  <2>2. PICK n \in Nat : n = Len(fetched) /\ Linked(n)
    BY ListForm DEF SubmitInv, SubmitTypes
  <2>3. enqueued \in Int
    BY SubmitAssumption DEF SubmitInv, SubmitTypes
  <2>4. n = enqueued
    BY <2>1, <2>2, <2>3 DEF Linked
  <2>5. \A v \in Worker : worker[v] \notin Busy
    BY <2>1, Zenon DEF Busy
  <2> QED
    BY <2>1, <2>2, <2>4, <2>5, Zenon DEF HandsInv
<1> QED
  BY <1>1, SubmitInvariant, HandsInvariant, PTL

(***************************************************************************)
(* The statistics of the tools.  StatExact defines the sum of the times by *)
(* recursion; the proof carries the partial sums along, as a function that *)
(* solves the recursion and grows with each answer, and shows that there   *)
(* is no other solution.                                                   *)
(***************************************************************************)

(* f gives the partial sums of s. *)
PartialSums(f, s) == f = [n \in 0..Len(s) |-> IF n = 0 THEN 0 ELSE f[n - 1] + s[n]]

StatTypes ==
    /\ times \in Seq(Nat)
    /\ stat \in [noRendered : Nat, time_total : Nat, time_min : Nat, time_max : Nat]

(* m is one of the times. *)
IsTime(m) == \E i \in 1..Len(times) : times[i] = m
NoZero == \A i \in 1..Len(times) : times[i] # 0

SumInv == \E f \in [0..Len(times) -> Nat] : PartialSums(f, times) /\ f[Len(times)] = stat.time_total
MaxInv == IF Len(times) = 0 THEN stat.time_max = 0
          ELSE IsTime(stat.time_max) /\ \A i \in 1..Len(times) : times[i] <= stat.time_max
MinInv == IF Len(times) = 0 THEN stat.time_min = 0
          ELSE NoZero => IsTime(stat.time_min) /\ \A i \in 1..Len(times) : times[i] >= stat.time_min

StatInv == StatTypes /\ stat.noRendered = Len(times) /\ SumInv /\ MaxInv /\ MinInv

INSTANCE WellFoundedInduction

(* A set of natural numbers has a least element. *)
LEMMA LeastNumber ==
    ASSUME NEW I \in SUBSET Nat, I # {}
    PROVE  \E i \in I : \A j \in I : i <= j
PROOF
<1>1. PICK x \in I : \A y \in I : ~(<<y, x>> \in OpToRel(<, Nat))
  BY WFMin, NatLessThanWellFounded, Zenon
<1>2. \A y \in I : <<y, x>> \in Nat \X Nat /\ <<y, x>>[1] = y /\ <<y, x>>[2] = x
  BY Zenon
<1>3. \A y \in I : ~(y < x)
  BY <1>1, <1>2, Zenon DEF OpToRel
<1> QED
  BY <1>3

(* There is at most one function of partial sums. *)
LEMMA PartialSumsUnique ==
    ASSUME NEW s \in Seq(Nat), NEW f, NEW g, PartialSums(f, s), PartialSums(g, s)
    PROVE  f = g
PROOF
<1> DEFINE D == {n \in 0..Len(s) : f[n] # g[n]}
<1>1. Len(s) \in Nat
  OBVIOUS
<1>2. \A n \in 0..Len(s) : /\ f[n] = IF n = 0 THEN 0 ELSE f[n - 1] + s[n]
                           /\ g[n] = IF n = 0 THEN 0 ELSE g[n - 1] + s[n]
  BY Zenon DEF PartialSums
<1>3. D = {}
  <2> SUFFICES ASSUME D # {} PROVE FALSE
    BY Zenon
  <2>1. D \in SUBSET Nat
    BY <1>1
  <2>2. PICK n \in D : \A m \in D : n <= m
    BY <2>1, LeastNumber, Zenon
  <2>3. n \in 0..Len(s) /\ f[n] # g[n]
    BY <2>2, Zenon
  <2>4. n # 0
    BY <1>2, <2>3, ZenonT(60)
  <2>5. n - 1 \in 0..Len(s) /\ ~(n <= n - 1)
    BY <1>1, <2>3, <2>4
  <2>6. f[n - 1] = g[n - 1]
    BY <2>2, <2>5, Zenon
  <2> QED
    BY <1>2, <2>3, <2>4, <2>6, ZenonT(60)
<1>4. \A n \in 0..Len(s) : f[n] = g[n]
  BY <1>3, Zenon
<1>5. f = [n \in 0..Len(s) |-> f[n]] /\ g = [n \in 0..Len(s) |-> g[n]]
  BY Zenon DEF PartialSums
<1> QED
  BY <1>4, <1>5, Zenon

(* No answer has been counted when the threads are started. *)
LEMMA InitStatInv == spawn_workers => StatInv
PROOF
<1> SUFFICES ASSUME spawn_workers PROVE StatInv
  BY Zenon
<1>1. /\ times = <<>> /\ Len(times) = 0 /\ times \in Seq(Nat)
      /\ stat = [noRendered |-> 0, time_total |-> 0, time_min |-> 0, time_max |-> 0]
  BY DEF spawn_workers
<1>2. /\ stat \in [noRendered : Nat, time_total : Nat, time_min : Nat, time_max : Nat]
      /\ stat.noRendered = 0 /\ stat.time_total = 0 /\ stat.time_min = 0 /\ stat.time_max = 0
  BY <1>1
<1>3. SumInv
  <2> DEFINE f == [n \in 0..0 |-> 0]
  <2>1. 0 \in 0..0 /\ 0 \in Nat /\ \A n \in 0..0 : n = 0
    OBVIOUS
  <2>2. f \in [0..Len(times) -> Nat] /\ f[Len(times)] = stat.time_total
    BY <1>1, <1>2, <2>1, ZenonT(60)
  <2>3. PartialSums(f, times)
    BY <1>1, <2>1, Zenon DEF PartialSums
  <2> QED
    BY <2>2, <2>3, Zenon DEF SumInv
<1> QED
  BY <1>1, <1>2, <1>3, ZenonT(60) DEF StatInv, StatTypes, MaxInv, MinInv

(* process records an answer: every one of the four numbers follows. *)
LEMMA RecordKeepsStatInv ==
    ASSUME StatInv, NEW t \in Nat, stat' = Record(t), times' = Append(times, t)
    PROVE  StatInv'
PROOF
<1> DEFINE L == Len(times)
<1>1. /\ times \in Seq(Nat) /\ L \in Nat
      /\ stat.noRendered = L /\ stat.time_total \in Nat /\ stat.time_min \in Nat /\ stat.time_max \in Nat
  BY DEF StatInv, StatTypes
<1>2. /\ times' \in Seq(Nat) /\ Len(times') = L + 1 /\ times'[L + 1] = t
      /\ \A i \in 1..L : times'[i] = times[i]
  BY <1>1
<1>3. /\ stat'.noRendered = L + 1
      /\ stat'.time_total = stat.time_total + t
      /\ stat'.time_min = IF stat.time_min > t \/ stat.time_min = 0 THEN t ELSE stat.time_min
      /\ stat'.time_max = IF stat.time_max < t THEN t ELSE stat.time_max
      /\ stat' = [noRendered |-> stat'.noRendered, time_total |-> stat'.time_total,
                  time_min |-> stat'.time_min, time_max |-> stat'.time_max]
  BY <1>1, Zenon DEF Record
<1>4. StatTypes'
  <2>1. stat'.noRendered \in Nat /\ stat'.time_total \in Nat /\ stat'.time_min \in Nat /\ stat'.time_max \in Nat
    BY <1>1, <1>3
  <2> QED
    BY <1>2, <1>3, <2>1, ZenonT(60) DEF StatTypes
<1>5. /\ \A i \in 1..L + 1 : i = L + 1 \/ i \in 1..L
      /\ \A i \in 1..L : i \in 1..L + 1
      /\ L + 1 \in 1..L + 1 /\ L + 1 # 0
  BY <1>1
<1>6. \A i \in 1..L : times[i] \in Nat
  BY <1>1, SMTT(40)
<1>7. SumInv'
  <2>1. PICK f \in [0..L -> Nat] : PartialSums(f, times) /\ f[L] = stat.time_total
    BY Zenon DEF StatInv, SumInv
  <2> DEFINE g == [n \in 0..L + 1 |-> IF n = L + 1 THEN stat.time_total + t ELSE f[n]]
  <2>2. /\ \A n \in 0..L + 1 : n = L + 1 \/ (n \in 0..L /\ n # L + 1)
        /\ L + 1 \in 0..L + 1 /\ L \in 0..L + 1 /\ L # L + 1 /\ (L + 1) - 1 = L
        /\ \A n \in 0..L : n # 0 => n - 1 \in 0..L + 1 /\ n - 1 # L + 1 /\ n \in 1..L
    BY <1>1
  <2>3. stat.time_total + t \in Nat
    BY <1>1
  <2>4. g \in [0..L + 1 -> Nat] /\ g[L + 1] = stat.time_total + t
    BY <2>2, <2>3, Zenon
  <2>5. \A n \in 0..L : f[n] = IF n = 0 THEN 0 ELSE f[n - 1] + times[n]
    BY <2>1, Zenon DEF PartialSums
  <2>6. ASSUME NEW n \in 0..L + 1
        PROVE  g[n] = IF n = 0 THEN 0 ELSE g[n - 1] + times'[n]
    <3>1. CASE n = L + 1
      <4>1. g[n - 1] = stat.time_total
        BY <2>1, <2>2, <3>1, Zenon
      <4>2. times'[n] = t /\ n # 0
        BY <1>2, <1>5, <3>1, ZenonT(60)
      <4> QED
        BY <2>4, <3>1, <4>1, <4>2, ZenonT(60)
    <3>2. CASE n # L + 1
      <4>1. n \in 0..L /\ g[n] = f[n]
        BY <2>2, <3>2, Zenon
      <4>2. n # 0 => g[n - 1] = f[n - 1] /\ times'[n] = times[n]
        BY <1>2, <2>2, <4>1, Zenon
      <4> QED
        BY <2>5, <4>1, <4>2, ZenonT(60)
    <3> QED
      BY <3>1, <3>2, Zenon
  <2>7. g = [n \in 0..L + 1 |-> g[n]]
    BY Zenon
  <2> HIDE DEF g
  <2>8. PartialSums(g, times')
    BY <1>2, <2>6, <2>7, ZenonT(60) DEF PartialSums
  <2> QED
    BY <1>2, <1>3, <2>4, <2>8, Zenon DEF SumInv
<1> DEFINE Among(m) == \E i \in 1..L + 1 : times'[i] = m
<1>8. Among(t) /\ \A m : IsTime(m) => Among(m)
  BY <1>2, <1>5, Zenon DEF IsTime
<1>9. MaxInv'
  <2>1. Among(stat'.time_max)
    <3>1. CASE L = 0
      <4>1. stat.time_max = 0
        BY <3>1, ZenonT(60) DEF StatInv, MaxInv
      <4>2. stat'.time_max = t
        BY <1>3, <4>1
      <4> QED
        BY <1>8, <4>2, Zenon
    <3>2. CASE L # 0
      BY <1>3, <1>8, <3>2, ZenonT(60) DEF StatInv, MaxInv
    <3> QED
      BY <3>1, <3>2, Zenon
  <2>2. \A i \in 1..L : times[i] <= stat.time_max
    <3>1. CASE L = 0
      BY <3>1
    <3>2. CASE L # 0
      BY <3>2, ZenonT(60) DEF StatInv, MaxInv
    <3> QED
      BY <3>1, <3>2, ZenonT(60)
  <2>3. t <= stat'.time_max /\ \A i \in 1..L : times[i] <= stat'.time_max
    BY <1>1, <1>3, <1>6, <2>2
  <2>4. \A i \in 1..L + 1 : times'[i] <= stat'.time_max
    BY <1>2, <1>5, <2>3, Zenon
  <2> QED
    BY <1>2, <1>5, <2>1, <2>4, ZenonT(60) DEF MaxInv, IsTime
<1>10. MinInv'
  <2> SUFFICES ASSUME NoZero'
               PROVE  Among(stat'.time_min) /\ \A i \in 1..L + 1 : times'[i] >= stat'.time_min
    BY <1>2, <1>5, Zenon DEF MinInv, IsTime
  <2>1. NoZero /\ t # 0
    BY <1>2, <1>5, Zenon DEF NoZero
  <2>2. CASE L = 0
    <3>1. stat.time_min = 0
      BY <2>2, Zenon DEF StatInv, MinInv
    <3>2. stat'.time_min = t
      BY <1>3, <3>1, Zenon
    <3>3. t >= t /\ \A i \in 1..L : FALSE
      BY <2>2
    <3> QED
      BY <1>2, <1>5, <1>8, <3>2, <3>3, ZenonT(60)
  <2>3. CASE L # 0
    <3>1. IsTime(stat.time_min) /\ \A i \in 1..L : times[i] >= stat.time_min
      BY <2>1, <2>3, Zenon DEF StatInv, MinInv
    <3>2. stat.time_min # 0
      BY <2>1, <3>1, Zenon DEF IsTime, NoZero
    <3>3. stat'.time_min = IF stat.time_min > t THEN t ELSE stat.time_min
      BY <1>3, <3>2, Zenon
    <3>4. Among(stat'.time_min)
      BY <1>8, <3>1, <3>3, ZenonT(60)
    <3>5. t >= stat'.time_min /\ \A i \in 1..L : times[i] >= stat'.time_min
      BY <1>1, <1>6, <3>1, <3>3, SMTT(40)
    <3> QED
      BY <1>2, <1>5, <3>4, <3>5, ZenonT(60)
  <2> QED
    BY <2>2, <2>3, Zenon
<1> QED
  BY <1>2, <1>3, <1>4, <1>7, <1>9, <1>10, ZenonT(60) DEF StatInv

(* No other step touches the statistics. *)
LEMMA StatInvariant == SubmitSpec => []StatInv
PROOF
<1>1. StatInv /\ [SubmitNext]_submitVars => StatInv'
  <2> SUFFICES ASSUME StatInv, [SubmitNext]_submitVars PROVE StatInv'
    BY Zenon
  <2>1. CASE stat' = stat /\ times' = times
    BY <2>1, Zenon DEF StatInv, StatTypes, SumInv, MaxInv, MinInv, IsTime, NoZero
  <2>2. ASSUME NEW w \in Worker, NEW t \in Duration, ProcessDone(w, t) PROVE StatInv'
    <3>1. t \in Nat
      BY SubmitAssumption, Zenon
    <3> QED
      BY <2>2, <3>1, RecordKeepsStatInv, Zenon DEF ProcessDone
  <2>3. CASE enqueue \/ wait_for_empty_queue \/ finish_workers \/ MainWakesSpuriously
    BY <2>1, <2>3, ZenonT(60) DEF enqueue, EnqueueWaits, EnqueueAppends, wait_for_empty_queue, EmptyWaits, EmptyReturns,
           finish_workers, FinishSetsFlag, FinishBroadcasts, FinishJoins, MainWakesSpuriously, statVars
  <2>4. ASSUME NEW w \in Worker,
               \/ Connects(w) \/ fetch(w) \/ ProcessNotDone(w) \/ ProcessLost(w) \/ Reconnects(w)
               \/ ConnectFails(w) \/ ReconnectFails(w) \/ WakesSpuriously(w)
        PROVE  StatInv'
    BY <2>1, <2>4, ZenonT(60) DEF Connects, fetch, FetchEnds, FetchWaits, FetchTakes, ProcessNotDone, ProcessLost,
           Reconnects, ConnectFails, ReconnectFails, WakesSpuriously, statVars
  <2>5. CASE UNCHANGED submitVars
    BY <2>1, <2>5, ZenonT(60) DEF submitVars, statVars
  <2> QED
    BY <2>2, <2>3, <2>4, <2>5, ZenonT(60) DEF SubmitNext, thread_main, process
<1> QED
  BY <1>1, InitStatInv, PTL DEF SubmitSpec

(* In every state, and so when they are printed, the statistics of the     *)
(* tools are those of the answers: their number, and the sum, the greatest *)
(* and the least of their times.                                           *)
THEOREM StatisticsAreExact == SubmitSpec => []StatExact
PROOF
<1>1. StatInv => StatExact
  <2> SUFFICES ASSUME StatInv PROVE StatExact
    BY Zenon
  <2> DEFINE all == {times[i] : i \in DOMAIN times}
             Solution == CHOOSE f : PartialSums(f, times)
  <2>1. times \in Seq(Nat) /\ DOMAIN times = 1..Len(times) /\ (times # <<>> => Len(times) # 0)
    BY DEF StatInv, StatTypes
  <2>2. PICK f : PartialSums(f, times) /\ f[Len(times)] = stat.time_total
    BY Zenon DEF StatInv, SumInv
  <2>3. PartialSums(Solution, times)
    BY <2>2, Zenon
  <2>4. Solution = f
    BY <2>1, <2>2, <2>3, PartialSumsUnique, ZenonT(60)
  <2> DEFINE total[n \in 0..Len(times)] == IF n = 0 THEN 0 ELSE total[n - 1] + times[n]
  <2>5. total = Solution
    BY Zenon DEF PartialSums
  <2>6. stat.time_total = total[Len(times)]
    BY <2>2, <2>4, <2>5, ZenonT(60)
  <2>7. \A m : IsTime(m) => m \in all
    BY <2>1, Zenon DEF IsTime
  <2>8. times # <<>> => stat.time_max \in all /\ \A t \in all : t <= stat.time_max
    BY <2>1, <2>7, Zenon DEF StatInv, MaxInv
  <2>9. times # <<>> /\ 0 \notin all => stat.time_min \in all /\ \A t \in all : t >= stat.time_min
    BY <2>1, <2>7, Zenon DEF StatInv, MinInv, NoZero
  <2> QED
    BY <2>6, <2>8, <2>9, ZenonT(60) DEF StatExact, StatInv
<1> QED
  BY <1>1, StatInvariant, PTL

(* What finish_workers leaves behind: no job without an answer, unless no  *)
(* worker ever got a connection, and exact statistics.                     *)
THEOREM ToolsFinishClean == SubmitSpec => []NothingLeftBehind
PROOF
<1>1. EveryJobAnswered /\ StatExact => NothingLeftBehind
  BY Zenon DEF NothingLeftBehind
<1> QED
  BY <1>1, NoJobIsLeft, StatisticsAreExact, PTL
=============================================================================
