----------------------------- MODULE FileStore -----------------------------
(***************************************************************************)
(* The files of the file store (src/src/store_file.c) for one metatile:    *)
(* render threads write it, mod_tile reads it, tools mark it as expired    *)
(* and delete it, all without locks, and the daemon may die at any moment. *)
(*                                                                         *)
(* A file is an inode: it keeps its content while it is open or has a      *)
(* name.  Time is in years since 1900, as in struct tm: the year is all    *)
(* that file_metatile_expire looks at.                                     *)
(***************************************************************************)
EXTENDS Integers, FiniteSets

CONSTANTS
    Writer,      \* threads of renderd that save the metatile
    Reader,      \* processes of Apache that read a tile of it
    Expirer,     \* tools that mark it as expired
    FirstYear, LastYear,  \* bound on time
    Shift,       \* years by which mktime misses the year of a time in UTC
    MaxFiles     \* bound on the number of files created

ASSUME FileStoreAssumption ==
    /\ FirstYear \in Nat /\ LastYear \in Nat /\ FirstYear <= LastYear
    /\ Shift \in SUBSET Int
    /\ MaxFiles \in Nat

(* The years in which the test of file_metatile_expire, "greater than      *)
(* 2015", tells files that were written from files that were set back.     *)
ASSUME YearsAssumption == 115 < FirstYear /\ \A d \in Shift : LastYear + d <= 135

NoFile == 0
Inode == 1..MaxFiles
Half == 1     \* the header is on disk
Whole == 2    \* and the tiles

VARIABLES
    now,       \* the current year
    planet,    \* mtime of the planet timestamp, for get_planet_time
    inode,     \* [size, ver, mtime, born] of every file created so far
    files,     \* how many were created
    meta,      \* the inode named meta_path, or NoFile
    tmp,       \* the inode named meta_path.thread, for each writer
    save,      \* where file_metatile_write of a writer stands
    rd,        \* [at, fd, head, body] of a reader
    touch,     \* [at, mtime] of an expirer
    marked,    \* history: the inodes an expirer has touched
    years      \* history: the years in which published metatiles were written

fsVars == <<inode, files, meta, tmp>>
history == <<marked, years>>
fileVars == <<now, planet, fsVars, save, rd, touch, history>>

HasRead(at, fd, head, body, len) == [at |-> at, fd |-> fd, head |-> head, body |-> body, len |-> len]
Unread == HasRead("idle", NoFile, 0, 0, 0)

FileInit ==
    /\ now = FirstYear /\ planet = FirstYear
    /\ inode = [i \in Inode |-> [size |-> 0, ver |-> 0, mtime |-> 0, born |-> 0]]
    /\ files = 0
    /\ meta = NoFile
    /\ tmp = [w \in Writer |-> NoFile]
    /\ save = [w \in Writer |-> "idle"]
    /\ rd = [r \in Reader |-> Unread]
    /\ touch = [e \in Expirer |-> [at |-> "idle", mtime |-> 0]]
    /\ marked = {} /\ years = {}

-----------------------------------------------------------------------------
(* file_metatile_write *)

At(w, a, b) == save[w] = a /\ save' = [save EXCEPT ![w] = b]

(* open(tmp, O_WRONLY | O_TRUNC | O_CREAT): a file that an earlier write   *)
(* of this thread left behind is truncated.  Every save is a new version.  *)
OpenTmp(w) ==
    /\ At(w, "idle", "opened")
    /\ files < MaxFiles /\ files' = files + 1
    /\ LET i == IF tmp[w] = NoFile THEN files' ELSE tmp[w]
       IN  /\ inode' = [inode EXCEPT ![i] = [size |-> 0, ver |-> files', mtime |-> now, born |-> now]]
           /\ tmp' = [tmp EXCEPT ![w] = i]
    /\ UNCHANGED <<now, planet, meta, rd, touch, history>>

Fill(w, size) ==
    /\ inode' = [inode EXCEPT ![tmp[w]] = [size |-> size, ver |-> @.ver, mtime |-> now, born |-> now]]
    /\ UNCHANGED <<now, planet, files, meta, tmp, rd, touch, history>>

(* write(fd, buf, sz): the bytes reach the file one after the other, and   *)
(* all of them or not.                                                     *)
WriteHeader(w) == At(w, "opened", "half") /\ Fill(w, Half)
WriteTiles(w) == At(w, "half", "written") /\ Fill(w, Whole)

(* Mutation: a short write is not noticed. *)
WriteFailsUnnoticed(w) ==
    /\ At(w, "half", "written")
    /\ UNCHANGED <<now, planet, fsVars, rd, touch, history>>

(* res != sz: the temporary file stays. *)
WriteFails(w) ==
    /\ \/ At(w, "opened", "idle")
       \/ At(w, "half", "idle")
    /\ UNCHANGED <<now, planet, fsVars, rd, touch, history>>

Rename(w) ==
    /\ At(w, "written", "idle")
    /\ meta' = tmp[w]
    /\ tmp' = [tmp EXCEPT ![w] = NoFile]
    /\ years' = years \cup {inode[tmp[w]].born}
    /\ UNCHANGED <<now, planet, inode, files, rd, touch, marked>>

RenameFails(w) ==
    /\ At(w, "written", "idle")
    /\ tmp' = [tmp EXCEPT ![w] = NoFile]
    /\ UNCHANGED <<now, planet, inode, files, meta, rd, touch, history>>

file_metatile_write(w) ==
    \/ OpenTmp(w) \/ WriteHeader(w) \/ WriteTiles(w) \/ WriteFails(w)
    \/ Rename(w) \/ RenameFails(w)

(* renderd is killed and started again. *)
Crash ==
    /\ \E w \in Writer : save[w] # "idle"
    /\ save' = [w \in Writer |-> "idle"]
    /\ UNCHANGED <<now, planet, fsVars, rd, touch, history>>

file_metatile_delete ==
    /\ meta # NoFile /\ meta' = NoFile
    /\ UNCHANGED <<now, planet, inode, files, tmp, save, rd, touch, history>>

-----------------------------------------------------------------------------
(* file_tile_read *)

ReadStep(r, from, new) ==
    /\ rd[r].at = from /\ rd' = [rd EXCEPT ![r] = new]
    /\ UNCHANGED <<now, planet, fsVars, save, touch, history>>

OpenMeta(r) == meta # NoFile /\ ReadStep(r, "idle", HasRead("header", meta, 0, 0, 0))

(* The header, or a file too small to contain it. *)
ReadHeader(r) ==
    LET file == inode[rd[r].fd]
    IN  ReadStep(r, "header", IF file.size >= Half
                              THEN HasRead("tile", rd[r].fd, file.ver, 0, 0)
                              ELSE Unread)

(* The tile at the place the header gave, or what there is of it. *)
ReadTile(r) ==
    LET file == inode[rd[r].fd]
    IN  ReadStep(r, "tile", HasRead("returned", rd[r].fd, rd[r].head, file.ver, file.size))

Reread(r) == ReadStep(r, "returned", Unread)

file_tile_read(r) == OpenMeta(r) \/ ReadHeader(r) \/ ReadTile(r) \/ Reread(r)

(* file_tile_stat *)
Expired(mtime) == mtime < planet
file_tile_stat == [size    |-> IF meta = NoFile THEN -1 ELSE inode[meta].size,
                   expired |-> Expired(IF meta = NoFile THEN 0 ELSE inode[meta].mtime)]

-----------------------------------------------------------------------------
(* file_metatile_expire *)

StatMeta(e) ==
    /\ touch[e].at = "idle"
    /\ meta # NoFile
    /\ touch' = [touch EXCEPT ![e] = [at |-> "stat", mtime |-> inode[meta].mtime]]
    /\ UNCHANGED <<now, planet, fsVars, save, rd, history>>

(* Mutation: set back every time. *)
TouchTimeAlways(mtime, shift) == mtime - 20 + shift

(* Tiles last modified after 2015 are not marked yet: set back 20 years.   *)
(* mktime takes what gmtime_r made of the time for local time: close to    *)
(* New Year the result may be in the year before or after.                 *)
TouchTime(mtime, shift) == IF mtime > 115 THEN mtime - 20 + shift ELSE mtime

(* utime sets the time of whatever file now has the name, or fails. *)
Touch(e) ==
    /\ touch[e].at = "stat"
    /\ touch' = [touch EXCEPT ![e] = [at |-> "idle", mtime |-> 0]]
    /\ \/ UNCHANGED <<inode, marked>>
       \/ /\ meta # NoFile
          /\ \E d \in Shift : inode' = [inode EXCEPT ![meta].mtime = TouchTime(touch[e].mtime, d)]
          /\ marked' = marked \cup {meta}
    /\ UNCHANGED <<now, planet, files, meta, tmp, save, rd, years>>

file_metatile_expire(e) == StatMeta(e) \/ Touch(e)

-----------------------------------------------------------------------------
NewYear == now < LastYear /\ now' = now + 1 /\ UNCHANGED <<planet, fsVars, save, rd, touch, history>>

(* New data was imported: the planet timestamp is touched. *)
NewPlanet == planet # now /\ planet' = now /\ UNCHANGED <<now, fsVars, save, rd, touch, history>>

FileNext ==
    \/ \E w \in Writer : file_metatile_write(w)
    \/ Crash
    \/ file_metatile_delete
    \/ \E r \in Reader : file_tile_read(r)
    \/ \E e \in Expirer : file_metatile_expire(e)
    \/ NewYear \/ NewPlanet

FileSpec == FileInit /\ [][FileNext]_fileVars

-----------------------------------------------------------------------------
(* Properties *)

(* A tile file_tile_read returns is complete and from the metatile whose   *)
(* header gave its place, whatever writes, fails, dies or deletes in the   *)
(* meantime.                                                               *)
ReadIsWhole ==
    \A r \in Reader : rd[r].at = "returned" => rd[r].head = rd[r].body /\ rd[r].len = Whole

(* A metatile that file_metatile_expire touched is out of date for         *)
(* file_tile_stat until it is replaced by a new one; and setting the time  *)
(* back keeps "the creation time as reference": the mtime of a metatile is *)
(* the year it was written in, or twenty years, and what mktime is off by  *)
(* once, before a year in which it was written, however often and by       *)
(* however many tools it is touched.                                       *)
MarkedKeepsReference ==
    /\ meta \in marked => file_tile_stat.expired
    /\ meta # NoFile => \/ inode[meta].mtime = inode[meta].born
                        \/ \E d \in Shift : inode[meta].mtime + 20 - d \in years
=============================================================================
