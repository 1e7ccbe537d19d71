------------------------------ MODULE FatVolume ------------------------------
(***************************************************************************)
(* A FAT32 volume as libraries/fatfs/ff.c works on it, in the              *)
(* configuration of ffconf.h: the sector window, the allocation table, the *)
(* cluster chains and the directories.                                     *)
(*                                                                         *)
(* A call of the library is one thread of control, so each function here   *)
(* takes the machine s and returns it: s.v is the FATFS object, s.fp the   *)
(* FIL of the call, s.dj its DIR, s.disk the sectors as the call sees      *)
(* them, and s.out the sector writes it has made, in order.  FatFs.tla     *)
(* lets these writes reach the medium one at a time.  s.raw and s.torn are *)
(* history: the clusters by which the call stretched a directory, and      *)
(* those of them that it failed to clear.                                  *)
(*                                                                         *)
(* A sector holds SS units: the unit is a directory entry of 32 bytes, and *)
(* files are read and written in the same unit.  Names are 8.3 names, with *)
(* one directory entry each.                                               *)
(***************************************************************************)
EXTENDS Integers, Sequences, FiniteSets, SequencesExt, FiniteSetsExt

CONSTANTS n_fatent,     \* clusters are 2 .. n_fatent - 1
          PerFat,       \* entries of the table in one sector
          SS,           \* units in a sector
          csize         \* sectors in a cluster

ASSUME GeometryAssumption ==
    /\ {n_fatent, PerFat, SS, csize} \subseteq Nat \ {0}
    /\ n_fatent > 2

Clusters == 2 .. n_fatent - 1
EOC == n_fatent                     \* 0x0FFFFFFF: any value past the table
dirbase == 2                        \* start cluster of the root directory
n_fats == 2

FsInfo == 1
fatbase == 2
fsize == (n_fatent + PerFat - 1) \div PerFat
database == fatbase + n_fats * fsize
NoSect == 0 - 1                     \* an invalidated window

FatSect(c) == fatbase + c \div PerFat
FirstFat == fatbase .. fatbase + fsize - 1
LastSect == database + csize * (n_fatent - 2) - 1
ClusterUnits == csize * SS

(* A unit of a directory: an entry, never used, or deleted (DDEM).         *)
Entry(name, dir, clust, size) ==
    [name |-> name, dir |-> dir, clust |-> clust, size |-> size]
Blank == Entry("", FALSE, 0, 0)
Deleted == Entry("DDEM", FALSE, 0, 0)
Dots == {".", ".."}
Zeros == [i \in 0 .. SS - 1 |-> Blank]

-----------------------------------------------------------------------------
(* Control: an operation that failed ends what follows it, which is given  *)
(* the machine it left; and a loop runs its body until it is left.  Turns bounds the longest loop, a scan of    *)
(* every unit of the volume.                                               *)

Fail(s, err) == [s EXCEPT !.res = err]
Then(s, Rest(_)) == IF s.res = "FR_OK" THEN Rest(s) ELSE s
Continue(s) == [s EXCEPT !.loop = TRUE]

Turns == [i \in 1 .. ClusterUnits * n_fatent |-> i]
Loop(Body(_), s) ==
    FoldLeft(LAMBDA t, i : IF t.loop THEN Body([t EXCEPT !.loop = FALSE]) ELSE t,
             Continue(s), Turns)

-----------------------------------------------------------------------------
(* The drive.  fault counts down to the transfer that diskio.c reports as  *)
(* failed (a timeout of the drive); 0 means that none does.                *)

Transfer(s) == IF s.fault = 1
               THEN [s EXCEPT !.fault = 0, !.res = "FR_DISK_ERR"]
               ELSE [s EXCEPT !.fault = IF @ = 0 THEN 0 ELSE @ - 1]

disk_write(s, sect, data) ==
    Then(Transfer(s), LAMBDA t :
        [t EXCEPT !.disk[sect] = data, !.out = Append(@, [sect |-> sect, data |-> data])])

disk_read(s) == Transfer(s)

-----------------------------------------------------------------------------
(* The window: the one sector of the table, of a directory or the FSInfo   *)
(* sector that is in memory.                                               *)

(* The copy in the second table, written without a look at the result.     *)
Mirror(s) == [disk_write(s, s.v.winsect + fsize, s.v.win) EXCEPT !.res = "FR_OK"]

sync_window(s) ==
    IF ~s.v.wflag THEN s
    ELSE Then(disk_write(s, s.v.winsect, s.v.win), LAMBDA t :
             [(IF t.v.winsect \in FirstFat THEN Mirror(t) ELSE t) EXCEPT !.v.wflag = FALSE])

move_window(s, sect) ==
    LET Loaded(r) == IF r.res # "FR_OK" THEN [r EXCEPT !.v.winsect = NoSect]
                     ELSE [r EXCEPT !.v.winsect = sect, !.v.win = r.disk[sect]]
    IN  IF sect = s.v.winsect THEN s
        ELSE Then(sync_window(s), LAMBDA f : Loaded(disk_read(f)))

InfoSector(v) == [free_clst |-> v.free_clst, last_clst |-> v.last_clst]

(* sync_fs: the window, then the FSInfo sector, built in the window and    *)
(* written without a look at the result.                                   *)
InfoBuilt(s) == [s EXCEPT !.v.win = InfoSector(s.v), !.v.winsect = FsInfo, !.v.fsi_flag = FALSE]
InfoStored(s) == [disk_write(s, FsInfo, s.v.win) EXCEPT !.res = "FR_OK"]

sync_fs(s) ==
    Then(sync_window(s), LAMBDA w : IF w.v.fsi_flag THEN InfoStored(InfoBuilt(w)) ELSE w)

-----------------------------------------------------------------------------
(* The allocation table.  A function that returns a number returns it in   *)
(* s.val; a disk error is carried by s.res.                                *)

clst2sect(c) == IF c \in Clusters THEN database + csize * (c - 2) ELSE 0

get_fat(s, c) ==
    IF c \notin Clusters THEN [s EXCEPT !.val = 1]
    ELSE Then(move_window(s, FatSect(c)), LAMBDA m : [m EXCEPT !.val = m.v.win[c % PerFat]])

put_fat(s, c, val) ==
    IF c \notin Clusters THEN Fail(s, "FR_INT_ERR")
    ELSE Then(move_window(s, FatSect(c)), LAMBDA m :
             [m EXCEPT !.v.win[c % PerFat] = val, !.v.wflag = TRUE])

Freed(s, c) ==
    LET Counted(t) == IF t.v.free_clst < n_fatent - 2
                      THEN [t EXCEPT !.v.free_clst = @ + 1, !.v.fsi_flag = TRUE] ELSE t
    IN  Then(put_fat(s, c, 0), LAMBDA p :
            IF p.val < n_fatent THEN Continue(Counted(p)) ELSE Counted(p))

(* remove_chain of an entire chain: pclst is 0 in every call of the system.*)
remove_chain(s, clst) ==
    IF clst \notin Clusters THEN Fail(s, "FR_INT_ERR")
    ELSE Loop(LAMBDA t : Then(get_fat(t, t.val), LAMBDA g :
                             CASE g.val = 0 -> g
                               [] g.val = 1 -> Fail(g, "FR_INT_ERR")
                               [] OTHER -> Freed(g, t.val)),
              [s EXCEPT !.val = clst])

(* The order in which create_chain looks for a free cluster after scl:     *)
(* upwards, then from 2 to scl itself.                                     *)
Candidates(scl) == [i \in 1 .. n_fatent - 1 - scl |-> scl + i]
                     \o [i \in 1 .. scl - 1 |-> i + 1]

(* The first free cluster after scl, looked up entry by entry; ncl is 0    *)
(* when there is none.                                                     *)
FindFree(s, scl) ==
    FoldLeft(LAMBDA t, c : IF t.res # "FR_OK" \/ t.ncl # 0 THEN t
                           ELSE Then(get_fat(t, c), LAMBDA g :
                                    IF g.val = 0 THEN [g EXCEPT !.ncl = c] ELSE g),
             [s EXCEPT !.ncl = 0], Candidates(scl))

Chained(s, clst) ==
    Then(put_fat(s, s.ncl, EOC), LAMBDA e :
        IF clst = 0 THEN e ELSE put_fat(e, clst, s.ncl))

(* Take cluster s.ncl, linked from clst unless the chain is new.           *)
Allocate(s, clst) ==
    Then(Chained(s, clst), LAMBDA l :
        [l EXCEPT !.val = s.ncl, !.v.last_clst = s.ncl,
                  !.v.free_clst = IF @ <= n_fatent - 2 THEN @ - 1 ELSE @,
                  !.v.fsi_flag = TRUE])

Take(s, clst) == IF s.ncl = 0 THEN [s EXCEPT !.val = 0] ELSE Allocate(s, clst)

Search(s, clst) ==
    LET last == s.v.last_clst
        scl == CASE clst = 0 /\ last \in 1 .. n_fatent - 1 -> last
                 [] clst = 0 /\ last \notin 1 .. n_fatent - 1 -> 1
                 [] clst # 0 /\ last \in Clusters -> last
                 [] OTHER -> clst
    IN  Then(FindFree(s, scl), LAMBDA f : Take(f, clst))

(* The cluster after clst if it is free, or else any that is.              *)
Stretch(s, clst) ==
    LET after == IF clst + 1 >= n_fatent THEN 2 ELSE clst + 1
    IN  Then(get_fat(s, after), LAMBDA n :
            IF n.val = 0 THEN Take([n EXCEPT !.ncl = after], clst) ELSE Search(n, clst))

(* create_chain: s.val is the next or the new cluster, or 0 for a full     *)
(* volume.                                                                 *)
create_chain(s, clst) ==
    IF clst = 0
    THEN IF s.v.free_clst = 0 THEN [s EXCEPT !.val = 0] ELSE Search(s, 0)
    ELSE Then(get_fat(s, clst), LAMBDA cs :
             CASE cs.val < 2 -> Fail(cs, "FR_INT_ERR")
               [] cs.val \in Clusters -> cs
               [] OTHER -> IF cs.v.free_clst = 0 THEN [cs EXCEPT !.val = 0]
                           ELSE Stretch(cs, clst))

-----------------------------------------------------------------------------
(* Directories.  s.dj is the DIR object: start cluster of the table (0 for *)
(* the root), offset, current cluster and sector; s.fn the name sought.    *)

DirEntry(s) == s.v.win[s.dj.dptr % SS]
SetDirEntry(s, e) == [s EXCEPT !.v.win[s.dj.dptr % SS] = e, !.v.wflag = TRUE]

dir_clear(s, clst) ==
    Then(sync_window(s), LAMBDA w :
        FoldLeft(LAMBDA t, n : Then(t, LAMBDA u : disk_write(u, clst2sect(clst) + n - 1, Zeros)),
                 [w EXCEPT !.v.winsect = clst2sect(clst), !.v.win = Zeros],
                 [n \in 1 .. csize |-> n]))

(* dir_sdi to offset 0, the only one used with 8.3 names.                  *)
dir_sdi(s) ==
    LET top == IF s.dj.sclust = 0 THEN dirbase ELSE s.dj.sclust
        r == [s EXCEPT !.dj.dptr = 0, !.dj.clust = top, !.dj.sect = clst2sect(top)]
    IN  IF r.dj.sect = 0 THEN Fail(r, "FR_INT_ERR") ELSE r

(* Into cluster s.val, which stretched the directory if it had to be       *)
(* cleared first.                                                          *)
Into(s) == [s EXCEPT !.dj.clust = s.val, !.dj.sect = clst2sect(s.val), !.dj.dptr = @ + 1]
Cleared(s) == IF s.res = "FR_OK" THEN Into(s) ELSE [s EXCEPT !.torn = {s.val}]

dir_next(s, stretch) ==
    LET ofs == s.dj.dptr + 1
    IN  CASE ofs % SS # 0 -> [s EXCEPT !.dj.dptr = ofs]
          [] ofs % SS = 0 /\ (ofs \div SS) % csize # 0 ->
               [s EXCEPT !.dj.dptr = ofs, !.dj.sect = @ + 1]
          [] OTHER -> Then(get_fat(s, s.dj.clust), LAMBDA g :
               CASE g.val <= 1 -> Fail(g, "FR_INT_ERR")
                 [] g.val \in Clusters -> Into(g)
                 [] g.val >= n_fatent /\ ~stretch -> Fail(g, "FR_NO_FILE")
                 [] OTHER -> Then(create_chain(g, g.dj.clust), LAMBDA c :
                      IF c.val = 0 THEN Fail(c, "FR_DENIED")
                      ELSE Cleared(dir_clear([c EXCEPT !.raw = @ \union {c.val}], c.val))))

(* A scan from the top of the directory: at each entry of the loaded       *)
(* window Stop decides whether the scan is over and with which result.     *)
Scan(s, stretch, Stops(_), Result(_)) ==
    Then(dir_sdi(s), LAMBDA top :
        Loop(LAMBDA t : Then(move_window(t, t.dj.sect), LAMBDA m :
                 IF Stops(DirEntry(m)) THEN [m EXCEPT !.res = Result(DirEntry(m))]
                 ELSE Then(dir_next(m, stretch), Continue)),
             top))

dir_find(s) ==
    Scan(s, FALSE, LAMBDA e : e.name \in {s.fn, Blank.name},
                   LAMBDA e : IF e = Blank THEN "FR_NO_FILE" ELSE "FR_OK")

(* dir_read from the top: the first entry that is a file or a directory.   *)
dir_read(s) ==
    Scan(s, FALSE, LAMBDA e : e.name \notin Dots \union {Deleted.name},
                   LAMBDA e : IF e = Blank THEN "FR_NO_FILE" ELSE "FR_OK")

dir_alloc(s) ==
    LET Found(d) == IF d.res = "FR_NO_FILE" THEN Fail(d, "FR_DENIED") ELSE d
    IN  Found(Scan(s, TRUE, LAMBDA e : e \in {Blank, Deleted}, LAMBDA e : "FR_OK"))

dir_register(s) ==
    IF s.fn \in Dots \/ s.noname THEN Fail(s, "FR_INVALID_NAME")
    ELSE Then(dir_alloc(s), LAMBDA d :
             Then(move_window(d, d.dj.sect), LAMBDA m :
                 SetDirEntry(m, Entry(s.fn, FALSE, 0, 0))))

dir_remove(s) ==
    Then(move_window(s, s.dj.sect), LAMBDA m : SetDirEntry(m, Deleted))

(* follow_path: a path is absolute or not, and a sequence of names.  A dot *)
(* entry that does not exist leaves the search where it is.                *)
Found(s, last) ==
    CASE s.res = "FR_NO_FILE" /\ s.fn \in Dots -> [s EXCEPT !.res = "FR_OK", !.noname = last]
      [] s.res = "FR_NO_FILE" /\ s.fn \notin Dots /\ ~last -> Fail(s, "FR_NO_PATH")
      [] OTHER -> Then(s, LAMBDA f :
                      IF last THEN f
                      ELSE IF ~DirEntry(f).dir THEN Fail(f, "FR_NO_PATH")
                      ELSE [f EXCEPT !.dj.sclust = DirEntry(f).clust])

follow_path(s, path) ==
    LET start == [s EXCEPT !.dj.sclust = IF path.abs THEN 0 ELSE s.v.cdir,
                           !.noname = (path.names = <<>>)]
    IN  IF path.names = <<>> THEN dir_sdi(start)
        ELSE FoldLeft(LAMBDA t, i : Then(t, LAMBDA u :
                          Found(dir_find([u EXCEPT !.fn = path.names[i]]), i = Len(path.names))),
                      start, [i \in 1 .. Len(path.names) |-> i])

-----------------------------------------------------------------------------
(* What a medium holds, read without the library.                          *)

Table(disk) == [c \in 0 .. n_fatent - 1 |-> disk[FatSect(c)][c % PerFat]]

(* The clusters from c on, as far as the links lead, at most one more than *)
(* there are.                                                              *)
Chain(fat, c) ==
    LET From[n \in Nat] ==
            IF n = 0 THEN <<c>>
            ELSE LET p == From[n - 1] nxt == fat[Last(p)]
                 IN  IF nxt \in Clusters THEN Append(p, nxt) ELSE p
    IN  IF c \in Clusters THEN From[n_fatent] ELSE <<>>

(* The units of a chain, one after the other.                              *)
Units(disk, chain) ==
    [u \in 0 .. Len(chain) * ClusterUnits - 1 |->
        disk[clst2sect(chain[u \div ClusterUnits + 1]) + (u % ClusterUnits) \div SS][u % SS]]

(* The entries of a directory with their places: those before the first    *)
(* that was never used.  Clusters in raw are passed over.                  *)
Live(disk, clust, raw) ==
    LET chain == SelectSeq(Chain(Table(disk), clust), LAMBDA c : c \notin raw)
        units == Units(disk, chain)
        free == {u \in DOMAIN units : units[u] = Blank}
        end == IF free = {} THEN Cardinality(DOMAIN units) ELSE Min(free)
    IN  {<<u, units[u]>> : u \in {v \in 0 .. end - 1 : units[v] # Deleted}}

(* The objects of the volume with their absolute paths, directories down   *)
(* to the given depth.                                                     *)
Objects(disk, depth, raw) ==
    LET At[d \in Nat] ==
            IF d = 0 THEN {[path |-> <<>>, at |-> 0, e |-> Entry("/", TRUE, dirbase, 0)]}
            ELSE UNION {{[path |-> Append(o.path, x[2].name), at |-> x[1], e |-> x[2]] :
                             x \in {y \in Live(disk, o.e.clust, raw) : y[2].name \notin Dots}} :
                        o \in {x \in At[d - 1] : x.e.dir}}
    IN  UNION {At[d] : d \in 0 .. depth}
=============================================================================
