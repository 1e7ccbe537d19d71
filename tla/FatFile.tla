------------------------------- MODULE FatFile -------------------------------
(***************************************************************************)
(* The calls of libraries/fatfs/ff.c that the system makes, each as a      *)
(* function of the machine of FatVolume: open, read, write, seek, sync and *)
(* close on the FIL s.fp, and stat, chdir, unlink, mkdir and rename on     *)
(* paths.                                                                  *)
(***************************************************************************)
EXTENDS FatVolume

(* What a program writes at offset o of the file it calls name, and what   *)
(* is read back; a unit nobody wrote reads as Blank or as an old unit.     *)
Datum(name, o) == [file |-> name, ofs |-> o]

NoFil == [flag |-> {}, err |-> "FR_OK", sclust |-> 0, objsize |-> 0, fptr |-> 0,
          clust |-> 0, sect |-> 0, buf |-> Zeros, dir_sect |-> 0, dir_ptr |-> 0]

(* The machine with which a call starts, on a volume object and a disk;    *)
(* transfer k fails.                                                       *)
Start(v, disk, k) ==
    [v |-> v, disk |-> disk, out |-> <<>>, fault |-> k, res |-> "FR_OK",
     raw |-> {}, torn |-> {},
     fp |-> NoFil, dj |-> [sclust |-> 0, dptr |-> 0, clust |-> 0, sect |-> 0],
     fn |-> "", noname |-> FALSE, new |-> FALSE, val |-> 0, ncl |-> 0, loop |-> FALSE,
     todo |-> 0, data |-> <<>>, got |-> <<>>]

(* ABORT: the error stays in the object and ends the call.                 *)
Abort(s, err) == [s EXCEPT !.fp.err = err, !.res = err]
ThenOrAbort(s, Rest(_)) == IF s.res = "FR_OK" THEN Rest(s) ELSE Abort(s, s.res)

OnSector(f) == f.fptr % SS = 0
csect(f) == (f.fptr \div SS) % csize

(* Write the sector buffer back if it holds changes.                       *)
WriteBack(s) ==
    IF "DIRTY" \notin s.fp.flag THEN s
    ELSE Then(disk_write(s, s.fp.sect, s.fp.buf), LAMBDA w :
             [w EXCEPT !.fp.flag = @ \ {"DIRTY"}])

(* Load a sector into the buffer.                                          *)
Fill(s, sect) ==
    Then(disk_read(s), LAMBDA r : [r EXCEPT !.fp.buf = r.disk[sect]])

-----------------------------------------------------------------------------
(* f_open.  mode is a set of READ, WRITE, CREATE_ALWAYS, CREATE_NEW,       *)
(* OPEN_ALWAYS and SEEKEND.                                                *)

Creating(mode) == mode \intersect {"CREATE_ALWAYS", "CREATE_NEW", "OPEN_ALWAYS"} # {}

Truncate_KeepsChain(s) == SetDirEntry(s, Entry(s.fn, FALSE, 0, 0))

(* The entry of a new or overwritten file: size and clusters are reset,    *)
(* the entry reaches the medium when the window moves to the table, the    *)
(* chain is removed, and the window returns to the entry.                  *)
Truncate(s) ==
    LET cl == DirEntry(s).clust
        e == SetDirEntry(s, Entry(s.fn, FALSE, 0, 0))
    IN  IF cl = 0 THEN e
        ELSE Then(remove_chain(e, cl), LAMBDA r :
                 [move_window(r, s.v.winsect) EXCEPT !.v.last_clst = cl - 1])

(* The entry that f_open goes on with; new says whether it was created or  *)
(* is overwritten (FA_CREATE_ALWAYS).                                      *)
Created(s) == Then(dir_register([s EXCEPT !.res = "FR_OK"]),
                   LAMBDA r : Truncate([r EXCEPT !.new = TRUE]))
Reused(s, mode) ==
    CASE DirEntry(s).dir -> Fail(s, "FR_DENIED")
      [] ~DirEntry(s).dir /\ "CREATE_NEW" \in mode -> Fail(s, "FR_EXIST")
      [] OTHER -> IF "CREATE_ALWAYS" \in mode THEN Truncate([s EXCEPT !.new = TRUE]) ELSE s
Chosen(s, mode) ==
    CASE ~Creating(mode) ->
           Then(s, LAMBDA p : IF DirEntry(p).dir THEN Fail(p, "FR_NO_FILE") ELSE p)
      [] Creating(mode) /\ s.res = "FR_NO_FILE" -> Created(s)
      [] OTHER -> Then(s, LAMBDA p : Reused(p, mode))
Named(s) == IF s.res = "FR_OK" /\ s.noname THEN Fail(s, "FR_INVALID_NAME") ELSE s

Locate(s, path, mode) == Chosen(Named(follow_path(s, path)), mode)

(* FA_SEEKEND: the position is the size, the cluster the one of the last   *)
(* unit, and a part of a sector is loaded.                                 *)
SeekEnd(s) ==
    LET f == s.fp
        steps == (f.objsize - 1) \div ClusterUnits
        ofs == f.objsize - steps * ClusterUnits
        Land(t, sc) ==
            CASE ofs % SS = 0 -> t
              [] ofs % SS # 0 /\ sc = 0 -> Fail(t, "FR_INT_ERR")
              [] OTHER -> Fill([t EXCEPT !.fp.sect = sc + ofs \div SS], sc + ofs \div SS)
    IN  Then(FoldLeft(LAMBDA t, i : Then(t, LAMBDA u : Then(get_fat(u, u.val), LAMBDA g :
                          IF g.val <= 1 THEN Fail(g, "FR_INT_ERR") ELSE g)),
                      [s EXCEPT !.val = f.sclust, !.fp.fptr = f.objsize],
                      [i \in 1 .. steps |-> i]),
             LAMBDA g : Land([g EXCEPT !.fp.clust = g.val], clst2sect(g.val)))

Placed(s, mode) == IF "SEEKEND" \in mode /\ s.fp.objsize > 0 THEN SeekEnd(s) ELSE s

f_open(s, path, mode) ==
    LET Flag(l) == (mode \intersect {"READ", "WRITE"})
                     \union (IF l.new THEN {"MODIFIED"} ELSE {})
        Opened(l) == [l EXCEPT !.fp = [NoFil EXCEPT !.flag = Flag(l),
                                                    !.dir_sect = l.v.winsect,
                                                    !.dir_ptr = l.dj.dptr % SS,
                                                    !.sclust = DirEntry(l).clust,
                                                    !.objsize = DirEntry(l).size]]
    IN  Then(Locate(s, path, mode), LAMBDA l : Placed(Opened(l), mode))

-----------------------------------------------------------------------------
(* f_write of n units.  s.todo is btw, s.data the content by offset.       *)

Advance(s, k) ==
    Continue([s EXCEPT !.todo = @ - k, !.fp.fptr = @ + k,
                       !.fp.objsize = IF @ > s.fp.fptr + k THEN @ ELSE s.fp.fptr + k])

(* The cluster of the position: followed, stretched or created at a        *)
(* cluster boundary.                                                       *)
WriteCluster(s) ==
    LET f == s.fp
    IN  IF csect(f) # 0 THEN [s EXCEPT !.val = f.clust]
        ELSE ThenOrAbort(IF f.fptr = 0 /\ f.sclust # 0 THEN [s EXCEPT !.val = f.sclust]
                         ELSE create_chain(s, IF f.fptr = 0 THEN 0 ELSE f.clust), LAMBDA t :
                 CASE t.val = 0 -> t
                   [] t.val = 1 -> Abort(t, "FR_INT_ERR")
                   [] OTHER -> [t EXCEPT !.fp.clust = t.val,
                                         !.fp.sclust = IF @ = 0 THEN t.val ELSE @])

(* Whole sectors go straight to the medium; the buffer takes over the one  *)
(* it holds.                                                               *)
DirectWrite(s, sect, cc) ==
    LET f == s.fp
        Image(k) == [i \in 0 .. SS - 1 |-> s.data[f.fptr + k * SS + i]]
        Put(t, k) == Then(t, LAMBDA u : disk_write(u, sect + k - 1, Image(k - 1)))
        held == f.sect \in sect .. sect + cc - 1
        Refreshed(w) == IF held THEN [w EXCEPT !.fp.buf = Image(f.sect - sect),
                                               !.fp.flag = @ \ {"DIRTY"}] ELSE w
    IN  ThenOrAbort(FoldLeft(Put, s, [k \in 1 .. cc |-> k]),
                    LAMBDA w : Advance(Refreshed(w), cc * SS))

(* The rest of a sector goes into the buffer.                              *)
BufferWrite(s) ==
    LET at == s.fp.fptr % SS
        n == Min({SS - at, s.todo})
        new == [i \in 0 .. SS - 1 |-> IF i \in at .. at + n - 1
                                      THEN s.data[s.fp.fptr + i - at] ELSE s.fp.buf[i]]
    IN  Advance([s EXCEPT !.fp.buf = new, !.fp.flag = @ \union {"DIRTY"}], n)

Sector(f) == clst2sect(f.clust) + csect(f)
WholeSectors(s) == Min({s.todo \div SS, csize - csect(s.fp)})
OutOfVolume(f) == clst2sect(f.clust) = 0

WriteAtBoundary_NoLoad(s) ==
    ThenOrAbort(WriteBack(s), LAMBDA b :
        IF WholeSectors(b) > 0 THEN DirectWrite(b, Sector(b.fp), WholeSectors(b))
        ELSE BufferWrite([b EXCEPT !.fp.sect = Sector(b.fp)]))

(* At a sector boundary: the old buffer is written back, then whole        *)
(* sectors, or the sector is loaded if the file reaches into it.           *)
WriteAtBoundary(s) ==
    LET Loads(b) == b.fp.sect # Sector(b.fp) /\ b.fp.fptr < b.fp.objsize
    IN  ThenOrAbort(WriteBack(s), LAMBDA b :
            CASE OutOfVolume(b.fp) -> Abort(b, "FR_INT_ERR")
              [] ~OutOfVolume(b.fp) /\ WholeSectors(b) > 0 ->
                   DirectWrite(b, Sector(b.fp), WholeSectors(b))
              [] OTHER -> ThenOrAbort(IF Loads(b) THEN Fill(b, Sector(b.fp)) ELSE b, LAMBDA r :
                              BufferWrite([r EXCEPT !.fp.sect = Sector(r.fp)])))

WriteStep(s) ==
    CASE s.todo = 0 -> s
      [] s.todo # 0 /\ ~OnSector(s.fp) -> BufferWrite(s)
      [] OTHER -> Then(WriteCluster(s), LAMBDA c : IF c.val = 0 THEN c ELSE WriteAtBoundary(c))

f_write(s, n) ==
    CASE s.fp.err # "FR_OK" -> Fail(s, s.fp.err)
      [] s.fp.err = "FR_OK" /\ "WRITE" \notin s.fp.flag -> Fail(s, "FR_DENIED")
      [] OTHER -> Then(Loop(WriteStep, [s EXCEPT !.todo = n]), LAMBDA w :
                      [w EXCEPT !.fp.flag = @ \union {"MODIFIED"}])

-----------------------------------------------------------------------------
(* f_read of n units; s.got is what the caller receives.                   *)

Receive(s, units) ==
    Continue([s EXCEPT !.got = @ \o units, !.todo = @ - Len(units),
                       !.fp.fptr = @ + Len(units)])

ReadCluster(s) ==
    LET f == s.fp
    IN  IF csect(f) # 0 THEN s
        ELSE ThenOrAbort(IF f.fptr = 0 THEN [s EXCEPT !.val = f.sclust] ELSE get_fat(s, f.clust),
                         LAMBDA t : IF t.val < 2 THEN Abort(t, "FR_INT_ERR")
                                       ELSE [t EXCEPT !.fp.clust = t.val])

(* Whole sectors come straight from the medium, except the one that the    *)
(* buffer holds a newer version of.                                        *)
DirectRead(s, sect, cc) ==
    LET f == s.fp
        From(q) == IF "DIRTY" \in f.flag /\ q = f.sect THEN f.buf ELSE s.disk[q]
    IN  ThenOrAbort(disk_read(s), LAMBDA r :
            Receive(r, [i \in 1 .. cc * SS |-> From(sect + (i - 1) \div SS)[(i - 1) % SS]]))

BufferRead(s) ==
    LET at == s.fp.fptr % SS
        n == Min({SS - at, s.todo})
    IN  Receive(s, [i \in 1 .. n |-> s.fp.buf[at + i - 1]])

ReadAtBoundary(s) ==
    LET sect == Sector(s.fp)
    IN  CASE OutOfVolume(s.fp) -> Abort(s, "FR_INT_ERR")
          [] ~OutOfVolume(s.fp) /\ WholeSectors(s) > 0 -> DirectRead(s, sect, WholeSectors(s))
          [] OTHER -> ThenOrAbort(IF s.fp.sect = sect THEN s
                                  ELSE Then(WriteBack(s), LAMBDA b : Fill(b, sect)),
                                  LAMBDA r : BufferRead([r EXCEPT !.fp.sect = sect]))

ReadStep(s) ==
    CASE s.todo = 0 -> s
      [] s.todo # 0 /\ ~OnSector(s.fp) -> BufferRead(s)
      [] OTHER -> Then(ReadCluster(s), ReadAtBoundary)

f_read(s, n) ==
    LET remain == s.fp.objsize - s.fp.fptr
    IN  CASE s.fp.err # "FR_OK" -> Fail(s, s.fp.err)
          [] s.fp.err = "FR_OK" /\ "READ" \notin s.fp.flag -> Fail(s, "FR_DENIED")
          [] OTHER -> Loop(ReadStep, [s EXCEPT !.todo = Min({n, remain})])

-----------------------------------------------------------------------------
(* f_lseek.  Clusters are followed from the current one or from the start, *)
(* and for writing the chain is stretched up to the position.              *)

(* Where the walk starts: s.val is the cluster, s.fp.fptr its offset; a    *)
(* file without clusters gets one, even when it is not open for writing.   *)
SeekStart(s, ofs) ==
    LET f == s.fp
        here == f.fptr > 0 /\ (ofs - 1) \div ClusterUnits >= (f.fptr - 1) \div ClusterUnits
        base == ((f.fptr - 1) \div ClusterUnits) * ClusterUnits
        top == [s EXCEPT !.fp.fptr = 0, !.val = f.sclust]
    IN  IF here THEN [s EXCEPT !.fp.fptr = base, !.val = f.clust, !.todo = ofs - base]
        ELSE ThenOrAbort(IF f.sclust = 0 THEN create_chain(top, 0) ELSE top,
                         LAMBDA t : IF t.val = 1 THEN Abort(t, "FR_INT_ERR")
                                       ELSE [t EXCEPT !.fp.sclust = t.val, !.fp.clust = t.val,
                                                      !.todo = ofs])

(* One cluster further; a full volume clips the position here.             *)
SeekFollow(s) ==
    LET t == [s EXCEPT !.todo = @ - ClusterUnits, !.fp.fptr = @ + ClusterUnits]
    IN  ThenOrAbort(IF "WRITE" \in s.fp.flag THEN create_chain(t, t.val) ELSE get_fat(t, t.val),
                    LAMBDA n :
            CASE n.val = 0 /\ "WRITE" \in s.fp.flag -> [n EXCEPT !.todo = 0]
              [] n.val \in Clusters -> Continue([n EXCEPT !.fp.clust = n.val])
              [] OTHER -> Abort(n, "FR_INT_ERR"))

SeekWalk(s) ==
    IF s.val = 0 THEN s
    ELSE Then(Loop(LAMBDA t : IF t.todo > ClusterUnits THEN SeekFollow(t) ELSE t, s),
              LAMBDA w : [w EXCEPT !.fp.fptr = @ + w.todo])

Grown(s) == IF s.fp.fptr > s.fp.objsize
            THEN [s EXCEPT !.fp.objsize = s.fp.fptr, !.fp.flag = @ \union {"MODIFIED"}] ELSE s

SeekLoad(s, nsect) ==
    IF OnSector(s.fp) \/ nsect = s.fp.sect THEN s
    ELSE ThenOrAbort(Then(WriteBack(s), LAMBDA k : Fill(k, nsect)),
                     LAMBDA r : [r EXCEPT !.fp.sect = nsect])

f_lseek(s, offset) ==
    LET f == s.fp
        ofs == IF offset > f.objsize /\ "WRITE" \notin f.flag THEN f.objsize ELSE offset
    IN  IF f.err # "FR_OK" THEN Fail(s, f.err)
        ELSE Then(IF ofs = 0 THEN [s EXCEPT !.fp.fptr = 0] ELSE Then(SeekStart(s, ofs), SeekWalk),
                  LAMBDA m : SeekLoad(Grown(m), Sector(Grown(m).fp)))

-----------------------------------------------------------------------------
(* f_sync: the buffer, then the table or whatever the window holds, then   *)
(* the entry, then the FSInfo sector.                                      *)
f_sync(s) ==
    LET Entered(m) == [m EXCEPT !.v.win[m.fp.dir_ptr].clust = m.fp.sclust,
                                !.v.win[m.fp.dir_ptr].size = m.fp.objsize,
                                !.v.wflag = TRUE]
    IN  IF "MODIFIED" \notin s.fp.flag THEN s
        ELSE Then(WriteBack(s), LAMBDA b : Then(move_window(b, b.fp.dir_sect), LAMBDA m :
                 [sync_fs(Entered(m)) EXCEPT !.fp.flag = @ \ {"MODIFIED"}]))

f_close(s) == f_sync(s)

-----------------------------------------------------------------------------
(* The calls on paths.                                                     *)

f_stat(s, path) == follow_path(s, path)

f_chdir(s, path) ==
    LET Enter(f) == CASE f.noname -> [f EXCEPT !.v.cdir = f.dj.sclust]
                      [] ~f.noname /\ DirEntry(f).dir -> [f EXCEPT !.v.cdir = DirEntry(f).clust]
                      [] OTHER -> Fail(f, "FR_NO_PATH")
        Ended(r) == IF r.res = "FR_NO_FILE" THEN Fail(r, "FR_NO_PATH") ELSE r
    IN  Ended(Then(follow_path(s, path), Enter))

(* f_getcwd: from the current directory upwards, each parent (the second   *)
(* entry of a directory) is searched for the entry with the child's        *)
(* cluster.  s.val is the child, s.got the path.                           *)
Parent(s, child) ==
    Scan([s EXCEPT !.dj.sclust = s.v.win[1].clust], FALSE,
         LAMBDA e : e = Blank \/ (e.name \notin Dots \union {Deleted.name} /\ e.clust = child),
         LAMBDA e : IF e = Blank THEN "FR_NO_FILE" ELSE "FR_OK")
Prefixed(s) ==
    IF s.res = "FR_NO_FILE" THEN Fail(s, "FR_INT_ERR")
    ELSE Then(s, LAMBDA f : Continue([f EXCEPT !.got = <<DirEntry(f).name>> \o @]))

f_getcwd(s) ==
    Loop(LAMBDA t :
             IF t.dj.sclust = 0 THEN t
             ELSE Then(dir_sdi(t), LAMBDA top : Then(move_window(top, top.dj.sect),
                      LAMBDA m : Prefixed(Parent(m, t.dj.sclust)))),
         [s EXCEPT !.dj.sclust = s.v.cdir])

IsDot(path) == path.names # <<>> /\ Last(path.names) \in Dots

(* A directory that is empty: dir_read finds nothing in it.                *)
IfEmpty(f, r) == CASE r.res = "FR_OK" -> Fail(r, "FR_DENIED")
                   [] r.res = "FR_NO_FILE" -> [r EXCEPT !.res = "FR_OK", !.dj = f.dj]
                   [] OTHER -> r

Removable_AnyDirectory(f) ==
    IF ~DirEntry(f).dir THEN f
    ELSE IfEmpty(f, dir_read([f EXCEPT !.dj.sclust = DirEntry(f).clust]))

(* May the object that was found be removed?  A directory must be empty    *)
(* and not the current one.                                                *)
Removable(f) ==
    LET e == DirEntry(f)
    IN  CASE ~e.dir -> f
          [] e.dir /\ e.clust = f.v.cdir -> Fail(f, "FR_DENIED")
          [] OTHER -> IfEmpty(f, dir_read([f EXCEPT !.dj.sclust = e.clust]))

ChainGone(s, clst) == IF clst = 0 THEN s ELSE remove_chain(s, clst)

f_unlink_ChainFirst(s, path) ==
    Then(follow_path(s, path), LAMBDA f :
        IF f.noname \/ IsDot(path) THEN Fail(f, "FR_INVALID_NAME")
        ELSE Then(Removable(f), LAMBDA e :
                 Then(ChainGone(e, DirEntry(f).clust), LAMBDA r :
                     Then(dir_remove(r), sync_fs))))

f_unlink(s, path) ==
    Then(follow_path(s, path), LAMBDA f :
        IF f.noname \/ IsDot(path) THEN Fail(f, "FR_INVALID_NAME")
        ELSE Then(Removable(f), LAMBDA e :
                 Then(dir_remove(e), LAMBDA d :
                     Then(ChainGone(d, DirEntry(f).clust), sync_fs))))

(* f_mkdir: the cluster is taken, cleared and given its dot entries before *)
(* the directory is entered in its parent.                                 *)
DotEntries(s, new) ==
    [s EXCEPT !.v.win[0] = Entry(".", TRUE, new, 0),
              !.v.win[1] = Entry("..", TRUE, s.dj.sclust, 0), !.v.wflag = TRUE]
DirEntered(s, new) ==
    IF s.res = "FR_OK" THEN sync_fs(SetDirEntry(s, Entry(s.fn, TRUE, new, 0)))
    ELSE [remove_chain([s EXCEPT !.res = "FR_OK"], new) EXCEPT !.res = s.res]
NewDir(s) ==
    IF s.val = 0 THEN Fail(s, "FR_DENIED")
    ELSE DirEntered(Then(dir_clear(s, s.val), LAMBDA z : dir_register(DotEntries(z, s.val))),
                    s.val)
MadeAt(s, path) ==
    CASE s.res = "FR_OK" -> Fail(s, "FR_EXIST")
      [] s.res = "FR_NO_FILE" /\ ~IsDot(path) ->
           Then(create_chain([s EXCEPT !.res = "FR_OK"], 0), NewDir)
      [] OTHER -> s

f_mkdir(s, path) == MadeAt(follow_path(s, path), path)

f_rename_RemovesFirst(s, old, new) ==
    LET Target(n, e) ==
            IF n.res # "FR_NO_FILE" THEN n
            ELSE Then(dir_register([n EXCEPT !.res = "FR_OK"]), LAMBDA g :
                     sync_fs(SetDirEntry(g, [e EXCEPT !.name = n.fn])))
    IN  Then(follow_path(s, old), LAMBDA o :
            Target(follow_path(sync_window(dir_remove(o)), new), DirEntry(o)))

(* The .. of a directory e that was below old and is now below t.dj.       *)
Reparented(t, e, old) ==
    CASE ~e.dir \/ old.sclust = t.dj.sclust -> t
      [] e.dir /\ old.sclust # t.dj.sclust /\ clst2sect(e.clust) = 0 -> Fail(t, "FR_INT_ERR")
      [] OTHER -> Then(move_window(t, clst2sect(e.clust)), LAMBDA m :
                      IF m.v.win[1].name # ".." THEN m
                      ELSE [m EXCEPT !.v.win[1].clust = t.dj.sclust, !.v.wflag = TRUE])

(* f_rename: the new entry with the clusters of the old one, the .. of a   *)
(* directory that changes its parent, then the old entry.                  *)
EntryMoved(s, o) ==
    Then(Reparented(SetDirEntry(s, [DirEntry(o) EXCEPT !.name = s.fn]), DirEntry(o), o.dj),
         LAMBDA u : Then(dir_remove([u EXCEPT !.dj = o.dj]), sync_fs))
Onto(s, o) ==
    LET same == s.dj.sclust = o.dj.sclust /\ s.dj.dptr = o.dj.dptr
    IN  CASE s.res = "FR_OK" /\ ~same -> Fail(s, "FR_EXIST")
          [] s.res \notin {"FR_OK", "FR_NO_FILE"} -> s
          [] OTHER -> Then(dir_register([s EXCEPT !.res = "FR_OK"]), LAMBDA g : EntryMoved(g, o))

f_rename(s, old, new) ==
    Then(follow_path(s, old), LAMBDA o :
        IF o.noname \/ IsDot(old) THEN Fail(o, "FR_INVALID_NAME")
        ELSE Onto(follow_path(o, new), o))
=============================================================================
