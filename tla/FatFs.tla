-------------------------------- MODULE FatFs --------------------------------
(***************************************************************************)
(* The file system on its medium.  The calls of FatFile are made one after *)
(* the other, and change memory at once; the sector writes that a call     *)
(* makes reach the medium one by one, in order.  At any moment the power   *)
(* may fail: memory and the writes not yet made are lost, and the volume   *)
(* is mounted again from what is on the medium.  The drive may also report *)
(* a transfer as failed, and the call goes on as the code does.            *)
(*                                                                         *)
(* FF_FS_LOCK is 0: nothing in the library keeps a program from opening a  *)
(* file twice, from removing an open one, or from moving a directory below *)
(* itself.  The program of the model does none of these.                   *)
(***************************************************************************)
EXTENDS FatFile

CONSTANTS Handles,      \* FIL objects
          Paths,        \* absolute paths, sequences of names
          Modes,        \* modes of f_open that programs use
          Volumes,      \* the volumes it may start with, and what they promise
          MaxSize,      \* bound on the position in a file, in units
          MaxCalls,     \* bound on the calls made
          MaxCrashes,   \* bound on power failures
          MaxFaults,    \* bound on failed transfers
          FaultAt       \* which transfer of a call may fail: 1 is the first

VARIABLES medium,       \* the sectors of the volume, as the drive holds them
          fs,           \* the FATFS object
          fils,         \* for each handle NoFile or an open file
          call,         \* the call being made: writes not yet on the medium
          kept,         \* history: what must be on the medium, by path
          moved,        \* history: the paths of a rename that is not complete
          raw,          \* history: directory clusters never cleared
          calls, crashes, faults    \* history: how many there were

vars == <<medium, fs, fils, call, kept, moved, raw, calls, crashes, faults>>

NoFile == [open |-> FALSE]
NoMove == <<>>
Idle == [busy |-> FALSE]
Nothing == <<>>         \* a function on the empty set

Abs(names) == [abs |-> TRUE, names |-> names]

-----------------------------------------------------------------------------
(* The volume object that mount_volume builds from the FSInfo sector.      *)
Mounted(disk) ==
    [win |-> disk[FsInfo], winsect |-> FsInfo, wflag |-> FALSE,
     free_clst |-> disk[FsInfo].free_clst, last_clst |-> disk[FsInfo].last_clst,
     fsi_flag |-> FALSE, cdir |-> 0]

(* A volume just formatted: an empty root directory in cluster 2.          *)
Formatted ==
    LET entry(c) == IF c \in {0, 1, dirbase} THEN EOC ELSE 0
        table(s) == [i \in 0 .. PerFat - 1 |-> entry(((s - fatbase) % fsize) * PerFat + i)]
    IN  [s \in FsInfo .. LastSect |->
            IF s = FsInfo THEN [free_clst |-> n_fatent - 3, last_clst |-> dirbase]
            ELSE IF s < database THEN table(s) ELSE Zeros]

Init ==
    /\ \E vol \in Volumes : /\ medium = vol.disk
                             /\ fs = Mounted(vol.disk)
                             /\ kept = vol.kept
    /\ fils = [h \in Handles |-> NoFile]
    /\ call = Idle
    /\ moved = NoMove /\ raw = {}
    /\ calls = 0 /\ crashes = 0 /\ faults = 0

-----------------------------------------------------------------------------
Machine(k) == Start(fs, medium, k)
WithFil(k, h) == [Machine(k) EXCEPT !.fp = fils[h].fil]

Faulty == IF faults < MaxFaults THEN {0} \union FaultAt ELSE {0}

(* Calls are made one after the other, while the volume is whole.          *)
MayCall == ~call.busy /\ moved = NoMove /\ raw = {} /\ calls < MaxCalls

(* The call that ends in machine s.  now is what stays promised while the  *)
(* call is made, after what is promised when it returns.                   *)
Calls(s, k, now, after) ==
    /\ k > 0 => s.fault = 0
    /\ fs' = s.v
    /\ call' = [busy |-> TRUE, writes |-> s.out, after |-> after, res |-> s.res,
                raw |-> s.raw, torn |-> s.torn]
    /\ kept' = now
    /\ calls' = calls + 1
    /\ faults' = IF k > 0 THEN faults + 1 ELSE faults
    /\ UNCHANGED <<medium, raw, crashes>>

Without(f, ps) == [p \in DOMAIN f \ ps |-> f[p]]
With(f, p, x) == [q \in DOMAIN f \union {p} |-> IF q = p THEN x ELSE f[q]]

NotOpen(path) == \A h \in Handles : fils[h].open => ~IsPrefix(path, fils[h].path)

(* The errors with which a call returns before it has changed anything.    *)
Refused == {"FR_DENIED", "FR_EXIST", "FR_NO_FILE", "FR_NO_PATH", "FR_INVALID_NAME"}

-----------------------------------------------------------------------------
(* Files.                                                                  *)

Open(h, path, mode, k) ==
    /\ MayCall /\ ~fils[h].open /\ NotOpen(path)
    /\ \E s \in {f_open(Machine(k), Abs(path), mode)} :
          LET now == IF s.new THEN Without(kept, {path}) ELSE kept
              data == IF path \in DOMAIN now THEN now[path] ELSE Nothing
          IN  /\ Calls(s, k, now, now)
              /\ fils' = IF s.res # "FR_OK" THEN fils
                         ELSE [fils EXCEPT ![h] = [open |-> TRUE, fil |-> s.fp,
                                                   path |-> path, data |-> data]]
    /\ UNCHANGED moved

(* What a write touches is no longer promised until the file is closed.    *)
Write(h, n, k) ==
    LET at == fils[h].fil.fptr
        path == fils[h].path
        new == [o \in at .. at + n - 1 |-> Datum(Last(path), o)]
        now == IF path \in DOMAIN kept
               THEN [kept EXCEPT ![path] = Without(@, at .. at + n - 1)] ELSE kept
    IN  /\ MayCall /\ fils[h].open /\ at + n <= MaxSize
        /\ \E s \in {f_write([WithFil(k, h) EXCEPT !.data = new], n)} :
              /\ Calls(s, k, now, now)
              /\ fils' = [fils EXCEPT
                            ![h].fil = s.fp,
                            ![h].data = [o \in DOMAIN @ \union (at .. s.fp.fptr - 1) |->
                                           IF o \in at .. s.fp.fptr - 1 THEN new[o] ELSE @[o]]]
        /\ UNCHANGED moved

Read(h, n, k) ==
    /\ MayCall /\ fils[h].open /\ "READ" \in fils[h].fil.flag
    /\ \E s \in {f_read(WithFil(k, h), n)} :
          Calls(s, k, kept, kept) /\ fils' = [fils EXCEPT ![h].fil = s.fp]
    /\ UNCHANGED moved

Seek(h, ofs, k) ==
    /\ MayCall /\ fils[h].open /\ ofs # fils[h].fil.fptr
    /\ \E s \in {f_lseek(WithFil(k, h), ofs)} :
          Calls(s, k, kept, kept) /\ fils' = [fils EXCEPT ![h].fil = s.fp]
    /\ UNCHANGED moved

(* bios_sys_close frees the object whatever f_close answers.               *)
Close(h, k) ==
    LET Promised(s) == IF s.res = "FR_OK" /\ "MODIFIED" \in fils[h].fil.flag
                       THEN With(kept, fils[h].path, fils[h].data) ELSE kept
    IN  /\ MayCall /\ fils[h].open
        /\ \E s \in {f_close(WithFil(k, h))} : Calls(s, k, kept, Promised(s))
        /\ fils' = [fils EXCEPT ![h] = NoFile]
        /\ UNCHANGED moved

-----------------------------------------------------------------------------
(* Directories.                                                            *)

Stat(path, k) ==
    /\ MayCall
    /\ Calls(f_stat(Machine(k), Abs(path)), k, kept, kept)
    /\ UNCHANGED <<fils, moved>>

Chdir(path, k) ==
    /\ MayCall
    /\ Calls(f_chdir(Machine(k), Abs(path)), k, kept, kept)
    /\ UNCHANGED <<fils, moved>>

Mkdir(path, k) ==
    /\ MayCall
    /\ Calls(f_mkdir(Machine(k), Abs(path)), k, kept, kept)
    /\ UNCHANGED <<fils, moved>>

Unlink(path, k) ==
    LET Promised(s) == IF s.res \in Refused THEN kept ELSE Without(kept, {path})
    IN  /\ MayCall /\ NotOpen(path)
        /\ \E s \in {f_unlink(Machine(k), Abs(path))} : Calls(s, k, Promised(s), Promised(s))
        /\ UNCHANGED <<fils, moved>>

(* The path that a rename of old to new gives to path.                     *)
Renamed(path, mv) ==
    IF mv = NoMove \/ ~IsPrefix(mv[1], path) THEN path
    ELSE mv[2] \o SubSeq(path, Len(mv[1]) + 1, Len(path))

(* The promises under the paths that a complete rename gives them.         *)
Carried(mv) ==
    [p \in {Renamed(q, mv) : q \in DOMAIN kept} |->
        kept[CHOOSE q \in DOMAIN kept : Renamed(q, mv) = p]]

Rename(old, new, k) ==
    LET Promised(s) == IF s.res = "FR_OK" THEN Carried(<<old, new>>) ELSE kept
    IN  /\ MayCall /\ NotOpen(old) /\ ~IsStrictPrefix(old, new)
        /\ \E s \in {f_rename(Machine(k), Abs(old), Abs(new))} :
              /\ Calls(s, k, kept, Promised(s))
              /\ moved' = IF s.res \in Refused THEN NoMove ELSE <<old, new>>
        /\ UNCHANGED fils

-----------------------------------------------------------------------------
(* The medium.                                                             *)

DiskWrite ==
    /\ call.busy /\ call.writes # <<>>
    /\ medium' = [medium EXCEPT ![Head(call.writes).sect] = Head(call.writes).data]
    /\ call' = [call EXCEPT !.writes = Tail(@)]
    /\ UNCHANGED <<fs, fils, kept, moved, raw, calls, crashes, faults>>

(* A rename that failed half way leaves both entries behind, and a stretch *)
(* that failed half way a cluster that is not cleared.                     *)
Return ==
    /\ call.busy /\ call.writes = <<>>
    /\ call' = Idle
    /\ kept' = call.after
    /\ moved' = IF call.res = "FR_OK" THEN NoMove ELSE moved
    /\ raw' = call.torn
    /\ UNCHANGED <<medium, fs, fils, calls, crashes, faults>>

(* Clusters by which the call stretches a directory and that are still to  *)
(* be cleared or never will be, and those of them that are linked already. *)
Uncleared ==
    IF ~call.busy THEN raw
    ELSE call.torn \union {c \in call.raw : \E i \in DOMAIN call.writes :
             /\ call.writes[i].sect \in clst2sect(c) .. clst2sect(c) + csize - 1
             /\ call.writes[i].data = Zeros}
Linked == {c \in Uncleared : \E b \in Clusters : Table(medium)[b] = c}

(* The entries that a path has on the medium.                              *)
At(path) == {o \in Objects(medium, Len(path), Uncleared) : o.path = path}

(* The power fails.  A rename is then done, undone or, when both entries   *)
(* are on the medium, left half way.                                       *)
Crash ==
    LET both == moved # NoMove /\ Cardinality(At(moved[1]) \union At(moved[2])) = 2
    IN  /\ crashes < MaxCrashes
        /\ crashes' = crashes + 1
        /\ fs' = Mounted(medium)
        /\ fils' = [h \in Handles |-> NoFile]
        /\ call' = Idle
        /\ moved' = IF both THEN moved ELSE NoMove
        /\ raw' = Linked
        /\ kept' = IF moved # NoMove /\ At(moved[1]) = {} THEN Carried(moved) ELSE kept
        /\ UNCHANGED <<medium, calls, faults>>

Next ==
    \/ \E h \in Handles, k \in Faulty :
          \/ \E path \in Paths, mode \in Modes : Open(h, path, mode, k)
          \/ \E n \in 1 .. MaxSize : Write(h, n, k) \/ Read(h, n, k)
          \/ \E ofs \in 0 .. MaxSize : Seek(h, ofs, k)
          \/ Close(h, k)
    \/ \E path \in Paths, k \in Faulty :
          \/ Stat(path, k) \/ Chdir(path, k) \/ Mkdir(path, k) \/ Unlink(path, k)
          \/ \E new \in Paths : Rename(path, new, k)
    \/ DiskWrite \/ Return \/ Crash

Spec == Init /\ [][Next]_vars

-----------------------------------------------------------------------------
(* Properties.                                                             *)

Depth == 2
Tree == Objects(medium, Depth, raw \union Uncleared)
ChainOf(fat, o) == Chain(fat, o.e.clust)

(* The two paths are one object that a rename has under both of its names. *)
OneObject(p, q) == moved # NoMove /\ (Renamed(p, moved) = q \/ Renamed(q, moved) = p)

(* At every moment, also after a power failure: each object's chain lies   *)
(* in the volume, has no free cluster and no loop, reaches the end mark,   *)
(* is long enough for its size, and no cluster belongs to two objects.     *)
ChainsSound ==
    LET fat == Table(medium)
        tree == Tree
        Sound(o) == LET ch == ChainOf(fat, o) IN
            /\ o.e.clust # 0 => ch # <<>> /\ fat[Last(ch)] >= n_fatent
            /\ IsInjective(ch)
            /\ Len(ch) * ClusterUnits >= o.e.size
            /\ o.e.dir => ch # <<>>
    IN  /\ \A o \in tree : Sound(o)
        /\ \A o, p \in tree :
              o # p /\ ~OneObject(o.path, p.path)
                => Range(ChainOf(fat, o)) \intersect Range(ChainOf(fat, p)) = {}

(* What a successful close stored is on the medium from then on, whatever  *)
(* is done to other files and whenever the power fails, until the file is  *)
(* overwritten or removed; under a new name once it is renamed, and at no  *)
(* moment of a rename under neither.                                       *)
KeptSurvives ==
    LET fat == Table(medium) tree == Tree
    IN  \A p \in DOMAIN kept : \E o \in tree :
            /\ o.path \in {p, Renamed(p, moved)} /\ ~o.e.dir
            /\ LET units == Units(medium, ChainOf(fat, o))
               IN  \A u \in DOMAIN kept[p] : u < o.e.size /\ units[u] = kept[p][u]

(* The table as the library sees it: the window over the medium.           *)
SeenDisk == IF fs.winsect \in FsInfo .. LastSect
            THEN [medium EXCEPT ![fs.winsect] = fs.win] ELSE medium

Undisturbed == ~call.busy /\ crashes = 0 /\ faults = 0

(* Between calls, as long as nothing failed, every cluster in use belongs  *)
(* to an object or to a file being written, and all the others are in the  *)
(* count of free clusters.                                                 *)
ClustersAccounted ==
    Undisturbed =>
        LET fat == Table(SeenDisk)
            owned == UNION {Range(ChainOf(fat, o)) : o \in Objects(SeenDisk, Depth, raw)}
            open == UNION {Range(Chain(fat, fils[h].fil.sclust)) :
                             h \in {g \in Handles : fils[g].open}}
        IN  /\ {c \in Clusters : fat[c] # 0} = owned \union open
            /\ fs.free_clst = Cardinality(Clusters \ (owned \union open))

(* A read made now gives what was last written at each position, whether   *)
(* it is in a buffer or on the medium.                                     *)
ReadsBack ==
    \A h \in Handles : ~call.busy /\ fils[h].open =>
        LET f == fils[h].fil
        IN  \A s \in {f_read([WithFil(0, h) EXCEPT !.fp.flag = @ \union {"READ"}], MaxSize)} :
                /\ s.res = f.err
                /\ s.res = "FR_OK" => Len(s.got) = f.objsize - f.fptr
                /\ \A i \in 1 .. Len(s.got) :
                      f.fptr + i - 1 \in DOMAIN fils[h].data
                        => s.got[i] = fils[h].data[f.fptr + i - 1]

(* The prompt (f_getcwd) shows the path of the current directory, which    *)
(* exists, whatever was renamed or removed meanwhile.                      *)
PromptIsRight ==
    fs.cdir # 0 /\ ~call.busy /\ raw = {} /\ moved = NoMove =>
        \A s \in {f_getcwd(Machine(0))} :
            s.res = "FR_OK" /\ \E o \in Objects(SeenDisk, Depth, raw) :
                o.e.dir /\ o.e.clust = fs.cdir /\ o.path = s.got
=============================================================================
