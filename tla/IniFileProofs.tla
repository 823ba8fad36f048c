--------------------------- MODULE IniFileProofs ---------------------------
(***************************************************************************)
(* Proofs about file objects (IniFile): their stats are those of the file  *)
(* unless the file changed behind them, a backup keeps every file that was *)
(* there, and the metadata of the deprecated reader gives the answers of   *)
(* the file object.  What the bytes decode to is left open: the proofs     *)
(* hold for any conversion.                                                *)
(***************************************************************************)
EXTENDS IniFile, ProofBasics

-----------------------------------------------------------------------------
(* The inductive invariant *)

\* What a file and its stats consist of.  The numbers but the device fit the metadata.
IsFile(f) ==
    /\ DOMAIN f = {"bytes", "mode", "uid", "gid", "mtime", "dev", "ino"}
    /\ f.uid \in {1, 2} /\ f.gid \in Groups /\ f.mtime \in -1..14 /\ f.dev \in Nat /\ f.ino \in 0..2
    /\ f.mode \subseteq PERMS

IsStat(s) ==
    /\ s.uid \in {1, 2} /\ s.gid \in Groups /\ s.mtime \in -1..14 /\ s.dev \in Nat /\ s.ino \in 0..2
    /\ s.mode \subseteq PERMS

DiskOK(d) == d = [n \in AllNames |-> d[n]] /\ \A n \in AllNames : IsFile(d[n])

\* An object that has stats has a file.
IsCtx(x) ==
    /\ DOMAIN x = {"name", "meta", "data", "bom", "stats", "file"}
    /\ x.name \in AllNames \cup {EMPTYNAME}
    /\ x.stats # NULL => IsStat(x.stats) /\ x.name \in AllNames

IsCall(c) ==
    DOMAIN c = {"op", "pc", "name", "text", "bom", "flag", "access", "perm", "max", "i", "conv", "seen"}

\* An access structure sets permission bits.
IsAccess(a) == a = NULL \/ a.mode \subseteq PERMS

\* How far each kind of call may be, and what it works on.
Reading(c) == c.pc \in {"fopen", "convert"} /\ c.name \in AllNames
Writing(c) ==
    /\ c.pc \in {"perm", "check", "creat", "write"} /\ c.name \in AllNames
    /\ IsAccess(c.access)
    /\ c.pc # "perm" => c.perm.mode \subseteq PERMS
Numbered(c) == c.max \in 0..Len(Backups) /\ c.i \in 1..Len(Backups)
CallOK(c, x) ==
    /\ IsCall(c)
    /\ \/ c.op = "none" /\ c.pc = "idle"
       \/ c.op = "mem" /\ c.pc = "convert" /\ c.flag = FALSE /\ c.name = EMPTYNAME
       \/ c.op = "open" /\ Reading(c)
       \/ c.op = "reopen" /\ Reading(c) /\ IsCtx(x)
       \/ c.op = "save" /\ (Reading(c) \/ (Writing(c) /\ c.pc # "check")) /\ IsCtx(x)
       \/ c.op = "backup" /\ Writing(c) /\ Numbered(c) /\ IsCtx(x)
    /\ c.pc = "convert" /\ c.op # "mem" => IsStat(c.perm)

\* The stats of the object, when nobody is about to write its file.
Current(x, d, b, c) ==
    (x # NULL /\ x.stats # NULL /\ b = FALSE /\ c.op # "save") =>
        d[x.name].ino # 0 /\ x.stats = Stat(d[x.name])

\* The stats that a call took from the file it reads.
Fresh(c, d, t) ==
    (c.pc = "convert" /\ c.op # "mem" /\ c.name \notin t) =>
        d[c.name].ino # 0 /\ c.perm = Stat(d[c.name])

\* A backup does not write the file of the object.
Apart(c, x, b) ==
    (c.op = "backup" /\ c.pc \in {"creat", "write"} /\ x # NULL /\ x.stats # NULL /\ b = FALSE) =>
        c.name # x.name

\* The name that a backup found free is free, or another process took it.
Unused(c, d, t) ==
    (c.op = "backup" /\ c.pc = "creat") => d[c.name].ino = 0 \/ c.name \in t

FileInv ==
    /\ DiskOK(disk) /\ CallOK(call, ctx) /\ others \in Nat /\ behind \in BOOLEAN
    /\ ctx # NULL => IsCtx(ctx)
    /\ old # NULL => IsStat(old)
    /\ Current(ctx, disk, behind, call)
    /\ Fresh(call, disk, touched)
    /\ Apart(call, ctx, behind)
    /\ Unused(call, disk, touched)

-----------------------------------------------------------------------------
(* Values *)

\* A flag that is raised and never lowered.
LEMMA Raised ==
    ASSUME NEW b \in BOOLEAN, NEW p \in BOOLEAN, NEW r, r = (b \/ p)
    PROVE  r \in BOOLEAN /\ (r = FALSE => b = FALSE /\ ~p)
  OBVIOUS

\* The stats of a file.
LEMMA StatIs ==
    ASSUME NEW f, IsFile(f)
    PROVE  IsStat(Stat(f))
  BY DEF IsFile, IsStat, Stat

\* What the system calls write to a file leaves a file.
LEMMA FileChanges ==
    ASSUME NEW f, IsFile(f), NEW bytes, NEW mode \in SUBSET PERMS
    PROVE  /\ IsFile([f EXCEPT !.bytes = bytes]) /\ [f EXCEPT !.bytes = bytes].ino = f.ino
           /\ IsFile([f EXCEPT !.mode = mode]) /\ [f EXCEPT !.mode = mode].ino = f.ino
           /\ \A t \in Times(f) : IsFile(Stamped(f, bytes, t))
  <1>1. IsFile([f EXCEPT !.bytes = bytes]) /\ [f EXCEPT !.bytes = bytes].ino = f.ino
    BY DEF IsFile
  <1>2. IsFile([f EXCEPT !.mode = mode]) /\ [f EXCEPT !.mode = mode].ino = f.ino
    BY DEF IsFile
  <1>3. ASSUME NEW t \in Times(f) PROVE IsFile(Stamped(f, bytes, t))
    <2>1. t \in -1..14
      BY DEF Times, IsFile
    <2> QED
      BY <2>1 DEF IsFile, Stamped
  <1> QED
    BY <1>1, <1>2, <1>3

\* A file given to another group.
LEMMA OwnerChanged ==
    ASSUME NEW f, IsFile(f), NEW gid \in Groups
    PROVE  /\ IsFile([f EXCEPT !.uid = 1, !.gid = gid])
           /\ [f EXCEPT !.uid = 1, !.gid = gid].ino = f.ino
  BY DEF IsFile

\* A new file, and no file.
LEMMA NewFileIs ==
    ASSUME NEW n, NEW mode \in SUBSET PERMS
    PROVE  IsFile(NewFile(n, mode)) /\ NewFile(n, mode).ino = 1 /\ IsFile(NoFile)
  BY DEF IsFile, NewFile, NoFile, Me, Groups, Home

\* The files when one of them is written.
Put(d, n, f) == [d EXCEPT ![n] = f]

\* Writing one file leaves the others.
LEMMA DiskSet ==
    ASSUME NEW d, DiskOK(d), NEW n \in AllNames, NEW f, IsFile(f), NEW e, e = Put(d, n, f)
    PROVE  DiskOK(e) /\ e[n] = f /\ \A m \in AllNames : m # n => e[m] = d[m]
  <1>1. d = [m \in AllNames |-> d[m]] /\ \A m \in AllNames : IsFile(d[m])
    BY DEF DiskOK
  <1>2. e = [m \in AllNames |-> IF m = n THEN f ELSE d[m]]
    BY <1>1 DEF Put
  <1>3. e[n] = f /\ \A m \in AllNames : m # n => e[m] = d[m]
    BY <1>2
  <1>4. e = [m \in AllNames |-> e[m]]
    BY <1>2
  <1>5. \A m \in AllNames : IsFile(e[m])
    BY <1>1, <1>3
  <1> QED
    BY <1>3, <1>4, <1>5 DEF DiskOK

\* With no call going, the invariant says nothing of the call.
LEMMA NoCallIs ==
    ASSUME NEW x, NEW d, NEW b, NEW t
    PROVE  /\ CallOK(NoCall, x) /\ Fresh(NoCall, d, t) /\ Apart(NoCall, x, b) /\ Unused(NoCall, d, t)
           /\ NoCall.op = "none" /\ NoCall.pc = "idle"
  <1>1. NoCall = [op |-> "none", pc |-> "idle", name |-> NULL, text |-> <<>>, bom |-> NOBOM,
                  flag |-> FALSE, access |-> NULL, perm |-> NULL, max |-> 0, i |-> 0, conv |-> NULL,
                  seen |-> NULL]
    BY DEF NoCall, NewCall
  <1>2. NoCall.op = "none" /\ NoCall.pc = "idle" /\ IsCall(NoCall)
    BY <1>1 DEF IsCall
  <1> QED
    BY <1>2 DEF CallOK, Fresh, Apart, Unused

\* An idle application has no call.
LEMMA IdleIs ==
    ASSUME NEW c, NEW x, CallOK(c, x), c.pc = "idle"
    PROVE  c.op = "none" /\ IsCall(c)
  BY DEF CallOK, Reading, Writing

-----------------------------------------------------------------------------
(* How a call ends *)

\* A call that read its file: common_file_init.
LEMMA LoadedKeeps ==
    ASSUME NEW c, NEW data, NEW bom, NEW file, NEW stats, Loaded(c, data, bom, file, stats),
           c.op = "reopen" => IsCtx(ctx), old # NULL => IsStat(old),
           \/ c.flag = FALSE /\ c.name = EMPTYNAME
           \/ /\ c.name \in AllNames /\ IsStat(stats)
              /\ c.name \notin touched => disk[c.name].ino # 0 /\ stats = Stat(disk[c.name])
    PROVE  /\ IsCtx(ctx') /\ (old' # NULL => IsStat(old')) /\ behind' \in BOOLEAN
           /\ Current(ctx', disk, behind', NoCall)
  <1> DEFINE s == IF c.flag THEN stats ELSE NULL
  <1>1. /\ ctx' = [NewCtx(c.name, c.flag, bom) EXCEPT !.data = data, !.file = file, !.stats = s]
        /\ old' = IF c.op = "reopen" THEN ctx.stats ELSE old
        /\ behind' = (c.name \in touched)
    BY DEF Loaded
  <1>2. s = stats \/ s = NULL
    OBVIOUS
  <1>3. c.flag = FALSE => s = NULL
    OBVIOUS
  <1> HIDE DEF s
  <1>4. /\ DOMAIN ctx' = {"name", "meta", "data", "bom", "stats", "file"}
        /\ ctx'.name = c.name /\ ctx'.stats = s
    BY <1>1 DEF NewCtx
  <1>5. IsCtx(ctx')
    BY <1>2, <1>3, <1>4 DEF IsCtx
  <1>6. old' # NULL => IsStat(old')
    BY <1>1 DEF IsCtx
  <1>7. behind' \in BOOLEAN /\ (behind' = FALSE => c.name \notin touched)
    <2> DEFINE q == c.name \in touched
    <2>1. q \in BOOLEAN /\ behind' = q
      BY <1>1
    <2> HIDE DEF q
    <2>2. behind' \in BOOLEAN /\ (behind' = FALSE => ~q)
      BY <2>1
    <2> QED
      BY <2>2 DEF q
  <1>8. Current(ctx', disk, behind', NoCall)
    BY <1>2, <1>3, <1>4, <1>7 DEF Current
  <1> QED
    BY <1>5, <1>6, <1>7, <1>8

\* A call that could not read its file.
LEMMA NotLoadedKeeps ==
    ASSUME NEW c, NEW conv, NotLoaded(c, conv), behind \in BOOLEAN,
           c.op = "save" => IsCtx(ctx) /\ IsStat(c.perm),
           ctx # NULL => IsCtx(ctx), Current(ctx, disk, behind, c)
    PROVE  /\ ctx' # NULL => IsCtx(ctx')
           /\ old' = old /\ behind' \in BOOLEAN /\ Current(ctx', disk, behind', NoCall)
  <1> DEFINE p == c.op = "save"
  <1>1. /\ ctx' = IF ~p THEN ctx
                  ELSE [ctx EXCEPT !.data = conv.out, !.bom = IF conv.started THEN conv.bom ELSE @,
                                   !.stats = IF @ = NULL THEN NULL ELSE c.perm]
        /\ behind' = (behind \/ p) /\ old' = old
    BY DEF NotLoaded
  <1>2. p \in BOOLEAN
    OBVIOUS
  <1>3. behind' \in BOOLEAN /\ (behind' = FALSE => behind = FALSE /\ ~p)
    BY <1>1, <1>2, Raised
  <1>4. CASE p
    <2>1. /\ DOMAIN ctx' = {"name", "meta", "data", "bom", "stats", "file"}
          /\ ctx'.name = ctx.name /\ ctx'.stats = IF ctx.stats = NULL THEN NULL ELSE c.perm
      BY <1>1, <1>4 DEF IsCtx
    <2>2. IsCtx(ctx')
      BY <1>4, <2>1 DEF IsCtx
    <2> QED
      BY <1>1, <1>3, <1>4, <2>2 DEF Current
  <1>5. CASE ~p
    BY <1>1, <1>3, <1>5 DEF Current
  <1> QED
    BY <1>4, <1>5

\* A call that could not write its file, whatever became of the files.
LEMMA GoneKeeps ==
    ASSUME NEW c, NEW res, Gone(c, res), behind \in BOOLEAN, NEW d, Current(ctx, d, behind, c)
    PROVE  /\ ctx' = ctx /\ old' = old /\ call' = NoCall /\ touched' = touched /\ others' = others
           /\ behind' \in BOOLEAN /\ Current(ctx', d, behind', NoCall)
  <1> DEFINE p == c.op = "save"
  <1>1. /\ ctx' = ctx /\ old' = old /\ call' = NoCall /\ touched' = touched /\ others' = others
        /\ behind' = (behind \/ p)
    BY DEF Gone, Return
  <1>2. p \in BOOLEAN
    OBVIOUS
  <1>3. behind' \in BOOLEAN /\ (behind' = FALSE => behind = FALSE /\ ~p)
    BY <1>1, <1>2, Raised
  <1>4. Current(ctx', d, behind', NoCall)
    BY <1>1, <1>3 DEF Current
  <1> QED
    BY <1>1, <1>3, <1>4

\* When the call is over, the rest of the invariant is enough.
LEMMA Ended ==
    ASSUME DiskOK(disk'), others' \in Nat, behind' \in BOOLEAN, call' = NoCall,
           ctx' # NULL => IsCtx(ctx'), old' # NULL => IsStat(old'),
           Current(ctx', disk', behind', NoCall)
    PROVE  FileInv'
  BY NoCallIs DEF FileInv

-----------------------------------------------------------------------------
(* The steps of a call *)

\* The kind of the call, by the place where it is.
LEMMA CallAt ==
    ASSUME CallOK(call, ctx)
    PROVE  /\ DOMAIN call = {"op", "pc", "name", "text", "bom", "flag", "access", "perm", "max",
                             "i", "conv", "seen"}
           /\ call.pc = "fopen" => /\ call.op \in {"open", "reopen", "save"} /\ call.name \in AllNames
                                   /\ call.op \in {"reopen", "save"} => IsCtx(ctx)
           /\ call.pc = "convert" =>
                 \/ call.op = "mem" /\ call.flag = FALSE /\ call.name = EMPTYNAME
                 \/ /\ call.op \in {"open", "reopen", "save"} /\ call.name \in AllNames
                    /\ call.op \in {"reopen", "save"} => IsCtx(ctx)
                    /\ IsStat(call.perm)
           /\ call.pc \in {"perm", "check", "creat", "write"} =>
                 /\ call.op \in {"save", "backup"} /\ call.name \in AllNames /\ IsCtx(ctx)
                 /\ Writing(call)
                 /\ call.op = "backup" => Numbered(call)
           /\ call.pc = "check" => call.op = "backup"
  BY DEF CallOK, IsCall, Reading, Writing

\* The call goes on reading.
LEMMA ReadOn ==
    ASSUME FileInv, disk' = disk, ctx' = ctx, old' = old, behind' = behind, touched' = touched,
           others' = others, IsCall(call'), call'.op = call.op, call'.name = call.name,
           call'.flag = call.flag, call'.pc = "convert", call.pc \in {"fopen", "convert"},
           call.op # "mem" =>
              /\ IsStat(call'.perm)
              /\ call.name \notin touched => disk[call.name].ino # 0 /\ call'.perm = Stat(disk[call.name])
    PROVE  FileInv'
  <1>1. CallOK(call', ctx')
    BY DEF FileInv, CallOK, Reading, Writing
  <1>2. Current(ctx', disk', behind', call')
    BY DEF FileInv, Current
  <1>3. Fresh(call', disk', touched')
    BY DEF Fresh
  <1>4. Apart(call', ctx', behind') /\ Unused(call', disk', touched')
    BY DEF Apart, Unused
  <1> QED
    BY <1>1, <1>2, <1>3, <1>4 DEF FileInv

\* Opening the file to read it.
LEMMA FopenKeeps ==
    ASSUME FileInv, fopen
    PROVE  FileInv'
  <1> DEFINE n == call.name
             f == disk[n]
  <1>1. /\ n \in AllNames /\ call.op \in {"open", "reopen", "save"} /\ call.pc = "fopen"
        /\ call.op \in {"reopen", "save"} => IsCtx(ctx)
        /\ DOMAIN call = {"op", "pc", "name", "text", "bom", "flag", "access", "perm", "max",
                          "i", "conv", "seen"}
    BY CallAt DEF FileInv, fopen
  <1>2. DiskOK(disk) /\ IsFile(f) /\ IsStat(Stat(f))
    BY <1>1, StatIs DEF FileInv, DiskOK
  <1>3. disk' = disk
    BY DEF fopen
  <1>4. CASE Gone(call, IF Exists(n) THEN "EACCES" ELSE "ENOENT")
    <2>1. Current(ctx, disk, behind, call) /\ behind \in BOOLEAN
      BY DEF FileInv
    <2>2. /\ ctx' = ctx /\ old' = old /\ call' = NoCall /\ others' = others
          /\ behind' \in BOOLEAN /\ Current(ctx', disk, behind', NoCall)
      BY <1>4, <2>1, GoneKeeps DEF FileInv
    <2> QED
      BY <1>3, <2>2, Ended DEF FileInv
  <1>5. CASE /\ MayRead(n) /\ f.bytes # <<>>
             /\ call' = [call EXCEPT !.pc = "convert", !.conv = StartConv(Len(f.bytes)),
                                     !.seen = f.bytes, !.perm = Stat(f)]
             /\ Going /\ UNCHANGED <<ctx, old, app, behind>>
    <2>1. /\ IsCall(call') /\ call'.op = call.op /\ call'.name = n /\ call'.flag = call.flag
          /\ call'.pc = "convert" /\ call'.perm = Stat(f)
      BY <1>1, <1>5 DEF IsCall
    <2>2. f.ino # 0
      BY <1>5 DEF MayRead, Exists
    <2>3. /\ ctx' = ctx /\ old' = old /\ behind' = behind /\ touched' = touched /\ others' = others
      BY <1>5 DEF Going
    <2> QED
      BY <1>1, <1>2, <1>3, <2>1, <2>2, <2>3, ReadOn
  <1>6. CASE /\ MayRead(n) /\ Loaded(call, <<>>, call.bom, "stale", Stat(f))
             /\ Return([call EXCEPT !.seen = <<>>], "EOK")
    <2>1. f.ino # 0
      BY <1>6 DEF MayRead, Exists
    <2>2. call.op = "reopen" => IsCtx(ctx)
      BY <1>1
    <2>3. old # NULL => IsStat(old)
      BY DEF FileInv
    <2>4. /\ IsCtx(ctx') /\ (old' # NULL => IsStat(old')) /\ behind' \in BOOLEAN
          /\ Current(ctx', disk, behind', NoCall)
      BY <1>1, <1>2, <1>6, <2>1, <2>2, <2>3, LoadedKeeps
    <2>5. call' = NoCall /\ others' = others
      BY <1>6 DEF Return
    <2> QED
      BY <1>2, <1>3, <2>4, <2>5, Ended DEF FileInv
  <1> QED
    BY <1>4, <1>5, <1>6 DEF fopen

\* A turn of the conversion loop.
LEMMA ConvertKeeps ==
    ASSUME FileInv, common_file_convert
    PROVE  FileInv'
  <1> DEFINE n == call.name
  <1>1. /\ call.pc = "convert" /\ disk' = disk
        /\ DOMAIN call = {"op", "pc", "name", "text", "bom", "flag", "access", "perm", "max",
                          "i", "conv", "seen"}
    BY CallAt DEF FileInv, common_file_convert
  <1>2. \/ call.op = "mem" /\ call.flag = FALSE /\ n = EMPTYNAME
        \/ /\ call.op \in {"open", "reopen", "save"} /\ n \in AllNames
           /\ call.op \in {"reopen", "save"} => IsCtx(ctx)
           /\ IsStat(call.perm)
    BY <1>1, CallAt DEF FileInv
  <1>3. call.op # "mem" /\ n \notin touched => disk[n].ino # 0 /\ call.perm = Stat(disk[n])
    BY <1>1 DEF FileInv, Fresh
  <1>4. ASSUME NEW res, NEW conv, Return(call, res), NotLoaded(call, conv)
        PROVE  FileInv'
    <2>1. call.op = "save" => IsCtx(ctx) /\ IsStat(call.perm)
      BY <1>2
    <2>2. /\ ctx' # NULL => IsCtx(ctx')
          /\ old' = old /\ behind' \in BOOLEAN /\ Current(ctx', disk, behind', NoCall)
      BY <1>4, <2>1, NotLoadedKeeps DEF FileInv
    <2>3. call' = NoCall /\ others' = others
      BY <1>4 DEF Return
    <2> QED
      BY <1>1, <2>2, <2>3, Ended DEF FileInv
  <1>5. ASSUME NEW next, Converts(call, next)
        PROVE  FileInv'
    <2>1. CASE next.res # "EOK" /\ Return(call, next.res) /\ NotLoaded(call, next)
      BY <1>4, <2>1
    <2>2. CASE /\ call' = [call EXCEPT !.conv = next]
               /\ Going /\ UNCHANGED <<ctx, old, app, behind>>
      <3>1. /\ IsCall(call') /\ call'.op = call.op /\ call'.name = n /\ call'.flag = call.flag
            /\ call'.pc = "convert" /\ call'.perm = call.perm
        BY <1>1, <2>2 DEF IsCall
      <3>2. /\ ctx' = ctx /\ old' = old /\ behind' = behind /\ touched' = touched /\ others' = others
        BY <2>2 DEF Going
      <3>3. call.op # "mem" => IsStat(call.perm)
        BY <1>2
      <3> QED
        BY <1>1, <1>3, <3>1, <3>2, <3>3, ReadOn
    <2>3. CASE Loaded(call, next.out, next.bom, "memory", call.perm) /\ Return(call, "EOK")
      <3>1. \/ call.flag = FALSE /\ n = EMPTYNAME
            \/ /\ n \in AllNames /\ IsStat(call.perm)
               /\ n \notin touched => disk[n].ino # 0 /\ call.perm = Stat(disk[n])
        BY <1>2, <1>3
      <3>2. call.op = "reopen" => IsCtx(ctx)
        BY <1>2
      <3>3. old # NULL => IsStat(old)
        BY DEF FileInv
      <3>4. /\ IsCtx(ctx') /\ (old' # NULL => IsStat(old')) /\ behind' \in BOOLEAN
            /\ Current(ctx', disk, behind', NoCall)
        BY <2>3, <3>1, <3>2, <3>3, LoadedKeeps
      <3>5. call' = NoCall /\ others' = others
        BY <2>3 DEF Return
      <3> QED
        BY <1>1, <3>4, <3>5, Ended DEF FileInv
    <2>4. CASE Return(call, "EIO") /\ NotLoaded(call, next)
      BY <1>4, <2>4
    <2> QED
      BY <1>5, <2>1, <2>2, <2>3, <2>4 DEF Converts
  <1>6. \/ \E res, conv : Return(call, res) /\ NotLoaded(call, conv)
        \/ \E next : Converts(call, next)
    <2>1. PICK got : IF Overread(got) THEN Return(call, "overread") /\ NotLoaded(call, call.conv)
                     ELSE \E start \in {initialize_conv(got)} :
                          \E done \in {ChunkConverted(call.conv, start)} :
                          \E next \in {Turned(start, done, start.total + start.cnt)} : Converts(call, next)
      BY DEF common_file_convert
    <2> QED
      BY <2>1
  <1> QED
    BY <1>4, <1>5, <1>6

\* The call goes on writing; what it writes is not the file of the object.
LEMMA WriteOn ==
    ASSUME FileInv, DiskOK(disk'), ctx' = ctx, old' = old, behind' = behind, touched' = touched,
           others' = others, IsCall(call'), call'.op = call.op,
           Writing(call'), IsCtx(ctx),
           (call.op = "save" /\ call'.pc # "check") \/ (call.op = "backup" /\ Numbered(call')),
           Current(ctx, disk', behind, call), Apart(call', ctx, behind), Unused(call', disk', touched)
    PROVE  FileInv'
  <1>1. CallOK(call', ctx')
    BY DEF CallOK, Reading, Writing
  <1>2. Current(ctx', disk', behind', call')
    BY DEF Current
  <1>3. Fresh(call', disk', touched')
    BY DEF Fresh, Writing
  <1> QED
    BY <1>1, <1>2, <1>3 DEF FileInv

\* What a call writes while its object is not being saved is another file.
LEMMA Elsewhere ==
    ASSUME FileInv, call.pc \in {"creat", "write"}, NEW f, IsFile(f), NEW d,
           d = Put(disk, call.name, f)
    PROVE  DiskOK(d) /\ Current(ctx, d, behind, call)
  <1>1. call.name \in AllNames /\ call.op \in {"save", "backup"}
    BY CallAt DEF FileInv
  <1>2. DiskOK(disk)
    BY DEF FileInv
  <1>3. DiskOK(d) /\ \A m \in AllNames : m # call.name => d[m] = disk[m]
    BY <1>1, <1>2, DiskSet
  <1>4. ASSUME ctx # NULL, ctx.stats # NULL, behind = FALSE, call.op # "save"
        PROVE  d[ctx.name].ino # 0 /\ ctx.stats = Stat(d[ctx.name])
    <2>1. ctx.name # call.name
      BY <1>1, <1>4 DEF FileInv, Apart
    <2>2. ctx.name \in AllNames
      BY <1>4 DEF FileInv, IsCtx
    <2>3. d[ctx.name] = disk[ctx.name]
      BY <1>3, <2>1, <2>2
    <2>4. disk[ctx.name].ino # 0 /\ ctx.stats = Stat(disk[ctx.name])
      BY <1>4 DEF FileInv, Current
    <2> QED
      BY <2>3, <2>4
  <1> QED
    BY <1>3, <1>4 DEF Current

\* A call that could not write its file.
LEMMA GoneEnds ==
    ASSUME FileInv, NEW res, Gone(call, res), DiskOK(disk'), Current(ctx, disk', behind, call)
    PROVE  FileInv'
  <1>1. /\ ctx' = ctx /\ old' = old /\ call' = NoCall /\ others' = others
        /\ behind' \in BOOLEAN /\ Current(ctx', disk', behind', NoCall)
    BY GoneKeeps DEF FileInv
  <1> QED
    BY <1>1, Ended DEF FileInv

\* A system call fails: what a read has done is kept as when the text is wrong.
LEMMA ReadFailsKeeps ==
    ASSUME FileInv, ReadFails
    PROVE  FileInv'
  <1> DEFINE n == call.name
             c == [call EXCEPT !.perm = Stat(disk[n])]
  <1>1. disk' = disk
    BY DEF ReadFails
  <1>2. CASE Gone(call, "EIO")
    <2>1. Current(ctx, disk', behind, call) /\ DiskOK(disk')
      BY <1>1 DEF FileInv
    <2> QED
      BY <1>2, <2>1, GoneEnds
  <1>3. ASSUME NEW d, NEW conv, Return(call, "EIO"), NotLoaded(d, conv), d.op = call.op,
               call.op = "save" => IsCtx(ctx) /\ IsStat(d.perm)
        PROVE  FileInv'
    <2>1. Current(ctx, disk, behind, d)
      BY <1>3 DEF FileInv, Current
    <2>2. /\ ctx' # NULL => IsCtx(ctx')
          /\ old' = old /\ behind' \in BOOLEAN /\ Current(ctx', disk, behind', NoCall)
      BY <1>3, <2>1, NotLoadedKeeps DEF FileInv
    <2>3. call' = NoCall /\ others' = others
      BY <1>3 DEF Return
    <2> QED
      BY <1>1, <2>2, <2>3, Ended DEF FileInv
  <1>4. ASSUME call.pc = "fopen", Return(call, "EIO"), NotLoaded(c, StartConv(0))
        PROVE  FileInv'
    <2>1. /\ n \in AllNames /\ (call.op = "save" => IsCtx(ctx))
          /\ DOMAIN call = {"op", "pc", "name", "text", "bom", "flag", "access", "perm", "max",
                            "i", "conv", "seen"}
      BY <1>4, CallAt DEF FileInv
    <2>2. IsStat(Stat(disk[n]))
      BY <2>1, StatIs DEF FileInv, DiskOK
    <2>3. c.op = call.op /\ c.perm = Stat(disk[n])
      BY <2>1
    <2> HIDE DEF c
    <2> QED
      BY <1>3, <1>4, <2>1, <2>2, <2>3
  <1>5. ASSUME call.pc = "convert", Return(call, "EIO"), NotLoaded(call, call.conv)
        PROVE  FileInv'
    <2>1. call.op = "save" => IsCtx(ctx) /\ IsStat(call.perm)
      BY <1>5, CallAt DEF FileInv
    <2> QED
      BY <1>3, <1>5, <2>1
  <1> QED
    BY <1>2, <1>4, <1>5 DEF ReadFails

\* A backup goes on with the next name, or ends.
LEMMA RefusedKeeps ==
    ASSUME FileInv, NEW res, Refused(call, res), call.pc \in {"check", "creat"}, disk' = disk
    PROVE  FileInv'
  <1>1. Current(ctx, disk, behind, call) /\ DiskOK(disk)
    BY DEF FileInv
  <1>2. CASE Gone(call, res)
    BY <1>1, <1>2, GoneEnds
  <1>3. CASE /\ call.op = "backup" /\ call.i < call.max
             /\ call' = [call EXCEPT !.i = @ + 1, !.name = create_file_name(call.i + 1), !.pc = "perm"]
             /\ Going /\ UNCHANGED <<ctx, old, app, behind>>
    <2>1. /\ Numbered(call) /\ IsCtx(ctx) /\ IsAccess(call.access)
          /\ DOMAIN call = {"op", "pc", "name", "text", "bom", "flag", "access", "perm", "max",
                            "i", "conv", "seen"}
      BY <1>3, CallAt DEF FileInv, Writing
    <2> DEFINE k == call.i + 1
    <2>2. /\ IsCall(call') /\ call'.op = "backup" /\ call'.pc = "perm" /\ call'.max = call.max
          /\ call'.i = k /\ call'.name = create_file_name(k) /\ call'.access = call.access
      BY <1>3, <2>1 DEF IsCall
    <2>3. Len(Backups) \in Nat /\ DOMAIN Backups = 1..Len(Backups)
      BY FileAssumption, LenProperties
    <2>4. k \in 1..Len(Backups)
      BY <1>3, <2>1, <2>3 DEF Numbered
    <2> HIDE DEF k
    <2>5. Backups[k] \in AllNames
      BY <2>3, <2>4 DEF AllNames, ToSet
    <2>6. Writing(call') /\ Numbered(call')
      BY <2>1, <2>2, <2>4, <2>5 DEF create_file_name, Numbered, Writing
    <2>7. Apart(call', ctx, behind) /\ Unused(call', disk', touched)
      BY <2>2 DEF Apart, Unused
    <2>8. /\ ctx' = ctx /\ old' = old /\ behind' = behind /\ touched' = touched /\ others' = others
      BY <1>3 DEF Going
    <2>9. call'.op = call.op
      BY <1>3, <2>2
    <2>10. call.op = "backup" /\ IsCtx(ctx) /\ IsCall(call')
      BY <1>3, <2>1, <2>2
    <2>11. DiskOK(disk') /\ Current(ctx, disk', behind, call)
      BY <1>1
    <2> QED
      BY <2>6, <2>7, <2>8, <2>9, <2>10, <2>11, WriteOn
  <1> QED
    BY <1>2, <1>3 DEF Refused

\* The permissions that a file gets are permission bits.
LEMMA PermissionBits ==
    ASSUME DiskOK(disk), NEW x, IsCtx(x), NEW access, IsAccess(access)
    PROVE  determine_permissions(x, access).mode \subseteq PERMS
  <1> DEFINE d == Defaults(x)
  <1>1. d.mode \subseteq PERMS
    <2>1. CASE x.stats # NULL
      BY <2>1 DEF Defaults, IsCtx, IsStat
    <2>2. CASE x.stats = NULL /\ x.name # EMPTYNAME
      <3>1. x.name \in AllNames
        BY <2>2 DEF IsCtx
      <3>2. disk[x.name].mode \subseteq PERMS
        BY <3>1 DEF DiskOK, IsFile
      <3>3. d = Stat(disk[x.name])
        BY <2>2 DEF Defaults
      <3> HIDE DEF d
      <3> QED
        BY <3>2, <3>3 DEF Stat
    <2>3. CASE x.stats = NULL /\ x.name = EMPTYNAME
      BY <2>3 DEF Defaults, PERMS
    <2> QED
      BY <2>1, <2>2, <2>3
  <1>2. determine_permissions(x, access).mode
           = IF access # NULL /\ "MODE" \in access.flags THEN access.mode ELSE d.mode
    BY DEF determine_permissions
  <1> HIDE DEF d
  <1> QED
    BY <1>1, <1>2 DEF IsAccess

\* The permissions are determined.
LEMMA PermissionsKeep ==
    ASSUME FileInv, WritePermissions
    PROVE  FileInv'
  <1> DEFINE perm == determine_permissions(ctx, call.access)
  <1>1. call.pc = "perm" /\ disk' = disk
    BY DEF WritePermissions
  <1>2. /\ call.op \in {"save", "backup"} /\ Writing(call) /\ IsCtx(ctx)
        /\ call.op = "backup" => Numbered(call)
        /\ DOMAIN call = {"op", "pc", "name", "text", "bom", "flag", "access", "perm", "max",
                          "i", "conv", "seen"}
    BY <1>1, CallAt DEF FileInv
  <1>3. Current(ctx, disk, behind, call) /\ DiskOK(disk)
    BY DEF FileInv
  <1>4. ASSUME NEW res, Gone(call, res) PROVE FileInv'
    BY <1>1, <1>3, <1>4, GoneEnds
  <1>5. IsAccess(call.access)
    BY <1>2 DEF Writing
  <1>6. perm.mode \subseteq PERMS
    BY <1>2, <1>3, <1>5, PermissionBits
  <1>7. \/ \E res : Gone(call, res)
        \/ /\ call' = [call EXCEPT !.perm = perm, !.pc = IF call.op = "backup" THEN "check" ELSE "creat"]
           /\ Going /\ UNCHANGED <<ctx, old, app, behind>>
    BY DEF WritePermissions
  <1> HIDE DEF perm
  <1>8. ASSUME call' = [call EXCEPT !.perm = perm, !.pc = IF call.op = "backup" THEN "check" ELSE "creat"],
               Going, UNCHANGED <<ctx, old, app, behind>>
        PROVE  FileInv'
    <2>1. /\ IsCall(call') /\ call'.op = call.op /\ call'.name = call.name
          /\ call'.max = call.max /\ call'.i = call.i /\ call'.perm = perm
          /\ call'.access = call.access
          /\ call'.pc = IF call.op = "backup" THEN "check" ELSE "creat"
      BY <1>2, <1>8 DEF IsCall
    <2>2. Apart(call', ctx, behind) /\ Unused(call', disk', touched)
      BY <2>1 DEF Apart, Unused
    <2>3. /\ ctx' = ctx /\ old' = old /\ behind' = behind /\ touched' = touched /\ others' = others
      BY <1>8 DEF Going
    <2>4. (call.op = "save" /\ call'.pc # "check") \/ (call.op = "backup" /\ Numbered(call'))
      BY <1>2, <2>1 DEF Numbered
    <2>5. DiskOK(disk') /\ Current(ctx, disk', behind, call)
      BY <1>1, <1>3
    <2>6. Writing(call')
      BY <1>2, <1>6, <2>1 DEF Writing
    <2>7. call'.op = call.op /\ IsCall(call')
      BY <2>1
    <2> QED
      BY <1>2, <2>2, <2>3, <2>4, <2>5, <2>6, <2>7, WriteOn
  <1> QED
    BY <1>4, <1>7, <1>8

\* The name of a backup is looked for.
LEMMA CheckKeeps ==
    ASSUME FileInv, CheckNewFile
    PROVE  FileInv'
  <1>1. call.pc = "check" /\ disk' = disk
    BY DEF CheckNewFile
  <1>2. /\ call.op = "backup" /\ Writing(call) /\ Numbered(call) /\ IsCtx(ctx)
        /\ DOMAIN call = {"op", "pc", "name", "text", "bom", "flag", "access", "perm", "max",
                          "i", "conv", "seen"}
    BY <1>1, CallAt DEF FileInv
  <1>3. CASE Checked(call) # "EOK"
    BY <1>1, <1>3, RefusedKeeps DEF CheckNewFile
  <1>4. CASE Checked(call) = "EOK"
    <2>1. call' = [call EXCEPT !.pc = "creat"] /\ Going /\ UNCHANGED <<ctx, old, app, behind>>
      BY <1>4 DEF CheckNewFile
    <2>2. disk[call.name].ino = 0
      BY <1>4 DEF Checked, Exists
    <2>3. /\ IsCall(call') /\ call'.op = "backup" /\ call'.pc = "creat" /\ call'.name = call.name
          /\ call'.max = call.max /\ call'.i = call.i
          /\ call'.access = call.access /\ call'.perm = call.perm
      BY <1>2, <2>1 DEF IsCall
    <2>4. Current(ctx, disk, behind, call) /\ DiskOK(disk)
      BY DEF FileInv
    <2>5. Apart(call', ctx, behind)
      BY <1>2, <2>2, <2>3, <2>4 DEF Apart, Current
    <2>6. Unused(call', disk', touched)
      BY <1>1, <2>2, <2>3 DEF Unused
    <2>7. /\ ctx' = ctx /\ old' = old /\ behind' = behind /\ touched' = touched /\ others' = others
      BY <2>1 DEF Going
    <2>8. DiskOK(disk') /\ Current(ctx, disk', behind, call)
      BY <1>1, <2>4
    <2>9. call.op = "backup" /\ Writing(call') /\ Numbered(call') /\ IsCtx(ctx)
      BY <1>1, <1>2, <2>3 DEF Numbered, Writing
    <2>10. call'.op = call.op /\ IsCall(call')
      BY <1>2, <2>3
    <2> QED
      BY <2>5, <2>6, <2>7, <2>8, <2>9, <2>10, WriteOn
  <1> QED
    BY <1>3, <1>4

\* The file is created or emptied, and gets its mode and owner.
LEMMA CreateKeeps ==
    ASSUME FileInv, open_new_file
    PROVE  FileInv'
  <1> DEFINE n == call.name
             perm == call.perm
             f == Created(n, perm.mode)
             g == [f EXCEPT !.mode = perm.mode]
             h == [g EXCEPT !.uid = perm.uid, !.gid = perm.gid]
  <1>1. call.pc = "creat"
    BY DEF open_new_file
  <1>2. /\ call.op \in {"save", "backup"} /\ n \in AllNames /\ Writing(call) /\ IsCtx(ctx)
        /\ call.op = "backup" => Numbered(call)
        /\ DOMAIN call = {"op", "pc", "name", "text", "bom", "flag", "access", "perm", "max",
                          "i", "conv", "seen"}
    BY <1>1, CallAt DEF FileInv
  <1> DEFINE mode == perm.mode
  <1>11. mode \subseteq PERMS
    BY <1>1, <1>2 DEF Writing
  <1> HIDE DEF mode
  <1>3. IsFile(f)
    <2>1. IsFile(disk[n])
      BY <1>2 DEF FileInv, DiskOK
    <2>2. IsFile([disk[n] EXCEPT !.bytes = <<>>])
      BY <2>1, FileChanges
    <2>3. IsFile(NewFile(n, mode))
      BY <1>11, NewFileIs
    <2> QED
      BY <2>2, <2>3 DEF Created, mode
  <1> HIDE DEF f
  <1>4. IsFile(g)
    <2>1. IsFile([f EXCEPT !.mode = mode])
      BY <1>3, <1>11, FileChanges
    <2> QED
      BY <2>1 DEF mode
  <1>5. MayChown(g, perm) => IsFile(h)
    <2> DEFINE gid == perm.gid
    <2>1. MayChown(g, perm) => h = [g EXCEPT !.uid = 1, !.gid = gid] /\ gid \in Groups
      BY DEF MayChown, Me
    <2> HIDE DEF g, h, gid
    <2>2. gid \in Groups => IsFile([g EXCEPT !.uid = 1, !.gid = gid])
      BY <1>4, OwnerChanged
    <2> QED
      BY <2>1, <2>2
  <1> HIDE DEF g, h
  <1>6. ASSUME NEW e, IsFile(e), disk' = [disk EXCEPT ![n] = e]
        PROVE  DiskOK(disk') /\ Current(ctx, disk', behind, call)
    <2>1. disk' = Put(disk, n, e)
      BY <1>6 DEF Put
    <2>2. call.pc \in {"creat", "write"}
      BY <1>1
    <2> QED
      BY <1>6, <2>1, <2>2, Elsewhere
  <1>7. ASSUME NEW e, IsFile(e), disk' = [disk EXCEPT ![n] = e], Gone(call, "EPERM")
        PROVE  FileInv'
    <2>1. DiskOK(disk') /\ Current(ctx, disk', behind, call)
      BY <1>6, <1>7
    <2> QED
      BY <1>7, <2>1, GoneEnds
  <1>8. CASE Refused(call, "EACCES") /\ UNCHANGED disk
    BY <1>1, <1>8, RefusedKeeps
  <1>9. CASE /\ MayChown(g, perm) /\ disk' = [disk EXCEPT ![n] = h]
             /\ call' = [call EXCEPT !.pc = "write"] /\ Going /\ UNCHANGED <<ctx, old, app, behind>>
    <2>1. DiskOK(disk') /\ Current(ctx, disk', behind, call)
      BY <1>5, <1>6, <1>9
    <2>2. /\ IsCall(call') /\ call'.op = call.op /\ call'.pc = "write" /\ call'.name = n
          /\ call'.max = call.max /\ call'.i = call.i
          /\ call'.access = call.access /\ call'.perm = call.perm
      BY <1>2, <1>9 DEF IsCall
    <2>3. Apart(call', ctx, behind)
      BY <1>1, <2>2 DEF FileInv, Apart
    <2>4. Unused(call', disk', touched)
      BY <2>2 DEF Unused
    <2>5. /\ ctx' = ctx /\ old' = old /\ behind' = behind /\ touched' = touched /\ others' = others
      BY <1>9 DEF Going
    <2>6. (call.op = "save" /\ call'.pc # "check") \/ (call.op = "backup" /\ Numbered(call'))
      BY <1>2, <2>2 DEF Numbered
    <2>7. call'.op = call.op /\ IsCall(call') /\ Writing(call') /\ IsCtx(ctx)
      BY <1>1, <1>2, <2>2 DEF Writing
    <2> QED
      BY <2>1, <2>3, <2>4, <2>5, <2>6, <2>7, WriteOn
  <1>10. \/ Refused(call, "EACCES") /\ UNCHANGED disk
         \/ disk' = [disk EXCEPT ![n] = f] /\ Gone(call, "EPERM")
         \/ disk' = [disk EXCEPT ![n] = g] /\ Gone(call, "EPERM")
         \/ /\ MayChown(g, perm) /\ disk' = [disk EXCEPT ![n] = h]
            /\ call' = [call EXCEPT !.pc = "write"] /\ Going /\ UNCHANGED <<ctx, old, app, behind>>
    BY DEF open_new_file, f, g, h
  <1> QED
    BY <1>3, <1>4, <1>7, <1>8, <1>9, <1>10

\* The text is written; a save reads it again.
LEMMA WriteKeeps ==
    ASSUME FileInv, write_to_file
    PROVE  FileInv'
  <1> DEFINE n == call.name
  <1>1. call.pc = "write"
    BY DEF write_to_file
  <1>2. /\ call.op \in {"save", "backup"} /\ n \in AllNames
        /\ IsCtx(ctx)
        /\ DOMAIN call = {"op", "pc", "name", "text", "bom", "flag", "access", "perm", "max",
                          "i", "conv", "seen"}
    BY <1>1, CallAt DEF FileInv
  <1>3. Current(ctx, disk, behind, call) /\ DiskOK(disk)
    BY DEF FileInv
  <1>4. ASSUME NEW bytes, Rewritten(bytes)
        PROVE  DiskOK(disk') /\ Current(ctx, disk', behind, call)
    <2>1. PICK t \in Times(disk[n]) :
             disk' = [disk EXCEPT ![n] = Stamped(@, Over(@.bytes, bytes), t)]
      BY <1>4 DEF Rewritten
    <2> DEFINE e == Stamped(disk[n], Over(disk[n].bytes, bytes), t)
    <2>2. disk' = Put(disk, n, e)
      BY <2>1 DEF Put
    <2>3. IsFile(disk[n])
      BY <1>2, <1>3 DEF DiskOK
    <2>4. IsFile(e)
      BY <2>1, <2>3, FileChanges
    <2> HIDE DEF e
    <2>5. call.pc \in {"creat", "write"}
      BY <1>1
    <2> QED
      BY <2>2, <2>4, <2>5, Elsewhere
  <1>5. ASSUME NEW res, NEW bytes, Gone(call, res), UNCHANGED disk \/ Rewritten(bytes)
        PROVE  FileInv'
    <2>1. DiskOK(disk') /\ Current(ctx, disk', behind, call)
      BY <1>3, <1>4, <1>5
    <2> QED
      BY <1>5, <2>1, GoneEnds
  <1>6. ASSUME NEW bytes, Rewritten(bytes), call.op = "save", call' = [call EXCEPT !.pc = "fopen"],
               ctx' = [ctx EXCEPT !.data = <<>>], Going, UNCHANGED <<old, app, behind>>
        PROVE  FileInv'
    <2>1. DiskOK(disk')
      BY <1>4, <1>6
    <2>2. /\ IsCall(call') /\ call'.op = "save" /\ call'.pc = "fopen" /\ call'.name = n
      BY <1>2, <1>6 DEF IsCall
    <2>3. IsCtx(ctx')
      BY <1>2, <1>6 DEF IsCtx
    <2>4. CallOK(call', ctx')
      BY <1>2, <2>2, <2>3 DEF CallOK, Reading
    <2>5. /\ Current(ctx', disk', behind', call') /\ Fresh(call', disk', touched')
          /\ Apart(call', ctx', behind') /\ Unused(call', disk', touched')
      BY <2>2 DEF Current, Fresh, Apart, Unused
    <2>6. old' = old /\ behind' = behind /\ others' = others
      BY <1>6 DEF Going
    <2> QED
      BY <2>1, <2>3, <2>4, <2>5, <2>6 DEF FileInv
  <1>7. ASSUME NEW bytes, Rewritten(bytes), call.op # "save", Return(call, "EOK"),
               UNCHANGED <<ctx, old, app, behind>>
        PROVE  FileInv'
    <2>1. DiskOK(disk') /\ Current(ctx, disk', behind, call)
      BY <1>4, <1>7
    <2>2. call' = NoCall /\ others' = others /\ ctx' = ctx /\ old' = old /\ behind' = behind
      BY <1>7 DEF Return
    <2>3. Current(ctx', disk', behind', NoCall)
      BY <1>7, <2>1, <2>2 DEF Current
    <2> QED
      BY <2>1, <2>2, <2>3, Ended DEF FileInv
  <1>8. PICK w :
           \/ w.res # "EOK" /\ Gone(call, w.res) /\ UNCHANGED disk
           \/ /\ w.res = "EOK" /\ CanFail
              /\ Rewritten(SubSeq(w.out, 1, Len(w.out) \div 2)) /\ Gone(call, "ENOSPC")
           \/ /\ w.res = "EOK" /\ Rewritten(w.out)
              /\ IF call.op = "save"
                 THEN /\ call' = [call EXCEPT !.pc = "fopen"]
                      /\ ctx' = [ctx EXCEPT !.data = <<>>]
                      /\ Going /\ UNCHANGED <<old, app, behind>>
                 ELSE Return(call, "EOK") /\ UNCHANGED <<ctx, old, app, behind>>
    BY DEF write_to_file
  <1> QED
    BY <1>5, <1>6, <1>7, <1>8

-----------------------------------------------------------------------------
(* The calls of the application, and what other processes do *)

\* A call that reads, or a backup, begins and has changed nothing yet.
LEMMA BegunKeeps ==
    ASSUME FileInv, call.pc = "idle", disk' = disk, ctx' = ctx, old' = old, behind' = behind,
           others' = others, CallOK(call', ctx), call'.op # "save",
           call'.pc \in {"fopen", "perm"} \/ call'.op = "mem"
    PROVE  FileInv'
  <1>1. call.op = "none"
    BY IdleIs DEF FileInv
  <1>2. Current(ctx, disk, behind, call)
    BY DEF FileInv
  <1>3. Current(ctx', disk', behind', call')
    BY <1>1, <1>2 DEF Current
  <1>4. call'.op = "mem" => call'.pc = "convert"
    BY DEF CallOK, Reading, Writing
  <1>5. Fresh(call', disk', touched') /\ Apart(call', ctx', behind') /\ Unused(call', disk', touched')
    BY <1>4 DEF Fresh, Apart, Unused
  <1> QED
    BY <1>3, <1>5 DEF FileInv

\* A file, a buffer or the file of the object is opened, or a backup begins.
LEMMA BeginsKeep ==
    ASSUME FileInv,
           \/ \E n \in Opened, meta \in BOOLEAN : ini_config_file_open(n, meta)
           \/ \E bytes \in MemTexts : ini_config_file_from_mem(bytes)
           \/ ini_config_file_reopen
           \/ \E tpl \in Templates, a \in BackupAccesses, max \in 0..Len(Backups) :
                 ini_config_file_backup(tpl, a, max) /\ call'.pc # "idle"
    PROVE  FileInv'
  <1> SUFFICES /\ call.pc = "idle" /\ disk' = disk /\ ctx' = ctx /\ old' = old /\ behind' = behind
               /\ others' = others /\ CallOK(call', ctx) /\ call'.op # "save"
               /\ (call'.pc \in {"fopen", "perm"} \/ call'.op = "mem")
    BY BegunKeeps
  <1>1. CASE \E n \in Opened, meta \in BOOLEAN : ini_config_file_open(n, meta)
    <2>1. PICK n \in Opened, meta \in BOOLEAN : ini_config_file_open(n, meta)
      BY <1>1
    <2>2. /\ call.pc = "idle" /\ disk' = disk /\ ctx' = ctx /\ old' = old /\ behind' = behind
          /\ others' = others /\ call' = [NewCall("open", "fopen", n) EXCEPT !.flag = meta]
      BY <2>1 DEF ini_config_file_open, Idle, Begin
    <2>3. IsCall(call') /\ call'.op = "open" /\ call'.pc = "fopen" /\ call'.name = n
      BY <2>2 DEF NewCall, IsCall
    <2>4. n \in AllNames
      BY <2>1, FileAssumption DEF AllNames
    <2> QED
      BY <2>2, <2>3, <2>4 DEF CallOK, Reading
  <1>2. CASE \E bytes \in MemTexts : ini_config_file_from_mem(bytes)
    <2>1. PICK bytes \in MemTexts : ini_config_file_from_mem(bytes)
      BY <1>2
    <2> DEFINE b == IF bytes = <<>> THEN <<0>> ELSE bytes
    <2>2. /\ call.pc = "idle" /\ disk' = disk /\ ctx' = ctx /\ old' = old /\ behind' = behind
          /\ others' = others
          /\ call' = [NewCall("mem", "convert", EMPTYNAME) EXCEPT !.conv = StartConv(Len(b)), !.seen = b]
      BY <2>1 DEF ini_config_file_from_mem, Idle, Begin
    <2> HIDE DEF b
    <2>3. /\ IsCall(call') /\ call'.op = "mem" /\ call'.pc = "convert" /\ call'.name = EMPTYNAME
          /\ call'.flag = FALSE
      BY <2>2 DEF NewCall, IsCall
    <2> QED
      BY <2>2, <2>3 DEF CallOK
  <1>3. CASE ini_config_file_reopen
    <2>1. /\ call.pc = "idle" /\ disk' = disk /\ ctx' = ctx /\ old' = old /\ behind' = behind
          /\ others' = others /\ ctx # NULL /\ ctx.name # EMPTYNAME
          /\ call' = [NewCall("reopen", "fopen", ctx.name) EXCEPT !.flag = ctx.meta, !.bom = ctx.bom]
      BY <1>3 DEF ini_config_file_reopen, Idle, Begin
    <2>2. IsCall(call') /\ call'.op = "reopen" /\ call'.pc = "fopen" /\ call'.name = ctx.name
      BY <2>1 DEF NewCall, IsCall
    <2>3. IsCtx(ctx) /\ ctx.name \in AllNames
      BY <2>1 DEF FileInv, IsCtx
    <2> QED
      BY <2>1, <2>2, <2>3 DEF CallOK, Reading
  <1>4. CASE \E tpl \in Templates, a \in BackupAccesses, max \in 0..Len(Backups) :
                ini_config_file_backup(tpl, a, max) /\ call'.pc # "idle"
    <2>1. PICK tpl \in Templates, a \in BackupAccesses, max \in 0..Len(Backups) :
             ini_config_file_backup(tpl, a, max) /\ call'.pc # "idle"
      BY <1>4
    <2>2. /\ call.pc = "idle" /\ disk' = disk /\ ctx' = ctx /\ old' = old /\ behind' = behind
      BY <2>1 DEF ini_config_file_backup, Idle
    <2>3. /\ max # 0 /\ others' = others
          /\ call' = [NewCall("backup", "perm", create_file_name(1)) EXCEPT
                         !.access = a, !.max = max, !.i = 1]
      BY <2>1, <2>2 DEF ini_config_file_backup, Once, Begin
    <2>4. /\ IsCall(call') /\ call'.op = "backup" /\ call'.pc = "perm"
          /\ call'.name = create_file_name(1) /\ call'.max = max /\ call'.i = 1 /\ call'.access = a
      BY <2>3 DEF NewCall, IsCall
    <2>5. Len(Backups) \in Nat /\ DOMAIN Backups = 1..Len(Backups)
      BY FileAssumption, LenProperties
    <2>6. 1 \in 1..Len(Backups)
      BY <2>1, <2>3, <2>5
    <2>7. create_file_name(1) \in AllNames
      BY <2>5, <2>6 DEF create_file_name, AllNames, ToSet
    <2>8. Numbered(call')
      BY <2>1, <2>4, <2>6 DEF Numbered
    <2>9. IsAccess(a) /\ IsCtx(ctx)
      BY <2>1, FileAssumption DEF ini_config_file_backup, FileInv, IsAccess
    <2> QED
      BY <2>2, <2>3, <2>4, <2>7, <2>8, <2>9 DEF CallOK, Writing
  <1> QED
    BY <1>1, <1>2, <1>3, <1>4

\* A save begins: the object gets the new name and text.
LEMMA SaveKeeps ==
    ASSUME FileInv, NEW n, n = NULL \/ n \in Names, NEW access \in Accesses, NEW text,
           ini_config_save_as(n, access, text), call'.pc # "idle"
    PROVE  FileInv'
  <1> DEFINE name == IF n = NULL THEN ctx.name ELSE n
             r == (behind \/ n # NULL)
  <1>1. /\ call.pc = "idle" /\ ctx # NULL /\ disk' = disk /\ old' = old
    BY DEF ini_config_save_as, Idle
  <1>2. /\ ctx.name # EMPTYNAME /\ others' = others /\ behind' = r
        /\ call' = [NewCall("save", "perm", name) EXCEPT
                       !.access = access, !.flag = ctx.meta, !.bom = ctx.bom, !.text = text]
        /\ ctx' = [ctx EXCEPT !.name = name, !.data = text, !.file = NULL]
    BY <1>1 DEF ini_config_save_as, Once, Begin
  <1>3. IsCtx(ctx) /\ ctx.name \in AllNames
    BY <1>1, <1>2 DEF FileInv, IsCtx
  <1>4. name \in AllNames
    BY <1>3 DEF AllNames
  <1> HIDE DEF name
  <1>5. /\ IsCall(call') /\ call'.op = "save" /\ call'.pc = "perm" /\ call'.name = name
        /\ call'.access = access
    BY <1>2 DEF NewCall, IsCall
  <1>6. /\ DOMAIN ctx' = {"name", "meta", "data", "bom", "stats", "file"}
        /\ ctx'.name = name /\ ctx'.stats = ctx.stats
    BY <1>2, <1>3 DEF IsCtx
  <1>7. IsCtx(ctx')
    BY <1>3, <1>4, <1>6 DEF IsCtx
  <1>8. CallOK(call', ctx')
    <2>1. IsAccess(access)
      BY FileAssumption DEF IsAccess
    <2> QED
      BY <1>4, <1>5, <1>7, <2>1 DEF CallOK, Writing
  <1>9. behind' \in BOOLEAN
    <2>1. behind \in BOOLEAN
      BY DEF FileInv
    <2> QED
      BY <1>2, <2>1
  <1>10. /\ Current(ctx', disk', behind', call') /\ Fresh(call', disk', touched')
         /\ Apart(call', ctx', behind') /\ Unused(call', disk', touched')
    BY <1>5 DEF Current, Fresh, Apart, Unused
  <1> QED
    BY <1>1, <1>2, <1>7, <1>8, <1>9, <1>10 DEF FileInv

\* A call that is done at once.
LEMMA OnceKeeps ==
    ASSUME FileInv, call.pc = "idle", call' = call, others' = others,
           DiskOK(disk'), behind' \in BOOLEAN, ctx' # NULL => IsCtx(ctx'), old' # NULL => IsStat(old'),
           Current(ctx', disk', behind', NoCall)
    PROVE  FileInv'
  <1>1. call.op = "none" /\ IsCall(call)
    BY IdleIs DEF FileInv
  <1>2. CallOK(call', ctx')
    BY <1>1 DEF CallOK
  <1>3. NoCall.op = "none"
    BY NoCallIs
  <1>4. Current(ctx', disk', behind', call')
    BY <1>1, <1>3 DEF Current
  <1>5. Fresh(call', disk', touched') /\ Apart(call', ctx', behind') /\ Unused(call', disk', touched')
    BY <1>1 DEF Fresh, Apart, Unused
  <1> QED
    BY <1>2, <1>4, <1>5 DEF FileInv

\* The object and the files stay as they are.
LEMMA NothingChanged ==
    ASSUME FileInv, call.pc = "idle", call' = call, others' = others,
           disk' = disk, ctx' = ctx, old' = old, behind' = behind
    PROVE  FileInv'
  <1>1. call.op = "none"
    BY IdleIs DEF FileInv
  <1>2. Current(ctx, disk, behind, call)
    BY DEF FileInv
  <1>3. Current(ctx', disk', behind', NoCall)
    BY <1>1, <1>2 DEF Current
  <1> QED
    BY <1>3, OnceKeeps DEF FileInv

\* A change of the object that is not to its name or its stats.
LEMMA ObjectChanged ==
    ASSUME FileInv, call.pc = "idle", call' = call, others' = others, ctx # NULL,
           disk' = disk, old' = old, behind' = behind, NEW v,
           ctx' = [ctx EXCEPT !.file = v] \/ ctx' = [ctx EXCEPT !.bom = v]
    PROVE  FileInv'
  <1>1. call.op = "none"
    BY IdleIs DEF FileInv
  <1>2. Current(ctx, disk, behind, call) /\ IsCtx(ctx)
    BY DEF FileInv
  <1>3. /\ DOMAIN ctx' = {"name", "meta", "data", "bom", "stats", "file"}
        /\ ctx'.name = ctx.name /\ ctx'.stats = ctx.stats
    BY <1>2 DEF IsCtx
  <1>4. IsCtx(ctx')
    BY <1>2, <1>3 DEF IsCtx
  <1>5. Current(ctx', disk', behind', NoCall)
    BY <1>1, <1>2, <1>3 DEF Current
  <1> QED
    BY <1>4, <1>5, OnceKeeps DEF FileInv

\* The access of the file is changed, or half of it.
LEMMA ChangeAccessKeeps ==
    ASSUME FileInv, NEW access \in Accesses, ini_config_change_access(access)
    PROVE  FileInv'
  <1> DEFINE n == ctx.name
             perm == determine_permissions(ctx, access)
             f == disk[n]
             g == [f EXCEPT !.mode = perm.mode]
             h == [g EXCEPT !.uid = perm.uid, !.gid = perm.gid]
  <1>1. call.pc = "idle" /\ ctx # NULL /\ old' = old
    BY DEF ini_config_change_access, Idle
  <1>2. ASSUME NEW res, Once("change_access", res) PROVE call' = call /\ others' = others
    BY <1>2 DEF Once
  <1>3. ASSUME NEW res, Once("change_access", res), UNCHANGED <<disk, ctx, behind>> PROVE FileInv'
    BY <1>1, <1>2, <1>3, NothingChanged
  <1>4. ASSUME n # EMPTYNAME, Exists(n), Rechmod(perm) PROVE FileInv'
    <2>1. IsCtx(ctx) /\ n \in AllNames
      BY <1>1, <1>4 DEF FileInv, IsCtx
    <2>2. DiskOK(disk) /\ IsFile(f) /\ f.ino # 0
      BY <1>4, <2>1 DEF FileInv, DiskOK, Exists
    <2>8. perm.mode \subseteq PERMS
      <3>1. IsAccess(access)
        BY FileAssumption DEF IsAccess
      <3> QED
        BY <2>1, <2>2, <3>1, PermissionBits
    <2> HIDE DEF perm
    <2>3. IsFile(g) /\ g.ino = f.ino
      <3> DEFINE mode == perm.mode
      <3>1. mode \in SUBSET PERMS
        BY <2>8
      <3> HIDE DEF mode
      <3>2. IsFile([f EXCEPT !.mode = mode]) /\ [f EXCEPT !.mode = mode].ino = f.ino
        BY <2>2, <3>1, FileChanges
      <3> QED
        BY <3>2 DEF mode
    <2>4. MayChown(g, perm) => IsFile(h) /\ h.ino = f.ino
      <3> DEFINE gid == perm.gid
      <3>1. MayChown(g, perm) => h = [g EXCEPT !.uid = 1, !.gid = gid] /\ gid \in Groups
        BY DEF MayChown, Me
      <3> HIDE DEF g, h, gid
      <3>2. gid \in Groups => /\ IsFile([g EXCEPT !.uid = 1, !.gid = gid])
                              /\ [g EXCEPT !.uid = 1, !.gid = gid].ino = g.ino
        BY <2>3, OwnerChanged
      <3> QED
        BY <2>3, <3>1, <3>2
    <2>5. \/ Once("change_access", "EPERM") /\ UNCHANGED <<disk, ctx, behind>>
          \/ /\ disk' = [disk EXCEPT ![n] = g] /\ Once("change_access", "EPERM")
             /\ behind' = TRUE /\ UNCHANGED ctx
          \/ /\ MayChown(g, perm)
             /\ disk' = [disk EXCEPT ![n] = h] /\ Once("change_access", "EOK")
             /\ ctx' = [ctx EXCEPT !.stats = IF ctx.meta THEN Stat(h) ELSE NULL]
             /\ behind' = FALSE
      BY <1>4 DEF Rechmod
    <2> HIDE DEF g, h
    <2>6. CASE /\ disk' = [disk EXCEPT ![n] = g] /\ Once("change_access", "EPERM")
               /\ behind' = TRUE /\ UNCHANGED ctx
      <3>1. disk' = Put(disk, n, g)
        BY <2>6 DEF Put
      <3>2. DiskOK(disk')
        BY <2>1, <2>2, <2>3, <3>1, DiskSet
      <3>3. Current(ctx', disk', behind', NoCall) /\ behind' \in BOOLEAN
        BY <2>6 DEF Current
      <3>4. call' = call /\ others' = others /\ ctx' = ctx
        BY <1>2, <2>6
      <3> QED
        BY <1>1, <2>1, <3>2, <3>3, <3>4, OnceKeeps DEF FileInv
    <2>7. CASE /\ MayChown(g, perm)
               /\ disk' = [disk EXCEPT ![n] = h] /\ Once("change_access", "EOK")
               /\ ctx' = [ctx EXCEPT !.stats = IF ctx.meta THEN Stat(h) ELSE NULL]
               /\ behind' = FALSE
      <3>1. disk' = Put(disk, n, h)
        BY <2>7 DEF Put
      <3>2. IsFile(h) /\ h.ino # 0 /\ IsStat(Stat(h))
        BY <2>2, <2>4, <2>7, StatIs
      <3>3. DiskOK(disk') /\ disk'[n] = h
        BY <2>1, <2>2, <3>1, <3>2, DiskSet
      <3> DEFINE s == IF ctx.meta THEN Stat(h) ELSE NULL
      <3>4. s = Stat(h) \/ s = NULL
        OBVIOUS
      <3>5. ctx' = [ctx EXCEPT !.stats = s]
        BY <2>7
      <3> HIDE DEF s
      <3>6. /\ DOMAIN ctx' = {"name", "meta", "data", "bom", "stats", "file"}
            /\ ctx'.name = n /\ ctx'.stats = s
        BY <2>1, <3>5 DEF IsCtx
      <3>7. IsCtx(ctx')
        BY <2>1, <3>2, <3>4, <3>6 DEF IsCtx
      <3>8. Current(ctx', disk', behind', NoCall) /\ behind' \in BOOLEAN
        BY <2>7, <3>2, <3>3, <3>4, <3>6 DEF Current
      <3>9. call' = call /\ others' = others
        BY <1>2, <2>7
      <3> QED
        BY <1>1, <3>3, <3>7, <3>8, <3>9, OnceKeeps DEF FileInv
    <2> QED
      BY <1>3, <2>5, <2>6, <2>7
  <1>5. \/ \E res : Once("change_access", res) /\ UNCHANGED <<disk, ctx, behind>>
        \/ n # EMPTYNAME /\ Exists(n) /\ Rechmod(perm)
    BY DEF ini_config_change_access
  <1> QED
    BY <1>3, <1>4, <1>5

\* Another process changes a file.
LEMMA OtherKeeps ==
    ASSUME FileInv, NEW n \in AllNames, NEW f, IsFile(f), Other(n, f)
    PROVE  FileInv'
  <1> DEFINE p == (ctx # NULL /\ n = ctx.name) \/ (call.pc # "idle" /\ n = call.name)
  <1>1. /\ others' = others + 1 /\ disk' = [disk EXCEPT ![n] = f] /\ touched' = touched \cup {n}
        /\ ctx' = ctx /\ old' = old /\ call' = call
        /\ behind' = (behind \/ p)
    BY DEF Other
  <1>2. disk' = Put(disk, n, f)
    BY <1>1 DEF Put
  <1>3. DiskOK(disk') /\ \A m \in AllNames : m # n => disk'[m] = disk[m]
    BY <1>2, DiskSet DEF FileInv
  <1>4. p \in BOOLEAN /\ behind \in BOOLEAN
    BY DEF FileInv
  <1>5. behind' \in BOOLEAN /\ (behind' = FALSE => behind = FALSE /\ ~p)
    BY <1>1, <1>4, Raised
  <1>6. CallOK(call', ctx')
    BY <1>1 DEF FileInv
  <1>7. Current(ctx', disk', behind', call')
    <2>1. ASSUME ctx # NULL, ctx.stats # NULL, behind' = FALSE, call.op # "save"
          PROVE  disk'[ctx.name].ino # 0 /\ ctx.stats = Stat(disk'[ctx.name])
      <3>1. n # ctx.name /\ behind = FALSE
        BY <1>5, <2>1
      <3>2. ctx.name \in AllNames
        BY <2>1 DEF FileInv, IsCtx
      <3>3. disk'[ctx.name] = disk[ctx.name]
        BY <1>3, <3>1, <3>2
      <3> QED
        BY <2>1, <3>1, <3>3 DEF FileInv, Current
    <2> QED
      BY <1>1, <2>1 DEF Current
  <1>8. (call.pc = "convert" /\ call.op # "mem") \/ call.pc = "creat" => call.name \in AllNames
    BY CallAt DEF FileInv
  <1>9. Fresh(call', disk', touched')
    <2>1. ASSUME call.pc = "convert", call.op # "mem", call.name \notin touched'
          PROVE  disk'[call.name].ino # 0 /\ call.perm = Stat(disk'[call.name])
      <3>1. call.name # n /\ call.name \notin touched
        BY <1>1, <2>1
      <3>2. disk'[call.name] = disk[call.name]
        BY <1>3, <1>8, <2>1, <3>1
      <3> QED
        BY <2>1, <3>1, <3>2 DEF FileInv, Fresh
    <2> QED
      BY <1>1, <2>1 DEF Fresh
  <1>10. Apart(call', ctx', behind')
    BY <1>1, <1>5 DEF FileInv, Apart
  <1>11. Unused(call', disk', touched')
    <2>1. ASSUME call.op = "backup", call.pc = "creat", call.name \notin touched'
          PROVE  disk'[call.name].ino = 0
      <3>1. call.name # n /\ call.name \notin touched
        BY <1>1, <2>1
      <3>2. disk'[call.name] = disk[call.name]
        BY <1>3, <1>8, <2>1, <3>1
      <3> QED
        BY <2>1, <3>1, <3>2 DEF FileInv, Unused
    <2> QED
      BY <1>1, <2>1 DEF Unused
  <1>12. others' \in Nat
    BY <1>1 DEF FileInv
  <1> QED
    BY <1>1, <1>3, <1>5, <1>6, <1>7, <1>9, <1>10, <1>11, <1>12 DEF FileInv

-----------------------------------------------------------------------------
(* The invariant holds *)

\* The files at first, and no object.
LEMMA FileInvInit ==
    ASSUME Init
    PROVE  FileInv
  <1>1. PICK first \in InitFiles :
           disk = [n \in AllNames |-> IF n \notin Taken THEN NoFile
                     ELSE [NewFile(n, {"r", "w"}) EXCEPT
                              !.bytes = IF n \in Opened THEN first ELSE <<97>>,
                              !.mtime = IF n \in Opened THEN InitTime ELSE 0,
                              !.uid = IF n \in Foreign THEN Me + 1 ELSE Me]]
    BY DEF Init
  <1>2. ASSUME NEW n \in AllNames PROVE IsFile(disk[n])
    <2>1. CASE n \notin Taken
      <3>1. disk[n] = NoFile
        BY <1>1, <2>1
      <3> QED
        BY <3>1, NewFileIs
    <2>2. CASE n \in Taken
      <3> DEFINE bytes == IF n \in Opened THEN first ELSE <<97>>
                 mtime == IF n \in Opened THEN InitTime ELSE 0
                 uid == IF n \in Foreign THEN Me + 1 ELSE Me
      <3>1. disk[n] = [NewFile(n, {"r", "w"}) EXCEPT !.bytes = bytes, !.mtime = mtime, !.uid = uid]
        BY <1>1, <2>2
      <3>2. mtime \in -1..14 /\ uid \in {1, 2}
        BY FileAssumption DEF ULONG, Me
      <3> HIDE DEF bytes, mtime, uid
      <3>3. /\ DOMAIN disk[n] = {"bytes", "mode", "uid", "gid", "mtime", "dev", "ino"}
            /\ disk[n].uid = uid /\ disk[n].mtime = mtime /\ disk[n].gid = 1 /\ disk[n].dev = 1
            /\ disk[n].ino = 1 /\ disk[n].mode = {"r", "w"}
        BY <3>1 DEF NewFile, Me, Home
      <3> QED
        BY <3>2, <3>3 DEF IsFile, PERMS, Groups
    <2> QED
      BY <2>1, <2>2
  <1>3. DiskOK(disk)
    BY <1>1, <1>2 DEF DiskOK
  <1>4. ctx = NULL /\ old = NULL /\ call = NoCall /\ behind = FALSE /\ others = 0
    BY DEF Init
  <1>5. CallOK(call, ctx) /\ Fresh(call, disk, touched) /\ Apart(call, ctx, behind) /\ Unused(call, disk, touched)
    BY <1>4, NoCallIs
  <1>6. Current(ctx, disk, behind, call)
    BY <1>4 DEF Current
  <1> QED
    BY <1>3, <1>4, <1>5, <1>6 DEF FileInv

\* Another process writes, replaces, makes or changes a file.
LEMMA OthersKeep ==
    ASSUME FileInv,
           \/ \E n \in AllNames : \E bytes : OtherWrites(n, bytes) \/ OtherCreates(n, bytes)
           \/ \E n \in AllNames, dev \in Devices : OtherReplaces(n, dev)
           \/ \E n \in AllNames, mode \in Modes : OtherChanges(n, mode)
    PROVE  FileInv'
  <1> SUFFICES \E n \in AllNames : \E f : IsFile(f) /\ Other(n, f)
    BY OtherKeeps
  <1>1. ASSUME NEW n \in AllNames PROVE IsFile(disk[n])
    BY DEF FileInv, DiskOK
  <1>2. ASSUME NEW n \in AllNames, NEW bytes, OtherWrites(n, bytes)
        PROVE  \E f : IsFile(f) /\ Other(n, f)
    <2>1. PICK t \in Times(disk[n]) : Other(n, Stamped(disk[n], bytes, t))
      BY <1>2 DEF OtherWrites
    <2>2. {} \in SUBSET PERMS
      OBVIOUS
    <2>3. IsFile(Stamped(disk[n], bytes, t))
      BY <1>1, <2>1, <2>2, FileChanges
    <2> QED
      BY <2>1, <2>3
  <1>3. ASSUME NEW n \in AllNames, NEW dev \in Devices, OtherReplaces(n, dev)
        PROVE  \E f : IsFile(f) /\ Other(n, f)
    <2> DEFINE ino == IF dev = Home THEN 2 ELSE 1
    <2>1. Other(n, [disk[n] EXCEPT !.dev = dev, !.ino = ino])
      BY <1>3 DEF OtherReplaces
    <2>2. dev \in Nat /\ ino \in {1, 2}
      BY FileAssumption
    <2> HIDE DEF ino
    <2>3. IsFile(disk[n])
      BY <1>1
    <2>4. IsFile([disk[n] EXCEPT !.dev = dev, !.ino = ino])
      BY <2>2, <2>3 DEF IsFile
    <2> QED
      BY <2>1, <2>4
  <1>4. ASSUME NEW n \in AllNames, NEW bytes, OtherCreates(n, bytes)
        PROVE  \E f : IsFile(f) /\ Other(n, f)
    <2> DEFINE f == NewFile(n, {"r"})
    <2>1. Other(n, [f EXCEPT !.bytes = bytes])
      BY <1>4 DEF OtherCreates
    <2>2. {"r"} \in SUBSET PERMS
      BY DEF PERMS
    <2>3. IsFile(f)
      BY <2>2, NewFileIs
    <2> HIDE DEF f
    <2>4. IsFile([f EXCEPT !.bytes = bytes])
      BY <2>2, <2>3, FileChanges
    <2> QED
      BY <2>1, <2>4
  <1>5. ASSUME NEW n \in AllNames, NEW mode \in Modes, OtherChanges(n, mode)
        PROVE  \E f : IsFile(f) /\ Other(n, f)
    <2>1. Other(n, [disk[n] EXCEPT !.mode = mode])
      BY <1>5 DEF OtherChanges
    <2>2. mode \in SUBSET PERMS
      BY FileAssumption
    <2>3. IsFile([disk[n] EXCEPT !.mode = mode])
      BY <1>1, <2>2, FileChanges
    <2> QED
      BY <2>1, <2>3
  <1> QED
    BY <1>2, <1>3, <1>4, <1>5

\* The object is closed, freed, or gets another encoding, or nothing changes.
LEMMA AtOnceKeeps ==
    ASSUME FileInv,
           \/ ini_config_file_close \/ ini_config_file_destroy \/ AppOpens
           \/ \E b \in NewBoms : ini_config_set_bom(b)
    PROVE  FileInv'
  <1>1. CASE ini_config_file_close
    <2>1. /\ call.pc = "idle" /\ call' = call /\ others' = others /\ ctx # NULL /\ disk' = disk
          /\ old' = old /\ behind' = behind /\ ctx' = [ctx EXCEPT !.file = NULL]
      BY <1>1 DEF ini_config_file_close, Idle, Once
    <2> QED
      BY <2>1, ObjectChanged
  <1>2. CASE ini_config_file_destroy
    <2>1. /\ call.pc = "idle" /\ call' = call /\ others' = others /\ ctx' = NULL /\ old' = NULL
          /\ disk' = disk /\ behind' = behind
      BY <1>2 DEF ini_config_file_destroy, Idle, Once
    <2>2. Current(ctx', disk', behind', NoCall) /\ DiskOK(disk') /\ behind' \in BOOLEAN
      BY <2>1 DEF Current, FileInv
    <2> QED
      BY <2>1, <2>2, OnceKeeps
  <1>3. CASE AppOpens
    <2>1. /\ call.pc = "idle" /\ call' = call /\ others' = others /\ disk' = disk /\ ctx' = ctx
          /\ old' = old /\ behind' = behind
      BY <1>3 DEF AppOpens
    <2> QED
      BY <2>1, NothingChanged
  <1>4. CASE \E b \in NewBoms : ini_config_set_bom(b)
    <2>1. PICK b \in NewBoms : ini_config_set_bom(b)
      BY <1>4
    <2>2. /\ call.pc = "idle" /\ call' = call /\ others' = others /\ ctx # NULL /\ disk' = disk
          /\ old' = old /\ behind' = behind /\ ctx' = [ctx EXCEPT !.bom = b]
      BY <2>1 DEF ini_config_set_bom, Idle, Once
    <2> QED
      BY <2>2, ObjectChanged
  <1> QED
    BY <1>1, <1>2, <1>3, <1>4

\* A save or a backup that is refused before it begins changes nothing.
LEMMA RefusedAtOnce ==
    ASSUME FileInv, call'.pc = "idle",
           \/ \E n, access, text : ini_config_save_as(n, access, text)
           \/ \E tpl, access, max : ini_config_file_backup(tpl, access, max)
    PROVE  FileInv'
  <1> SUFFICES /\ call.pc = "idle" /\ call' = call /\ others' = others /\ disk' = disk /\ ctx' = ctx
               /\ old' = old /\ behind' = behind
    BY NothingChanged
  <1>1. ASSUME NEW n, NEW access, NEW text, ini_config_save_as(n, access, text)
        PROVE  /\ call.pc = "idle" /\ call' = call /\ others' = others /\ disk' = disk /\ ctx' = ctx
               /\ old' = old /\ behind' = behind
    <2> DEFINE name == IF n = NULL THEN ctx.name ELSE n
    <2>1. call.pc = "idle" /\ disk' = disk /\ old' = old
      BY <1>1 DEF ini_config_save_as, Idle
    <2>2. \/ call' = call /\ others' = others /\ ctx' = ctx /\ behind' = behind
          \/ call' = [NewCall("save", "perm", name) EXCEPT
                         !.access = access, !.flag = ctx.meta, !.bom = ctx.bom, !.text = text]
      BY <1>1 DEF ini_config_save_as, Once, Begin
    <2> HIDE DEF name
    <2>3. [NewCall("save", "perm", name) EXCEPT
              !.access = access, !.flag = ctx.meta, !.bom = ctx.bom, !.text = text].pc = "perm"
      BY DEF NewCall
    <2> QED
      BY <2>1, <2>2, <2>3
  <1>2. ASSUME NEW tpl, NEW access, NEW max, ini_config_file_backup(tpl, access, max)
        PROVE  /\ call.pc = "idle" /\ call' = call /\ others' = others /\ disk' = disk /\ ctx' = ctx
               /\ old' = old /\ behind' = behind
    <2> DEFINE name == create_file_name(1)
    <2>1. call.pc = "idle" /\ disk' = disk /\ old' = old /\ ctx' = ctx /\ behind' = behind
      BY <1>2 DEF ini_config_file_backup, Idle
    <2>2. \/ call' = call /\ others' = others
          \/ call' = [NewCall("backup", "perm", name) EXCEPT !.access = access, !.max = max, !.i = 1]
      BY <1>2 DEF ini_config_file_backup, Once, Begin
    <2> HIDE DEF name
    <2>3. [NewCall("backup", "perm", name) EXCEPT !.access = access, !.max = max, !.i = 1].pc = "perm"
      BY DEF NewCall
    <2> QED
      BY <2>1, <2>2, <2>3
  <1> QED
    BY <1>1, <1>2

\* Every step keeps the invariant.
LEMMA FileInvStep ==
    ASSUME FileInv, [Next]_vars
    PROVE  FileInv'
  <1>1. CASE Step
    BY <1>1, FopenKeeps, ConvertKeeps, ReadFailsKeeps, PermissionsKeep, CheckKeeps, CreateKeeps, WriteKeeps DEF Step
  <1>2. CASE \E n \in Opened, meta \in BOOLEAN : ini_config_file_open(n, meta)
    BY <1>2, BeginsKeep
  <1>3. CASE (\E bytes \in MemTexts : ini_config_file_from_mem(bytes)) \/ ini_config_file_reopen
    BY <1>3, BeginsKeep
  <1>4. CASE \E a \in Accesses, text \in Configs : ini_config_save(a, text)
    <2>1. PICK a \in Accesses, text \in Configs : ini_config_save_as(NULL, a, text)
      BY <1>4 DEF ini_config_save
    <2> QED
      BY <2>1, SaveKeeps, RefusedAtOnce
  <1>5. CASE \E n \in Names \ Opened, a \in Accesses, text \in Configs : ini_config_save_as(n, a, text)
    BY <1>5, SaveKeeps, RefusedAtOnce
  <1>6. CASE \E tpl \in Templates, a \in BackupAccesses, max \in 0..Len(Backups) :
                ini_config_file_backup(tpl, a, max)
    BY <1>6, BeginsKeep, RefusedAtOnce
  <1>7. CASE \E a \in Accesses : ini_config_change_access(a)
    BY <1>7, ChangeAccessKeeps
  <1>8. CASE \/ ini_config_file_close \/ ini_config_file_destroy \/ AppOpens
             \/ \E b \in NewBoms : ini_config_set_bom(b)
    BY <1>8, AtOnceKeeps
  <1>9. CASE \/ \E n \in Names : OtherWrites(n, <<>>) \/ OtherWrites(n, <<97, 97>>)
             \/ \E n \in Names, dev \in Devices : OtherReplaces(n, dev)
             \/ \E n \in ToSet(Backups) : OtherCreates(n, <<97>>)
             \/ \E n \in AllNames, mode \in Modes : OtherChanges(n, mode)
    <2>1. Names \subseteq AllNames /\ ToSet(Backups) \subseteq AllNames
      BY DEF AllNames
    <2> QED
      BY <1>9, <2>1, OthersKeep
  <1>10. CASE UNCHANGED vars
    BY <1>10 DEF vars, FileInv
  <1> QED
    BY <1>1, <1>2, <1>3, <1>4, <1>5, <1>6, <1>7, <1>8, <1>9, <1>10 DEF Next

-----------------------------------------------------------------------------
(* The theorems *)

\* The parts of the invariant hold in every state.
THEOREM FileInvariant == Spec => []FileInv
  <1>1. Init => FileInv
    BY FileInvInit
  <1>2. FileInv /\ [Next]_vars => FileInv'
    BY FileInvStep
  <1> QED
    BY <1>1, <1>2, PTL DEF Spec

\* The stats in a state where the invariant holds.
LEMMA StatsAre ==
    ASSUME FileInv, call.pc = "idle", ctx # NULL, ctx.stats # NULL, ~behind
    PROVE  ctx.stats = Stat(disk[ctx.name]) /\ IsStat(ctx.stats) /\ ctx.name \in AllNames
  <1>1. call.op = "none"
    BY IdleIs DEF FileInv
  <1>2. behind = FALSE
    BY DEF FileInv
  <1>3. Current(ctx, disk, behind, call) /\ IsCtx(ctx)
    BY DEF FileInv
  <1> QED
    BY <1>1, <1>2, <1>3 DEF Current, IsCtx

\* The stats of an object are those of its file, unless another process
\* changed the file or a call on it failed half way: whatever order the calls
\* come in, ini_config_access_check answers for the file as it is.
THEOREM StatsCorrect == Spec => []StatsCurrent
  <1>1. ASSUME FileInv PROVE StatsCurrent
    BY <1>1, StatsAre DEF StatsCurrent, ini_config_get_stat, ini_config_get_filename
  <1> QED
    BY <1>1, FileInvariant, PTL

\* Which steps change a file: creating and writing one during a call, a call
\* that is done at once, and other processes.
LEMMA Writers ==
    ASSUME Next
    PROVE  \/ disk' = disk \/ open_new_file \/ write_to_file \/ call.pc = "idle"
           \/ others < MaxOthers /\ others' = others + 1
  <1>1. Step => disk' = disk \/ open_new_file \/ write_to_file
    BY DEF Step, fopen, common_file_convert, ReadFails, WritePermissions, CheckNewFile
  <1>2. ASSUME NEW n, NEW f, Other(n, f) PROVE others < MaxOthers /\ others' = others + 1
    BY <1>2 DEF Other
  <1>3. ASSUME \/ \E n \in Opened, meta \in BOOLEAN : ini_config_file_open(n, meta)
               \/ \E bytes \in MemTexts : ini_config_file_from_mem(bytes)
               \/ ini_config_file_reopen \/ ini_config_file_close \/ ini_config_file_destroy
               \/ \E a \in Accesses, text \in Configs : ini_config_save(a, text)
               \/ \E n \in Names \ Opened, a \in Accesses, text \in Configs : ini_config_save_as(n, a, text)
               \/ \E tpl \in Templates, a \in BackupAccesses, max \in 0..Len(Backups) :
                     ini_config_file_backup(tpl, a, max)
               \/ \E a \in Accesses : ini_config_change_access(a)
               \/ \E b \in NewBoms : ini_config_set_bom(b)
               \/ AppOpens
        PROVE  call.pc = "idle"
    BY <1>3 DEF ini_config_file_open, ini_config_file_from_mem, ini_config_file_reopen,
         ini_config_file_close, ini_config_file_destroy, ini_config_save, ini_config_save_as,
         ini_config_file_backup, ini_config_change_access, ini_config_set_bom, AppOpens, Idle
  <1>4. ASSUME \/ \E n, bytes : OtherWrites(n, bytes) \/ OtherCreates(n, bytes)
               \/ \E n, dev : OtherReplaces(n, dev)
               \/ \E n \in AllNames, mode \in Modes : OtherChanges(n, mode)
        PROVE  others < MaxOthers /\ others' = others + 1
    <2>1. \E n, f : Other(n, f)
      BY <1>4 DEF OtherWrites, OtherReplaces, OtherCreates, OtherChanges
    <2> QED
      BY <1>2, <2>1
  <1> QED
    BY <1>1, <1>3, <1>4 DEF Next

\* A backup never changes a file that was there before it, except one that
\* another process makes between the check of the name and the creation of the
\* file: the next number is tried whenever open_new_file finds the name taken.
THEOREM BackupCorrect == Spec => BackupKeeps
  <1>1. ASSUME FileInv, Next, NEW n \in AllNames, call.op = "backup", Exists(n), disk'[n] # disk[n],
               others' = others
        PROVE  n \in touched \/ (n = call.name /\ call.pc = "write")
    <2>1. call.pc # "idle"
      BY <1>1 DEF FileInv, CallOK, Writing
    <2>2. others \in Nat /\ others' # others + 1
      BY <1>1 DEF FileInv
    <2>3. open_new_file \/ write_to_file
      BY <1>1, <2>1, <2>2, Writers
    <2>4. disk' = disk \/ \E f : disk' = [disk EXCEPT ![call.name] = f]
      BY <2>3 DEF open_new_file, write_to_file, Rewritten
    <2>5. n = call.name
      <3>1. disk = [m \in AllNames |-> disk[m]]
        BY <1>1 DEF FileInv, DiskOK
      <3> QED
        BY <1>1, <2>4, <3>1
    <2>6. CASE open_new_file
      <3>1. call.pc = "creat"
        BY <2>6 DEF open_new_file
      <3> QED
        BY <1>1, <2>5, <3>1 DEF FileInv, Unused, Exists
    <2>7. CASE write_to_file
      BY <2>5, <2>7 DEF write_to_file
    <2> QED
      BY <2>3, <2>6, <2>7
  <1>2. FileInv /\ [Next]_vars =>
          [\A n \in AllNames :
              (call.op = "backup" /\ Exists(n) /\ disk'[n] # disk[n] /\ others' = others)
                  => n \in touched \/ (n = call.name /\ call.pc = "write")]_vars
    BY <1>1
  <1> QED
    BY <1>2, FileInvariant, PTL DEF Spec, BackupKeeps

-----------------------------------------------------------------------------
(* The metadata of the deprecated reader *)

\* The numbers of a file, kept as text and read back as unsigned.
LEMMA Reread ==
    ASSUME NEW k \in 0..14
    PROVE  k % 16 = k /\ (k % 16) % 16 = k /\ k # 15
  OBVIOUS

\* What collect_metadata keeps of the stats of a file.
LEMMA MetadataIs ==
    ASSUME NEW s, IsStat(s), NEW n \in AllNames
    PROVE  /\ Metadata(s, n) # NULL
           /\ Metadata(s, n)["UID"] = s.uid /\ Metadata(s, n)["GID"] = s.gid
           /\ Metadata(s, n)["PERM"] = s.mode \cup {"reg"} /\ Metadata(s, n)["MODIFIED"] = s.mtime
           /\ Metadata(s, n)["DEV"] = s.dev % 16 /\ Metadata(s, n)["INODE"] = s.ino
  <1>1. /\ s.uid \in 0..14 /\ s.gid \in 0..14 /\ s.ino \in 0..14 /\ s.mtime \in Int
        /\ s.dev \in Nat /\ s.mode \cup {"reg"} \in SUBSET (PERMS \cup {"reg"})
    BY DEF IsStat, Groups
  <1> DEFINE dev == s.dev % 16
  <1>2. s.uid % 16 = s.uid /\ s.gid % 16 = s.gid /\ s.ino % 16 = s.ino /\ dev \in Nat
    BY <1>1, Reread
  <1>3. Metadata(s, n) = [UID |-> s.uid, GID |-> s.gid, PERM |-> s.mode \cup {"reg"},
                          MODIFIED |-> s.mtime, NAME |-> n, DEV |-> dev, INODE |-> s.ino]
    BY <1>2 DEF Metadata, ULONG
  <1> HIDE DEF dev
  <1>4. Metadata(s, n) \in [UID : Nat, GID : Nat, PERM : SUBSET (PERMS \cup {"reg"}), MODIFIED : Int,
                            NAME : AllNames, DEV : Nat, INODE : Nat]
    BY <1>1, <1>2, <1>3
  <1>5. Metadata(s, n) # NULL
    BY <1>4, FileAssumption
  <1> QED
    BY <1>3, <1>5 DEF dev

\* The type of the file, which the metadata keeps with the mode, is masked off.
LEMMA TypeMasked ==
    ASSUME NEW mode, NEW mask
    PROVE  Masked(mode \cup {"reg"}, mask) = Masked(mode, mask)
  BY DEF Masked, PERMS

\* The check of the access gives the same answer either way.
LEMMA AccessAgrees ==
    ASSUME NEW s, IsStat(s), NEW n \in AllNames, NEW flags, NEW uid, NEW gid, NEW mode, NEW mask
    PROVE  config_access_check(Metadata(s, n), flags, uid, gid, mode, mask)
              = access_check_int(s, flags, uid, gid, mode, mask)
  <1> DEFINE md == Metadata(s, n)
  <1>1. md # NULL /\ md["UID"] = s.uid /\ md["GID"] = s.gid /\ md["PERM"] = s.mode \cup {"reg"}
    BY MetadataIs
  <1>2. s.uid \in 0..14 /\ s.gid \in 0..14
    BY DEF IsStat, Groups
  <1> HIDE DEF md
  <1>3. /\ get_checked_value(md, "UID") = s.uid /\ ~NoValue(md, "UID")
        /\ get_checked_value(md, "GID") = s.gid /\ ~NoValue(md, "GID")
    BY <1>1, <1>2, Reread DEF get_checked_value, NoValue, ULONG
  <1>4. /\ check_id(md, "UID", uid) = IF s.uid # uid THEN "EACCES" ELSE "EOK"
        /\ check_id(md, "GID", gid) = IF s.gid # gid THEN "EACCES" ELSE "EOK"
    BY <1>3 DEF check_id
  <1>5. Masked(md.PERM, mask) = Masked(s.mode, mask)
    BY <1>1, TypeMasked
  <1>6. config_access_check(md, flags, uid, gid, mode, mask)
           = access_check_int(s, flags, uid, gid, mode, mask)
    BY <1>1, <1>4, <1>5 DEF config_access_check, access_check_int
  <1> QED
    BY <1>6 DEF md

\* Every number that is compared is read back as it was.
LEMMA AnswersRead ==
    ASSUME NEW s, IsStat(s), Answers(s), NEW n \in AllNames
    PROVE  /\ Metadata(s, n) # NULL
           /\ get_checked_value(Metadata(s, n), "MODIFIED") = s.mtime /\ ~NoValue(Metadata(s, n), "MODIFIED")
           /\ get_checked_value(Metadata(s, n), "DEV") = s.dev /\ ~NoValue(Metadata(s, n), "DEV")
           /\ get_checked_value(Metadata(s, n), "INODE") = s.ino /\ ~NoValue(Metadata(s, n), "INODE")
  <1> DEFINE md == Metadata(s, n)
  <1>1. s.mtime \in 0..14 /\ s.dev \in 0..14 /\ s.ino \in 0..14
    BY DEF IsStat, Answers, ULONG
  <1>2. md # NULL /\ md["MODIFIED"] = s.mtime /\ md["DEV"] = s.dev /\ md["INODE"] = s.ino
    BY <1>1, MetadataIs, Reread
  <1> HIDE DEF md
  <1>3. /\ get_checked_value(md, "MODIFIED") = s.mtime /\ ~NoValue(md, "MODIFIED")
        /\ get_checked_value(md, "DEV") = s.dev /\ ~NoValue(md, "DEV")
        /\ get_checked_value(md, "INODE") = s.ino /\ ~NoValue(md, "INODE")
    BY <1>1, <1>2, Reread DEF get_checked_value, NoValue, ULONG
  <1> QED
    BY <1>2, <1>3 DEF md

\* The check for a change gives the same answer either way, when the time
\* stamps and the devices are not those that stand for no answer.
LEMMA ChangeAgrees ==
    ASSUME NEW s, IsStat(s), Answers(s), NEW r, IsStat(r), Answers(r), NEW n \in AllNames
    PROVE  config_changed(Metadata(s, n), Metadata(r, n), "same")
              = IF s.mtime # r.mtime \/ s.dev # r.dev \/ s.ino # r.ino THEN "changed" ELSE "same"
  <1> DEFINE md == Metadata(s, n)
             saved == Metadata(r, n)
  <1>1. /\ md # NULL
        /\ get_checked_value(md, "MODIFIED") = s.mtime /\ ~NoValue(md, "MODIFIED")
        /\ get_checked_value(md, "DEV") = s.dev /\ ~NoValue(md, "DEV")
        /\ get_checked_value(md, "INODE") = s.ino /\ ~NoValue(md, "INODE")
    BY AnswersRead
  <1>2. /\ saved # NULL
        /\ get_checked_value(saved, "MODIFIED") = r.mtime /\ ~NoValue(saved, "MODIFIED")
        /\ get_checked_value(saved, "DEV") = r.dev /\ ~NoValue(saved, "DEV")
        /\ get_checked_value(saved, "INODE") = r.ino /\ ~NoValue(saved, "INODE")
    BY AnswersRead
  <1> HIDE DEF md, saved
  <1> DEFINE keys == <<"MODIFIED", "DEV", "INODE">>
             bad == {k \in 1..3 : NoValue(md, keys[k]) \/ NoValue(saved, keys[k])}
             new == {k \in 1..3 : get_checked_value(md, keys[k]) # get_checked_value(saved, keys[k])}
  <1>3. keys[1] = "MODIFIED" /\ keys[2] = "DEV" /\ keys[3] = "INODE" /\ 1..3 = {1, 2, 3}
    OBVIOUS
  <1>4. config_changed(md, saved, "same")
           = IF bad \cup new = {} THEN "same"
             ELSE IF \E k \in bad : \A j \in new : k <= j THEN "EINVAL" ELSE "changed"
    BY <1>1, <1>2 DEF config_changed
  <1> HIDE DEF keys
  <1>5. bad = {}
    BY <1>1, <1>2, <1>3
  <1>6. new = {} <=> s.mtime = r.mtime /\ s.dev = r.dev /\ s.ino = r.ino
    BY <1>1, <1>2, <1>3
  <1> HIDE DEF bad, new
  <1>7. config_changed(md, saved, "same") = IF new = {} THEN "same" ELSE "changed"
    BY <1>4, <1>5
  <1>8. config_changed(md, saved, "same")
           = IF s.mtime # r.mtime \/ s.dev # r.dev \/ s.ino # r.ino THEN "changed" ELSE "same"
    BY <1>6, <1>7
  <1> QED
    BY <1>8 DEF md, saved

\* A reader that collects the metadata of a file now gets the same answers from
\* it as from the file object with the stats that it keeps, whatever the device,
\* the time, the owner, the group and the mode of the file and whatever calls and
\* other processes came before, with the exceptions that MetadataAgrees names.
THEOREM MetadataCorrect == Spec => []MetadataAgrees
  <1>1. ASSUME FileInv PROVE MetadataAgrees
    <2> SUFFICES ASSUME call.pc = "idle", ctx # NULL, ctx.stats # NULL, ~behind
                 PROVE  LET now == collect_metadata(Stat(disk[ctx.name]), ctx.name)
                            before == collect_metadata(old, ctx.name)
                        IN  /\ now.error = "EOK" =>
                                 \A flags \in SUBSET ACCESS_FLAGS, uid, gid \in {1, 2},
                                    mode \in SUBSET PERMS, mask \in SUBSET PERMS :
                                    config_access_check(now.metadata, flags, uid, gid, mode, mask) =
                                    ini_config_access_check(ctx, flags, uid, gid, mode, mask)
                            /\ (old # NULL /\ Answers(old) /\ Answers(ctx.stats)) =>
                                 config_changed(now.metadata, before.metadata, "same")
                                    = ini_config_changed(ctx.stats, old)
      BY DEF MetadataAgrees
    <2> DEFINE n == ctx.name
               s == ctx.stats
               now == collect_metadata(Stat(disk[n]), n)
               before == collect_metadata(old, n)
    <2>1. s = Stat(disk[n]) /\ IsStat(s) /\ n \in AllNames
      BY <1>1, StatsAre
    <2>2. now = collect_metadata(s, n)
      BY <2>1
    <2>3. now.error = "EOK" => now.metadata = Metadata(s, n)
      BY <2>2 DEF collect_metadata
    <2>4. ASSUME now.error = "EOK",
                 NEW flags \in SUBSET ACCESS_FLAGS, NEW uid \in {1, 2}, NEW gid \in {1, 2},
                 NEW mode \in SUBSET PERMS, NEW mask \in SUBSET PERMS
          PROVE  config_access_check(now.metadata, flags, uid, gid, mode, mask) =
                 ini_config_access_check(ctx, flags, uid, gid, mode, mask)
      <3>1. config_access_check(Metadata(s, n), flags, uid, gid, mode, mask)
               = access_check_int(s, flags, uid, gid, mode, mask)
        BY <2>1, AccessAgrees
      <3> QED
        BY <2>3, <2>4, <3>1 DEF ini_config_access_check
    <2>5. ASSUME old # NULL, Answers(old), Answers(s)
          PROVE  config_changed(now.metadata, before.metadata, "same") = ini_config_changed(s, old)
      <3>1. IsStat(old)
        BY <1>1, <2>5 DEF FileInv
      <3>2. s.dev < 16 /\ old.dev < 16
        BY <2>1, <2>5, <3>1 DEF Answers, ULONG, IsStat
      <3>3. now.metadata = Metadata(s, n) /\ before.metadata = Metadata(old, n)
        BY <2>1, <2>2, <3>1, <3>2 DEF collect_metadata, ULONG, IsStat
      <3>4. config_changed(Metadata(s, n), Metadata(old, n), "same")
               = IF s.mtime # old.mtime \/ s.dev # old.dev \/ s.ino # old.ino THEN "changed" ELSE "same"
        BY <2>1, <2>5, <3>1, ChangeAgrees
      <3>5. ini_config_changed(s, old)
               = IF s.mtime # old.mtime \/ s.dev # old.dev \/ s.ino # old.ino THEN "changed" ELSE "same"
        BY <2>5 DEF ini_config_changed
      <3> QED
        BY <3>3, <3>4, <3>5
    <2> QED
      BY <2>4, <2>5
  <1> QED
    BY <1>1, FileInvariant, PTL

=============================================================================
