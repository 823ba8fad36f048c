------------------------------ MODULE IniFile ------------------------------
(***************************************************************************)
(* File objects: ini/ini_fileobj.c, and the metadata of the deprecated     *)
(* reader, ini/ini_metadata.c.                                             *)
(*                                                                         *)
(* One application opens, saves and backs up files through one file        *)
(* object, and may keep the one it reopened.  A call is a sequence of      *)
(* system calls; other processes change the files between any two of them. *)
(* Another process writes a file in place.  The application is not         *)
(* privileged: it may change the mode and owner of its own files only.     *)
(***************************************************************************)
EXTENDS IniEncoding, FiniteSets, TLC

CONSTANTS
    NULL,
    Names,      \* files that a configuration is opened from and saved to
    Opened,     \* those it is opened from; it may be saved as one of the others
    NewBoms,    \* encodings that the caller may choose
    Backups,    \* the names a backup may get, in the order they are tried
    Templates,  \* templates the caller may pass
    InitFiles,  \* the bytes a file may have at first
    InitTime,   \* the time stamp of those files at first
    Taken,      \* the names that are taken at first
    Foreign,    \* those of them that another user owns
    MemTexts,   \* buffers for ini_config_file_from_mem
    Configs,    \* what a configuration may be serialized to
    Accesses,   \* access structures the caller may pass
    BackupAccesses,  \* those it may pass for a backup
    Modes,      \* modes that other processes set
    Devices,    \* devices that a file may be on after another process replaced it
    Texts,      \* the texts that the properties look for in a file
    MaxCalls,   \* bound: calls of the application
    MaxOthers,  \* bound: changes by other processes
    CanFail     \* whether reading and writing a file may fail

VARIABLES
    disk,     \* name -> file, or NoFile
    ctx,      \* the file object, or NULL
    old,      \* the stats of the object that ctx was reopened from, or NULL
    call,     \* the call in progress, or NoCall
    ret,      \* how the last call ended, or NULL
    app,      \* a file of the application, see AppOpens
    touched,  \* names that others changed during the call
    cut,      \* whether others shortened the file that the call was reading
    behind,   \* whether ctx.name changed since its stats were taken
    calls, others

vars == <<disk, ctx, old, call, ret, app, touched, cut, behind, calls, others>>

Me == 1           \* the user of the application, and its own group
Groups == {1, 2}  \* the groups it belongs to
Home == 1         \* the device of the files
EMPTYNAME == ""   \* the file name of an object that was made from memory
AllNames == Names \cup ToSet(Backups)
-----------------------------------------------------------------------------
(* The file system, as the system calls show it.                           *)

Stat(f) == [mode |-> f.mode, uid |-> f.uid, gid |-> f.gid, mtime |-> f.mtime, dev |-> f.dev, ino |-> f.ino]
Exists(n) == disk[n].ino # 0
MayRead(n) == Exists(n) /\ "r" \in disk[n].mode
MayWrite(n) == Exists(n) => "w" \in disk[n].mode
NewFile(n, mode) ==
    [bytes |-> <<>>, mode |-> mode, uid |-> Me, gid |-> Me, mtime |-> 0, dev |-> Home, ino |-> 1]
NoFile == [NewFile(NULL, {}) EXCEPT !.ino = 0]

\* A file is written now; two writes may get the same time stamp.
Stamped(f, bytes, t) == [f EXCEPT !.bytes = bytes, !.mtime = t]
Times(f) == {f.mtime, IF f.mtime < 1 THEN f.mtime + 1 ELSE f.mtime}
Created(n, mode) == IF Exists(n) THEN [disk[n] EXCEPT !.bytes = <<>>] ELSE NewFile(n, mode)
MayChown(f, perm) == f.uid = Me /\ perm.uid = Me /\ perm.gid \in Groups
-----------------------------------------------------------------------------
(* Which permissions a file gets.                                          *)

ACCESS_FLAGS == {"MODE", "UID", "GID"}

\* The stats of the object, else those of its file, else those of the process.
Defaults(c) ==
    IF c.stats # NULL THEN c.stats
    ELSE IF c.name # EMPTYNAME THEN Stat(disk[c.name])
    ELSE [mode |-> {"r", "w"}, uid |-> Me, gid |-> Me]

determine_permissions(c, access) ==
    LET d == Defaults(c)
        Chosen(flag, new, default) == IF access # NULL /\ flag \in access.flags THEN new ELSE default
    IN  [mode |-> IF access = NULL THEN d.mode ELSE Chosen("MODE", access.mode, d.mode),
         uid |-> IF access = NULL THEN d.uid ELSE Chosen("UID", access.uid, d.uid),
         gid |-> IF access = NULL THEN d.gid ELSE Chosen("GID", access.gid, d.gid)]

PermissionError(c, access) ==
    IF c.stats = NULL /\ c.name # EMPTYNAME /\ ~Exists(c.name) THEN "ENOENT"
    ELSE IF access # NULL /\ access.flags \cap ACCESS_FLAGS = {} THEN "EINVAL"
    ELSE "EOK"
-----------------------------------------------------------------------------
(* Calls: how one begins and ends.                                         *)

NewCall(op, pc, name) ==
    [op |-> op, pc |-> pc, name |-> name, text |-> <<>>, bom |-> NOBOM, flag |-> FALSE,
     access |-> NULL, perm |-> NULL, max |-> 0, i |-> 0, conv |-> NULL, seen |-> NULL]

NoCall == NewCall("none", "idle", NULL)
Idle == call.pc = "idle" /\ calls < MaxCalls

Begin(c) ==
    /\ call' = c /\ ret' = NULL /\ touched' = {} /\ cut' = FALSE /\ calls' = calls + 1
    /\ UNCHANGED others

\* A call that changes nothing, or all it changes at once.
Once(op, res) ==
    /\ ret' = NewCall(op, res, NULL)
    /\ calls' = calls + 1 /\ touched' = {} /\ cut' = FALSE
    /\ UNCHANGED <<call, others>>

Going == UNCHANGED <<ret, touched, cut, calls, others>>

\* ret keeps the call, with its result in pc.
Return(c, res) ==
    call' = NoCall /\ ret' = [c EXCEPT !.pc = res, !.conv = NULL] /\ UNCHANGED <<touched, cut, calls, others>>

\* Closing the stream of an object that was read from an empty file closes a
\* descriptor number that is free, or that the application uses.
CloseStream(c) == app' = IF c # NULL /\ c.file = "stale" /\ app = "reused" THEN "lost" ELSE app
-----------------------------------------------------------------------------
(* Reading: common_file_init.                                              *)

NewCtx(name, meta, bom) ==
    [name |-> name, meta |-> meta, data |-> <<>>, bom |-> bom, stats |-> NULL, file |-> NULL]

ini_config_file_open(n, meta) ==
    /\ Idle /\ ctx = NULL
    /\ Begin([NewCall("open", "fopen", n) EXCEPT !.flag = meta])
    /\ UNCHANGED <<disk, ctx, old, app, behind>>

\* An empty buffer is replaced by one with a NUL byte.
ini_config_file_from_mem(bytes) ==
    /\ Idle /\ ctx = NULL
    /\ LET b == IF bytes = <<>> THEN <<0>> ELSE bytes
       IN  Begin([NewCall("mem", "convert", EMPTYNAME) EXCEPT !.conv = StartConv(Len(b)), !.seen = b])
    /\ UNCHANGED <<disk, ctx, old, app, behind>>

\* The object made from memory has no name, and no file to open.
ini_config_file_reopen ==
    /\ Idle /\ ctx # NULL /\ ctx.name # EMPTYNAME
    /\ Begin([NewCall("reopen", "fopen", ctx.name) EXCEPT !.flag = ctx.meta, !.bom = ctx.bom])
    /\ UNCHANGED <<disk, ctx, old, app, behind>>

Reads(op) == op \in {"open", "mem", "reopen", "save"}

Loaded_cached(c, data, bom, file, stats) ==
    /\ ctx' = [NewCtx(c.name, c.flag, bom) EXCEPT
                   !.data = data, !.file = file,
                   !.stats = IF c.op = "save" THEN ctx.stats ELSE IF c.flag THEN stats ELSE NULL]
    /\ old' = IF c.op = "reopen" THEN ctx.stats ELSE old
    /\ behind' = (c.name \in touched)

Gone_ignored(c, res) ==
    /\ Return(c, IF c.op = "save" THEN "EOK" ELSE res)
    /\ behind' = (behind \/ c.op = "save")
    /\ UNCHANGED <<ctx, old, app>>

\* A call ends without an object.  A save that fails before it reads the file
\* again leaves the object with the new text, and no stream.
Gone(c, res) ==
    /\ Return(c, res)
    /\ behind' = (behind \/ c.op = "save")
    /\ UNCHANGED <<ctx, old, app>>

\* The object when the call succeeds; a reopened object replaces the one before it.
Loaded(c, data, bom, file, stats) ==
    /\ ctx' = [NewCtx(c.name, c.flag, bom) EXCEPT
                   !.data = data, !.file = file, !.stats = IF c.flag THEN stats ELSE NULL]
    /\ old' = IF c.op = "reopen" THEN ctx.stats ELSE old
    /\ behind' = (c.name \in touched)

\* A read that fails frees a new object; the one being saved keeps what it got,
\* and the stats of the file too if it had any.
NotLoaded(c, conv) ==
    /\ ctx' = IF c.op # "save" THEN ctx
              ELSE [ctx EXCEPT !.data = conv.out, !.bom = IF conv.started THEN conv.bom ELSE @,
                               !.stats = IF @ = NULL THEN NULL ELSE c.perm]
    /\ behind' = (behind \/ c.op = "save")
    /\ UNCHANGED <<old, app>>

fopen ==
    /\ call.pc = "fopen"
    /\ \/ /\ ~MayRead(call.name)
          /\ Gone(call, IF Exists(call.name) THEN "EACCES" ELSE "ENOENT")
       \/ /\ MayRead(call.name) /\ disk[call.name].bytes # <<>>
          /\ LET f == disk[call.name]
             IN  call' = [call EXCEPT !.pc = "convert", !.conv = StartConv(Len(f.bytes)),
                                      !.seen = f.bytes, !.perm = Stat(f)]
          /\ Going /\ UNCHANGED <<ctx, old, app, behind>>
       \/ /\ MayRead(call.name) /\ disk[call.name].bytes = <<>>
          /\ Loaded(call, <<>>, call.bom, "stale", Stat(disk[call.name]))
          /\ Return([call EXCEPT !.seen = <<>>], "EOK")
          /\ IF call.op = "reopen" THEN CloseStream(ctx) ELSE UNCHANGED app
    /\ UNCHANGED disk

Source(c) == IF c.op = "mem" THEN c.seen ELSE disk[c.name].bytes
Want(conv) == how_much_to_read(conv.size - conv.total, ICONV_BUFFER - conv.in)

\* How a turn of the loop ends, after a chunk was read into the buffer.  At the
\* end fmemopen makes a stream of the text.
Converts(c, next) ==
    \/ /\ next.res # "EOK"
       /\ Return(c, next.res) /\ NotLoaded(c, next)
    \/ /\ next.res = "EOK" /\ ~ConvDone(next)
       /\ call' = [c EXCEPT !.conv = next]
       /\ Going /\ UNCHANGED <<ctx, old, app, behind>>
    \/ /\ next.res = "EOK" /\ ConvDone(next) /\ CanFail
       /\ Return(c, "EIO") /\ NotLoaded(c, next)
    \/ /\ next.res = "EOK" /\ ConvDone(next)
       /\ Loaded(c, next.out, next.bom, "memory", c.perm)
       /\ Return(c, "EOK")
       /\ IF c.op = "reopen" THEN CloseStream(ctx) ELSE UNCHANGED app

\* One turn of the loop: a chunk is read from the file as it is now.
common_file_convert ==
    /\ call.pc = "convert"
    /\ \E got \in {read_chunk(call.conv, Source(call), Want(call.conv))} :
          IF Overread(got) THEN Return(call, "overread") /\ NotLoaded(call, call.conv)
          ELSE \E start \in {initialize_conv(got)} :
               \E done \in {ChunkConverted(call.conv, start)} :
               \E next \in {Turned(start, done, start.total + start.cnt)} : Converts(call, next)
    /\ UNCHANGED disk

\* A system call that a read makes fails: fstat, fdopen for an empty file, fread,
\* or fmemopen for a buffer, before anything is read.
ReadFails ==
    /\ CanFail
    /\ \/ /\ call.pc = "fopen" /\ MayRead(call.name)
          /\ Gone(call, "EIO")
       \/ /\ call.pc = "fopen" /\ MayRead(call.name) /\ disk[call.name].bytes = <<>>
          /\ Return(call, "EIO")
          /\ NotLoaded([call EXCEPT !.perm = Stat(disk[call.name])], StartConv(0))
       \/ /\ call.pc = "convert" /\ (call.op = "mem" => ~call.conv.started)
          /\ Return(call, "EIO") /\ NotLoaded(call, call.conv)
    /\ UNCHANGED disk
-----------------------------------------------------------------------------
(* Writing: write_to_file, for a save or for a backup.                     *)

\* The template with a number in the place of its %d.
create_file_name(i) == Backups[i]

Refused_again(c, res) ==
    IF c.op = "backup" /\ res \in {"EEXIST", "EACCES"} /\ c.i < c.max
    THEN /\ call' = [c EXCEPT !.pc = "perm"]
         /\ Going /\ UNCHANGED <<ctx, old, app, behind>>
    ELSE Gone(c, res)

\* A backup whose name is taken, or is refused, goes on with the next name.
Refused(c, res) ==
    IF c.op = "backup" /\ res \in {"EEXIST", "EACCES"} /\ c.i < c.max
    THEN /\ call' = [c EXCEPT !.i = @ + 1, !.name = create_file_name(c.i + 1), !.pc = "perm"]
         /\ Going /\ UNCHANGED <<ctx, old, app, behind>>
    ELSE Gone(c, res)

WritePermissions ==
    /\ call.pc = "perm"
    /\ LET res == PermissionError(ctx, call.access)
       IN  IF res # "EOK" THEN Gone(call, res)
           ELSE /\ call' = [call EXCEPT !.perm = determine_permissions(ctx, call.access),
                                        !.pc = IF call.op = "backup" THEN "check" ELSE "creat"]
                /\ Going /\ UNCHANGED <<ctx, old, app, behind>>
    /\ UNCHANGED disk

\* open_new_file looks for the name of a backup before it creates the file.
Checked_not(c) == "EOK"

Checked(c) == IF ~Exists(c.name) THEN "EOK" ELSE IF MayRead(c.name) THEN "EEXIST" ELSE "EACCES"

CheckNewFile ==
    /\ call.pc = "check"
    /\ IF Checked(call) = "EOK"
       THEN call' = [call EXCEPT !.pc = "creat"] /\ Going /\ UNCHANGED <<ctx, old, app, behind>>
       ELSE Refused(call, Checked(call))
    /\ UNCHANGED disk

open_new_file ==
    /\ call.pc = "creat"
    /\ LET f == Created(call.name, call.perm.mode)
           g == [f EXCEPT !.mode = call.perm.mode]
           h == [g EXCEPT !.uid = call.perm.uid, !.gid = call.perm.gid]
       IN  \/ /\ ~MayWrite(call.name) /\ Refused(call, "EACCES") /\ UNCHANGED disk
           \/ /\ MayWrite(call.name) /\ f.uid # Me
              /\ disk' = [disk EXCEPT ![call.name] = f] /\ Gone(call, "EPERM")
           \/ /\ MayWrite(call.name) /\ f.uid = Me /\ ~MayChown(g, call.perm)
              /\ disk' = [disk EXCEPT ![call.name] = g] /\ Gone(call, "EPERM")
           \/ /\ MayWrite(call.name) /\ MayChown(g, call.perm)
              /\ disk' = [disk EXCEPT ![call.name] = h]
              /\ call' = [call EXCEPT !.pc = "write"] /\ Going /\ UNCHANGED <<ctx, old, app, behind>>

Written(c) ==
    IF c.bom \in {NOBOM, UTF8} THEN [res |-> "EOK", out |-> Mark(c.bom) \o c.data]
    ELSE LET done == do_encoding(c.bom, c.data) IN [done EXCEPT !.out = Mark(c.bom) \o done.out]

\* The bytes go over what the file holds, which is nothing unless another process
\* wrote it since it was created.
Over(bytes, new) == new \o SubSeq(bytes, Len(new) + 1, Len(bytes))
Rewritten(bytes) ==
    \E t \in Times(disk[call.name]) :
        disk' = [disk EXCEPT ![call.name] = Stamped(@, Over(@.bytes, bytes), t)]

\* A save reads the file again.  A write that fails leaves a part of the text.
write_to_file ==
    /\ call.pc = "write"
    /\ \E w \in {Written(ctx)} :
         \/ w.res # "EOK" /\ Gone(call, w.res) /\ UNCHANGED disk
         \/ /\ w.res = "EOK" /\ CanFail
            /\ Rewritten(SubSeq(w.out, 1, Len(w.out) \div 2)) /\ Gone(call, "ENOSPC")
         \/ /\ w.res = "EOK" /\ Rewritten(w.out)
            /\ IF call.op = "save"
               THEN /\ call' = [call EXCEPT !.pc = "fopen"]
                    /\ ctx' = [ctx EXCEPT !.data = <<>>]
                    /\ Going /\ UNCHANGED <<old, app, behind>>
               ELSE Return(call, "EOK") /\ UNCHANGED <<ctx, old, app, behind>>

\* The name changes before anything is written; the object made from memory is
\* refused whether there is a new name or not.
ini_config_save_as(n, access, text) ==
    /\ Idle /\ ctx # NULL
    /\ LET name == IF n = NULL THEN ctx.name ELSE n
       IN  \/ /\ ctx.name = EMPTYNAME /\ Once("save_as", "EINVAL")
              /\ UNCHANGED <<ctx, app, behind>>
           \/ /\ ctx.name # EMPTYNAME
              /\ Begin([NewCall("save", "perm", name) EXCEPT
                           !.access = access, !.flag = ctx.meta, !.bom = ctx.bom, !.text = text])
              /\ ctx' = [ctx EXCEPT !.name = name, !.data = text, !.file = NULL]
              /\ CloseStream(ctx) /\ behind' = (behind \/ n # NULL)
    /\ UNCHANGED <<disk, old>>

ini_config_save(access, text) == ini_config_save_as(NULL, access, text)

\* What follows each percent sign of a template, read from left to right.
Directives[tpl \in Seq({"%", "d", "x"})] ==
    IF tpl = <<>> THEN <<>>
    ELSE IF Head(tpl) # "%" THEN Directives[Tail(tpl)]
    ELSE IF Len(tpl) = 1 THEN <<"end">>
    ELSE <<tpl[2]>> \o Directives[SubSeq(tpl, 3, Len(tpl))]

\* One %d, and any number of %%.
check_template(tpl) ==
    LET d == Directives[tpl] IN \E i \in DOMAIN d : d[i] = "d" /\ \A j \in DOMAIN d \ {i} : d[j] = "%"

\* With no number to try the call succeeds and nothing is saved.
ini_config_file_backup(tpl, access, max) ==
    /\ Idle /\ ctx # NULL /\ max \in 0..Len(Backups)
    /\ IF ~check_template(tpl) THEN Once("backup", "EINVAL")
       ELSE IF max = 0 THEN Once("backup", "EOK")
       ELSE Begin([NewCall("backup", "perm", create_file_name(1)) EXCEPT !.access = access, !.max = max, !.i = 1])
    /\ UNCHANGED <<disk, ctx, old, app, behind>>
-----------------------------------------------------------------------------
(* The other calls on a file object.                                       *)

\* chmod and chown of the file: the second may fail when the first is done.
Rechmod(perm) ==
    LET f == disk[ctx.name]
        g == [f EXCEPT !.mode = perm.mode]
        h == [g EXCEPT !.uid = perm.uid, !.gid = perm.gid]
    IN  \/ f.uid # Me /\ Once("change_access", "EPERM") /\ UNCHANGED <<disk, ctx, behind>>
        \/ /\ f.uid = Me /\ ~MayChown(g, perm)
           /\ disk' = [disk EXCEPT ![ctx.name] = g] /\ Once("change_access", "EPERM")
           /\ behind' = TRUE /\ UNCHANGED ctx
        \/ /\ MayChown(g, perm)
           /\ disk' = [disk EXCEPT ![ctx.name] = h] /\ Once("change_access", "EOK")
           /\ ctx' = [ctx EXCEPT !.stats = IF ctx.meta THEN Stat(h) ELSE NULL]
           /\ behind' = FALSE

ini_config_change_access(access) ==
    /\ Idle /\ ctx # NULL
    /\ IF ctx.name = EMPTYNAME \/ access = NULL
       THEN Once("change_access", "EINVAL") /\ UNCHANGED <<disk, ctx, behind>>
       ELSE IF PermissionError(ctx, access) # "EOK" \/ ~Exists(ctx.name)
       THEN /\ Once("change_access", IF Exists(ctx.name) THEN PermissionError(ctx, access) ELSE "ENOENT")
            /\ UNCHANGED <<disk, ctx, behind>>
       ELSE Rechmod(determine_permissions(ctx, access))
    /\ UNCHANGED <<old, app>>

ini_config_file_close ==
    /\ Idle /\ ctx # NULL /\ ctx.file # NULL
    /\ ctx' = [ctx EXCEPT !.file = NULL] /\ CloseStream(ctx) /\ Once("close", "EOK")
    /\ UNCHANGED <<disk, old, behind>>

ini_config_file_destroy ==
    /\ Idle /\ ctx # NULL
    /\ ctx' = NULL /\ old' = NULL /\ CloseStream(ctx) /\ Once("destroy", "EOK")
    /\ UNCHANGED <<disk, behind>>

ini_config_set_bom(b) ==
    /\ Idle /\ ctx # NULL /\ b # ctx.bom
    /\ ctx' = [ctx EXCEPT !.bom = b] /\ Once("set_bom", "EOK")
    /\ UNCHANGED <<disk, old, app, behind>>

ini_config_get_bom(c) == c.bom
ini_config_get_filename(c) == c.name
ini_config_get_stat(c) == c.stats
-----------------------------------------------------------------------------
(* Checks of the access and of the change of a file, by the stats of a     *)
(* file object and by the metadata that the deprecated reader collects.    *)

PERMS == {"r", "w"}   \* S_IRWXU | S_IRWXG | S_IRWXO, of a mode that has the type of the file too
Masked(mode, mask) == (mode \cap PERMS) \cap (IF mask = {} THEN PERMS ELSE mask)

access_check_int(stats, flags, uid, gid, mode, mask) ==
    IF flags \cap ACCESS_FLAGS = {} THEN "EINVAL"
    ELSE IF \/ "MODE" \in flags /\ Masked(mode, mask) # Masked(stats.mode, mask)
            \/ "UID" \in flags /\ stats.uid # uid
            \/ "GID" \in flags /\ stats.gid # gid
    THEN "EACCES" ELSE "EOK"

ini_config_access_check(c, flags, uid, gid, mode, mask) ==
    IF c.stats = NULL THEN "EINVAL" ELSE access_check_int(c.stats, flags, uid, gid, mode, mask)

ini_config_changed(stats1, stats2) ==
    IF stats1 = NULL \/ stats2 = NULL THEN "EINVAL"
    ELSE IF stats1.mtime # stats2.mtime \/ stats1.dev # stats2.dev \/ stats1.ino # stats2.ino
         THEN "changed" ELSE "same"

\* Numbers are kept as text: the time as it is, the others as unsigned; each is
\* read back as an unsigned number of ULONG values, the last of which is no answer.
\* A device that is no such number is refused.
ULONG == 16
Metadata(stats, name) ==
    [UID |-> stats.uid % ULONG, GID |-> stats.gid % ULONG, PERM |-> stats.mode \cup {"reg"},
     MODIFIED |-> stats.mtime, NAME |-> name, DEV |-> stats.dev % ULONG, INODE |-> stats.ino % ULONG]
collect_metadata(stats, name) ==
    IF stats.dev >= ULONG THEN [error |-> "ERANGE", metadata |-> NULL]
    ELSE [error |-> "EOK", metadata |-> Metadata(stats, name)]

get_checked_value(md, key) == md[key] % ULONG
NoValue(md, key) == get_checked_value(md, key) = ULONG - 1

check_id(md, key, id) ==
    IF NoValue(md, key) THEN "EINVAL" ELSE IF get_checked_value(md, key) # id THEN "EACCES" ELSE "EOK"

config_access_check(md, flags, uid, gid, mode, mask) ==
    IF md = NULL \/ flags \cap ACCESS_FLAGS = {} THEN "EINVAL"
    ELSE IF "MODE" \in flags /\ Masked(mode, mask) # Masked(md.PERM, mask) THEN "EACCES"
    ELSE IF "UID" \in flags /\ check_id(md, "UID", uid) # "EOK" THEN check_id(md, "UID", uid)
    ELSE IF "GID" \in flags THEN check_id(md, "GID", gid)
    ELSE "EOK"

\* Mutant: the device is not compared.
config_changed_device(md, saved, answer) ==
    LET keys == {"MODIFIED", "INODE"}
    IN  IF md = NULL \/ saved = NULL THEN "EINVAL"
        ELSE IF \E k \in keys : NoValue(md, k) \/ NoValue(saved, k) THEN "EINVAL"
        ELSE IF \E k \in keys : get_checked_value(md, k) # get_checked_value(saved, k) THEN "changed"
        ELSE answer

\* The keys in the order they are compared; the answer is not set when they agree.
config_changed(md, saved, answer) ==
    IF md = NULL \/ saved = NULL THEN "EINVAL"
    ELSE LET keys == <<"MODIFIED", "DEV", "INODE">>
             bad == {k \in 1..3 : NoValue(md, keys[k]) \/ NoValue(saved, keys[k])}
             new == {k \in 1..3 : get_checked_value(md, keys[k]) # get_checked_value(saved, keys[k])}
         IN  IF bad \cup new = {} THEN answer
             ELSE IF \E k \in bad : \A j \in new : k <= j THEN "EINVAL" ELSE "changed"
-----------------------------------------------------------------------------
(* The rest of the application, and other processes.                       *)

\* The stream of an object read from an empty file has a descriptor that was
\* closed: the next file the application opens gets its number.
AppOpens ==
    /\ call.pc = "idle" /\ app = "none" /\ ctx # NULL /\ ctx.file = "stale" /\ app' = "reused"
    /\ UNCHANGED <<disk, ctx, old, call, ret, touched, cut, behind, calls, others>>

BeingRead(n) == call.pc = "convert" /\ call.name = n

Other(n, f) ==
    /\ others < MaxOthers /\ others' = others + 1
    /\ disk' = [disk EXCEPT ![n] = f]
    /\ touched' = touched \cup {n}
    /\ cut' = (cut \/ (BeingRead(n) /\ Len(f.bytes) < Len(disk[n].bytes)))
    /\ behind' = (behind \/ (ctx # NULL /\ n = ctx.name) \/ (call.pc # "idle" /\ n = call.name))
    /\ UNCHANGED <<ctx, old, call, ret, app, calls>>

\* What others do is seen when it is done to the file that a call is about to use,
\* or was using.  Between calls a file may be replaced too.
Concerns(n) == call.pc # "idle" /\ n = call.name

\* Another process empties a file before it writes it, or writes it.
OtherWrites(n, bytes) ==
    /\ Concerns(n) /\ Exists(n) /\ bytes # disk[n].bytes
    /\ \E t \in Times(disk[n]) : Other(n, Stamped(disk[n], bytes, t))

OtherCreates(n, bytes) == Concerns(n) /\ ~Exists(n) /\ Other(n, [NewFile(n, {"r"}) EXCEPT !.bytes = bytes])

OtherChanges(n, mode) == Concerns(n) /\ Exists(n) /\ mode # disk[n].mode /\ Other(n, [disk[n] EXCEPT !.mode = mode])

\* Another file takes the place of one between calls, from an editor or with a file
\* system that is mounted: another inode, or the same number on another device.
OtherReplaces(n, dev) ==
    /\ call.pc = "idle" /\ ctx # NULL /\ ctx.name = n /\ Exists(n)
    /\ disk[n].ino = 1 /\ disk[n].dev = Home
    /\ Other(n, [disk[n] EXCEPT !.dev = dev, !.ino = IF dev = Home THEN 2 ELSE 1])
-----------------------------------------------------------------------------
Init ==
    /\ \E first \in InitFiles :
          disk = [n \in AllNames |-> IF n \notin Taken THEN NoFile
                     ELSE [NewFile(n, {"r", "w"}) EXCEPT
                              !.bytes = IF n \in Opened THEN first ELSE <<97>>,
                              !.mtime = IF n \in Opened THEN InitTime ELSE 0,
                              !.uid = IF n \in Foreign THEN Me + 1 ELSE Me]]
    /\ ctx = NULL /\ old = NULL /\ call = NoCall /\ ret = NULL /\ app = "none"
    /\ touched = {} /\ cut = FALSE /\ behind = FALSE /\ calls = 0 /\ others = 0

\* Modes are of permission bits, a time stamp fits the number that the metadata
\* keeps it in, and a pointer to metadata is not the NULL pointer.
ASSUME FileAssumption ==
    /\ Opened \subseteq Names /\ Backups \in Seq(ToSet(Backups))
    /\ Modes \subseteq SUBSET PERMS
    /\ \A a \in Accesses \cup BackupAccesses : a # NULL => a.mode \subseteq PERMS
    /\ InitTime \in -1..(ULONG - 2) /\ Devices \subseteq Nat
    /\ NULL \notin [UID : Nat, GID : Nat, PERM : SUBSET (PERMS \cup {"reg"}), MODIFIED : Int,
                    NAME : AllNames, DEV : Nat, INODE : Nat]

Step == \/ fopen \/ common_file_convert \/ ReadFails
        \/ WritePermissions \/ CheckNewFile \/ open_new_file \/ write_to_file

Next ==
    \/ Step
    \/ \E n \in Opened, meta \in BOOLEAN : ini_config_file_open(n, meta)
    \/ \E bytes \in MemTexts : ini_config_file_from_mem(bytes)
    \/ ini_config_file_reopen \/ ini_config_file_close \/ ini_config_file_destroy
    \/ \E a \in Accesses, text \in Configs : ini_config_save(a, text)
    \/ \E n \in Names \ Opened, a \in Accesses, text \in Configs : ini_config_save_as(n, a, text)
    \/ \E tpl \in Templates, a \in BackupAccesses, max \in 0..Len(Backups) : ini_config_file_backup(tpl, a, max)
    \/ \E a \in Accesses : ini_config_change_access(a)
    \/ \E b \in NewBoms : ini_config_set_bom(b)
    \/ AppOpens
    \/ \E n \in Names : OtherWrites(n, <<>>) \/ OtherWrites(n, <<97, 97>>)
    \/ \E n \in Names, dev \in Devices : OtherReplaces(n, dev)
    \/ \E n \in ToSet(Backups) : OtherCreates(n, <<97>>)
    \/ \E n \in AllNames, mode \in Modes : OtherChanges(n, mode)

\* A call that was made goes on until it returns: it waits for nobody.
Spec == Init /\ [][Next]_vars /\ WF_vars(Step)
-----------------------------------------------------------------------------
(* Reading a file that nobody changes meanwhile gives its text in UTF-8    *)
(* and the encoding it has, whatever chunk a character or the mark is cut  *)
(* by, and only fails if a system call does: common_file_convert           *)
(* (ini_fileobj.c:226).                                                    *)
Utf8(text) == Encoded(NOBOM, text)
Holds(bytes, bom, text) == bytes = Mark(bom) \o Encoded(bom, text)

DecodeMeans ==
    /\ ret # NULL /\ Reads(ret.op) /\ ret.pc # "EIO"
    /\ ret.seen \notin {NULL, <<>>} /\ ret.name \notin touched
    =>
        \A e \in Boms, t \in Texts :
            Holds(ret.seen, e, t) => ret.pc = "EOK" /\ ctx.data = Utf8(t) /\ ini_config_get_bom(ctx) = e

(* After a save that succeeds and that nobody disturbed, the file has the  *)
(* mark and the text of the configuration in the encoding of the object,   *)
(* and the object has the same text: write_to_file, then common_file_init  *)
(* (ini_fileobj.c:1342).                                                   *)
SavedIsRead ==
    (ret # NULL /\ ret.op = "save" /\ ret.pc = "EOK" /\ ret.name \notin touched) =>
        /\ ctx.name = ret.name /\ ctx.data = ret.text /\ ctx.bom = ret.bom
        /\ \E t \in Texts : Utf8(t) = ret.text /\ Holds(disk[ret.name].bytes, ret.bom, t)

(* The stats of an object are those of its file, unless another process    *)
(* changed the file or a call on it failed half way: the access checks of  *)
(* ini_config_access_check use them (ini_fileobj.c:1560).                  *)
StatsCurrent ==
    (call.pc = "idle" /\ ctx # NULL /\ ctx.stats # NULL /\ ~behind) =>
        ini_config_get_stat(ctx) = Stat(disk[ini_config_get_filename(ctx)])

(* A backup that succeeds has the bytes the object was read from, under    *)
(* the first name that was free, and fails with EEXIST only when all names *)
(* up to the limit are taken: ini_config_file_backup (ini_fileobj.c:1183). *)
BackupMeans ==
    (ret # NULL /\ ret.op = "backup" /\ ret.name # NULL /\ touched = {}) =>
        /\ ret.pc = "EOK" =>
             /\ \A j \in 1..(ret.i - 1) : Exists(Backups[j])
             /\ \A t \in Texts : ctx.data = Utf8(t) => Holds(disk[ret.name].bytes, ctx.bom, t)
        /\ ret.pc = "EEXIST" => \A j \in 1..ret.max : Exists(Backups[j])

(* A backup never changes a file that was there before it, except one that *)
(* another process makes between the check of the name and the creation of *)
(* the file: open_new_file (ini_fileobj.c:809).                            *)
BackupKeeps ==
    [][\A n \in AllNames :
          (call.op = "backup" /\ Exists(n) /\ disk'[n] # disk[n] /\ others' = others)
              => n \in touched \/ (n = call.name /\ call.pc = "write")]_vars

\* Stats whose time and device the metadata can answer for.
Answers(stats) == stats.mtime # -1 /\ stats.dev < ULONG - 1

(* A reader that collects the metadata of a file now gets the same answers *)
(* from it as from the file object with the stats that it keeps, for a     *)
(* user and a group that are the file's or others and for every mode, and  *)
(* when it compares the metadata with those from before the object was     *)
(* reopened; unless the file changed behind the object, its device is no   *)
(* unsigned long, or a number is the one that stands for no answer:        *)
(* collect_metadata, config_access_check and config_changed                *)
(* (ini_metadata.c:96, 317, 464).                                          *)
MetadataAgrees ==
    (call.pc = "idle" /\ ctx # NULL /\ ctx.stats # NULL /\ ~behind) =>
        LET now == collect_metadata(Stat(disk[ctx.name]), ctx.name)
            before == collect_metadata(old, ctx.name)
        IN  /\ now.error = "EOK" =>
                 \A flags \in SUBSET ACCESS_FLAGS, uid, gid \in {1, 2},
                    mode \in SUBSET PERMS, mask \in SUBSET PERMS :
                    config_access_check(now.metadata, flags, uid, gid, mode, mask) =
                    ini_config_access_check(ctx, flags, uid, gid, mode, mask)
            /\ (old # NULL /\ Answers(old) /\ Answers(ctx.stats)) =>
                 config_changed(now.metadata, before.metadata, "same") = ini_config_changed(ctx.stats, old)

(* Every call returns, unless the file it reads is shortened meanwhile:    *)
(* read_chunk takes the end of the file for success (ini_fileobj.c:136).   *)
Returns == [](call.pc # "idle" => <>(call.pc = "idle" \/ cut))

(* What is written, by a save or for a backup, is what was to be written.  *)
WritesMean == SavedIsRead /\ BackupMeans
=============================================================================
