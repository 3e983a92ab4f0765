----------------------------- MODULE Persistence -----------------------------
(***************************************************************************)
(* The two files that Tealis keeps (tealis.go): the append-only file, to   *)
(* which ProcessCommand appends every command before it executes it and    *)
(* which AOF REWRITE replaces, and the snapshot, which SAVE, BGSAVE and    *)
(* the scheduler write and RESTORE reads.  The process may crash between   *)
(* any two steps; it starts again with the files it finds.                 *)
(*                                                                         *)
(* A file is an inode that the directory names and that descriptors refer  *)
(* to: os.Rename changes what the name refers to and no descriptor.  A     *)
(* line of a file is a command or a hole, left by a write at an offset     *)
(* behind the end.                                                         *)
(***************************************************************************)
EXTENDS Naturals, SequencesExt, RWMutex

CONSTANTS
    Keys,           \* the keys
    Kinds,          \* the Go types of the values
    Clients,        \* the goroutines of the connections
    Savers,         \* the goroutines of BGSAVE and of the scheduler
    Inodes,         \* the files the disk can hold
    MaxCalls,       \* bound of the model: per client and operation, how many
                    \* commands it has sent at most before it sends this one
    MaxCrashes,     \* bound of the model: the crashes
    NoEntry,        \* the entry of a key that is not in Store
    NoFile,         \* a name without a file
    NoImage,        \* there is no snapshot
    Torn,           \* a snapshot file that is empty or incomplete
    Hole            \* the zeros of a sparse file

VARIABLES
    store,          \* Tealis.Store
    files,          \* the contents of the append-only files
    aofPath,        \* the inode named aof.txt
    tempPath,       \* the inode named aof_rewrite.tmp, or NoFile
    aofFile,        \* Tealis.AofFile: the inode it refers to
    snapshot,       \* the contents of text.json
    snapshotMutex,  \* the goroutine that holds Tealis.snapshotMutex, or NoProc
    pc,             \* where each goroutine is
    cmd,            \* the command of each client
    todo,           \* the keys a goroutine has still to write out
    image,          \* the state a saver or a restorer has in memory
    fd,             \* the inode a rewriter writes to
    offset,         \* how many lines a rewriter has written
    calls,          \* how many commands each client has sent
    crashes,        \* how many crashes there have been
    basis           \* the store that the last save that began set out to write

fileVars == <<files, aofPath, tempPath, aofFile>>
snapshotVars == <<snapshot, snapshotMutex, image, basis>>
rewriteVars == <<fd, offset>>
procVars == <<pc, cmd, todo>>
vars == <<store, fileVars, snapshotVars, rewriteVars, procVars, calls, crashes, mutexVars>>

(***************************************************************************)
(* The types.  A "list" is a []string and an "array" the []interface{}     *)
(* that encoding/json makes of it; "set", "hash" and "zset" stand for the  *)
(* maps and the pointers, and "nan" for a value that JSON cannot encode.   *)
(***************************************************************************)
DecodedKind(kind) == CASE kind = "list" -> "array"
                       [] kind \in {"set", "zset"} -> "hash"
                       [] OTHER -> kind

Encodable(kind) == kind # "nan"
Rewritable(kind) == kind \in {"string", "array"}

Entries == [kind : Kinds, by : Clients]
States == [Keys -> Entries \cup {NoEntry}]
Commands == [op : {"WRITE"}, key : Keys, entry : Entries] \cup [op : {"DEL"}, key : Keys, by : Clients]
               \cup [op : {"SAVE", "RESTORE", "REWRITE"}]
Operations == {"WRITE", "DEL", "SAVE", "RESTORE", "REWRITE"}
Lines == Commands \cup {Hole}

ASSUME PersistenceProcs == Procs = Clients \cup Savers /\ Clients \cap Savers = {}
ASSUME KindsAssumption ==
    /\ Kinds \subseteq {"string", "list", "array", "set", "hash", "zset", "nan"}
    /\ \A kind \in Kinds : DecodedKind(kind) \in Kinds
ASSUME BoundsAssumption == MaxCalls \in [Clients -> [Operations -> Nat]] /\ MaxCrashes \in Nat
ASSUME NullsAssumption == /\ NoEntry \notin Entries /\ NoFile \notin Inodes /\ Hole \notin Commands
                          /\ NoImage \notin States /\ Torn \notin States /\ NoImage # Torn

Empty == [k \in Keys |-> NoEntry]
Present(s) == {k \in Keys : s[k] # NoEntry}

(* What is left of a state after it was encoded and decoded.               *)
Decoded(s) == [k \in Keys |-> IF s[k] = NoEntry THEN NoEntry
                              ELSE [s[k] EXCEPT !.kind = DecodedKind(@)]]

Init == /\ store = Empty
        /\ \E i \in Inodes : aofPath = i /\ aofFile = i
        /\ files = [i \in Inodes |-> <<>>]
        /\ tempPath = NoFile
        /\ snapshot = NoImage /\ snapshotMutex = NoProc /\ basis = Empty
        /\ pc = [p \in Procs |-> "idle"]
        /\ cmd = [c \in Clients |-> [op |-> "SAVE"]]
        /\ todo = [p \in Procs |-> {}]
        /\ image = [p \in Procs |-> Empty]
        /\ fd = [c \in Clients |-> NoFile]
        /\ offset = [c \in Clients |-> 0]
        /\ calls = [c \in Clients |-> 0]
        /\ crashes = 0
        /\ MutexInit

Goto(p, label) == pc' = [pc EXCEPT ![p] = label]
-----------------------------------------------------------------------------
(* Mutant: only what writes a value is recorded.                           *)
AppendToAOFWrites(m) == files' = IF m.op = "WRITE"
                                 THEN [files EXCEPT ![aofFile] = Append(@, m)]
                                 ELSE files

(***************************************************************************)
(* The command goes to the file before it is executed, without a lock, and *)
(* whatever it is.                                                         *)
(***************************************************************************)
AppendToAOF(m) == files' = [files EXCEPT ![aofFile] = Append(@, m)]

Call(c, m, label) == /\ pc[c] = "idle"
                     /\ calls[c] < MaxCalls[c][m.op]
                     /\ calls' = [calls EXCEPT ![c] = @ + 1]
                     /\ AppendToAOF(m)
                     /\ cmd' = [cmd EXCEPT ![c] = m]
                     /\ Goto(c, label)
                     /\ UNCHANGED <<store, aofPath, tempPath, aofFile, snapshotVars,
                                    rewriteVars, todo, crashes>>

CallUpdate(c) == /\ \E k \in Keys :
                       \/ Call(c, [op |-> "DEL", key |-> k, by |-> c], "update")
                       \/ \E kind \in Kinds \ {"array"} :
                             Call(c, [op |-> "WRITE", key |-> k,
                                      entry |-> [kind |-> kind, by |-> c]], "update")
                 /\ UNCHANGED mutexVars

CallSave(c) == Call(c, [op |-> "SAVE"], "save") /\ UNCHANGED mutexVars

CallRestore(c) == Call(c, [op |-> "RESTORE"], "restore") /\ UNCHANGED mutexVars

CallRewrite(c) == Call(c, [op |-> "REWRITE"], "rewrite") /\ RLock(c)

(* BGSAVE, or five minutes are over.                                       *)
WakeSaver(p) == /\ p \in Savers
                /\ pc[p] = "idle"
                /\ Goto(p, "save")
                /\ UNCHANGED <<store, fileVars, snapshotVars, rewriteVars, cmd, todo,
                               calls, crashes, mutexVars>>

Lock(p) == /\ pc[p] \in {"update", "install"}
           /\ Announce(p)
           /\ UNCHANGED <<store, fileVars, snapshotVars, rewriteVars, procVars,
                          calls, crashes>>

(* What a command that changes a key leaves of it.                         *)
Effect(m) == IF m.op = "DEL" THEN NoEntry ELSE m.entry

(* Any command that writes or deletes a key; Keyspace has the details.     *)
Update(c) == LET m == cmd[c]
             IN  /\ pc[c] = "update"
                 /\ WriteReady(c)
                 /\ store' = [store EXCEPT ![m.key] = Effect(m)]
                 /\ Unlock
                 /\ Goto(c, "idle")
                 /\ UNCHANGED <<fileVars, snapshotVars, rewriteVars, cmd, todo, calls, crashes>>
-----------------------------------------------------------------------------
(***************************************************************************)
(* SaveSnapshot.  os.Create empties the old file; the state is encoded in  *)
(* memory, key by key, and then written.  An encoding error leaves the     *)
(* file as os.Create made it.                                              *)
(***************************************************************************)
SaveBegin(p) == /\ pc[p] = "save"
                /\ snapshotMutex = NoProc
                /\ snapshotMutex' = p
                /\ RLock(p)
                /\ Goto(p, "create")
                /\ UNCHANGED <<store, fileVars, snapshot, image, basis, rewriteVars, cmd,
                               todo, calls, crashes>>

(* Mutant: the old snapshot is not emptied.                                *)
SaveCreateKeeps(p) == /\ pc[p] = "create"
                      /\ p \in active
                      /\ basis' = store
                      /\ image' = [image EXCEPT ![p] = Empty]
                      /\ todo' = [todo EXCEPT ![p] = Keys]
                      /\ Goto(p, "encode")
                      /\ UNCHANGED <<store, fileVars, snapshot, snapshotMutex, rewriteVars, cmd,
                                     calls, crashes, mutexVars>>

SaveCreate(p) == /\ pc[p] = "create"
                 /\ p \in active
                 /\ snapshot' = Torn
                 /\ basis' = store
                 /\ image' = [image EXCEPT ![p] = Empty]
                 /\ todo' = [todo EXCEPT ![p] = Keys]
                 /\ Goto(p, "encode")
                 /\ UNCHANGED <<store, fileVars, snapshotMutex, rewriteVars, cmd, calls,
                                crashes, mutexVars>>

SaveEncode(p) ==
    /\ pc[p] = "encode"
    /\ \E k \in todo[p] :
          /\ k \in Present(store) => Encodable(store[k].kind)
          /\ image' = [image EXCEPT ![p][k] = store[k]]
          /\ todo' = [todo EXCEPT ![p] = @ \ {k}]
    /\ UNCHANGED <<store, fileVars, snapshot, snapshotMutex, basis, rewriteVars, pc, cmd,
                   calls, crashes, mutexVars>>

SaveEnd(p) == /\ snapshotMutex' = NoProc
              /\ RUnlock(p)
              /\ todo' = [todo EXCEPT ![p] = {}]
              /\ image' = [image EXCEPT ![p] = Empty]
              /\ Goto(p, "idle")
              /\ UNCHANGED <<store, fileVars, basis, rewriteVars, cmd, calls, crashes>>

SaveWrite(p) == /\ pc[p] = "encode"
                /\ todo[p] = {}
                /\ snapshot' = image[p]
                /\ SaveEnd(p)

(* Mutant: an encoding error returns without the locks being released.     *)
SaveFailsLocked(p) == /\ pc[p] = "encode"
                      /\ \E k \in todo[p] \cap Present(store) : ~ Encodable(store[k].kind)
                      /\ todo' = [todo EXCEPT ![p] = {}]
                      /\ image' = [image EXCEPT ![p] = Empty]
                      /\ Goto(p, "idle")
                      /\ UNCHANGED <<store, fileVars, snapshot, snapshotMutex, basis,
                                     rewriteVars, cmd, calls, crashes, mutexVars>>

SaveFails(p) == /\ pc[p] = "encode"
                /\ \E k \in todo[p] \cap Present(store) : ~ Encodable(store[k].kind)
                /\ UNCHANGED snapshot
                /\ SaveEnd(p)

(* Mutant: RESTORE lets go of snapshotMutex once it has read the file.     *)
RestoreReadReleases(c) ==
    /\ pc[c] = "restore"
    /\ snapshotMutex = NoProc
    /\ snapshot \notin {NoImage, Torn}
    /\ image' = [image EXCEPT ![c] = Decoded(snapshot)]
    /\ Goto(c, "install")
    /\ UNCHANGED <<store, fileVars, snapshot, snapshotMutex, basis, rewriteVars, cmd, todo,
                   calls, crashes, mutexVars>>

(***************************************************************************)
(* LoadSnapshot reads the file, if it is there and complete, before it     *)
(* asks for the lock of the store.                                         *)
(***************************************************************************)
RestoreRead(c) ==
    /\ pc[c] = "restore"
    /\ snapshotMutex = NoProc
    /\ IF snapshot \in {NoImage, Torn}
       THEN Goto(c, "idle") /\ UNCHANGED <<image, snapshotMutex>>
       ELSE /\ image' = [image EXCEPT ![c] = Decoded(snapshot)]
            /\ snapshotMutex' = c
            /\ Goto(c, "install")
    /\ UNCHANGED <<store, fileVars, snapshot, basis, rewriteVars, cmd, todo, calls, crashes,
                   mutexVars>>

RestoreInstall(c) == /\ pc[c] = "install"
                     /\ WriteReady(c)
                     /\ store' = image[c]
                     /\ Unlock
                     /\ snapshotMutex' = NoProc
                     /\ image' = [image EXCEPT ![c] = Empty]
                     /\ Goto(c, "idle")
                     /\ UNCHANGED <<fileVars, snapshot, basis, rewriteVars, cmd, todo, calls,
                                    crashes>>
-----------------------------------------------------------------------------
(***************************************************************************)
(* os.Create: the file of that name is emptied, or there is a new one.     *)
(***************************************************************************)
TempInode == IF tempPath # NoFile THEN {tempPath}
             ELSE Inodes \ ({aofPath, aofFile} \cup {fd[d] : d \in Clients})

(* Mutant: the temporary file keeps what an earlier rewrite left in it.    *)
CreateTempKeeps(c) == \E i \in TempInode : /\ tempPath' = i
                                           /\ fd' = [fd EXCEPT ![c] = i]
                                           /\ UNCHANGED files

CreateTemp(c) == \E i \in TempInode : /\ tempPath' = i
                                      /\ fd' = [fd EXCEPT ![c] = i]
                                      /\ files' = [files EXCEPT ![i] = <<>>]

RewriteOpen(c) == /\ pc[c] = "rewrite"
                  /\ c \in active
                  /\ CreateTemp(c)
                  /\ offset' = [offset EXCEPT ![c] = 0]
                  /\ todo' = [todo EXCEPT ![c] = Present(store)]
                  /\ Goto(c, "rewriting")
                  /\ UNCHANGED <<store, aofPath, aofFile, snapshotVars, cmd, calls,
                                 crashes, mutexVars>>

(* A write through a descriptor goes where its offset is.                  *)
PutAt(f, n, line) == [i \in 1 .. (IF n > Len(f) THEN n ELSE Len(f)) |->
                         IF i = n THEN line
                         ELSE IF i <= Len(f) THEN f[i] ELSE Hole]

(* The line that makes a key what it is.                                   *)
Record(k) == [op |-> "WRITE", key |-> k, entry |-> store[k]]

RewriteKey(c) ==
    /\ pc[c] = "rewriting"
    /\ \E k \in todo[c] :
          /\ Rewritable(store[k].kind)
          /\ files' = [files EXCEPT ![fd[c]] = PutAt(@, offset[c] + 1, Record(k))]
          /\ todo' = [todo EXCEPT ![c] = @ \ {k}]
    /\ offset' = [offset EXCEPT ![c] = @ + 1]
    /\ UNCHANGED <<store, aofPath, tempPath, aofFile, snapshotVars, fd, pc, cmd, calls,
                   crashes, mutexVars>>

RewriteEnd(c) == /\ RUnlock(c)
                 /\ todo' = [todo EXCEPT ![c] = {}]
                 /\ fd' = [fd EXCEPT ![c] = NoFile]
                 /\ offset' = [offset EXCEPT ![c] = 0]
                 /\ Goto(c, "idle")
                 /\ UNCHANGED <<store, files, aofFile, snapshotVars, cmd, calls, crashes>>

(* A value of another type ends the rewrite; the temporary file stays.     *)
RewriteFails(c) == /\ pc[c] = "rewriting"
                   /\ \E k \in todo[c] : ~ Rewritable(store[k].kind)
                   /\ UNCHANGED <<aofPath, tempPath>>
                   /\ RewriteEnd(c)

(* The rename fails when someone else has renamed the temporary file.      *)
RewriteRename(c) == /\ pc[c] = "rewriting"
                    /\ todo[c] = {}
                    /\ aofPath' = IF tempPath = NoFile THEN aofPath ELSE tempPath
                    /\ tempPath' = NoFile
                    /\ RewriteEnd(c)
-----------------------------------------------------------------------------
(***************************************************************************)
(* The process dies and starts again: NewTealis opens aof.txt, and loadAOF *)
(* reads its commands and drops them.                                      *)
(***************************************************************************)
Crash == /\ crashes < MaxCrashes
         /\ crashes' = crashes + 1
         /\ store' = Empty
         /\ aofFile' = aofPath
         /\ snapshotMutex' = NoProc
         /\ pc' = [p \in Procs |-> "idle"]
         /\ todo' = [p \in Procs |-> {}]
         /\ image' = [p \in Procs |-> Empty]
         /\ fd' = [c \in Clients |-> NoFile]
         /\ offset' = [c \in Clients |-> 0]
         /\ active' = {} /\ blocked' = {} /\ writer' = NoProc
         /\ UNCHANGED <<files, aofPath, tempPath, snapshot, basis, cmd, calls>>

Save(p) == SaveBegin(p) \/ SaveCreate(p) \/ SaveEncode(p) \/ SaveWrite(p) \/ SaveFails(p)

Restore(c) == RestoreRead(c) \/ RestoreInstall(c)

Rewrite(c) == RewriteOpen(c) \/ RewriteKey(c) \/ RewriteFails(c) \/ RewriteRename(c)

Next == \/ \E c \in Clients : \/ CallUpdate(c) \/ CallSave(c)
                              \/ CallRestore(c) \/ CallRewrite(c)
                              \/ Update(c) \/ Restore(c) \/ Rewrite(c)
        \/ \E p \in Procs : WakeSaver(p) \/ Lock(p) \/ Save(p)
        \/ Crash

Spec == Init /\ [][Next]_vars

-----------------------------------------------------------------------------
(***************************************************************************)
(* Whatever fails in a save, a restore or a rewrite, a goroutine that is   *)
(* done with it has left both locks (tealis.go:290-293, 328-343); every    *)
(* other goroutine would wait for it.                                      *)
(***************************************************************************)
IdleHoldsNothing ==
    \A p \in Procs : pc[p] = "idle" =>
        p \notin active \cup blocked /\ p # writer /\ p # snapshotMutex

Types ==
    /\ store \in States
    /\ files \in [Inodes -> Seq(Lines)]
    /\ aofPath \in Inodes /\ aofFile \in Inodes /\ tempPath \in Inodes \cup {NoFile}
    /\ snapshot \in States \cup {NoImage, Torn}
    /\ snapshotMutex \in Procs \cup {NoProc}
    /\ pc \in [Procs -> {"idle", "update", "save", "create", "encode", "restore", "install",
                         "rewrite", "rewriting"}]
    /\ cmd \in [Clients -> Commands]
    /\ todo \in [Procs -> SUBSET Keys]
    /\ image \in [Procs -> States]
    /\ fd \in [Clients -> Inodes \cup {NoFile}]
    /\ offset \in [Clients -> Nat]
    /\ calls \in [Clients -> Nat]
    /\ crashes \in 0 .. MaxCrashes
    /\ basis \in States
    /\ MutexTypeOK

(* The types, and the locks of the goroutines that wait for a command.     *)
TypeOK == Types /\ IdleHoldsNothing

(***************************************************************************)
(* A snapshot that can be read is the store of one moment: the one at      *)
(* which the last save began.  It mixes no two states, and no crash and no *)
(* error leaves an older one behind (tealis.go:308-321).                   *)
(***************************************************************************)
SnapshotOfOneMoment == snapshot \notin {NoImage, Torn} => snapshot = basis

(***************************************************************************)
(* What makes this inductive: who shares Mu and who waits for it; that     *)
(* snapshotMutex belongs to whoever is between the first and the last step *)
(* of a save, or between the reading and the installation of a snapshot;   *)
(* and that a save has encoded what is in the store, which nobody changes  *)
(* meanwhile.                                                              *)
(***************************************************************************)
LockInv ==
    /\ \A p \in active : pc[p] \in {"create", "encode", "rewrite", "rewriting"}
    /\ \A p \in blocked : /\ pc[p] \in {"create", "rewrite"}
                          /\ p \notin active /\ writer # NoProc
    /\ \A p \in Procs : /\ pc[p] \in {"create", "rewrite"} => p \in active \cup blocked
                        /\ pc[p] \in {"encode", "rewriting"} => p \in active
    /\ writer # NoProc => pc[writer] \in {"update", "install"}

SnapshotMutexInv ==
    \A p \in Procs : (snapshotMutex = p) <=> (pc[p] \in {"create", "encode", "install"})

(* Who executes a command has been told which, and a rewriter has a file   *)
(* and writes out what is there.                                           *)
CommandInv ==
    \A p \in Procs :
        /\ pc[p] \in {"update", "restore", "install", "rewrite", "rewriting"} => p \in Clients
        /\ pc[p] = "update" => cmd[p].op \in {"WRITE", "DEL"}
        /\ pc[p] = "rewriting" => fd[p] \in Inodes /\ todo[p] \subseteq Present(store)

EncodeInv ==
    \A p \in Procs :
        pc[p] = "encode" => /\ snapshot = Torn /\ basis = store
                            /\ \A k \in Keys \ todo[p] : image[p][k] = store[k]

InstallInv ==
    \A p \in Procs :
        pc[p] = "install" => snapshot \notin {NoImage, Torn} /\ image[p] = Decoded(snapshot)

(***************************************************************************)
(* The file that takes the commands is not the one that a rewrite is       *)
(* writing to, and neither is the one that a restart would open.           *)
(***************************************************************************)
FilesApart ==
    /\ tempPath \notin {aofPath, aofFile}
    /\ \A c \in Clients : fd[c] # aofFile

(* The lines by which a client has changed a key, in the file in use.      *)
IsChange(m) == m # Hole /\ m.op \in {"WRITE", "DEL"}

ClientOf(m) == IF m.op = "WRITE" THEN m.entry.by ELSE m.by

ChangesBy(c, k) ==
    {i \in DOMAIN files[aofFile] :
        LET m == files[aofFile][i] IN IsChange(m) /\ m.key = k /\ ClientOf(m) = c}

(* A line that is recorded and not yet executed: the last of its client.   *)
Awaits(c, i) ==
    /\ pc[c] = "update"
    /\ i \in ChangesBy(c, cmd[c].key) /\ files[aofFile][i] = cmd[c]
    /\ \A k \in Keys : \A j \in ChangesBy(c, k) : j <= i

Restored == \E i \in DOMAIN files[aofFile] :
                files[aofFile][i] # Hole /\ files[aofFile][i].op = "RESTORE"

(***************************************************************************)
(* Until the first crash and the first RESTORE, a key holds what some line *)
(* of a client made of it, and what that client has recorded for the key   *)
(* since then is what it still waits to execute.                           *)
(***************************************************************************)
RecordedInv ==
    crashes = 0 =>
        /\ \A c \in Clients :
              /\ pc[c] = "update" => \E i \in DOMAIN files[aofFile] : Awaits(c, i)
              /\ pc[c] \in {"restore", "install"} => Restored
        /\ ~ Restored => \A k \in Keys :
              \/ /\ store[k] = NoEntry
                 /\ \A c \in Clients : \A i \in ChangesBy(c, k) : Awaits(c, i)
              \/ \E c \in Clients : \E i \in ChangesBy(c, k) :
                    /\ store[k] = Effect(files[aofFile][i])
                    /\ \A j \in ChangesBy(c, k) : j > i => Awaits(c, j)

(***************************************************************************)
(* Every line of a file stands for a key of the store as it is now, or is a*)
(* hole; and a file of which these are the only lines, one for each of ks. *)
(***************************************************************************)
Current(f) == \A i \in DOMAIN f : f[i] = Hole \/ \E k \in Present(store) : f[i] = Record(k)

Records(f, ks) ==
    /\ \A i \in DOMAIN f : \E k \in ks : f[i] = Record(k)
    /\ \A k \in ks : \E i \in DOMAIN f : f[i].key = k
    /\ \A i, j \in DOMAIN f : f[i].key = f[j].key => i = j

(***************************************************************************)
(* Rewriters share a read lock and the temporary file.  What any of them   *)
(* writes is current.  One that is alone has written each key it is done   *)
(* with once and nothing else: another one that was there before has taken *)
(* the name of the file away, or has met a value that ends every rewrite.  *)
(***************************************************************************)
AloneIn(c) == \A d \in Clients : pc[d] = "rewriting" => d = c

DoneIsRewritable ==
    \A c \in Clients : pc[c] = "rewriting" =>
        \A k \in Present(store) \ todo[c] : Rewritable(store[k].kind)

TempIsCurrent ==
    tempPath # NoFile /\ (\E c \in Clients : pc[c] = "rewriting") => Current(files[tempPath])

AloneIsWhole ==
    \A c \in Clients :
        /\ pc[c] = "rewriting" /\ AloneIn(c) /\ tempPath # NoFile
        /\ \A k \in Present(store) : Rewritable(store[k].kind)
        => /\ fd[c] = tempPath /\ offset[c] = Len(files[tempPath])
           /\ Records(files[tempPath], Present(store) \ todo[c])

RewriteInv == DoneIsRewritable /\ TempIsCurrent /\ AloneIsWhole

IInv == /\ TypeOK /\ LockInv /\ SnapshotMutexInv /\ CommandInv
        /\ EncodeInv /\ InstallInv /\ SnapshotOfOneMoment
        /\ FilesApart /\ RecordedInv /\ RewriteInv

(***************************************************************************)
(* A RESTORE installs the snapshot that is on the disk when it does, read  *)
(* in full: no save begins between the reading and the installation        *)
(* (tealis.go:328-348).                                                    *)
(***************************************************************************)
RestoreInstallsSnapshot ==
    [][\A c \in Clients :
          pc[c] = "install" /\ pc'[c] = "idle" /\ crashes' = crashes
             => snapshot \notin {NoImage, Torn} /\ store' = Decoded(snapshot)]_vars

(***************************************************************************)
(* What a replay of a file makes of an empty store.                        *)
(***************************************************************************)
Replayed(s, m) == IF IsChange(m) THEN [s EXCEPT ![m.key] = Effect(m)] ELSE s

Replay(f) ==
    LET replay[n \in 0 .. Len(f)] == IF n = 0 THEN Empty ELSE Replayed(replay[n - 1], f[n])
    IN replay[Len(f)]

(***************************************************************************)
(* The file that takes the name aof.txt holds no line of an earlier state, *)
(* whatever rewrites failed, were cut short by a crash or run beside this  *)
(* one.  If none runs beside it at that moment, the file is also whole:    *)
(* "only the current state", replaced at once (tealis.go:223-272).  If one *)
(* does, lines may be missing from it and holes be left in it, since both  *)
(* have emptied and written one temporary file.                            *)
(***************************************************************************)
RewriteIsCurrent ==
    [][aofPath' # aofPath =>
          /\ Current(files'[aofPath'])
          /\ (\E c \in Clients : AloneIn(c)) =>
                /\ Replay(files'[aofPath']) = store'
                /\ Len(files'[aofPath']) = Cardinality(Present(store'))]_vars

(***************************************************************************)
(* The command is recorded before and apart from its execution             *)
(* (handler.go:28), so two clients may be recorded in one order and        *)
(* executed in the other.  But that is all: what a key holds while nobody  *)
(* is at work is what the last command on it of one of the clients made of *)
(* it, in a process that has neither crashed nor restored a snapshot.      *)
(***************************************************************************)
FileExplainsStore ==
    /\ crashes = 0 /\ ~ Restored /\ \A c \in Clients : pc[c] = "idle"
    => \A k \in Keys :
          \/ store[k] = NoEntry /\ \A c \in Clients : ChangesBy(c, k) = {}
          \/ \E c \in Clients : \E i \in ChangesBy(c, k) :
                /\ \A j \in ChangesBy(c, k) : j <= i
                /\ store = Replayed(store, files[aofFile][i])
=============================================================================
