------------------------- MODULE PlayerDataStorage -----------------------
(***************************************************************************)
(* The files of the local player (src/interfaces/PlayerDataStorage.cpp).   *)
(*                                                                         *)
(* g_Files is the store; when the configuration says Persist, each change  *)
(* is repeated in a mirror on disk, and the mirror is read back once per   *)
(* process.  Reads and writes run inside Tick, in steps between which the  *)
(* lock is free: the game's data callback runs, other threads delete and   *)
(* duplicate files, and a request may be released.  The process may die at *)
(* any moment, the disk may refuse a file or run full.                     *)
(*                                                                         *)
(* One player is modelled: the table of one is never touched for another.  *)
(* A name is a sequence of characters, because the mirror keeps it encoded *)
(* and the file system of Windows, the first target, folds its letters,    *)
(* drops the dots at its end, and keeps no file under some names.          *)
(***************************************************************************)
EXTENDS Dispatcher, FiniteSets

CONSTANTS
  Names,          \* file names that the game uses
  NameMax,        \* EOS_PLAYERDATASTORAGE_FILENAME_MAX_LENGTH_BYTES
  Capital,        \* the capital of each small letter
  Devices,        \* names that are devices in every directory, in capitals
  Bytes,          \* what a byte can be
  MaxFileBytes,   \* kMaxFileBytes
  NoTransfer,     \* no transfer is running
  Absent,         \* the content of a file that does not exist
  MaxRequests,    \* bound: transfer requests of one process
  MaxFileCalls,   \* bound: the other calls
  MaxFaults       \* bound: faults of the disk and deaths of the process

RequestIds == 1..MaxRequests
Results == {"Success", "NotFound", "FilenameInvalid", "FilenameLengthInvalid",
            "FileSizeTooLarge", "UserErrorFromDataCallback", "Canceled"}

\* The transfer that Drain is running, with the bytes that the callback handed
\* over and what it said last.
Transfers ==
  [kind : {"read", "write"}, req : RequestIds, name : Names, data : Seq(Bytes),
   handed : Seq(Bytes), said : {"Continue", "Complete", "Fail", "Cancel"},
   result : Results, step : {"data", "commit", "finish"}]

ASSUME StorageAssumption ==
  /\ Names \subseteq Seq(STRING)
  /\ NameMax \in Nat /\ MaxFileBytes \in Nat
  /\ MaxRequests \in Nat /\ MaxFileCalls \in Nat /\ MaxFaults \in Nat
  /\ NoTransfer \notin Transfers

VARIABLES
  live,       \* there is a platform, hence a dispatcher
  persist,    \* PersistRoot() is not empty while there is a platform
  files,      \* g_Files of the player: contents by name
  loaded,     \* g_LoadedRoot is set
  mirror,     \* the directory on disk: contents by encoded name
  requests,   \* the PdsRequest objects with their shared_ptr counts
  registry,   \* the keys of g_Requests
  made,       \* requests made so far
  transfer,   \* the transfer that Drain is running
  saved,      \* history: what the player's last accepted change made of a file
  exposed,    \* history: files whose last change the disk was not asked to
              \* keep, or failed to
  fileCalls, faults

fileVars == <<files, loaded, mirror, saved, exposed>>
requestVars == <<requests, registry, made>>
pdsVars == <<live, persist, fileVars, requestVars, transfer, fileCalls, faults>>

NoRequest == [refs |-> 0, state |-> "Success"]

---------------------------------------------------------------------------
(* The names on disk: what is not plain becomes a percent sign and two     *)
(* digits.  Of the bytes that are not plain, two stand for all.            *)

Hex == [c \in {"%", "/"} |-> IF c = "%" THEN <<"2", "5">> ELSE <<"2", "F">>]
IsPlainChar(c) == c \notin DOMAIN Hex

MutEncodeName(name) ==
  FlattenSeq([i \in DOMAIN name |-> IF name[i] = "/" THEN <<"%">> \o Hex["/"] ELSE <<name[i]>>])

EncodeName(name) ==
  FlattenSeq([i \in DOMAIN name |->
    IF IsPlainChar(name[i]) THEN <<name[i]>> ELSE <<"%">> \o Hex[name[i]]])

\* An escape that means no byte of Hex is left as it is, which no name of the
\* mirror has.
DecodeName(encoded) ==
  LET IsEscape(i) == /\ encoded[i] = "%" /\ i + 2 <= Len(encoded)
                     /\ <<encoded[i + 1], encoded[i + 2]>> \in {Hex[c] : c \in DOMAIN Hex}
      Meant(i) == CHOOSE c \in DOMAIN Hex : Hex[c] = <<encoded[i + 1], encoded[i + 2]>>
      from[i \in 1..Len(encoded) + 3] ==
        IF i > Len(encoded) THEN <<>>
        ELSE IF IsEscape(i) THEN <<Meant(i)>> \o from[i + 3]
        ELSE <<encoded[i]>> \o from[i + 1]
  IN from[1]

Stored(f, x, content) ==
  [y \in DOMAIN f \cup {x} |-> IF y = x THEN content ELSE f[y]]
Erased(f, x) == [y \in DOMAIN f \ {x} |-> f[y]]
ContentOf(f, name) == IF name \in DOMAIN f THEN f[name] ELSE Absent

\* What another process would load for the name.
Mirrored(name) ==
  LET entries == {d \in DOMAIN mirror : DecodeName(d) = name}
  IN IF entries = {} THEN Absent ELSE mirror[CHOOSE d \in entries : TRUE]

---------------------------------------------------------------------------
(* The file system.  A directory knows a file by its name without the dots *)
(* at its end and without regard to case, and lists it as it was created.  *)

Trimmed(s) == SubSeq(s, 1, Max({0} \cup {i \in DOMAIN s : s[i] # "."}))
Folded(s) == [i \in DOMAIN s |-> IF s[i] \in DOMAIN Capital THEN Capital[s[i]] ELSE s[i]]
Key(s) == Folded(Trimmed(s))

\* Names of nothing but dots are directories.
IsFile(s) == Key(s) # <<>> /\ Key(s) \notin Devices

\* The file that an open or a remove of the name finds, or would create.
Entry(disk) ==
  LET found == {d \in DOMAIN mirror : Key(d) = Key(disk)}
  IN IF found = {} THEN Trimmed(disk) ELSE CHOOSE d \in found : TRUE

ASSUME FileSystemAssumption ==
  /\ \A n \in Names : Trimmed(n) \in Names
  /\ \A c \in DOMAIN Capital : /\ IsPlainChar(c) /\ c \notin {"2", "5", "F"}
                               /\ Capital[c] \in STRING /\ IsPlainChar(Capital[c])
  /\ Devices \subseteq Seq(STRING) /\ \A d \in Devices : EncodeName(d) = d

\* The names that the game can count on: a file, whose name no other name of
\* the game leads to.
OwnFile(name) ==
  /\ IsFile(name) /\ Trimmed(name) = name
  /\ \A n \in Names \ {name} : Key(n) # Key(name)

---------------------------------------------------------------------------
(* The mirror.  A fault of the disk is never reported: the call succeeds.  *)

Fault == faults < MaxFaults /\ faults' = faults + 1

\* LoadStoreLocked, once; a file that cannot be opened is passed over.
LoadStore(unreadable) ==
  [name \in DOMAIN files \cup {DecodeName(d) : d \in DOMAIN mirror \ unreadable} |->
     IF name \in DOMAIN files THEN files[name] ELSE Mirrored(name)]

Reload == persist /\ live /\ ~loaded

\* The store after EnsureLoadedLocked.
Store == IF Reload THEN LoadStore({}) ELSE files

\* EnsureLoadedLocked meets a file that it cannot open.
LoadFails ==
  /\ Reload
  /\ \E d \in DOMAIN mirror :
       /\ files' = LoadStore({d})
       /\ saved' = [saved EXCEPT ![DecodeName(d)] = Absent]
       /\ exposed' = exposed \cup {DecodeName(d)}
  /\ loaded' = TRUE
  /\ Fault
  /\ UNCHANGED <<mirror, live, persist, requestVars, transfer, fileCalls>>

EnsureLoaded == loaded' = (loaded \/ Reload)

\* What is not the name of a file cannot be opened for writing, or keeps
\* nothing: that is no fault of the disk.  A fault leaves the old content or a
\* part of the new one, which is also what a death in the midst leaves.
PersistWrite(name, content) ==
  LET disk == EncodeName(name) IN
  \/ /\ persist
     /\ mirror' = IF IsFile(disk) THEN Stored(mirror, Entry(disk), content) ELSE mirror
     /\ exposed' = exposed \ {name}
     /\ UNCHANGED faults
  \/ /\ persist /\ IsFile(disk) /\ Fault
     /\ \/ UNCHANGED mirror
        \/ \E k \in 0..Len(content) - 1 :
             mirror' = Stored(mirror, Entry(disk), SubSeq(content, 1, k))
     /\ exposed' = exposed \cup {name}
  \/ /\ ~persist
     /\ exposed' = exposed \cup {name}
     /\ UNCHANGED <<mirror, faults>>

PersistDelete(name) ==
  \/ /\ persist
     /\ mirror' = Erased(mirror, Entry(EncodeName(name)))
     /\ exposed' = exposed \ {name}
     /\ UNCHANGED faults
  \/ /\ persist /\ Fault
     /\ exposed' = exposed \cup {name}
     /\ UNCHANGED mirror
  \/ /\ ~persist
     /\ exposed' = exposed \cup {name}
     /\ UNCHANGED <<mirror, faults>>

---------------------------------------------------------------------------
(* The calls that act at once and report later.                            *)

FileCall == live /\ fileCalls < MaxFileCalls /\ fileCalls' = fileCalls + 1
Completion == [kind |-> "completion"]

DuplicateFile(from, to) ==
  /\ FileCall
  /\ EnsureLoaded
  /\ \/ /\ from \in DOMAIN Store
        /\ files' = Stored(Store, to, Store[from])
        /\ PersistWrite(to, Store[from])
        /\ saved' = [saved EXCEPT ![to] = saved[from]]
     \/ /\ from \notin DOMAIN Store
        /\ files' = Store
        /\ UNCHANGED <<mirror, saved, exposed, faults>>
  /\ Post(<<Completion>>)
  /\ UNCHANGED <<live, persist, requestVars, transfer, delayed, ready, draining>>

DeleteFile(name) ==
  /\ FileCall
  /\ EnsureLoaded
  /\ files' = Erased(Store, name)
  /\ IF name \in DOMAIN Store
     THEN PersistDelete(name) /\ saved' = [saved EXCEPT ![name] = Absent]
     ELSE UNCHANGED <<mirror, saved, exposed, faults>>
  /\ Post(<<Completion>>)
  /\ UNCHANGED <<live, persist, requestVars, transfer, delayed, ready, draining>>

\* QueryFile and QueryFileList read the store when they complete; DeleteCache
\* leaves the store, which is the authority, alone.
QueryFile ==
  /\ FileCall
  /\ Post(<<[kind |-> "query"]>>)
  /\ UNCHANGED <<live, persist, fileVars, requestVars, transfer, faults,
                 delayed, ready, draining>>

DeleteCache ==
  /\ FileCall
  /\ Post(<<Completion>>)
  /\ UNCHANGED <<live, persist, fileVars, requestVars, transfer, faults,
                 delayed, ready, draining>>

\* The metadata calls read the store at once, and may be the first to load it.
CopyFileMetadata ==
  /\ Reload
  /\ EnsureLoaded
  /\ files' = Store
  /\ UNCHANGED <<mirror, saved, exposed, live, persist, requestVars, transfer,
                 fileCalls, faults, dispatchVars>>

---------------------------------------------------------------------------
(* Transfers.                                                              *)

CheckFilename(name) ==
  IF name = <<>> THEN "FilenameInvalid"
  ELSE IF Len(name) > NameMax THEN "FilenameLengthInvalid" ELSE "Success"

\* NewRequest, and the closure that holds a reference of its own; without a
\* platform there is a request, and no transfer for it.
NewRequest(kind, name, hasData) ==
  LET r == made + 1 IN
  /\ made < MaxRequests
  /\ made' = r
  /\ registry' = registry \cup {r}
  /\ requests' = [requests EXCEPT ![r] = [NoRequest EXCEPT !.refs = IF live THEN 2 ELSE 1]]
  /\ IF live
     THEN Post(<<[kind |-> kind, req |-> r, name |-> name, hasData |-> hasData]>>)
     ELSE UNCHANGED pending
  /\ UNCHANGED <<live, persist, fileVars, transfer, fileCalls, faults,
                 delayed, ready, draining>>

ReadFile(name, hasData) == NewRequest("read", name, hasData)
WriteFile(name, hasData) == NewRequest("write", name, hasData)

DropReference(rs, r) == [rs EXCEPT ![r].refs = @ - 1]

\* EOS_PlayerDataStorageFileTransferRequest_Release: the registry's reference.
MutRelease(r) ==
  /\ r \in registry
  /\ registry' = registry \ {r}
  /\ requests' = [requests EXCEPT ![r].refs = 0]
  /\ UNCHANGED <<live, persist, fileVars, made, transfer, fileCalls, faults, dispatchVars>>

Release(r) ==
  /\ r \in registry
  /\ registry' = registry \ {r}
  /\ requests' = DropReference(requests, r)
  /\ UNCHANGED <<live, persist, fileVars, made, transfer, fileCalls, faults, dispatchVars>>

\* GetFileRequestState and CancelRequest change nothing; a transfer is never
\* cancelled by its request, only by its data callback.
GetFileRequestState(r) == IF r \in registry THEN requests[r].state ELSE "InvalidParameters"

\* Drain has come to a transfer.  A read copies the file under the lock; a
\* write with a bad name, or without a data callback, asks for no data.
BeginTransfer ==
  /\ Work(<<>>)
  /\ LET t == Head(ready)
         found == t.name \in DOMAIN Store IN
     /\ t.kind \in {"read", "write"}
     /\ \/ /\ t.kind = "write"
           /\ transfer' =
                [kind |-> "write", req |-> t.req, name |-> t.name, data |-> <<>>,
                 handed |-> <<>>, said |-> IF t.hasData THEN "Continue" ELSE "Complete",
                 result |-> CheckFilename(t.name),
                 step |-> IF t.hasData /\ CheckFilename(t.name) = "Success"
                          THEN "data" ELSE "commit"]
           /\ UNCHANGED <<files, loaded>>
        \/ /\ t.kind = "read"
           /\ EnsureLoaded
           /\ files' = Store
           /\ transfer' =
                [kind |-> "read", req |-> t.req, name |-> t.name,
                 data |-> IF found THEN Store[t.name] ELSE <<>>,
                 handed |-> <<>>, said |-> "Continue",
                 result |-> IF found THEN "Success" ELSE "NotFound",
                 step |-> IF found /\ t.hasData THEN "data" ELSE "finish"]
  /\ UNCHANGED <<live, persist, mirror, saved, exposed, requestVars, fileCalls, faults>>

\* The data callback takes the file of a read, and may refuse it.
TakeData(said) ==
  /\ transfer # NoTransfer /\ transfer.kind = "read" /\ transfer.step = "data"
  /\ transfer' = [transfer EXCEPT !.step = "finish", !.said = said,
       !.result = CASE said = "Fail" -> "UserErrorFromDataCallback"
                    [] said = "Cancel" -> "Canceled"
                    [] OTHER -> "Success"]
  /\ UNCHANGED <<live, persist, fileVars, requestVars, fileCalls, faults, dispatchVars>>

\* The data callback hands over a chunk of a write, and says how to go on.  A
\* callback that goes on for ever without a byte keeps Tick for ever.
MutPullData(chunk, said) ==
  LET assembled == transfer.data \o chunk
      tooLarge == Len(transfer.data) > MaxFileBytes IN
  /\ transfer # NoTransfer /\ transfer.kind = "write" /\ transfer.step = "data"
  /\ transfer' = [transfer EXCEPT
       !.data = assembled, !.handed = @ \o chunk, !.said = said,
       !.step = IF said = "Continue" /\ ~tooLarge THEN "data" ELSE "commit",
       !.result = CASE tooLarge -> "FileSizeTooLarge"
                    [] said = "Fail" -> "UserErrorFromDataCallback"
                    [] said = "Cancel" -> "Canceled"
                    [] OTHER -> @]
  /\ UNCHANGED <<live, persist, fileVars, requestVars, fileCalls, faults, dispatchVars>>

PullData(chunk, said) ==
  LET assembled == transfer.data \o chunk
      tooLarge == Len(assembled) > MaxFileBytes IN
  /\ transfer # NoTransfer /\ transfer.kind = "write" /\ transfer.step = "data"
  /\ transfer' = [transfer EXCEPT
       !.data = assembled, !.handed = @ \o chunk, !.said = said,
       !.step = IF said = "Continue" /\ ~tooLarge THEN "data" ELSE "commit",
       !.result = CASE tooLarge -> "FileSizeTooLarge"
                    [] said = "Fail" -> "UserErrorFromDataCallback"
                    [] said = "Cancel" -> "Canceled"
                    [] OTHER -> @]
  /\ UNCHANGED <<live, persist, fileVars, requestVars, fileCalls, faults, dispatchVars>>

\* What the player may count on: a whole file of a legal name and size.
Accepted(t) ==
  /\ t.said = "Complete" /\ Len(t.handed) <= MaxFileBytes
  /\ 0 < Len(t.name) /\ Len(t.name) <= NameMax

\* The mirror first, then the store, under one lock.
CommitWrite ==
  /\ transfer # NoTransfer /\ transfer.step = "commit"
  /\ transfer' = [transfer EXCEPT !.step = "finish"]
  /\ IF transfer.result = "Success"
     THEN /\ EnsureLoaded
          /\ PersistWrite(transfer.name, transfer.data)
          /\ files' = Stored(Store, transfer.name, transfer.data)
     ELSE UNCHANGED <<files, loaded, mirror, exposed, faults>>
  /\ saved' = IF Accepted(transfer) THEN [saved EXCEPT ![transfer.name] = transfer.handed]
              ELSE saved
  /\ UNCHANGED <<live, persist, requestVars, fileCalls, dispatchVars>>

\* The request learns the result, the completion runs, the closure is gone.
FinishTransfer ==
  /\ transfer # NoTransfer /\ transfer.step = "finish"
  /\ requests' = DropReference([requests EXCEPT ![transfer.req].state = transfer.result],
                               transfer.req)
  /\ transfer' = NoTransfer
  /\ UNCHANGED <<live, persist, fileVars, registry, made, fileCalls, faults, dispatchVars>>

\* The other closures: a query loads the store and reads it.
RunCompletion ==
  /\ Work(<<>>)
  /\ Head(ready).kind \in {"query", "completion"}
  /\ IF Head(ready).kind = "query"
     THEN EnsureLoaded /\ files' = Store
     ELSE UNCHANGED <<files, loaded>>
  /\ UNCHANGED <<live, persist, mirror, saved, exposed, requestVars, transfer,
                 fileCalls, faults>>

---------------------------------------------------------------------------
(* The platform and the process around the store.                          *)

\* The closures that hold a reference of request r.
Holders(line, r) ==
  Cardinality({i \in DOMAIN line : line[i].kind \in {"read", "write"} /\ line[i].req = r})

EOS_Platform_Create ==
  /\ ~live
  /\ live' = TRUE
  /\ UNCHANGED <<persist, fileVars, requestVars, transfer, fileCalls, faults, dispatchVars>>

\* The closures die with their dispatcher and drop their references.
EOS_Platform_Release ==
  /\ live /\ transfer = NoTransfer
  /\ live' = FALSE
  /\ Discarded
  /\ requests' = [r \in RequestIds |->
                    [requests[r] EXCEPT !.refs = @ - Holders(pending, r)]]
  /\ UNCHANGED <<persist, fileVars, registry, made, transfer, fileCalls, faults>>

\* The process dies, and the player starts the game again: the store is what
\* the mirror has, and the player counts on the files that should be there.
Dies ==
  /\ Fault
  /\ live' = FALSE /\ files' = <<>> /\ loaded' = FALSE
  /\ saved' = [n \in Names |-> IF n \in exposed \/ ~OwnFile(n) THEN Mirrored(n) ELSE saved[n]]
  /\ exposed' = {}
  /\ requests' = [r \in RequestIds |-> NoRequest] /\ registry' = {} /\ made' = 0
  /\ transfer' = NoTransfer
  /\ pending' = <<>> /\ delayed' = <<>> /\ ready' = <<>> /\ draining' = FALSE
  /\ UNCHANGED <<persist, mirror, fileCalls>>

PdsInit ==
  /\ live = FALSE /\ persist \in BOOLEAN
  /\ files = <<>> /\ loaded = FALSE /\ mirror = <<>>
  /\ requests = [r \in RequestIds |-> NoRequest] /\ registry = {} /\ made = 0
  /\ transfer = NoTransfer
  /\ saved = [n \in Names |-> Absent] /\ exposed = {}
  /\ fileCalls = 0 /\ faults = 0

PdsCalls ==
  \/ \E name \in Names, hasData \in BOOLEAN :
       ReadFile(name, hasData) \/ WriteFile(name, hasData)
  \/ \E from, to \in Names : DuplicateFile(from, to)
  \/ \E name \in Names : DeleteFile(name)
  \/ QueryFile \/ DeleteCache

---------------------------------------------------------------------------
Contents == UNION {[1..k -> Bytes] : k \in 0..MaxFileBytes}

\* The type of the store, and that a result other than success is known
\* before anything is stored.
PdsTypeOK ==
  /\ live \in BOOLEAN /\ persist \in BOOLEAN /\ loaded \in BOOLEAN
  /\ DOMAIN files \subseteq Names /\ \A n \in DOMAIN files : files[n] \in Contents
  /\ DOMAIN mirror \subseteq {EncodeName(n) : n \in Names}
  /\ \A d \in DOMAIN mirror : mirror[d] \in Contents
  /\ requests \in [RequestIds -> [refs : 0..2, state : Results]]
  /\ registry \subseteq RequestIds
  /\ saved \in [Names -> Contents \cup {Absent}] /\ exposed \subseteq Names
  /\ transfer # NoTransfer =>
       /\ draining /\ live
       /\ transfer.step \in {"data", "commit", "finish"} /\ transfer.result \in Results

\* "loaded back on the next run, so player data survives restarts"
\* (PlayerDataStorage.cpp:10-12).  In memory a file is always what its last
\* accepted change made it; and unless the disk failed, a change is in the
\* mirror under a name that leads back to the file, so that the next process
\* loads it, for the names that have a file of their own: with no dot at the
\* end, not a device, and different from the others in more than case.  Such a
\* file is stored whole or not at all, a deleted one stays away.
PlayerDataSurvives ==
  \A n \in Names :
    /\ loaded \/ ~persist => ContentOf(files, n) = saved[n]
    /\ OwnFile(n) /\ n \notin exposed => Mirrored(n) = saved[n]

\* "every write/delete is mirrored ... so player data survives restarts"
\* (PlayerDataStorage.cpp:10-12), whatever name CheckFilename accepts.  The code
\* does not: "." is accepted, names a directory, and no file of it ever reaches
\* the disk; and of two names that differ in case only the later write remains.
WritesAreMirrored ==
  \A n \in Names : n \notin exposed => Mirrored(n) = saved[n]

\* "a release-before-Tick cannot leave the callback writing freed memory"
\* (PlayerDataStorage.cpp:14-17): a request that a transfer will write to has
\* not been freed, and each reference is counted once, whenever the game
\* releases it and wherever the platform dies.
RequestOutlivesTransfer ==
  \A r \in RequestIds :
    requests[r].refs =
      (IF r \in registry THEN 1 ELSE 0)
      + (IF transfer # NoTransfer /\ transfer.req = r THEN 1 ELSE 0)
      + Holders(Line, r)
==========================================================================
