---------------------------- MODULE FileKeyStore ----------------------------
(***************************************************************************)
(* FileKeyStore of storage/keystore.py: several processes keep cards in    *)
(* one file.  put() and delete() hold the exclusive lock of the lock file  *)
(* from _load() to the end of _flush(), so each is one step; what makes    *)
(* them hard is the cache of each process, which _load() trusts as long as *)
(* the file has the time and the size it had, which is changed before the  *)
(* write that may fail, and which goes with the process.                   *)
(*                                                                         *)
(* The size of the file is modelled by the number of its cards: a card     *)
(* with a rotated key is as long as the one it replaces.                   *)
(***************************************************************************)
EXTENDS Integers, FiniteSets

CONSTANTS
    Processes,    \* processes with a FileKeyStore on the same path
    Ids,          \* entity ids
    CardValues,   \* the cards an entity may have
    Absent,       \* no card
    LastFileTime, \* bound of the model: the clock of the file system stops here
    MaxVersion    \* bound of the model: the largest _version

ASSUME FileAssumption ==
    /\ Absent \notin CardValues
    /\ {LastFileTime, MaxVersion} \subseteq Nat

VARIABLES
    disk,     \* the file, with the time of its last change
    view,     \* what each process knows: its cache and what belongs to it
    fileTime, \* the clock of the file system; two writes may get the same time
    wanted,   \* history: what the calls that returned have made of the store
    pending,  \* history: the processes whose cache holds a change they failed to write
    blind,    \* history: the processes that missed a write with the same time and size
    spoilt    \* history: a process has written from such a cache

fileVars == <<disk, view, fileTime, wanted, pending, blind, spoilt>>

Contents == [Ids -> CardValues \cup {Absent}]
Empty == [e \in Ids |-> Absent]

File == [exists : BOOLEAN, cards : Contents, version : Nat, mtime : Nat]
View == [loaded : BOOLEAN, cache : Contents, version : Nat, mtime : Nat, size : Nat,
         hashed : Contents \X Nat]

Fresh == [loaded |-> FALSE, cache |-> Empty, version |-> 0, mtime |-> 0, size |-> 0,
          hashed |-> <<Empty, 0>>]

FileTypeOK ==
    /\ disk \in File
    /\ view \in [Processes -> View]
    /\ fileTime \in Nat
    /\ wanted \in Contents
    /\ pending \subseteq Processes
    /\ blind \subseteq Processes
    /\ spoilt \in BOOLEAN
    /\ \A p \in Processes : view[p].version <= MaxVersion

FileInit ==
    /\ disk = [exists |-> FALSE, cards |-> Empty, version |-> 0, mtime |-> 0]
    /\ view = [p \in Processes |-> Fresh]
    /\ fileTime = 1
    /\ wanted = Empty
    /\ pending = {}
    /\ blind = {}
    /\ spoilt = FALSE

----------------------------------------------------------------------------
SizeOf(cards) == Cardinality({e \in Ids : cards[e] # Absent})

\* Bug: only the size of the file is compared.
BadUntouched(p) == view[p].loaded /\ view[p].size = SizeOf(disk.cards)

Untouched(p) ==
    /\ view[p].loaded
    /\ view[p].mtime = disk.mtime
    /\ view[p].size = SizeOf(disk.cards)

SameHash(p) ==
    /\ view[p].loaded
    /\ view[p].hashed = <<disk.cards, disk.version>>
    /\ view[p].version = disk.version

ReadFile(cards, version, mtime) ==
    [loaded |-> TRUE, cache |-> cards, version |-> version, mtime |-> mtime,
     size |-> SizeOf(cards), hashed |-> <<cards, version>>]

\* What p knows after _load().  hashed stands for the hash of the whole file; it is
\* None when there is no file, and then loaded from the empty one.
Loaded(p) ==
    IF ~disk.exists THEN ReadFile(Empty, 0, 0)
    ELSE IF Untouched(p) THEN view[p]
    ELSE IF SameHash(p)
         THEN [view[p] EXCEPT !.mtime = disk.mtime, !.size = SizeOf(disk.cards)]
         ELSE ReadFile(disk.cards, disk.version, disk.mtime)

\* The processes whose cache is still what it was before _load().
Kept(p) == disk.exists /\ (Untouched(p) \/ SameHash(p))

\* get() and list_ids() load and answer from the cache.
Get(p) ==
    /\ view' = [view EXCEPT ![p] = Loaded(p)]
    /\ pending' = IF Kept(p) THEN pending ELSE pending \ {p}
    /\ blind' = IF Kept(p) THEN blind ELSE blind \ {p}
    /\ UNCHANGED <<disk, fileTime, wanted, spoilt>>

----------------------------------------------------------------------------
(* _flush() *)

\* The processes that take the file for unchanged when it gets these cards now.
Misses(p, cards) ==
    {q \in Processes \ {p} : view[q].loaded /\ view[q].mtime = fileTime
                             /\ view[q].size = SizeOf(cards) /\ view[q].cache # cards}

\* The temporary file replaces the file; wanted follows the call, not the cache.
Flush(p, e, c) ==
    LET cards == [Loaded(p).cache EXCEPT ![e] = c]
        version == Loaded(p).version + 1
    IN  /\ version <= MaxVersion
        /\ disk' = [exists |-> TRUE, cards |-> cards, version |-> version, mtime |-> fileTime]
        /\ view' = [view EXCEPT ![p] = ReadFile(cards, version, fileTime)]
        /\ wanted' = [wanted EXCEPT ![e] = c]
        /\ spoilt' = (spoilt \/ (Kept(p) /\ p \in pending \cup blind))
        /\ pending' = pending \ {p}
        /\ blind' = (blind \ {p}) \cup Misses(p, cards)
        /\ UNCHANGED fileTime

\* The write fails: the cache and _version are changed already.
FlushFails(p, e, c) ==
    /\ Loaded(p).version + 1 <= MaxVersion
    /\ view' = [view EXCEPT ![p] = [Loaded(p) EXCEPT !.cache[e] = c, !.version = @ + 1]]
    /\ pending' = pending \cup {p}
    /\ blind' = IF Kept(p) THEN blind ELSE blind \ {p}
    /\ UNCHANGED <<disk, fileTime, wanted, spoilt>>

----------------------------------------------------------------------------
\* DuplicateCardError leaves what _load() did, as Get does.
Put(p, e, c, overwrite) ==
    /\ overwrite \/ Loaded(p).cache[e] = Absent
    /\ Flush(p, e, c) \/ FlushFails(p, e, c)

Delete(p, e) ==
    /\ Loaded(p).cache[e] # Absent
    /\ Flush(p, e, Absent) \/ FlushFails(p, e, Absent)

\* A process ends, between two calls or in one before the file is replaced.
Exit(p) ==
    /\ view' = [view EXCEPT ![p] = Fresh]
    /\ pending' = pending \ {p}
    /\ blind' = blind \ {p}
    /\ UNCHANGED <<disk, fileTime, wanted, spoilt>>

FileTick ==
    /\ fileTime < LastFileTime
    /\ fileTime' = fileTime + 1
    /\ UNCHANGED <<disk, view, wanted, pending, blind, spoilt>>

FileNext ==
    \/ \E p \in Processes :
          \/ Get(p)
          \/ \E e \in Ids : Delete(p, e)
          \/ \E e \in Ids, c \in CardValues, overwrite \in BOOLEAN : Put(p, e, c, overwrite)
          \/ Exit(p)
    \/ FileTick

FileSpec == FileInit /\ [][FileNext]_fileVars

----------------------------------------------------------------------------
(* No update is lost and none appears from nowhere: the file is exactly    *)
(* what the calls that returned, of all processes in their order, made it, *)
(* although each process works on its cache, writes fail and processes     *)
(* end.  It can go wrong only after a process has written from a cache     *)
(* that still held a change it had failed to write, or that could not see  *)
(* a write of the same time and size (put() and delete() of FileKeyStore). *)
FileIsWhatWasWritten == ~spoilt => disk.cards = wanted
=============================================================================
