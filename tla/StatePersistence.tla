-------------------------- MODULE StatePersistence --------------------------
(***************************************************************************)
(* execution/state_persistence.py: the two backends of StatePersistence.   *)
(* The file backend keeps all keys in one JSON file, read and rewritten    *)
(* under a lock file and replaced by rename; the Redis backend keeps one   *)
(* key per value and replaces the snapshot in a WATCH transaction.         *)
(* Processes interleave between system calls and may die at any of them.   *)
(***************************************************************************)
EXTENDS Naturals

CONSTANTS Clients, Keys, Values, Absent,
    MaxRevision \* bound on the snapshot's revision

ASSUME StatePersistenceAssumption ==
    /\ Absent \notin Values
    /\ MaxRevision \in Nat

VARIABLES
    backend, \* "file" or "redis", fixed by the constructor
    store,   \* the JSON file, or the Redis keys
    synced,  \* what of it a power failure would leave
    lock,    \* lock[c]: what c holds of the lock file
    dirty,   \* dirty[c]: the key c watches was written since
    pc,      \* where each client is in its call
    request, \* the call
    copy,    \* what it read
    acked    \* history: newest revision a client was told is saved

vars == <<backend, store, synced, lock, dirty, pc, request, copy, acked>>

V == INSTANCE VersionedStore
       WITH snapshot <- store.snapshot, state <- store.state,
            status <- [c \in Clients |->
                CASE pc[c] = "idle" -> "idle"
                  [] pc[c] \in {"dirsync", "release", "done"} -> "applied"
                  [] pc[c] \in {"refused", "stale"} -> "refused"
                  [] OTHER -> "pending"]

Empty == [snapshot |-> V!NoSnapshot, state |-> [k \in Keys |-> Absent]]

Init ==
    /\ backend \in {"file", "redis"}
    /\ store = Empty
    /\ synced = Empty
    /\ lock = [c \in Clients |-> "none"]
    /\ dirty = [c \in Clients |-> FALSE]
    /\ pc = [c \in Clients |-> "idle"]
    /\ request = [c \in Clients |-> V!NoRequest]
    /\ copy = [c \in Clients |-> Empty]
    /\ acked = 0

Goto(c, label) == pc' = [pc EXCEPT ![c] = label]

(* A call of save_execution_snapshot, save_state, delete_state or          *)
(* load_state.  The expected revision is one the caller has seen.          *)
Call(c) ==
    /\ pc[c] = "idle"
    /\ store.snapshot.revision < MaxRevision
    /\ \E r \in V!Requests(store.snapshot.revision) :
          request' = [request EXCEPT ![c] = r]
    /\ Goto(c, IF backend = "file" THEN "lock" ELSE "command")
    /\ UNCHANGED <<backend, store, synced, lock, dirty, copy, acked>>

(* The call is over: it returned, raised, or its process died, and the     *)
(* kernel and the server drop what it held.                                *)
Leave(c) ==
    /\ Goto(c, "idle")
    /\ lock' = [lock EXCEPT ![c] = "none"]
    /\ dirty' = [dirty EXCEPT ![c] = FALSE]
    /\ request' = [request EXCEPT ![c] = V!NoRequest]
    /\ copy' = [copy EXCEPT ![c] = Empty]

-----------------------------------------------------------------------------
(* The file backend.                                                       *)

(* Mutant: the lock file is opened and never locked.                       *)
LockIgnored(c) ==
    /\ pc[c] = "lock"
    /\ Goto(c, "read")
    /\ UNCHANGED <<backend, store, synced, lock, dirty, request, copy, acked>>

(* _file_lock: flock of the lock file, shared for load_state.              *)
Lock(c) ==
    /\ pc[c] = "lock"
    /\ LET mode == IF request[c].kind = "load" THEN "shared" ELSE "exclusive"
       IN /\ \A d \in Clients \ {c} :
                lock[d] = "none" \/ (lock[d] = "shared" /\ mode = "shared")
          /\ lock' = [lock EXCEPT ![c] = mode]
    /\ Goto(c, "read")
    /\ UNCHANGED <<backend, store, synced, dirty, request, copy, acked>>

(* A load needs no write, nor does a delete of a key that is not there.    *)
WritesNothing(r, s) ==
    r.kind = "load" \/ (r.kind = "delete" /\ s.state[r.key] = Absent)

(* _read_file and build: the revision check is made on what was read.      *)
Read(c) ==
    /\ pc[c] = "read"
    /\ copy' = [copy EXCEPT ![c] = store]
    /\ Goto(c, IF WritesNothing(request[c], store) THEN "release"
               ELSE IF V!Expected(request[c], store) THEN "replace"
               ELSE "refused")
    /\ UNCHANGED <<backend, store, synced, lock, dirty, request, acked>>

(* _write_file: the copy with the request applied replaces the file; its   *)
(* own bytes are on disk before the rename, the rename is not.             *)
Replace(c) ==
    /\ pc[c] = "replace"
    /\ store' = V!Effect(request[c], copy[c])
    /\ Goto(c, "dirsync")
    /\ UNCHANGED <<backend, synced, lock, dirty, request, copy, acked>>

(* Mutant: the directory is not synced.                                    *)
SyncSkipped(c) ==
    /\ pc[c] = "dirsync"
    /\ Goto(c, "release")
    /\ UNCHANGED <<backend, store, synced, lock, dirty, request, copy, acked>>

(* The directory fsync makes the rename survive a power failure.           *)
SyncDirectory(c) ==
    /\ pc[c] = "dirsync"
    /\ synced' = store
    /\ Goto(c, "release")
    /\ UNCHANGED <<backend, store, lock, dirty, request, copy, acked>>

-----------------------------------------------------------------------------
(* The Redis backend.                                                      *)

(* A write of the snapshot key makes every transaction watching it stale.  *)
Touch(c) ==
    dirty' = [d \in Clients |-> dirty[d] \/ (pc[d] \in {"get", "exec"} /\ d # c)]

(* GET, SET and DEL are single commands.  The server answers before the    *)
(* append-only file is synced.                                             *)
Command(c) ==
    /\ pc[c] = "command"
    /\ request[c].kind # "snapshot"
    /\ store' = V!Effect(request[c], store)
    /\ Goto(c, "done")
    /\ UNCHANGED <<backend, synced, lock, dirty, request, copy, acked>>

(* WATCH ...                                                               *)
Watch(c) ==
    /\ pc[c] = "command"
    /\ request[c].kind = "snapshot"
    /\ Goto(c, "get")
    /\ UNCHANGED <<backend, store, synced, lock, dirty, request, copy, acked>>

(* ... then GET and build, with the same revision check.                   *)
Get(c) ==
    /\ pc[c] = "get"
    /\ copy' = [copy EXCEPT ![c] = store]
    /\ Goto(c, IF V!Expected(request[c], store) THEN "exec" ELSE "refused")
    /\ UNCHANGED <<backend, store, synced, lock, dirty, request, acked>>

(* MULTI, SET and EXEC: nothing is set if a watched key changed.           *)
Execute(c) ==
    /\ pc[c] = "exec"
    /\ IF dirty[c]
         THEN /\ Goto(c, "stale")
              /\ UNCHANGED <<store, dirty>>
         ELSE /\ store' = [store EXCEPT
                  !.snapshot = V!Effect(request[c], copy[c]).snapshot]
              /\ Touch(c)
              /\ Goto(c, "done")
    /\ UNCHANGED <<backend, synced, lock, request, copy, acked>>

(* The server syncs its append-only file about once a second, whoever has  *)
(* been answered: docker-compose.yml starts it with --appendonly yes, whose *)
(* appendfsync is everysec.                                                *)
SyncAppendOnlyFile ==
    /\ backend = "redis"
    /\ synced' = store
    /\ UNCHANGED <<backend, store, lock, dirty, pc, request, copy, acked>>

-----------------------------------------------------------------------------
(* The call returns, with the snapshot it saved or loaded.                 *)
Return(c) ==
    /\ pc[c] \in {"release", "done"}
    /\ Leave(c)
    /\ acked' = IF request[c].kind = "snapshot" /\ request[c].expected + 1 > acked
                  THEN request[c].expected + 1 ELSE acked
    /\ UNCHANGED <<backend, store, synced>>

(* StatePersistenceError: a revision conflict.                             *)
RaiseConflict(c) ==
    /\ pc[c] \in {"refused", "stale"}
    /\ Leave(c)
    /\ UNCHANGED <<backend, store, synced, acked>>

(* The process dies, or a system call or the connection fails.             *)
Fail(c) ==
    /\ pc[c] # "idle"
    /\ Leave(c)
    /\ UNCHANGED <<backend, store, synced, acked>>

Next ==
    \/ \E c \in Clients :
        \/ Call(c)
        \/ Lock(c) \/ Read(c) \/ Replace(c) \/ SyncDirectory(c)
        \/ Command(c) \/ Watch(c) \/ Get(c) \/ Execute(c)
        \/ Return(c) \/ RaiseConflict(c) \/ Fail(c)
    \/ SyncAppendOnlyFile

Spec == Init /\ [][Next]_vars

-----------------------------------------------------------------------------
Stores ==
    [snapshot : [revision : Nat, value : Values \cup {Absent}],
     state : [Keys -> Values \cup {Absent}]]

(* Every variable has its type.                                            *)
TypeOK ==
    /\ backend \in {"file", "redis"}
    /\ store \in Stores
    /\ synced \in Stores
    /\ lock \in [Clients -> {"none", "shared", "exclusive"}]
    /\ dirty \in [Clients -> BOOLEAN]
    /\ pc \in [Clients -> {"idle", "lock", "read", "replace", "dirsync", "release",
                           "command", "get", "exec", "done", "refused", "stale"}]
    /\ request \in [Clients -> V!Requests(MaxRevision) \cup {V!NoRequest}]
    /\ copy \in [Clients -> Stores]
    /\ acked \in 0..MaxRevision

(* Both backends implement the versioned store: no call of another client, *)
(* to this or another key, and no death in mid-call, is lost, undone or    *)
(* seen half made, and a stale writer changes nothing.                     *)
Implements == V!Spec

(* "Durable persistence across restarts": a save that returned to its      *)
(* caller is never undone, whoever dies; the file backend keeps it over a  *)
(* power failure too, which takes from Redis what it has not synced yet.   *)
AckedIsDurable ==
    /\ acked <= store.snapshot.revision
    /\ backend = "file" => acked <= synced.snapshot.revision
=============================================================================
