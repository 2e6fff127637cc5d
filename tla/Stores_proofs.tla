---------------------------- MODULE Stores_proofs -----------------------------
(***************************************************************************)
(* What the stores promise, for any number of processes, threads, readers, *)
(* keys, partitions and values, and whichever of the calls die half way:   *)
(* the execution state store, the Parquet store and the cache.             *)
(***************************************************************************)
EXTENDS MCStores, TLAPS

-----------------------------------------------------------------------------
(* The execution state store: a save that was acknowledged is durable, and *)
(* both backends implement the versioned store.                            *)

FileSteps == {"lock", "read", "replace", "dirsync", "release"}
RedisSteps == {"command", "get", "exec", "done", "stale"}

OneBackend ==
    \A c \in Clients : pc[c] \notin (IF backend = "file" THEN RedisSteps ELSE FileSteps)

Mode(r) == IF r.kind = "load" THEN "shared" ELSE "exclusive"

LockInv ==
    /\ \A c \in Clients :
          pc[c] \in {"read", "replace", "dirsync"} => lock[c] = Mode(request[c])
    /\ \A c, d \in Clients : c # d /\ lock[c] = "exclusive" => lock[d] = "none"

Saves(c) == request[c].kind = "snapshot"

(* What a client read is what the store holds when it writes, or the       *)
(* transaction is marked; the revision of a save is in the store before it *)
(* returns, and in a file synced as well.                                  *)
CallInv(c) ==
    /\ pc[c] # "idle" =>
          /\ request[c].kind # "none"
          /\ request[c].expected <= store.snapshot.revision
          /\ request[c].expected < MaxRevision
    /\ pc[c] = "replace" =>
          /\ copy[c] = store
          /\ request[c].kind # "load"
          /\ V!Expected(request[c], store)
    /\ pc[c] \in {"get", "exec"} => Saves(c)
    /\ pc[c] = "exec" =>
          /\ V!Expected(request[c], copy[c])
          /\ ~dirty[c] => copy[c].snapshot = store.snapshot
    /\ dirty[c] => pc[c] # "idle" /\ request[c].expected < store.snapshot.revision
    /\ pc[c] = "dirsync" /\ Saves(c) => request[c].expected < store.snapshot.revision
    /\ pc[c] = "release" /\ Saves(c) => request[c].expected < synced.snapshot.revision
    /\ pc[c] = "done" /\ Saves(c) => request[c].expected < store.snapshot.revision

Held(n) ==
    /\ n <= store.snapshot.revision
    /\ backend = "file" => n <= synced.snapshot.revision

SyncInv ==
    /\ Held(acked)
    /\ synced.snapshot.revision <= store.snapshot.revision

StoreInv ==
    /\ TypeOK
    /\ OneBackend
    /\ LockInv
    /\ \A c \in Clients : CallInv(c)
    /\ SyncInv

-----------------------------------------------------------------------------
(* What a request makes of a store is a store.                             *)
LEMMA EffectType ==
    ASSUME NEW r \in V!Requests(MaxRevision), NEW s \in Stores
    PROVE  /\ V!Effect(r, s) \in Stores
           /\ r.kind = "snapshot" =>
                 /\ V!Effect(r, s).snapshot =
                       [revision |-> s.snapshot.revision + 1, value |-> r.value]
                 /\ V!Effect(r, s).state = s.state
           /\ r.kind # "snapshot" => V!Effect(r, s).snapshot = s.snapshot
<1>1. CASE r.kind = "snapshot"
  <2>1. r.value \in Values
    BY <1>1 DEF V!Requests
  <2> QED BY <1>1, <2>1 DEF V!Effect, Stores
<1>2. CASE r.kind \in {"save", "delete"}
  <2>1. r.key \in Keys /\ r.value \in Values \cup {Absent}
    BY <1>2 DEF V!Requests
  <2> QED BY <1>2, <2>1 DEF V!Effect, Stores
<1>3. CASE r.kind = "load"
  BY <1>3 DEF V!Effect, Stores
<1> QED BY <1>1, <1>2, <1>3 DEF V!Requests

LEMMA RequestType ==
    ASSUME TypeOK, NEW c \in Clients, request[c].kind # "none"
    PROVE  /\ request[c] \in V!Requests(MaxRevision)
           /\ request[c].expected \in Nat
BY StatePersistenceAssumption DEF TypeOK, V!NoRequest, V!Requests

LEMMA StoreType ==
    ASSUME NEW s \in Stores
    PROVE  /\ s.snapshot.revision \in Nat
           /\ s = [snapshot |-> s.snapshot, state |-> s.state]
           /\ s.state \in [Keys -> Values \cup {Absent}]
BY DEF Stores

(* A step of one client keeps what is said of another, if the revisions    *)
(* grow, the file is not replaced under it, and a write of the snapshot    *)
(* marks its transaction.                                                  *)
LEMMA OthersKeep ==
    ASSUME StoreInv, NEW d \in Clients,
           pc'[d] = pc[d], request'[d] = request[d], copy'[d] = copy[d],
           store' \in Stores, synced' \in Stores,
           store.snapshot.revision <= store'.snapshot.revision,
           synced.snapshot.revision <= synced'.snapshot.revision,
           pc[d] = "replace" => store' = store,
           pc[d] = "exec" /\ ~dirty'[d] => ~dirty[d] /\ store'.snapshot = store.snapshot,
           dirty'[d] => pc[d] # "idle" /\ request[d].expected < store'.snapshot.revision
    PROVE  CallInv(d)'
<1>1. CASE pc[d] = "idle"
  BY <1>1 DEF CallInv, Saves
<1>2. CASE pc[d] # "idle"
  <2>1. CallInv(d)
    BY DEF StoreInv
  <2>2. request[d].kind # "none"
    BY <1>2, <2>1 DEF CallInv
  <2>3. request[d].expected \in Nat
    BY <2>2, RequestType DEF StoreInv
  <2>4. /\ store.snapshot.revision \in Nat /\ store'.snapshot.revision \in Nat
        /\ synced.snapshot.revision \in Nat /\ synced'.snapshot.revision \in Nat
    BY StoreType DEF StoreInv, TypeOK
  <2> QED BY <2>1, <2>3, <2>4, StatePersistenceAssumption DEF CallInv, Saves, V!Expected
<1> QED BY <1>1, <1>2

(* A step of c that changes neither the store nor what is synced.          *)
LEMMA LocalStep ==
    ASSUME StoreInv, NEW c \in Clients, TypeOK', LockInv', CallInv(c)',
           UNCHANGED <<backend, store, synced>>,
           Held(acked'),
           pc'[c] \notin (IF backend = "file" THEN RedisSteps ELSE FileSteps),
           \A d \in Clients \ {c} :
              /\ pc'[d] = pc[d] /\ request'[d] = request[d]
              /\ copy'[d] = copy[d] /\ dirty'[d] = dirty[d]
    PROVE  StoreInv'
<1>1. ASSUME NEW d \in Clients \ {c} PROVE CallInv(d)'
  <2>1. store \in Stores /\ synced \in Stores /\ CallInv(d)
    BY DEF StoreInv, TypeOK
  <2>2. dirty[d] => pc[d] # "idle" /\ request[d].expected < store.snapshot.revision
    BY <2>1 DEF CallInv
  <2>3. store.snapshot.revision <= store.snapshot.revision
        /\ synced.snapshot.revision <= synced.snapshot.revision
    BY <2>1, StoreType
  <2> QED BY <2>1, <2>2, <2>3, OthersKeep
<1>2. OneBackend'
  BY DEF StoreInv, OneBackend
<1>3. SyncInv'
  BY DEF StoreInv, SyncInv, Held
<1> QED BY <1>1, <1>2, <1>3 DEF StoreInv

LEMMA CallKeeps ==
    ASSUME StoreInv, NEW c \in Clients, Call(c)
    PROVE  StoreInv'
<1>1. PICK r \in V!Requests(store.snapshot.revision) :
         request' = [request EXCEPT ![c] = r]
  BY DEF Call
<1>2. store.snapshot.revision \in Nat /\ store.snapshot.revision < MaxRevision
  BY StoreType DEF Call, StoreInv, TypeOK
<1>3. /\ r \in V!Requests(MaxRevision)
      /\ r.kind # "none" /\ r.expected \in Nat
      /\ r.expected <= store.snapshot.revision /\ r.expected < MaxRevision
  BY <1>2, StatePersistenceAssumption DEF V!Requests
<1>4. TypeOK'
  BY <1>1, <1>3 DEF Call, Goto, StoreInv, TypeOK
<1>5. LockInv'
  BY <1>1 DEF Call, Goto, StoreInv, LockInv, TypeOK
<1>6. pc'[c] \in {"lock", "command"} /\ request'[c] = r /\ ~dirty'[c]
  <2>1. ~dirty[c]
    BY DEF StoreInv, CallInv, Call, TypeOK
  <2> QED BY <1>1, <2>1 DEF Call, Goto, StoreInv, TypeOK
<1>7. CallInv(c)'
  BY <1>3, <1>6 DEF Call, CallInv, Saves
<1>8. Held(acked)
  BY DEF StoreInv, SyncInv
<1>9. \A d \in Clients \ {c} :
         /\ pc'[d] = pc[d] /\ request'[d] = request[d]
         /\ copy'[d] = copy[d] /\ dirty'[d] = dirty[d]
  BY <1>1 DEF Call, Goto, StoreInv, TypeOK
<1>10. pc'[c] \notin (IF backend = "file" THEN RedisSteps ELSE FileSteps)
  BY DEF Call, Goto, StoreInv, TypeOK, RedisSteps, FileSteps
<1> QED BY <1>4, <1>5, <1>7, <1>8, <1>9, <1>10, LocalStep DEF Call

LEMMA LeaveKeeps ==
    ASSUME StoreInv, NEW c \in Clients, Leave(c), UNCHANGED <<backend, store, synced>>,
           acked' \in 0..MaxRevision, Held(acked')
    PROVE  StoreInv'
<1>1. Empty \in Stores /\ V!NoRequest \in V!Requests(MaxRevision) \cup {V!NoRequest}
  BY DEF Empty, Stores, V!NoSnapshot
<1>2. TypeOK'
  BY <1>1 DEF Leave, Goto, StoreInv, TypeOK
<1>3. pc'[c] = "idle" /\ ~dirty'[c]
  BY DEF Leave, Goto, StoreInv, TypeOK
<1>4. LockInv'
  BY <1>3 DEF Leave, Goto, StoreInv, LockInv, TypeOK
<1>5. CallInv(c)'
  BY <1>3 DEF CallInv
<1>6. \A d \in Clients \ {c} :
         /\ pc'[d] = pc[d] /\ request'[d] = request[d]
         /\ copy'[d] = copy[d] /\ dirty'[d] = dirty[d]
  BY DEF Leave, Goto, StoreInv, TypeOK
<1>7. pc'[c] \notin (IF backend = "file" THEN RedisSteps ELSE FileSteps)
  BY <1>3 DEF RedisSteps, FileSteps
<1> QED BY <1>2, <1>4, <1>5, <1>6, <1>7, LocalStep

LEMMA LockKeeps ==
    ASSUME StoreInv, NEW c \in Clients, Lock(c)
    PROVE  StoreInv'
<1>1. lock' = [lock EXCEPT ![c] = Mode(request[c])]
  BY DEF Lock, Mode
<1>2. \A d \in Clients \ {c} :
         lock[d] = "none" \/ (lock[d] = "shared" /\ Mode(request[c]) = "shared")
  BY DEF Lock, Mode
<1>3. TypeOK'
  BY <1>1 DEF Lock, Goto, StoreInv, TypeOK, Mode
<1>4. LockInv'
  BY <1>1, <1>2 DEF Lock, Goto, StoreInv, LockInv, TypeOK, Mode
<1>5. pc[c] = "lock" /\ pc'[c] = "read" /\ backend = "file"
  BY DEF Lock, Goto, StoreInv, TypeOK, OneBackend, FileSteps
<1>6. CallInv(c)'
  BY <1>5 DEF Lock, StoreInv, CallInv, Saves
<1>7. \A d \in Clients \ {c} :
         /\ pc'[d] = pc[d] /\ request'[d] = request[d]
         /\ copy'[d] = copy[d] /\ dirty'[d] = dirty[d]
  BY DEF Lock, Goto, StoreInv, TypeOK
<1>8. pc'[c] \notin (IF backend = "file" THEN RedisSteps ELSE FileSteps)
  BY <1>5 DEF RedisSteps
<1> QED BY <1>3, <1>4, <1>6, <1>7, <1>8, LocalStep DEF Lock, StoreInv, SyncInv

LEMMA ReadKeeps ==
    ASSUME StoreInv, NEW c \in Clients, Read(c)
    PROVE  StoreInv'
<1>1. TypeOK'
  BY DEF Read, Goto, StoreInv, TypeOK
<1>2. LockInv'
  BY DEF Read, Goto, StoreInv, LockInv, TypeOK
<1>3. /\ pc[c] = "read" /\ backend = "file"
      /\ pc'[c] \in {"release", "replace", "refused"}
  BY DEF Read, Goto, StoreInv, TypeOK, OneBackend, FileSteps
<1>4. /\ pc'[c] = "replace" => ~WritesNothing(request[c], store) /\ V!Expected(request[c], store)
      /\ pc'[c] = "release" => WritesNothing(request[c], store)
  BY DEF Read, Goto, StoreInv, TypeOK
<1>5. copy'[c] = store /\ request' = request
  BY DEF Read, StoreInv, TypeOK
<1>6. CallInv(c)'
  BY <1>3, <1>4, <1>5 DEF Read, StoreInv, CallInv, Saves, WritesNothing, V!Expected
<1>7. \A d \in Clients \ {c} :
         /\ pc'[d] = pc[d] /\ request'[d] = request[d]
         /\ copy'[d] = copy[d] /\ dirty'[d] = dirty[d]
  BY DEF Read, Goto, StoreInv, TypeOK
<1>8. pc'[c] \notin (IF backend = "file" THEN RedisSteps ELSE FileSteps)
  BY <1>3 DEF RedisSteps
<1> QED BY <1>1, <1>2, <1>6, <1>7, <1>8, LocalStep DEF Read, StoreInv, SyncInv

LEMMA WatchKeeps ==
    ASSUME StoreInv, NEW c \in Clients, Watch(c)
    PROVE  StoreInv'
<1>1. TypeOK'
  BY DEF Watch, Goto, StoreInv, TypeOK
<1>2. LockInv'
  BY DEF Watch, Goto, StoreInv, LockInv, TypeOK
<1>3. pc[c] = "command" /\ backend = "redis" /\ pc'[c] = "get"
  BY DEF Watch, Goto, StoreInv, TypeOK, OneBackend, RedisSteps
<1>4. CallInv(c)'
  BY <1>3 DEF Watch, StoreInv, CallInv, Saves
<1>5. \A d \in Clients \ {c} :
         /\ pc'[d] = pc[d] /\ request'[d] = request[d]
         /\ copy'[d] = copy[d] /\ dirty'[d] = dirty[d]
  BY DEF Watch, Goto, StoreInv, TypeOK
<1>6. pc'[c] \notin (IF backend = "file" THEN RedisSteps ELSE FileSteps)
  BY <1>3 DEF FileSteps
<1> QED BY <1>1, <1>2, <1>4, <1>5, <1>6, LocalStep DEF Watch, StoreInv, SyncInv

LEMMA GetKeeps ==
    ASSUME StoreInv, NEW c \in Clients, Get(c)
    PROVE  StoreInv'
<1>1. TypeOK'
  BY DEF Get, Goto, StoreInv, TypeOK
<1>2. LockInv'
  BY DEF Get, Goto, StoreInv, LockInv, TypeOK
<1>3. pc[c] = "get" /\ backend = "redis" /\ pc'[c] \in {"exec", "refused"}
  BY DEF Get, Goto, StoreInv, TypeOK, OneBackend, RedisSteps
<1>4. pc'[c] = "exec" => V!Expected(request[c], store)
  BY DEF Get, Goto, StoreInv, TypeOK
<1>5. copy'[c] = store /\ request' = request
  BY DEF Get, StoreInv, TypeOK
<1>6. CallInv(c)'
  BY <1>3, <1>4, <1>5 DEF Get, StoreInv, CallInv, Saves, V!Expected
<1>7. \A d \in Clients \ {c} :
         /\ pc'[d] = pc[d] /\ request'[d] = request[d]
         /\ copy'[d] = copy[d] /\ dirty'[d] = dirty[d]
  BY DEF Get, Goto, StoreInv, TypeOK
<1>8. pc'[c] \notin (IF backend = "file" THEN RedisSteps ELSE FileSteps)
  BY <1>3 DEF FileSteps
<1> QED BY <1>1, <1>2, <1>6, <1>7, <1>8, LocalStep DEF Get, StoreInv, SyncInv

(* A request that is applied to the store moves its revision by one when   *)
(* it saves the snapshot and not at all otherwise.                         *)
LEMMA Grows ==
    ASSUME StoreInv, NEW c \in Clients, request[c].kind # "none",
           store' = V!Effect(request[c], store)
    PROVE  /\ store' \in Stores
           /\ store.snapshot.revision <= store'.snapshot.revision
           /\ Saves(c) => /\ store'.snapshot.revision = store.snapshot.revision + 1
                          /\ store'.state = store.state
           /\ ~Saves(c) => store'.snapshot = store.snapshot
<1>1. store \in Stores /\ request[c] \in V!Requests(MaxRevision)
  BY RequestType DEF StoreInv, TypeOK
<1>2. store.snapshot.revision \in Nat
  BY <1>1, StoreType
<1>3. /\ V!Effect(request[c], store) \in Stores
      /\ request[c].kind = "snapshot" =>
            /\ V!Effect(request[c], store).snapshot =
                  [revision |-> store.snapshot.revision + 1, value |-> request[c].value]
            /\ V!Effect(request[c], store).state = store.state
      /\ request[c].kind # "snapshot" =>
            V!Effect(request[c], store).snapshot = store.snapshot
  BY <1>1, EffectType
<1>4. CASE Saves(c)
  <2>1. store'.snapshot.revision = store.snapshot.revision + 1
        /\ store'.state = store.state /\ store' \in Stores
    BY <1>3, <1>4 DEF Saves
  <2> QED BY <1>2, <1>4, <2>1
<1>5. CASE ~Saves(c)
  <2>1. store'.snapshot = store.snapshot /\ store' \in Stores
    BY <1>3, <1>5 DEF Saves
  <2> QED BY <1>2, <1>5, <2>1
<1> QED BY <1>4, <1>5

LEMMA ReplaceKeeps ==
    ASSUME StoreInv, NEW c \in Clients, Replace(c)
    PROVE  StoreInv'
<1>1. /\ pc[c] = "replace" /\ backend = "file" /\ pc'[c] = "dirsync"
      /\ request' = request /\ dirty' = dirty
  BY DEF Replace, Goto, StoreInv, TypeOK, OneBackend, FileSteps
<1>2. /\ copy[c] = store /\ V!Expected(request[c], store)
      /\ request[c].kind # "none" /\ request[c].kind # "load"
      /\ request[c].expected <= store.snapshot.revision
      /\ request[c].expected < MaxRevision
  BY <1>1 DEF StoreInv, CallInv
<1>3. /\ store' \in Stores
      /\ store.snapshot.revision <= store'.snapshot.revision
      /\ Saves(c) => store'.snapshot.revision = store.snapshot.revision + 1
  BY <1>2, Grows DEF Replace
<1>4. /\ store.snapshot.revision \in Nat /\ store'.snapshot.revision \in Nat
      /\ synced.snapshot.revision \in Nat /\ request[c].expected \in Nat
  BY <1>2, <1>3, StoreType, RequestType DEF StoreInv, TypeOK
<1>5. TypeOK'
  BY <1>3 DEF Replace, Goto, StoreInv, TypeOK
<1>6. LockInv' /\ OneBackend'
  BY <1>1 DEF Replace, Goto, StoreInv, LockInv, TypeOK, OneBackend, RedisSteps
<1>7. SyncInv'
  BY <1>3, <1>4, StatePersistenceAssumption DEF Replace, StoreInv, TypeOK, SyncInv, Held
<1>8. CallInv(c)'
  BY <1>1, <1>2, <1>3, <1>4, StatePersistenceAssumption
     DEF StoreInv, CallInv, Saves, V!Expected
<1>9. ASSUME NEW d \in Clients \ {c} PROVE CallInv(d)'
  <2>1. lock[c] = "exclusive"
    BY <1>1, <1>2 DEF StoreInv, LockInv, Mode
  <2>2. pc[d] # "replace" /\ pc[d] # "exec"
    BY <1>1, <2>1 DEF StoreInv, LockInv, Mode, OneBackend, RedisSteps
  <2>3. /\ pc'[d] = pc[d] /\ request'[d] = request[d] /\ copy'[d] = copy[d]
        /\ synced' \in Stores /\ synced.snapshot.revision <= synced'.snapshot.revision
    BY <1>4 DEF Replace, Goto, StoreInv, TypeOK
  <2>4. dirty'[d] => pc[d] # "idle" /\ request[d].expected < store'.snapshot.revision
    <3>1. SUFFICES ASSUME dirty[d]
                   PROVE  pc[d] # "idle" /\ request[d].expected < store'.snapshot.revision
      BY <1>1
    <3>2. pc[d] # "idle" /\ request[d].kind # "none"
          /\ request[d].expected < store.snapshot.revision
      BY <3>1 DEF StoreInv, CallInv
    <3>3. request[d].expected \in Nat
      BY <3>2, RequestType DEF StoreInv
    <3> QED BY <1>3, <1>4, <3>2, <3>3
  <2> QED BY <1>3, <2>2, <2>3, <2>4, OthersKeep
<1> QED BY <1>5, <1>6, <1>7, <1>8, <1>9 DEF StoreInv
LEMMA SyncDirectoryKeeps ==
    ASSUME StoreInv, NEW c \in Clients, SyncDirectory(c)
    PROVE  StoreInv'
<1>1. /\ pc[c] = "dirsync" /\ backend = "file" /\ pc'[c] = "release"
      /\ synced' = store /\ store' = store /\ request' = request /\ dirty' = dirty
  BY DEF SyncDirectory, Goto, StoreInv, TypeOK, OneBackend, FileSteps
<1>2. /\ store.snapshot.revision \in Nat /\ synced.snapshot.revision \in Nat
      /\ synced.snapshot.revision <= store.snapshot.revision
      /\ acked \in Nat /\ Held(acked)
  BY StoreType, StatePersistenceAssumption DEF StoreInv, TypeOK, SyncInv
<1>3. TypeOK'
  BY <1>1 DEF SyncDirectory, Goto, StoreInv, TypeOK
<1>4. LockInv' /\ OneBackend'
  BY <1>1 DEF SyncDirectory, Goto, StoreInv, LockInv, TypeOK, OneBackend, RedisSteps
<1>5. SyncInv'
  BY <1>1, <1>2 DEF SyncDirectory, SyncInv, Held
<1>6. CallInv(c)'
  BY <1>1 DEF StoreInv, CallInv, Saves
<1>7. ASSUME NEW d \in Clients \ {c} PROVE CallInv(d)'
  <2>1. /\ pc'[d] = pc[d] /\ request'[d] = request[d] /\ copy'[d] = copy[d]
        /\ store' \in Stores /\ synced' \in Stores
    BY <1>1 DEF SyncDirectory, Goto, StoreInv, TypeOK
  <2>2. dirty[d] => pc[d] # "idle" /\ request[d].expected < store.snapshot.revision
    BY DEF StoreInv, CallInv
  <2> QED BY <1>1, <1>2, <2>1, <2>2, OthersKeep
<1> QED BY <1>3, <1>4, <1>5, <1>6, <1>7 DEF StoreInv

LEMMA CommandKeeps ==
    ASSUME StoreInv, NEW c \in Clients, Command(c)
    PROVE  StoreInv'
<1>1. /\ pc[c] = "command" /\ backend = "redis" /\ pc'[c] = "done"
      /\ synced' = synced /\ request' = request /\ dirty' = dirty
      /\ ~Saves(c)
  BY DEF Command, Goto, StoreInv, TypeOK, OneBackend, RedisSteps, Saves
<1>2. request[c].kind # "none"
  BY <1>1 DEF StoreInv, CallInv
<1>3. store' \in Stores /\ store'.snapshot = store.snapshot
  BY <1>1, <1>2, Grows DEF Command
<1>4. /\ store.snapshot.revision \in Nat /\ synced.snapshot.revision \in Nat
      /\ synced.snapshot.revision <= store.snapshot.revision
      /\ acked \in Nat /\ Held(acked)
  BY StoreType, StatePersistenceAssumption DEF StoreInv, TypeOK, SyncInv
<1>5. TypeOK'
  BY <1>1, <1>3 DEF Command, Goto, StoreInv, TypeOK
<1>6. LockInv' /\ OneBackend'
  BY <1>1 DEF Command, Goto, StoreInv, LockInv, TypeOK, OneBackend, FileSteps
<1>7. SyncInv'
  BY <1>1, <1>3, <1>4 DEF Command, SyncInv, Held
<1>8. CallInv(c)'
  BY <1>1, <1>3 DEF StoreInv, CallInv, Saves
<1>9. ASSUME NEW d \in Clients \ {c} PROVE CallInv(d)'
  <2>1. /\ pc'[d] = pc[d] /\ request'[d] = request[d] /\ copy'[d] = copy[d]
        /\ synced' \in Stores /\ pc[d] # "replace"
    BY <1>1, <1>3 DEF Command, Goto, StoreInv, TypeOK, OneBackend, FileSteps
  <2>2. dirty[d] => pc[d] # "idle" /\ request[d].expected < store.snapshot.revision
    BY DEF StoreInv, CallInv
  <2> QED BY <1>1, <1>3, <1>4, <2>1, <2>2, OthersKeep
<1> QED BY <1>5, <1>6, <1>7, <1>8, <1>9 DEF StoreInv

(* A transaction that is executed saves what it read.                      *)
LEMMA Executed ==
    ASSUME StoreInv, NEW c \in Clients, Execute(c), ~dirty[c]
    PROVE  /\ V!Expected(request[c], store)
           /\ store' = V!Effect(request[c], store)
           /\ request[c].kind = "snapshot"
<1>1. /\ pc[c] = "exec"
      /\ store' = [store EXCEPT !.snapshot = V!Effect(request[c], copy[c]).snapshot]
  BY DEF Execute
<1>2. /\ request[c].kind = "snapshot" /\ copy[c].snapshot = store.snapshot
      /\ V!Expected(request[c], copy[c])
  BY <1>1 DEF StoreInv, CallInv, Saves
<1>3. store \in Stores /\ copy[c] \in Stores /\ request[c] \in V!Requests(MaxRevision)
  BY <1>2, RequestType DEF StoreInv, TypeOK
<1>4. V!Effect(request[c], copy[c]).snapshot = V!Effect(request[c], store).snapshot
  <2>1. V!Effect(request[c], copy[c]).snapshot =
           [revision |-> copy[c].snapshot.revision + 1, value |-> request[c].value]
    BY <1>2, <1>3, EffectType
  <2>2. V!Effect(request[c], store).snapshot =
           [revision |-> store.snapshot.revision + 1, value |-> request[c].value]
    BY <1>2, <1>3, EffectType
  <2> QED BY <1>2, <2>1, <2>2
<1>5. store' = V!Effect(request[c], store)
  BY <1>1, <1>2, <1>3, <1>4 DEF V!Effect, Stores
<1> QED BY <1>2, <1>5 DEF V!Expected

LEMMA ExecuteKeeps ==
    ASSUME StoreInv, NEW c \in Clients, Execute(c)
    PROVE  StoreInv'
<1>1. pc[c] = "exec" /\ backend = "redis" /\ request' = request /\ Saves(c)
  BY DEF Execute, StoreInv, TypeOK, OneBackend, RedisSteps, CallInv
<1>2. CASE dirty[c]
  <2>1. pc'[c] = "stale" /\ UNCHANGED <<backend, store, synced, dirty, copy, acked>>
    BY <1>2 DEF Execute, Goto, StoreInv, TypeOK
  <2>2. TypeOK' /\ LockInv'
    BY <1>2 DEF Execute, Goto, StoreInv, TypeOK, LockInv
  <2>3. CallInv(c)'
    BY <1>1, <2>1 DEF StoreInv, CallInv, Saves
  <2>4. \A d \in Clients \ {c} : pc'[d] = pc[d]
    BY <1>2 DEF Execute, Goto, StoreInv, TypeOK
  <2>5. pc'[c] \notin (IF backend = "file" THEN RedisSteps ELSE FileSteps)
    BY <1>1, <2>1 DEF FileSteps
  <2> QED BY <1>1, <2>1, <2>2, <2>3, <2>4, <2>5, LocalStep DEF StoreInv, SyncInv
<1>3. CASE ~dirty[c]
  <2>1. /\ pc'[c] = "done" /\ synced' = synced /\ copy' = copy /\ acked' = acked
        /\ lock' = lock /\ backend' = backend
        /\ dirty' = [d \in Clients |-> dirty[d] \/ (pc[d] \in {"get", "exec"} /\ d # c)]
        /\ pc' = [pc EXCEPT ![c] = "done"]
    BY <1>3 DEF Execute, Goto, Touch, StoreInv, TypeOK
  <2>2. /\ request[c].kind # "none" /\ request[c].expected = store.snapshot.revision
        /\ request[c].expected < MaxRevision
        /\ store' = V!Effect(request[c], store)
    BY <1>1, <1>3, Executed DEF StoreInv, CallInv, V!Expected
  <2>3. store' \in Stores /\ store'.snapshot.revision = store.snapshot.revision + 1
    BY <1>1, <2>2, Grows
  <2>4. /\ store.snapshot.revision \in Nat /\ synced.snapshot.revision \in Nat
        /\ synced.snapshot.revision <= store.snapshot.revision
        /\ acked \in Nat /\ Held(acked)
    BY StoreType, StatePersistenceAssumption DEF StoreInv, TypeOK, SyncInv
  <2>5. TypeOK'
    <3>1. dirty' \in [Clients -> BOOLEAN]
      BY <2>1
    <3>2. pc' \in [Clients -> {"idle", "lock", "read", "replace", "dirsync", "release",
                         "command", "get", "exec", "done", "refused", "stale"}]
      BY <2>1 DEF StoreInv, TypeOK
    <3> QED BY <1>1, <2>1, <2>3, <3>1, <3>2 DEF StoreInv, TypeOK
  <2>6. LockInv' /\ OneBackend'
    BY <1>1, <2>1 DEF StoreInv, LockInv, TypeOK, OneBackend, FileSteps
  <2>7. SyncInv'
    BY <1>1, <2>1, <2>3, <2>4 DEF SyncInv, Held
  <2>8. CallInv(c)'
    <3>1. ~dirty'[c]
      BY <1>3, <2>1
    <3> QED BY <1>1, <2>1, <2>2, <2>3, <2>4, <3>1 DEF CallInv, Saves
  <2>9. ASSUME NEW d \in Clients \ {c} PROVE CallInv(d)'
    <3>1. pc'[d] = pc[d] /\ request'[d] = request[d] /\ copy'[d] = copy[d]
          /\ pc[d] # "replace"
      BY <1>1, <2>1 DEF StoreInv, TypeOK, OneBackend, FileSteps
    <3>2. dirty'[d] = (dirty[d] \/ pc[d] \in {"get", "exec"})
      BY <2>1
    <3>3. pc[d] # "idle" =>
             request[d].expected \in Nat /\ request[d].expected <= store.snapshot.revision
      BY RequestType DEF StoreInv, CallInv
    <3>4. dirty[d] => pc[d] # "idle"
      BY DEF StoreInv, CallInv
    <3>5. dirty'[d] => pc[d] # "idle" /\ request[d].expected < store'.snapshot.revision
      <4>1. pc[d] # "idle" => request[d].expected < store'.snapshot.revision
        BY <2>3, <2>4, <3>3
      <4>2. dirty'[d] => pc[d] # "idle"
        BY <3>2, <3>4, Zenon
      <4> QED BY <4>1, <4>2, Zenon
    <3>6. pc[d] = "exec" => dirty'[d]
      BY <3>2
    <3>7. /\ synced' \in Stores /\ synced.snapshot.revision <= synced'.snapshot.revision
          /\ store.snapshot.revision <= store'.snapshot.revision
      BY <2>1, <2>3, <2>4 DEF StoreInv, TypeOK
    <3> QED BY <2>3, <3>1, <3>5, <3>6, <3>7, OthersKeep
  <2> QED BY <2>5, <2>6, <2>7, <2>8, <2>9 DEF StoreInv
<1> QED BY <1>2, <1>3

LEMMA EndKeeps ==
    ASSUME StoreInv, NEW c \in Clients, Return(c) \/ RaiseConflict(c) \/ Fail(c)
    PROVE  StoreInv'
<1>1. acked \in 0..MaxRevision /\ Held(acked)
  BY DEF StoreInv, TypeOK, SyncInv
<1>2. CASE Return(c)
  <2>1. synced.snapshot.revision \in Nat /\ store.snapshot.revision \in Nat
        /\ synced.snapshot.revision <= store.snapshot.revision
    BY StoreType DEF StoreInv, TypeOK, SyncInv
  <2>2. pc[c] \in {"release", "done"} /\ request[c].kind # "none"
    BY <1>2 DEF Return, StoreInv, CallInv
  <2>3. request[c].expected \in Nat /\ request[c].expected < MaxRevision
    BY <2>2, RequestType DEF StoreInv, CallInv
  <2>4. Saves(c) => Held(request[c].expected + 1)
    <3>1. CASE pc[c] = "release"
      BY <2>1, <2>3, <3>1 DEF StoreInv, CallInv, Held
    <3>2. CASE pc[c] = "done"
      <4>1. backend # "file"
        BY <3>2 DEF StoreInv, OneBackend, RedisSteps
      <4> QED BY <2>1, <2>3, <3>2, <4>1 DEF StoreInv, CallInv, Held
    <3> QED BY <2>2, <3>1, <3>2
  <2>5. acked' \in 0..MaxRevision /\ Held(acked')
    BY <1>1, <1>2, <2>3, <2>4, StatePersistenceAssumption DEF Return, Saves
  <2> QED BY <1>2, <2>5, LeaveKeeps DEF Return
<1>3. CASE RaiseConflict(c) \/ Fail(c)
  BY <1>1, <1>3, LeaveKeeps DEF RaiseConflict, Fail
<1> QED BY <1>2, <1>3

LEMMA SyncAppendOnlyFileKeeps ==
    ASSUME StoreInv, SyncAppendOnlyFile
    PROVE  StoreInv'
<1>1. /\ backend = "redis" /\ synced' = store
      /\ UNCHANGED <<backend, store, lock, dirty, pc, request, copy, acked>>
  BY DEF SyncAppendOnlyFile
<1>2. TypeOK' /\ OneBackend' /\ LockInv'
  BY <1>1 DEF StoreInv, TypeOK, OneBackend, LockInv
<1>3. SyncInv'
  <2>1. store.snapshot.revision \in Nat
    BY StoreType DEF StoreInv, TypeOK
  <2> QED BY <1>1, <2>1 DEF StoreInv, SyncInv, Held
<1>4. ASSUME NEW d \in Clients PROVE CallInv(d)'
  <2>1. CallInv(d)
    BY DEF StoreInv
  <2>2. pc[d] # "release"
    BY <1>1 DEF StoreInv, OneBackend, FileSteps
  <2> QED BY <1>1, <2>1, <2>2 DEF CallInv, Saves, V!Expected
<1> QED BY <1>2, <1>3, <1>4 DEF StoreInv

LEMMA InitHolds ==
    ASSUME Init
    PROVE  StoreInv
<1>1. Empty \in Stores /\ Empty.snapshot.revision = 0
  BY DEF Empty, Stores, V!NoSnapshot
<1>2. TypeOK
  BY <1>1, StatePersistenceAssumption DEF Init, TypeOK
<1>3. OneBackend /\ LockInv /\ \A c \in Clients : CallInv(c)
  BY DEF Init, OneBackend, LockInv, CallInv, FileSteps, RedisSteps
<1>4. SyncInv
  BY <1>1 DEF Init, SyncInv, Held
<1> QED BY <1>2, <1>3, <1>4 DEF StoreInv

LEMMA NextKeeps ==
    ASSUME StoreInv, [Next]_vars
    PROVE  StoreInv'
<1>1. CASE UNCHANGED vars
  BY <1>1 DEF vars, StoreInv, TypeOK, OneBackend, LockInv, CallInv, Saves, SyncInv,
       V!Expected, Held
<1>2. CASE Next
  <2>0. CASE SyncAppendOnlyFile
    BY <2>0, SyncAppendOnlyFileKeeps
  <2>a. SUFFICES ASSUME ~SyncAppendOnlyFile PROVE StoreInv'
    BY <2>0
  <2>1. PICK c \in Clients :
           \/ Call(c)
           \/ Lock(c) \/ Read(c) \/ Replace(c) \/ SyncDirectory(c)
           \/ Command(c) \/ Watch(c) \/ Get(c) \/ Execute(c)
           \/ Return(c) \/ RaiseConflict(c) \/ Fail(c)
    BY <1>2, <2>a DEF Next
  <2>2. CASE Call(c)
    BY <2>2, CallKeeps
  <2>3. CASE Lock(c)
    BY <2>3, LockKeeps
  <2>4. CASE Read(c)
    BY <2>4, ReadKeeps
  <2>5. CASE Replace(c)
    BY <2>5, ReplaceKeeps
  <2>6. CASE SyncDirectory(c)
    BY <2>6, SyncDirectoryKeeps
  <2>7. CASE Command(c)
    BY <2>7, CommandKeeps
  <2>8. CASE Watch(c)
    BY <2>8, WatchKeeps
  <2>9. CASE Get(c)
    BY <2>9, GetKeeps
  <2>10. CASE Execute(c)
    BY <2>10, ExecuteKeeps
  <2>11. CASE Return(c) \/ RaiseConflict(c) \/ Fail(c)
    BY <2>11, EndKeeps
  <2> QED BY <2>1, <2>2, <2>3, <2>4, <2>5, <2>6, <2>7, <2>8, <2>9, <2>10, <2>11
<1> QED BY <1>1, <1>2

(* Whichever calls interleave and wherever processes die: a writer holds   *)
(* the file alone from its read to its rename, a transaction is executed   *)
(* only on what it read, and no backend is in the other's steps.           *)
THEOREM StoreInvariant == Spec => []StoreInv
<1>1. Init => StoreInv
  BY InitHolds
<1>2. StoreInv /\ [Next]_vars => StoreInv'
  BY NextKeeps
<1> QED BY <1>1, <1>2, PTL DEF Spec

(* A save that returned to its caller is never undone by a death, and the  *)
(* file backend keeps it over a power failure, for any number of processes: *)
(* state_persistence.py:368-401, 442-466.                                  *)
THEOREM Durable == Spec => []AckedIsDurable
<1>1. StoreInv => AckedIsDurable
  BY DEF StoreInv, SyncInv, Held, AckedIsDurable
<1> QED BY <1>1, StoreInvariant, PTL

-----------------------------------------------------------------------------
(* The refinement: which step of the versioned store each step is.         *)
StatusOf(label) ==
    CASE label = "idle" -> "idle"
      [] label \in {"dirsync", "release", "done"} -> "applied"
      [] label \in {"refused", "stale"} -> "refused"
      [] OTHER -> "pending"

Status == [c \in Clients |-> StatusOf(pc[c])]

(* A step of c moves the status of c and of no other client.               *)
LEMMA StatusMoves ==
    ASSUME TypeOK, NEW c \in Clients, NEW label, Goto(c, label)
    PROVE  Status' = [Status EXCEPT ![c] = StatusOf(label)]
<1>1. pc' = [pc EXCEPT ![c] = label] /\ DOMAIN pc = Clients
  BY DEF Goto, TypeOK
<1>2. \A d \in Clients : pc'[d] = IF d = c THEN label ELSE pc[d]
  BY <1>1
<1>3. \A d \in Clients : Status'[d] = IF d = c THEN StatusOf(label) ELSE Status[d]
  BY <1>2 DEF Status
<1> QED BY <1>3 DEF Status

(* The same when the status it leads to is the one it had.                 *)
LEMMA StatusStays ==
    ASSUME TypeOK, NEW c \in Clients, NEW label, Goto(c, label),
           StatusOf(label) = StatusOf(pc[c])
    PROVE  Status' = Status
<1>1. Status' = [Status EXCEPT ![c] = StatusOf(label)]
  BY StatusMoves
<1> QED BY <1>1 DEF Status

LEMMA Maps ==
    ASSUME StoreInv
    PROVE  /\ V!Contents = store
           /\ \A c \in Clients : Status[c] = StatusOf(pc[c])
<1>1. store = [snapshot |-> store.snapshot, state |-> store.state]
  BY StoreType DEF StoreInv, TypeOK
<1> QED BY <1>1 DEF V!Contents, Status

(* The abstract actions with the status spelt out.                         *)
LEMMA AbstractSteps ==
    ASSUME NEW c \in Clients
    PROVE  /\ V!Invoke(c) <=>
                /\ Status[c] = "idle"
                /\ \E r \in V!Requests(store.snapshot.revision) :
                      request' = [request EXCEPT ![c] = r]
                /\ Status' = [Status EXCEPT ![c] = "pending"]
                /\ UNCHANGED <<store.snapshot, store.state>>
           /\ V!Apply(c) <=>
                /\ Status[c] = "pending"
                /\ V!Expected(request[c], V!Contents)
                /\ store'.snapshot = V!Effect(request[c], V!Contents).snapshot
                /\ store'.state = V!Effect(request[c], V!Contents).state
                /\ Status' = [Status EXCEPT ![c] = "applied"]
                /\ request' = request
           /\ V!Refuse(c) <=>
                /\ Status[c] = "pending"
                /\ ~ V!Expected(request[c], V!Contents)
                /\ Status' = [Status EXCEPT ![c] = "refused"]
                /\ UNCHANGED <<store.snapshot, store.state, request>>
           /\ V!Finish(c) <=>
                /\ Status[c] # "idle"
                /\ Status' = [Status EXCEPT ![c] = "idle"]
                /\ request' = [request EXCEPT ![c] = V!NoRequest]
                /\ UNCHANGED <<store.snapshot, store.state>>
BY DEF V!Invoke, V!Apply, V!Refuse, V!Finish, Status, StatusOf

(* A step that leaves what the store promises about as it was.             *)
LEMMA Stutters ==
    ASSUME UNCHANGED <<store, request>>, Status' = Status
    PROVE  UNCHANGED V!storeVars
BY DEF V!storeVars, Status, StatusOf

LEMMA CallMaps ==
    ASSUME StoreInv, NEW c \in Clients, Call(c)
    PROVE  V!Invoke(c)
<1>1. Status[c] = "idle"
  BY Maps DEF Call, StatusOf
<1>2. CASE backend = "file"
  <2>1. Status' = [Status EXCEPT ![c] = StatusOf("lock")]
    BY <1>2, StatusMoves DEF Call, StoreInv
  <2> QED BY <1>1, <2>1, AbstractSteps DEF Call, StatusOf
<1>3. CASE backend # "file"
  <2>1. Status' = [Status EXCEPT ![c] = StatusOf("command")]
    BY <1>3, StatusMoves DEF Call, StoreInv
  <2> QED BY <1>1, <2>1, AbstractSteps DEF Call, StatusOf
<1> QED BY <1>2, <1>3

(* Lock, WATCH and the directory sync show nothing.                        *)
LEMMA SilentMaps ==
    ASSUME StoreInv, NEW c \in Clients, Lock(c) \/ Watch(c) \/ SyncDirectory(c)
    PROVE  UNCHANGED V!storeVars
<1>1. CASE Lock(c)
  <2>1. Status' = Status
    BY <1>1, StatusStays DEF Lock, StoreInv, StatusOf
  <2> QED BY <1>1, <2>1, Stutters DEF Lock
<1>2. CASE Watch(c)
  <2>1. Status' = Status
    BY <1>2, StatusStays DEF Watch, StoreInv, StatusOf
  <2> QED BY <1>2, <2>1, Stutters DEF Watch
<1>3. CASE SyncDirectory(c)
  <2>1. Status' = Status
    BY <1>3, StatusStays DEF SyncDirectory, StoreInv, StatusOf
  <2> QED BY <1>3, <2>1, Stutters DEF SyncDirectory
<1> QED BY <1>1, <1>2, <1>3

(* A request that writes nothing has no effect.                            *)
LEMMA NoEffect ==
    ASSUME NEW r \in V!Requests(MaxRevision), NEW s \in Stores, WritesNothing(r, s)
    PROVE  V!Effect(r, s) = s /\ V!Expected(r, s)
<1>1. CASE r.kind = "load"
  BY <1>1 DEF V!Effect, V!Expected
<1>2. CASE r.kind = "delete"
  <2>1. r.key \in Keys /\ r.value = Absent /\ s.state[r.key] = Absent
    BY <1>2 DEF V!Requests, WritesNothing
  <2>2. [s EXCEPT !.state[r.key] = r.value] = s
    BY <2>1 DEF Stores
  <2> QED BY <1>2, <2>2 DEF V!Effect, V!Expected
<1> QED BY <1>1, <1>2 DEF WritesNothing

(* What a load, or a delete of nothing, reads is what it answers; a stale  *)
(* save is refused where it reads.                                         *)
LEMMA ReadMaps ==
    ASSUME StoreInv, NEW c \in Clients, Read(c)
    PROVE  V!Apply(c) \/ V!Refuse(c) \/ UNCHANGED V!storeVars
<1>1. /\ pc[c] = "read" /\ UNCHANGED <<store, request>>
      /\ V!Contents = store /\ Status[c] = "pending"
  BY Maps DEF Read, StatusOf
<1>2. store \in Stores /\ request[c] \in V!Requests(MaxRevision)
  BY <1>1, RequestType DEF StoreInv, TypeOK, CallInv
<1>3. CASE WritesNothing(request[c], store)
  <2>1. Status' = [Status EXCEPT ![c] = StatusOf("release")]
    BY <1>3, StatusMoves DEF Read, StoreInv
  <2>2. V!Effect(request[c], store) = store /\ V!Expected(request[c], store)
    BY <1>2, <1>3, NoEffect
  <2> QED BY <1>1, <2>1, <2>2, AbstractSteps DEF StatusOf
<1>4. CASE ~WritesNothing(request[c], store) /\ V!Expected(request[c], store)
  <2>1. Goto(c, "replace")
    BY <1>4 DEF Read
  <2>2. Status' = Status
    BY <1>1, <2>1, StatusStays DEF StoreInv, StatusOf
  <2> QED BY <1>1, <2>2, Stutters
<1>5. CASE ~WritesNothing(request[c], store) /\ ~V!Expected(request[c], store)
  <2>1. Status' = [Status EXCEPT ![c] = StatusOf("refused")]
    BY <1>5, StatusMoves DEF Read, StoreInv
  <2> QED BY <1>1, <1>5, <2>1, AbstractSteps DEF StatusOf
<1> QED BY <1>3, <1>4, <1>5

(* The rename, a single command and an executed transaction are the        *)
(* instants at which a call takes effect.                                  *)
LEMMA ReplaceMaps ==
    ASSUME StoreInv, NEW c \in Clients, Replace(c)
    PROVE  V!Apply(c)
<1>1. pc[c] = "replace" /\ request' = request
  BY DEF Replace
<1>2. copy[c] = store /\ V!Expected(request[c], store)
  BY <1>1 DEF StoreInv, CallInv
<1>3. V!Contents = store /\ Status[c] = "pending"
  BY <1>1, Maps DEF StatusOf
<1>4. Status' = [Status EXCEPT ![c] = StatusOf("dirsync")]
  BY StatusMoves DEF Replace, StoreInv
<1>5. store' = V!Effect(request[c], store)
  BY <1>2 DEF Replace
<1> QED BY <1>1, <1>2, <1>3, <1>4, <1>5, AbstractSteps DEF StatusOf

LEMMA CommandMaps ==
    ASSUME StoreInv, NEW c \in Clients, Command(c)
    PROVE  V!Apply(c)
<1>1. pc[c] = "command" /\ request' = request /\ V!Expected(request[c], store)
  BY DEF Command, V!Expected
<1>2. V!Contents = store /\ Status[c] = "pending"
  BY <1>1, Maps DEF StatusOf
<1>3. Status' = [Status EXCEPT ![c] = StatusOf("done")]
  BY StatusMoves DEF Command, StoreInv
<1>4. store' = V!Effect(request[c], store)
  BY DEF Command
<1> QED BY <1>1, <1>2, <1>3, <1>4, AbstractSteps DEF StatusOf

LEMMA GetMaps ==
    ASSUME StoreInv, NEW c \in Clients, Get(c)
    PROVE  V!Refuse(c) \/ UNCHANGED V!storeVars
<1>1. pc[c] = "get" /\ UNCHANGED <<store, request>>
  BY DEF Get
<1>2. V!Contents = store /\ Status[c] = "pending"
  BY <1>1, Maps DEF StatusOf
<1>3. CASE V!Expected(request[c], store)
  <2>1. Goto(c, "exec")
    BY <1>3 DEF Get
  <2>2. Status' = Status
    BY <1>1, <2>1, StatusStays DEF StoreInv, StatusOf
  <2> QED BY <1>1, <2>2, Stutters
<1>4. CASE ~V!Expected(request[c], store)
  <2>1. Status' = [Status EXCEPT ![c] = StatusOf("refused")]
    BY <1>4, StatusMoves DEF Get, StoreInv
  <2> QED BY <1>1, <1>2, <1>4, <2>1, AbstractSteps DEF StatusOf
<1> QED BY <1>3, <1>4

(* A marked transaction is refused, and its revision is indeed stale.      *)
LEMMA ExecuteMaps ==
    ASSUME StoreInv, NEW c \in Clients, Execute(c)
    PROVE  V!Apply(c) \/ V!Refuse(c)
<1>1. pc[c] = "exec" /\ request' = request
  BY DEF Execute
<1>2. V!Contents = store /\ Status[c] = "pending"
  BY <1>1, Maps DEF StatusOf
<1>3. CASE dirty[c]
  <2>1. request[c].kind = "snapshot" /\ request[c].expected < store.snapshot.revision
    BY <1>1, <1>3 DEF StoreInv, CallInv, Saves
  <2>2. request[c].expected \in Nat /\ store.snapshot.revision \in Nat
    BY <2>1, RequestType, StoreType DEF StoreInv, TypeOK
  <2>3. ~V!Expected(request[c], store)
    BY <2>1, <2>2 DEF V!Expected
  <2>4. Status' = [Status EXCEPT ![c] = StatusOf("stale")] /\ UNCHANGED store
    BY <1>3, StatusMoves DEF Execute, StoreInv
  <2> QED BY <1>1, <1>2, <2>3, <2>4, AbstractSteps DEF StatusOf
<1>4. CASE ~dirty[c]
  <2>1. Status' = [Status EXCEPT ![c] = StatusOf("done")]
    BY <1>4, StatusMoves DEF Execute, StoreInv
  <2>2. V!Expected(request[c], store) /\ store' = V!Effect(request[c], store)
    BY <1>4, Executed
  <2> QED BY <1>1, <1>2, <2>1, <2>2, AbstractSteps DEF StatusOf
<1> QED BY <1>3, <1>4

LEMMA EndMaps ==
    ASSUME StoreInv, NEW c \in Clients, Return(c) \/ RaiseConflict(c) \/ Fail(c)
    PROVE  V!Finish(c)
<1>1. pc[c] # "idle" /\ Leave(c) /\ UNCHANGED store
  BY DEF Return, RaiseConflict, Fail
<1>2. Status[c] # "idle"
  BY <1>1, Maps DEF StatusOf
<1>3. Status' = [Status EXCEPT ![c] = StatusOf("idle")]
  BY <1>1, StatusMoves DEF Leave, StoreInv
<1> QED BY <1>1, <1>2, <1>3, AbstractSteps DEF Leave, StatusOf

LEMMA StepMaps ==
    ASSUME StoreInv, [Next]_vars
    PROVE  [V!Next]_(V!storeVars)
<1>1. CASE UNCHANGED vars \/ SyncAppendOnlyFile
  BY <1>1 DEF vars, SyncAppendOnlyFile, V!storeVars
<1>2. CASE Next /\ ~SyncAppendOnlyFile
  <2>1. PICK c \in Clients :
           \/ Call(c)
           \/ Lock(c) \/ Read(c) \/ Replace(c) \/ SyncDirectory(c)
           \/ Command(c) \/ Watch(c) \/ Get(c) \/ Execute(c)
           \/ Return(c) \/ RaiseConflict(c) \/ Fail(c)
    BY <1>2 DEF Next
  <2>2. V!Invoke(c) \/ V!Apply(c) \/ V!Refuse(c) \/ V!Finish(c) => V!Next
    BY DEF V!Next
  <2>3. CASE Call(c)
    BY <2>2, <2>3, CallMaps
  <2>4. CASE Lock(c) \/ Watch(c) \/ SyncDirectory(c)
    BY <2>4, SilentMaps
  <2>5. CASE Read(c)
    BY <2>2, <2>5, ReadMaps
  <2>6. CASE Replace(c)
    BY <2>2, <2>6, ReplaceMaps
  <2>7. CASE Command(c)
    BY <2>2, <2>7, CommandMaps
  <2>8. CASE Get(c)
    BY <2>2, <2>8, GetMaps
  <2>9. CASE Execute(c)
    BY <2>2, <2>9, ExecuteMaps
  <2>10. CASE Return(c) \/ RaiseConflict(c) \/ Fail(c)
    BY <2>2, <2>10, EndMaps
  <2> QED BY <2>1, <2>3, <2>4, <2>5, <2>6, <2>7, <2>8, <2>9, <2>10
<1> QED BY <1>1, <1>2

(* Both backends implement the versioned store, for any number of clients, *)
(* keys and revisions: every call takes effect at one instant or not at    *)
(* all, and a save on a stale revision changes nothing.                    *)
THEOREM StoreImplements == Spec => Implements
<1>1. Init => V!Init
  <2>1. ASSUME Init PROVE V!Init
    <3>1. Status = [c \in Clients |-> "idle"]
      BY <2>1 DEF Init, Status, StatusOf
    <3> QED BY <2>1, <3>1 DEF Init, V!Init, Empty, Status, StatusOf
  <2> QED BY <2>1
<1>2. StoreInv /\ [Next]_vars => [V!Next]_(V!storeVars)
  BY StepMaps
<1> QED BY <1>1, <1>2, StoreInvariant, PTL DEF Spec, Implements, V!Spec

-----------------------------------------------------------------------------
(* The other stores.                                                       *)

USE DEF parquet, cache

-----------------------------------------------------------------------------
(* The Parquet store: its inductive invariant.                             *)

Overwrites(F) == {f \in F : f.mode = "overwrite"}
FilesOf(dir) == IF dir = Absent THEN {} ELSE dir.files

(* A writer has a call while it works on it, a staging directory until it  *)
(* has published that or left, and a backup from one rename to the other.  *)
(* What it stages is its own call's.                                       *)
WriterInv(w) ==
    /\ at[w] \in {"mkdir", "files", "look", "set_aside", "publish"} => call[w] # Absent
    /\ at[w] = "mkdir" => call[w].mode = "append"
    /\ at[w] = "files" /\ call[w].mode = "overwrite" => staging[w] # Absent
    /\ at[w] \in {"look", "set_aside", "publish"} => staging[w] # Absent
    /\ at[w] = "restore" => backup[w] # Absent
    /\ at[w] \in {"idle", "mkdir", "drop"} => staging[w] = Absent
    /\ at[w] \in {"idle", "mkdir", "files", "look", "set_aside"} => backup[w] = Absent
    /\ call[w] # Absent => call[w].batch <= writes
    /\ staging[w] # Absent =>
          /\ call[w] # Absent /\ call[w].mode = "overwrite"
          /\ \A f \in staging[w].files : f.batch = call[w].batch

OwnBatches ==
    \A v, w \in Clients :
        v # w /\ call[v] # Absent /\ call[w] # Absent => call[v].batch # call[w].batch

(* Files outside a staging directory are of calls that have begun, and those *)
(* of overwrites are of none that is still staged.                         *)
Released(F) ==
    \A f \in F :
        /\ f.batch <= writes
        /\ f.mode = "overwrite" =>
              \A w \in Clients : staging[w] # Absent => f.batch # call[w].batch

OneVersion(F) == \A f, g \in Overwrites(F) : f.batch = g.batch

(* A directory that is or was the dataset holds one overwrite.             *)
DiskInv ==
    \A dir \in {path} \cup {backup[w] : w \in Clients} :
        Released(FilesOf(dir)) /\ OneVersion(FilesOf(dir))

(* Of the files a reader found, those of another overwrite than one it has  *)
(* opened are still to be opened, and are not in the dataset any more.     *)
ReaderInv(r) ==
    /\ Released(found[r])
    /\ at[r] \in {"open", "done"} => todo[r] \subseteq found[r]
    /\ at[r] = "done" => todo[r] = {}
    /\ at[r] \in {"open", "done"} /\ r \notin disturbed =>
          \A f \in Overwrites(found[r] \ todo[r]), g \in Overwrites(found[r]) :
              f.batch # g.batch =>
                  /\ g \in todo[r]
                  /\ \A h \in Overwrites(FilesOf(path)) : h.batch # g.batch

Holds(dir) == dir # Absent /\ published \subseteq dir.files

(* A backup that holds the last dataset is not one that is being dropped.  *)
SurvivesInv ==
    published # {} =>
        \/ Holds(path)
        \/ \E w \in Clients :
              at[w] \in {"publish", "restore", "give_up"} /\ Holds(backup[w])
        \/ \E dir \in orphans : Holds(dir)

ParquetInv ==
    /\ Parquet!TypeOK
    /\ \A w \in Clients : WriterInv(w)
    /\ OwnBatches
    /\ DiskInv
    /\ \A r \in Readers : ReaderInv(r)
    /\ SurvivesInv

-----------------------------------------------------------------------------
LEMMA EmptyFacts ==
    Parquet!EmptyDir \in Parquet!Dirs /\ Parquet!EmptyDir # Absent /\ Parquet!EmptyDir.files = {}
<1>1. Parquet!EmptyDir \in Parquet!Dirs /\ Parquet!EmptyDir.files = {}
  BY DEF Parquet!EmptyDir, Parquet!Dirs
<1> QED
  BY <1>1, StoresAssumption

(* Files and markers are added to directories, which stay directories.     *)
LEMMA DirFacts ==
    /\ Parquet!EmptyDir \in Parquet!Dirs
    /\ \A d \in Parquet!Dirs, F \in SUBSET Parquet!Files :
          /\ [d EXCEPT !.files = @ \cup F] \in Parquet!Dirs
          /\ [d EXCEPT !.files = @ \cup F].files = d.files \cup F
    /\ \A d \in Parquet!Dirs :
          /\ [d EXCEPT !.marker = TRUE] \in Parquet!Dirs
          /\ [d EXCEPT !.marker = TRUE].files = d.files
    /\ \A d \in Parquet!Dirs : d.files \in SUBSET Parquet!Files
BY DEF Parquet!EmptyDir, Parquet!Dirs

(* The file of a partition that is left is of its call's batch and mode.   *)
LEMMA NamedFacts ==
    ASSUME NEW c \in Parquet!Calls, NEW part \in c.left
    PROVE  /\ Parquet!Named(c, part) \in Parquet!Files
           /\ Parquet!Named(c, part).batch = c.batch
           /\ Parquet!Named(c, part).mode = c.mode
BY DEF Parquet!Files, Parquet!Calls, Parquet!Named

LEMMA ParquetTypeStep ==
    ASSUME Parquet!TypeOK, \A w \in Clients : WriterInv(w), Parquet!Next
    PROVE  Parquet!TypeOK'
<1> USE StoresAssumption DEF Parquet!TypeOK, Parquet!disk, Parquet!history,
        Parquet!Goto, Parquet!Processes, Parquet!Labels
<1>1. ASSUME NEW w \in Clients, Parquet!StartWrite(w) PROVE Parquet!TypeOK'
  BY <1>1, DirFacts DEF Parquet!StartWrite, Parquet!Calls, Parquet!Batches, Parquet!Modes
<1>2. ASSUME NEW w \in Clients, Parquet!MakeDir(w) PROVE Parquet!TypeOK'
  BY <1>2, DirFacts DEF Parquet!MakeDir
<1>3. ASSUME NEW w \in Clients, Parquet!WriteFile(w) PROVE Parquet!TypeOK'
  <2>1. PICK part \in call[w].left :
          /\ Parquet!Put(w, [Parquet!Into(w) EXCEPT !.files = @ \cup {Parquet!Named(call[w], part)}])
          /\ call' = [call EXCEPT ![w].left = @ \ {part}]
    BY <1>3 DEF Parquet!WriteFile
  <2>2. call[w] \in Parquet!Calls /\ Parquet!Into(w) \in Parquet!Dirs
    BY <1>3, DirFacts DEF Parquet!WriteFile, Parquet!Into, WriterInv
  <2>3. [Parquet!Into(w) EXCEPT !.files = @ \cup {Parquet!Named(call[w], part)}] \in Parquet!Dirs
    <3>1. {Parquet!Named(call[w], part)} \in SUBSET Parquet!Files
      BY <2>2, NamedFacts
    <3> HIDE DEF Parquet!TypeOK
    <3> QED
      BY <2>2, <3>1, DirFacts, Zenon
  <2>4. call' \in [Clients -> Parquet!Calls \cup {Absent}]
    BY <2>1, <2>2 DEF Parquet!Calls
  <2> QED
    <3> DEFINE dir == [Parquet!Into(w) EXCEPT !.files = @ \cup {Parquet!Named(call[w], part)}]
    <3> HIDE DEF dir
    <3>1. Parquet!Put(w, dir)
      BY <2>1 DEF dir
    <3>2. dir \in Parquet!Dirs
      BY <2>3 DEF dir
    <3> QED
      BY <1>3, <3>1, <3>2, <2>4 DEF Parquet!WriteFile, Parquet!Put
<1>4. ASSUME NEW w \in Clients, Parquet!WriteMarker(w) PROVE Parquet!TypeOK'
  BY <1>4, DirFacts DEF Parquet!WriteMarker, Parquet!Put, Parquet!Into, WriterInv
<1>5. ASSUME NEW w \in Clients, Parquet!Look(w) PROVE Parquet!TypeOK'
  BY <1>5 DEF Parquet!Look
<1>6. ASSUME NEW w \in Clients, Parquet!SetAside(w) PROVE Parquet!TypeOK'
  BY <1>6 DEF Parquet!SetAside
<1>7. ASSUME NEW w \in Clients, Parquet!Publish(w) PROVE Parquet!TypeOK'
  BY <1>7, DirFacts DEF Parquet!Publish, WriterInv
<1>8. ASSUME NEW w \in Clients, Parquet!PublishFails(w) PROVE Parquet!TypeOK'
  BY <1>8 DEF Parquet!PublishFails
<1>9. ASSUME NEW w \in Clients, Parquet!Restore(w) PROVE Parquet!TypeOK'
  BY <1>9 DEF Parquet!Restore
<1>10. ASSUME NEW w \in Clients, Parquet!DropBackup(w) PROVE Parquet!TypeOK'
  BY <1>10 DEF Parquet!DropBackup
<1>11. ASSUME NEW w \in Clients, Parquet!Leave(w) PROVE Parquet!TypeOK'
  BY <1>11 DEF Parquet!Leave
<1>12. ASSUME NEW r \in Readers, Parquet!StartRead(r) PROVE Parquet!TypeOK'
  BY <1>12 DEF Parquet!StartRead, Parquet!Dirs, Parquet!Files
<1>13. ASSUME NEW r \in Readers, Parquet!Discover(r) PROVE Parquet!TypeOK'
  BY <1>13 DEF Parquet!Discover, Parquet!Dirs
<1>14. ASSUME NEW r \in Readers, Parquet!Discovered(r) PROVE Parquet!TypeOK'
  BY <1>14 DEF Parquet!Discovered
<1>15. ASSUME NEW r \in Readers, Parquet!Open(r) PROVE Parquet!TypeOK'
  BY <1>15 DEF Parquet!Open
<1>16. ASSUME NEW r \in Readers, Parquet!Opened(r) PROVE Parquet!TypeOK'
  BY <1>16 DEF Parquet!Opened
<1>17. ASSUME NEW r \in Readers, Parquet!EndRead(r) PROVE Parquet!TypeOK'
  BY <1>17 DEF Parquet!EndRead
<1> QED
  BY <1>1, <1>2, <1>3, <1>4, <1>5, <1>6, <1>7, <1>8, <1>9, <1>10, <1>11, <1>12, <1>13, <1>14, <1>15, <1>16, <1>17 DEF Parquet!Next

(* What writing a file does: to the staging directory of an overwrite, or  *)
(* to the dataset.                                                         *)
AddsFile(w, f) ==
    /\ at[w] = "files"
    /\ call[w] # Absent
    /\ f.batch = call[w].batch /\ f.mode = call[w].mode
    /\ call[w].mode = "overwrite" =>
          /\ path' = path
          /\ staging' = [staging EXCEPT ![w] = staging'[w]]
          /\ staging'[w] \in Parquet!Dirs
          /\ staging'[w].files = staging[w].files \cup {f}
    /\ call[w].mode # "overwrite" =>
          /\ staging' = staging
          /\ path' \in Parquet!Dirs
          /\ FilesOf(path') = FilesOf(path) \cup {f}
    /\ \A v \in Clients :
          /\ call'[v] = Absent <=> call[v] = Absent
          /\ call'[v].batch = call[v].batch /\ call'[v].mode = call[v].mode
    /\ UNCHANGED <<backup, orphans, at, found, todo, writes, published, disturbed>>

(* What writing the marker does.                                           *)
AddsMarker(w) ==
    /\ at[w] = "files"
    /\ call[w] # Absent
    /\ call[w].mode = "overwrite" =>
          /\ path' = path
          /\ staging' = [staging EXCEPT ![w] = staging'[w]]
          /\ staging'[w] \in Parquet!Dirs
          /\ staging'[w].files = staging[w].files
          /\ at' = [at EXCEPT ![w] = "look"] /\ call' = call
    /\ call[w].mode # "overwrite" =>
          /\ staging' = staging
          /\ path' \in Parquet!Dirs /\ path # Absent
          /\ FilesOf(path') = FilesOf(path)
          /\ at' = [at EXCEPT ![w] = "idle"]
          /\ call' = [call EXCEPT ![w] = Absent]
    /\ UNCHANGED <<backup, orphans, found, todo, writes, published, disturbed>>

LEMMA WriteFileAdds ==
    ASSUME Parquet!TypeOK, NEW w \in Clients, WriterInv(w), Parquet!WriteFile(w)
    PROVE  \E f \in Parquet!Files : AddsFile(w, f)
<1> USE StoresAssumption
<1>1. PICK part \in call[w].left :
        /\ Parquet!Put(w, [Parquet!Into(w) EXCEPT !.files = @ \cup {Parquet!Named(call[w], part)}])
        /\ call' = [call EXCEPT ![w].left = @ \ {part}]
  BY DEF Parquet!WriteFile
<1>2. call[w] \in Parquet!Calls /\ Parquet!Into(w) \in Parquet!Dirs
  BY DirFacts DEF Parquet!WriteFile, Parquet!Into, Parquet!TypeOK, WriterInv
<1>3. Parquet!Into(w).files =
        IF call[w].mode = "overwrite" THEN staging[w].files ELSE FilesOf(path)
  BY DEF Parquet!Into, Parquet!EmptyDir, FilesOf
<1> DEFINE f == Parquet!Named(call[w], part)
           dir == [Parquet!Into(w) EXCEPT !.files = @ \cup {f}]
<1>4. /\ f \in Parquet!Files /\ f.batch = call[w].batch /\ f.mode = call[w].mode
  BY <1>2, NamedFacts
<1> HIDE DEF f
<1>5. dir \in Parquet!Dirs /\ dir.files = Parquet!Into(w).files \cup {f}
  <2>1. {f} \in SUBSET Parquet!Files
    BY <1>4
  <2> QED
    BY <1>2, <2>1, DirFacts, Zenon
<1>6. Parquet!Put(w, dir)
  BY <1>1 DEF f
<1> HIDE DEF dir
<1>7. \A v \in Clients :
        /\ call'[v] = Absent <=> call[v] = Absent
        /\ call'[v].batch = call[v].batch /\ call'[v].mode = call[v].mode
  BY <1>1, <1>2 DEF Parquet!TypeOK, Parquet!Calls
<1>8. w \in DOMAIN staging
  BY DEF Parquet!TypeOK
<1>9. /\ at[w] = "files" /\ call[w] # Absent
      /\ UNCHANGED <<backup, orphans, at, found, todo, writes, published, disturbed>>
  BY <1>2 DEF Parquet!WriteFile, Parquet!history
<1>10. path' \in Parquet!Dirs => FilesOf(path') = path'.files
  BY DEF FilesOf
<1> QED
  BY <1>3, <1>4, <1>5, <1>6, <1>7, <1>8, <1>9, <1>10 DEF Parquet!Put, AddsFile

LEMMA WriteMarkerAdds ==
    ASSUME Parquet!TypeOK, NEW w \in Clients, WriterInv(w), Parquet!WriteMarker(w)
    PROVE  AddsMarker(w)
<1> USE StoresAssumption
<1>1. call[w] \in Parquet!Calls /\ Parquet!Into(w) \in Parquet!Dirs
  BY DirFacts DEF Parquet!WriteMarker, Parquet!Into, Parquet!TypeOK, WriterInv
<1>2. call[w].mode # "overwrite" => path # Absent
  BY <1>1 DEF Parquet!WriteMarker, Parquet!Calls, Parquet!Modes
<1>3. Parquet!Into(w).files = IF call[w].mode = "overwrite" THEN staging[w].files ELSE path.files
  BY <1>2 DEF Parquet!Into
<1> DEFINE dir == [Parquet!Into(w) EXCEPT !.marker = TRUE]
<1>4. dir \in Parquet!Dirs /\ dir.files = Parquet!Into(w).files
  BY <1>1, DirFacts, Zenon
<1> HIDE DEF dir
<1>5. Parquet!Put(w, dir)
  BY SMTT(30) DEF Parquet!WriteMarker, dir
<1> QED
  BY <1>1, <1>2, <1>3, <1>4, <1>5
     DEF Parquet!WriteMarker, Parquet!Put, Parquet!Goto, Parquet!TypeOK, Parquet!history,
         AddsMarker, FilesOf

LEMMA WriterStep ==
    ASSUME Parquet!TypeOK, \A w \in Clients : WriterInv(w), OwnBatches, Parquet!Next
    PROVE  (\A w \in Clients : WriterInv(w))' /\ OwnBatches'
<1> DEFINE Goal == (\A w \in Clients : WriterInv(w))' /\ OwnBatches'
<1> SUFFICES Goal
  OBVIOUS
<1>0. \A w \in Clients : call[w] # Absent => call[w].batch \in Nat
  BY StoresAssumption DEF Parquet!TypeOK, Parquet!Calls, Parquet!Batches
<1> USE StoresAssumption, <1>0 DEF Parquet!TypeOK, Parquet!disk, Parquet!history,
        Parquet!Goto, Parquet!Processes, Parquet!Labels, WriterInv, OwnBatches
<1>1. ASSUME NEW w \in Clients, Parquet!StartWrite(w) PROVE Goal
  <2>1. PICK mode \in Parquet!Modes, parts \in (SUBSET Parts) \ {{}} :
          /\ call' = [call EXCEPT ![w] = [batch |-> writes + 1, mode |-> mode, left |-> parts]]
          /\ IF mode = "overwrite"
               THEN staging' = [staging EXCEPT ![w] = Parquet!EmptyDir] /\ at' = [at EXCEPT ![w] = "files"]
               ELSE staging' = staging /\ at' = [at EXCEPT ![w] = "mkdir"]
    BY <1>1 DEF Parquet!StartWrite
  <2> DEFINE c == [batch |-> writes + 1, mode |-> mode, left |-> parts]
  <2>2. c # Absent /\ c.batch = writes + 1 /\ c.mode = mode
    BY <1>1 DEF Parquet!StartWrite, Parquet!Calls, Parquet!Batches
  <2>3. at[w] = "idle" /\ writes' = writes + 1 /\ backup' = backup /\ writes \in Nat
    BY <1>1 DEF Parquet!StartWrite
  <2> mode # "overwrite" => mode = "append"
    BY DEF Parquet!Modes
  <2>4. call' = [call EXCEPT ![w] = c]
    BY <2>1
  <2> HIDE DEF c
  <2>5. OwnBatches'
    BY <2>2, <2>3, <2>4
  <2>6. ASSUME NEW v \in Clients PROVE WriterInv(v)'
    BY <2>1, <2>2, <2>3, <2>4, EmptyFacts
  <2> QED
    BY <2>5, <2>6
<1>2. ASSUME NEW w \in Clients, Parquet!MakeDir(w) PROVE Goal
  BY <1>2 DEF Parquet!MakeDir
<1>3. ASSUME NEW w \in Clients, Parquet!WriteFile(w) PROVE Goal
  <2>1. PICK f \in Parquet!Files : AddsFile(w, f)
    BY <1>3, WriteFileAdds
  <2> QED
    BY <2>1 DEF AddsFile
<1>4. ASSUME NEW w \in Clients, Parquet!WriteMarker(w) PROVE Goal
  <2>1. AddsMarker(w)
    BY <1>4, WriteMarkerAdds
  <2> QED
    BY <2>1 DEF AddsMarker
<1>5. ASSUME NEW w \in Clients, Parquet!Look(w) PROVE Goal
  BY <1>5 DEF Parquet!Look
<1>6. ASSUME NEW w \in Clients, Parquet!SetAside(w) PROVE Goal
  BY <1>6 DEF Parquet!SetAside
<1>7. ASSUME NEW w \in Clients, Parquet!Publish(w) PROVE Goal
  BY <1>7 DEF Parquet!Publish
<1>8. ASSUME NEW w \in Clients, Parquet!PublishFails(w) PROVE Goal
  BY <1>8 DEF Parquet!PublishFails
<1>9. ASSUME NEW w \in Clients, Parquet!Restore(w) PROVE Goal
  BY <1>9 DEF Parquet!Restore
<1>10. ASSUME NEW w \in Clients, Parquet!DropBackup(w) PROVE Goal
  BY <1>10 DEF Parquet!DropBackup
<1>11. ASSUME NEW w \in Clients, Parquet!Leave(w) PROVE Goal
  BY <1>11 DEF Parquet!Leave
<1>12. ASSUME NEW r \in Readers, Parquet!StartRead(r) PROVE Goal
  BY <1>12 DEF Parquet!StartRead
<1>13. ASSUME NEW r \in Readers, Parquet!Discover(r) PROVE Goal
  BY <1>13 DEF Parquet!Discover
<1>14. ASSUME NEW r \in Readers, Parquet!Discovered(r) PROVE Goal
  BY <1>14 DEF Parquet!Discovered
<1>15. ASSUME NEW r \in Readers, Parquet!Open(r) PROVE Goal
  BY <1>15 DEF Parquet!Open
<1>16. ASSUME NEW r \in Readers, Parquet!Opened(r) PROVE Goal
  BY <1>16 DEF Parquet!Opened
<1>17. ASSUME NEW r \in Readers, Parquet!EndRead(r) PROVE Goal
  BY <1>17 DEF Parquet!EndRead
<1> QED
  BY <1>1, <1>2, <1>3, <1>4, <1>5, <1>6, <1>7, <1>8, <1>9, <1>10, <1>11, <1>12, <1>13, <1>14, <1>15, <1>16, <1>17 DEF Parquet!Next

(* What was released stays so while nothing but new calls is staged.       *)
LEMMA ReleasedStays ==
    ASSUME NEW F, Released(F), writes \in Nat, writes' \in Nat, writes' >= writes,
           \A f \in F : f.batch \in Nat,
           \A w \in Clients : staging'[w] # Absent =>
              \/ staging[w] # Absent /\ call'[w].batch = call[w].batch
              \/ call'[w].batch = writes + 1
    PROVE  Released(F)'
<1> SUFFICES ASSUME NEW f \in F
             PROVE  /\ f.batch <= writes'
                    /\ f.mode = "overwrite" =>
                          \A w \in Clients : staging'[w] # Absent => f.batch # call'[w].batch
  BY DEF Released
<1>1. f.batch \in Nat /\ f.batch <= writes
  BY DEF Released
<1>2. f.batch # writes + 1 /\ f.batch <= writes'
  BY <1>1
<1> QED BY <1>1, <1>2 DEF Released

LEMMA DiskStep ==
    ASSUME Parquet!TypeOK, \A w \in Clients : WriterInv(w), OwnBatches, DiskInv,
           \A r \in Readers : Released(found[r]), Parquet!Next
    PROVE  DiskInv' /\ (\A r \in Readers : Released(found[r]))'
<1> DEFINE Goal == DiskInv' /\ (\A r \in Readers : Released(found[r]))'
<1> SUFFICES Goal
  OBVIOUS
<1>0. /\ \A w \in Clients : call[w] # Absent => call[w].batch \in Nat
      /\ \A f \in FilesOf(path) : f.batch \in Nat
      /\ \A w \in Clients : \A f \in FilesOf(backup[w]) : f.batch \in Nat
      /\ \A r \in Readers : \A f \in found[r] : f.batch \in Nat
  BY StoresAssumption DEF Parquet!TypeOK, Parquet!Calls, Parquet!Batches, Parquet!Dirs, Parquet!Files, FilesOf
<1> USE StoresAssumption, <1>0 DEF Parquet!TypeOK, Parquet!disk, Parquet!history,
        Parquet!Goto, Parquet!Processes, Parquet!Labels, WriterInv, OwnBatches, DiskInv,
        Released, OneVersion, Overwrites, FilesOf
<1>1. ASSUME NEW w \in Clients, Parquet!StartWrite(w) PROVE Goal
  <2>1. PICK mode \in Parquet!Modes, parts \in (SUBSET Parts) \ {{}} :
          /\ call' = [call EXCEPT ![w] = [batch |-> writes + 1, mode |-> mode, left |-> parts]]
          /\ IF mode = "overwrite"
               THEN staging' = [staging EXCEPT ![w] = Parquet!EmptyDir] /\ at' = [at EXCEPT ![w] = "files"]
               ELSE staging' = staging /\ at' = [at EXCEPT ![w] = "mkdir"]
    BY <1>1 DEF Parquet!StartWrite
  <2> DEFINE c == [batch |-> writes + 1, mode |-> mode, left |-> parts]
  <2>2. c # Absent /\ c.batch = writes + 1 /\ c.mode = mode
    BY <1>1 DEF Parquet!StartWrite, Parquet!Calls, Parquet!Batches
  <2>3. at[w] = "idle" /\ writes' = writes + 1 /\ backup' = backup /\ writes \in Nat
    BY <1>1 DEF Parquet!StartWrite
  <2> QED
    BY <1>1, <2>1, <2>2, <2>3, SMTT(30) DEF Parquet!StartWrite
<1>2. ASSUME NEW w \in Clients, Parquet!MakeDir(w) PROVE Goal
  BY <1>2, EmptyFacts, SMTT(30) DEF Parquet!MakeDir
<1>3. ASSUME NEW w \in Clients, Parquet!WriteFile(w) PROVE Goal
  <2>1. PICK f \in Parquet!Files : AddsFile(w, f)
    BY <1>3, WriteFileAdds
  <2> QED
    BY <2>1, SMTT(30) DEF AddsFile
<1>4. ASSUME NEW w \in Clients, Parquet!WriteMarker(w) PROVE Goal
  <2>1. AddsMarker(w)
    BY <1>4, WriteMarkerAdds
  <2> QED
    BY <2>1, SMTT(30) DEF AddsMarker
<1>5. ASSUME NEW w \in Clients, Parquet!Look(w) PROVE Goal
  BY <1>5 DEF Parquet!Look
<1>6. ASSUME NEW w \in Clients, Parquet!SetAside(w) PROVE Goal
  BY <1>6 DEF Parquet!SetAside
<1>7. ASSUME NEW w \in Clients, Parquet!Publish(w) PROVE Goal
  <2>1. /\ at[w] = "publish" /\ path' = staging[w] /\ staging' = [staging EXCEPT ![w] = Absent]
        /\ UNCHANGED <<backup, call, found, writes>>
    BY <1>7 DEF Parquet!Publish
  <2>2. staging[w] # Absent /\ call[w] # Absent /\ call[w].batch <= writes
    BY <2>1
  <2>3. /\ \A f \in FilesOf(staging[w]) : f.batch = call[w].batch
        /\ \A v \in Clients : staging'[v] # Absent => v # w /\ staging[v] # Absent
        /\ \A v \in Clients : staging[v] # Absent => call[v] # Absent
    BY <2>1, <2>2
  <2>4. Released(FilesOf(path))' /\ OneVersion(FilesOf(path))'
    <3>1. FilesOf(path)' = FilesOf(staging[w])
      BY <2>1
    <3>2. \A v \in Clients : staging'[v] # Absent => call[v].batch # call[w].batch
      BY <2>2, <2>3
    <3> HIDE DEF WriterInv, OwnBatches, DiskInv, FilesOf
    <3> QED BY <2>1, <2>2, <2>3, <3>1, <3>2
  <2>5. ASSUME NEW F, Released(F), \A f \in F : f.batch \in Nat PROVE Released(F)'
    <3>1. writes \in Nat /\ writes' = writes
      BY <2>1
    <3> HIDE DEF WriterInv, OwnBatches, DiskInv, Released, FilesOf
    <3> QED BY <2>1, <2>3, <2>5, <3>1, ReleasedStays
  <2>6. ASSUME NEW v \in Clients PROVE Released(FilesOf(backup[v]))' /\ OneVersion(FilesOf(backup[v]))'
    <3>1. FilesOf(backup[v])' = FilesOf(backup[v]) /\ OneVersion(FilesOf(backup[v]))
          /\ Released(FilesOf(backup[v]))
      BY <2>1
    <3>2. \A f \in FilesOf(backup[v]) : f.batch \in Nat
      BY <1>0
    <3> HIDE DEF WriterInv, OwnBatches, DiskInv, Released, FilesOf
    <3>3. Released(FilesOf(backup[v]))'
      BY <2>5, <3>1, <3>2
    <3> QED BY <3>1, <3>3
  <2>7. ASSUME NEW r \in Readers PROVE Released(found[r])'
    <3>1. found' = found /\ Released(found[r]) /\ \A f \in found[r] : f.batch \in Nat
      BY <2>1
    <3> HIDE DEF WriterInv, OwnBatches, DiskInv, Released, FilesOf
    <3> QED BY <2>5, <3>1
  <2> HIDE DEF WriterInv, OwnBatches, Released, FilesOf, OneVersion
  <2> QED BY <2>4, <2>6, <2>7 DEF DiskInv
<1>8. ASSUME NEW w \in Clients, Parquet!PublishFails(w) PROVE Goal
  BY <1>8, SMTT(30) DEF Parquet!PublishFails
<1>9. ASSUME NEW w \in Clients, Parquet!Restore(w) PROVE Goal
  BY <1>9, SMTT(30) DEF Parquet!Restore
<1>10. ASSUME NEW w \in Clients, Parquet!DropBackup(w) PROVE Goal
  BY <1>10, SMTT(30) DEF Parquet!DropBackup
<1>11. ASSUME NEW w \in Clients, Parquet!Leave(w) PROVE Goal
  BY <1>11, SMTT(30) DEF Parquet!Leave
<1>12. ASSUME NEW r \in Readers, Parquet!StartRead(r) PROVE Goal
  BY <1>12 DEF Parquet!StartRead
<1>13. ASSUME NEW r \in Readers, Parquet!Discover(r) PROVE Goal
  BY <1>13 DEF Parquet!Discover
<1>14. ASSUME NEW r \in Readers, Parquet!Discovered(r) PROVE Goal
  BY <1>14 DEF Parquet!Discovered
<1>15. ASSUME NEW r \in Readers, Parquet!Open(r) PROVE Goal
  BY <1>15 DEF Parquet!Open
<1>16. ASSUME NEW r \in Readers, Parquet!Opened(r) PROVE Goal
  BY <1>16 DEF Parquet!Opened
<1>17. ASSUME NEW r \in Readers, Parquet!EndRead(r) PROVE Goal
  BY <1>17 DEF Parquet!EndRead
<1> QED
  BY <1>1, <1>2, <1>3, <1>4, <1>5, <1>6, <1>7, <1>8, <1>9, <1>10, <1>11, <1>12, <1>13, <1>14, <1>15, <1>16, <1>17 DEF Parquet!Next

LEMMA ReaderStep ==
    ASSUME Parquet!TypeOK, \A w \in Clients : WriterInv(w), DiskInv,
           \A r \in Readers : ReaderInv(r), Parquet!Next,
           (\A r \in Readers : Released(found[r]))'
    PROVE  (\A r \in Readers : ReaderInv(r))'
<1> DEFINE Goal == (\A r \in Readers : ReaderInv(r))'
<1> SUFFICES Goal
  OBVIOUS
<1> USE StoresAssumption DEF Parquet!TypeOK, Parquet!disk, Parquet!history,
        Parquet!Goto, Parquet!Processes, Parquet!Labels, ReaderInv, Overwrites, FilesOf
<1>1. ASSUME NEW w \in Clients, Parquet!StartWrite(w) PROVE Goal
  BY <1>1 DEF Parquet!StartWrite
<1>2. ASSUME NEW w \in Clients, Parquet!MakeDir(w) PROVE Goal
  BY <1>2, EmptyFacts DEF Parquet!MakeDir
<1>3. ASSUME NEW w \in Clients, Parquet!WriteFile(w) PROVE Goal
  <2>1. PICK f \in Parquet!Files : AddsFile(w, f)
    BY <1>3, WriteFileAdds
  <2> QED
    BY <2>1 DEF AddsFile
<1>4. ASSUME NEW w \in Clients, Parquet!WriteMarker(w) PROVE Goal
  <2>1. AddsMarker(w)
    BY <1>4, WriteMarkerAdds
  <2> QED
    BY <2>1 DEF AddsMarker
<1>5. ASSUME NEW w \in Clients, Parquet!Look(w) PROVE Goal
  BY <1>5 DEF Parquet!Look
<1>6. ASSUME NEW w \in Clients, Parquet!SetAside(w) PROVE Goal
  BY <1>6 DEF Parquet!SetAside
<1>7. ASSUME NEW w \in Clients, Parquet!Publish(w) PROVE Goal
  BY <1>7 DEF Parquet!Publish, WriterInv, Released
<1>8. ASSUME NEW w \in Clients, Parquet!PublishFails(w) PROVE Goal
  BY <1>8 DEF Parquet!PublishFails
<1>9. ASSUME NEW w \in Clients, Parquet!Restore(w) PROVE Goal
  BY <1>9 DEF Parquet!Restore
<1>10. ASSUME NEW w \in Clients, Parquet!DropBackup(w) PROVE Goal
  BY <1>10 DEF Parquet!DropBackup
<1>11. ASSUME NEW w \in Clients, Parquet!Leave(w) PROVE Goal
  BY <1>11 DEF Parquet!Leave
<1>12. ASSUME NEW r \in Readers, Parquet!StartRead(r) PROVE Goal
  BY <1>12 DEF Parquet!StartRead
<1>13. ASSUME NEW r \in Readers, Parquet!Discover(r) PROVE Goal
  <2>1. /\ at[r] = "discover"
        /\ UNCHANGED <<path, at, disturbed>>
        /\ \A q \in Readers \ {r} : found'[q] = found[q] /\ todo'[q] = todo[q]
    BY <1>13 DEF Parquet!Discover
  <2>2. at[r] \notin {"open", "done"}
    BY <2>1
  <2>3. ReaderInv(r)'
    BY <2>1, <2>2
  <2>4. ASSUME NEW q \in Readers \ {r} PROVE ReaderInv(q)'
    BY <2>1
  <2> QED
    BY <2>3, <2>4
<1>14. ASSUME NEW r \in Readers, Parquet!Discovered(r) PROVE Goal
  BY <1>14 DEF Parquet!Discovered
<1>15. ASSUME NEW r \in Readers, Parquet!Open(r) PROVE Goal
  BY <1>15 DEF Parquet!Open, DiskInv, OneVersion
<1>16. ASSUME NEW r \in Readers, Parquet!Opened(r) PROVE Goal
  BY <1>16 DEF Parquet!Opened
<1>17. ASSUME NEW r \in Readers, Parquet!EndRead(r) PROVE Goal
  BY <1>17 DEF Parquet!EndRead
<1> QED
  BY <1>1, <1>2, <1>3, <1>4, <1>5, <1>6, <1>7, <1>8, <1>9, <1>10, <1>11, <1>12, <1>13, <1>14, <1>15, <1>16, <1>17 DEF Parquet!Next

LEMMA SurvivesStep ==
    ASSUME Parquet!TypeOK, \A w \in Clients : WriterInv(w), SurvivesInv, Parquet!Next
    PROVE  SurvivesInv'
<1> USE StoresAssumption DEF Parquet!TypeOK, Parquet!disk, Parquet!history,
        Parquet!Goto, Parquet!Processes, Parquet!Labels, SurvivesInv, Holds, FilesOf
<1>1. ASSUME NEW w \in Clients, Parquet!StartWrite(w) PROVE SurvivesInv'
  BY <1>1 DEF Parquet!StartWrite, WriterInv
<1>2. ASSUME NEW w \in Clients, Parquet!MakeDir(w) PROVE SurvivesInv'
  BY <1>2, EmptyFacts DEF Parquet!MakeDir
<1>3. ASSUME NEW w \in Clients, Parquet!WriteFile(w) PROVE SurvivesInv'
  <2>1. PICK f \in Parquet!Files : AddsFile(w, f)
    BY <1>3, WriteFileAdds
  <2> QED
    BY <2>1 DEF AddsFile
<1>4. ASSUME NEW w \in Clients, Parquet!WriteMarker(w) PROVE SurvivesInv'
  <2>1. AddsMarker(w)
    BY <1>4, WriteMarkerAdds
  <2> QED
    BY <2>1 DEF AddsMarker, WriterInv
<1>5. ASSUME NEW w \in Clients, Parquet!Look(w) PROVE SurvivesInv'
  BY <1>5 DEF Parquet!Look
<1>6. ASSUME NEW w \in Clients, Parquet!SetAside(w) PROVE SurvivesInv'
  BY <1>6 DEF Parquet!SetAside, WriterInv
<1>7. ASSUME NEW w \in Clients, Parquet!Publish(w) PROVE SurvivesInv'
  BY <1>7 DEF Parquet!Publish, WriterInv
<1>8. ASSUME NEW w \in Clients, Parquet!PublishFails(w) PROVE SurvivesInv'
  BY <1>8 DEF Parquet!PublishFails
<1>9. ASSUME NEW w \in Clients, Parquet!Restore(w) PROVE SurvivesInv'
  BY <1>9, EmptyFacts DEF Parquet!Restore, WriterInv
<1>10. ASSUME NEW w \in Clients, Parquet!DropBackup(w) PROVE SurvivesInv'
  BY <1>10 DEF Parquet!DropBackup
<1>11. ASSUME NEW w \in Clients, Parquet!Leave(w) PROVE SurvivesInv'
  BY <1>11 DEF Parquet!Leave
<1>12. ASSUME NEW r \in Readers, Parquet!StartRead(r) PROVE SurvivesInv'
  BY <1>12 DEF Parquet!StartRead
<1>13. ASSUME NEW r \in Readers, Parquet!Discover(r) PROVE SurvivesInv'
  BY <1>13 DEF Parquet!Discover
<1>14. ASSUME NEW r \in Readers, Parquet!Discovered(r) PROVE SurvivesInv'
  BY <1>14 DEF Parquet!Discovered
<1>15. ASSUME NEW r \in Readers, Parquet!Open(r) PROVE SurvivesInv'
  BY <1>15 DEF Parquet!Open
<1>16. ASSUME NEW r \in Readers, Parquet!Opened(r) PROVE SurvivesInv'
  BY <1>16 DEF Parquet!Opened
<1>17. ASSUME NEW r \in Readers, Parquet!EndRead(r) PROVE SurvivesInv'
  BY <1>17 DEF Parquet!EndRead
<1> QED
  BY <1>1, <1>2, <1>3, <1>4, <1>5, <1>6, <1>7, <1>8, <1>9, <1>10, <1>11, <1>12, <1>13, <1>14, <1>15, <1>16, <1>17 DEF Parquet!Next

LEMMA ParquetInitially == Parquet!Init => ParquetInv
BY StoresAssumption
   DEF Parquet!Init, ParquetInv, Parquet!TypeOK, Parquet!Processes, Parquet!Labels,
       WriterInv, OwnBatches, DiskInv, Released, OneVersion, Overwrites, FilesOf,
       ReaderInv, SurvivesInv

LEMMA ParquetKept == ParquetInv /\ [Parquet!Next]_Parquet!vars => ParquetInv'
<1> SUFFICES ASSUME ParquetInv, [Parquet!Next]_Parquet!vars PROVE ParquetInv'
  OBVIOUS
<1>1. CASE Parquet!Next
  <2>1. Parquet!TypeOK' /\ (\A w \in Clients : WriterInv(w))' /\ OwnBatches'
    BY <1>1, ParquetTypeStep, WriterStep DEF ParquetInv
  <2>2. DiskInv' /\ (\A r \in Readers : Released(found[r]))'
    BY <1>1, DiskStep DEF ParquetInv, ReaderInv
  <2>3. (\A r \in Readers : ReaderInv(r))'
    BY <1>1, <2>2, ReaderStep DEF ParquetInv
  <2>4. SurvivesInv'
    BY <1>1, SurvivesStep DEF ParquetInv
  <2> QED
    BY <2>1, <2>2, <2>3, <2>4 DEF ParquetInv
<1>2. CASE UNCHANGED Parquet!vars
  BY <1>2 DEF Parquet!vars, Parquet!disk, Parquet!history, ParquetInv, Parquet!TypeOK,
     WriterInv, OwnBatches, DiskInv, Released, OneVersion, Overwrites, FilesOf,
     ReaderInv, SurvivesInv, Holds
<1> QED
  BY <1>1, <1>2

LEMMA ParquetSteps == StoresNext => [Parquet!Next]_Parquet!vars
BY DEF StoresNext, Parquet!vars, Parquet!disk, Parquet!history

(* However the calls of any number of writers and readers interleave, fail *)
(* and die.                                                                *)
LEMMA ParquetInvariant == StoresSpec => []ParquetInv
<1>1. StoresInit => ParquetInv
  BY ParquetInitially DEF StoresInit
<1>2. ParquetInv /\ [StoresNext]_<<exercised, vars, parquet, cache>> => ParquetInv'
  <2>1. UNCHANGED <<exercised, vars, parquet, cache>> => UNCHANGED Parquet!vars
    BY DEF Parquet!vars, Parquet!disk, Parquet!history
  <2> QED
    BY <2>1, ParquetSteps, ParquetKept
<1> QED
  BY <1>1, <1>2, PTL DEF StoresSpec

(* A read that no failed overwrite was undone under, whatever is renamed    *)
(* between listing, discovering and opening its files, returns overwritten *)
(* files of one version of the dataset, as read's callers take for granted. *)
THEOREM ReadsAreOneDataset == StoresSpec => []ReadsOneDataset
<1>1. ParquetInv => ReadsOneDataset
  BY DEF ParquetInv, ReaderInv, Overwrites, ReadsOneDataset, Parquet!ReadsOneDataset
<1> QED
  BY <1>1, ParquetInvariant, PTL

(* Whatever renames fail and whichever writers die between them, the last   *)
(* dataset published is whole in its place or in a backup.                 *)
THEOREM LastDatasetSurvives == StoresSpec => []PublishedSurvives
<1>1. ParquetInv => PublishedSurvives
  BY DEF ParquetInv, SurvivesInv, Holds, PublishedSurvives, Parquet!PublishedSurvives
<1> QED
  BY <1>1, ParquetInvariant, PTL

-----------------------------------------------------------------------------
(* The cache: its inductive invariant.                                     *)

(* What a get has seen live it may answer with, though the entry changes   *)
(* between its critical sections: every value its key takes is recorded.   *)
AnswerInv(t) ==
    /\ asked[t].op = "read" /\ entries[asked[t].key] # Absent =>
          entries[asked[t].key].value \in lived[t]
    /\ asked[t].op = "done" => asked[t].result \in lived[t] \cup {Error}
    /\ asked[t].op = "answered" =>
          /\ asked[t].result \in BOOLEAN
          /\ asked[t].result = TRUE => \E v \in lived[t] : v # Absent
          /\ asked[t].result = FALSE => Absent \in lived[t]

CacheInv == Cache!TypeOK /\ \A t \in Clients : AnswerInv(t)

LEMMA StoredType ==
    ASSUME Cache!TypeOK, NEW r \in Cache!Requests \cup {Absent}
    PROVE  Cache!Stored(r) \in Cache!Entries \cup {Absent}
BY StoresAssumption DEF Cache!TypeOK, Cache!Requests, Cache!Entries, Cache!Stored

LEMMA CallTypes ==
    ASSUME Cache!TypeOK, NEW t \in Clients, asked[t].op # "idle"
    PROVE  /\ asked[t] \in Cache!Calls
           /\ asked[t].key \in Keys
           /\ asked[t].entry \in Cache!Requests \cup {Absent}
BY DEF Cache!TypeOK, Cache!Calls, Cache!Idle

LEMMA LiveType ==
    ASSUME Cache!TypeOK, NEW k \in Keys
    PROVE  /\ entries[k] \in Cache!Entries \cup {Absent}
           /\ Cache!Live(k) \in Values \cup {Absent}
BY DEF Cache!TypeOK, Cache!Entries, Cache!Live

(* The types of the four variables the operations change.                  *)
CacheTypes ==
    /\ service \in {"redis", "dict"}
    /\ entries \in [Keys -> Cache!Entries \cup {Absent}]
    /\ clock \in 1..MaxTime
    /\ asked \in [Clients -> Cache!Calls \cup {Cache!Idle}]

Operation(t) ==
    \/ Cache!Begin(t) \/ Cache!Expire(t) \/ Cache!Read(t)
    \/ Cache!Request(t) \/ Cache!Change(t) \/ Cache!Return(t)

LEMMA CacheTypeStep ==
    ASSUME Cache!TypeOK, Cache!Next
    PROVE  CacheTypes'
<1> USE StoresAssumption DEF Cache!TypeOK, CacheTypes
<1>1. CASE Cache!Tick
  BY <1>1 DEF Cache!Tick
<1>2. ASSUME NEW t \in Clients, Cache!Begin(t) PROVE CacheTypes'
  BY <1>2 DEF Cache!Begin, Cache!Calls, Cache!Ops, Cache!Requests
<1>3. ASSUME NEW t \in Clients, Cache!Expire(t) PROVE CacheTypes'
  BY <1>3, CallTypes DEF Cache!Expire, Cache!Becomes, Cache!Calls, Cache!Ops
<1>4. ASSUME NEW t \in Clients, Cache!Read(t) PROVE CacheTypes'
  <2> DEFINE entry == entries[asked[t].key]
             result == IF entry = Absent THEN Error ELSE entry.value
  <2>1. asked[t] \in Cache!Calls /\ asked[t].key \in Keys
    BY <1>4, CallTypes DEF Cache!Read
  <2>2. result \in Values \cup {Error}
    BY <2>1 DEF Cache!Entries
  <2>3. /\ asked' = [asked EXCEPT ![t].op = "done", ![t].result = result]
        /\ UNCHANGED <<service, entries, clock>>
    BY <1>4 DEF Cache!Read, Cache!Becomes
  <2> HIDE DEF result
  <2> QED
    BY <2>1, <2>2, <2>3 DEF Cache!Calls, Cache!Ops
<1>5. ASSUME NEW t \in Clients, Cache!Request(t) PROVE CacheTypes'
  BY <1>5, CallTypes, LiveType DEF Cache!Request, Cache!Becomes, Cache!Calls, Cache!Ops
<1>6. ASSUME NEW t \in Clients, Cache!Change(t) PROVE CacheTypes'
  BY <1>6, CallTypes, StoredType DEF Cache!Change, Cache!Becomes, Cache!Calls, Cache!Ops
<1>7. ASSUME NEW t \in Clients, Cache!Return(t) PROVE CacheTypes'
  BY <1>7 DEF Cache!Return
<1> QED
  BY <1>1, <1>2, <1>3, <1>4, <1>5, <1>6, <1>7 DEF Cache!Next

(* What is live under a call's key before and after a step, or is set by    *)
(* it, is in the call's history, and stays there.                          *)
LEMMA Witnessed ==
    ASSUME Cache!TypeOK, CacheTypes', Cache!Witness, NEW t \in Clients
    PROVE  /\ lived'[t] \in SUBSET (Values \cup {Absent})
           /\ asked'[t].op # "idle" =>
                 /\ lived[t] \subseteq lived'[t]
                 /\ asked'[t].key \in Keys =>
                       /\ Cache!Live(asked'[t].key) \in lived'[t]
                       /\ \A v \in Values :
                             /\ entries'[asked'[t].key] \notin {Absent, entries[asked'[t].key]}
                             /\ entries'[asked'[t].key].value = v
                             => v \in lived'[t]
<1>1. ASSUME NEW k \in Keys
      PROVE  /\ Cache!Seen(k) \in SUBSET (Values \cup {Absent})
             /\ Cache!Live(k) \in Cache!Seen(k)
             /\ \A v \in Values :
                   /\ entries'[k] \notin {Absent, entries[k]}
                   /\ entries'[k].value = v
                   => v \in Cache!Seen(k)
  BY DEF Cache!Seen, Cache!Live, Cache!TypeOK, CacheTypes, Cache!Entries
<1>2. lived'[t] = UNION ({Cache!Seen(k) : k \in Keys \cap {asked'[t].key}} \cup
                         {IF asked'[t].op = "idle" THEN {} ELSE lived[t]})
  BY DEF Cache!Witness
<1>3. lived[t] \in SUBSET (Values \cup {Absent})
  BY DEF Cache!TypeOK
<1> QED
  BY <1>1, <1>2, <1>3

LEMMA BecomesFacts ==
    ASSUME Cache!TypeOK, NEW t \in Clients, NEW op, NEW result, asked[t].op # "idle",
           Cache!Becomes(t, op, result)
    PROVE  asked'[t].op = op /\ asked'[t].result = result
BY CallTypes DEF Cache!Becomes, Cache!TypeOK, Cache!Calls, Cache!Idle

LEMMA AnswerStep ==
    ASSUME CacheInv, CacheTypes', Cache!Next, NEW t \in Clients
    PROVE  AnswerInv(t)'
<1>1. Cache!TypeOK /\ Cache!Witness
  BY DEF CacheInv, Cache!Next
<1>2. CASE asked'[t].op \notin {"read", "done", "answered"}
  BY <1>2 DEF AnswerInv
<1>3. CASE asked'[t] = asked[t] /\ asked[t].op \in {"read", "done", "answered"}
  <2>1. asked[t].key \in Keys
    BY <1>1, <1>3, CallTypes
  <2>2. lived[t] \subseteq lived'[t]
    BY <1>1, <1>3, Witnessed
  <2>3. CASE asked[t].op = "read"
    <3> DEFINE k == asked[t].key
    <3>1. entries'[k] \in Cache!Entries \cup {Absent} /\ entries[k] \in Cache!Entries \cup {Absent}
      BY <1>1, <2>1 DEF CacheTypes, Cache!TypeOK
    <3>2. CASE entries'[k] \in {Absent, entries[k]}
      BY <1>3, <2>2, <2>3, <3>2 DEF CacheInv, AnswerInv
    <3>3. CASE entries'[k] \notin {Absent, entries[k]}
      <4>1. entries'[k].value \in Values
        BY <3>1, <3>3 DEF Cache!Entries
      <4>2. entries'[k].value \in lived'[t]
        BY <1>1, <1>3, <2>1, <3>3, <4>1, Witnessed
      <4> QED
        BY <1>3, <2>3, <4>2 DEF AnswerInv
    <3> QED
      BY <3>2, <3>3
  <2>4. CASE asked[t].op \in {"done", "answered"}
    BY <1>3, <2>2, <2>4 DEF CacheInv, AnswerInv
  <2> QED
    BY <1>3, <2>3, <2>4
<1>4. CASE asked'[t] # asked[t] /\ asked'[t].op \in {"read", "done", "answered"}
  <2>1. Operation(t)
    <3>1. PICK u \in Clients : Operation(u)
      BY <1>4 DEF Cache!Next, Cache!Tick, Operation
    <3>2. CASE u # t
      BY <1>1, <1>4, <3>1, <3>2
         DEF Operation, Cache!Begin, Cache!Expire, Cache!Read, Cache!Request, Cache!Change,
             Cache!Return, Cache!Becomes, Cache!TypeOK
    <3> QED
      BY <3>1, <3>2
  <2>2. \/ Cache!Expire(t) \/ Cache!Read(t) \/ Cache!Request(t)
    BY <1>1, <1>4, <2>1
       DEF Operation, Cache!Begin, Cache!Change, Cache!Return, Cache!Becomes, Cache!Ops,
           Cache!TypeOK, Cache!Idle, Cache!Calls
  <2> DEFINE k == asked[t].key
  <2>3. k \in Keys /\ asked'[t].key = k
    BY <1>1, <2>2, CallTypes
       DEF Cache!Expire, Cache!Read, Cache!Request, Cache!Becomes, Cache!TypeOK, Cache!Calls
  <2>4. Cache!Live(k) \in lived'[t] /\ lived[t] \subseteq lived'[t]
    BY <1>1, <1>4, <2>3, Witnessed
  <2>5. entries[k] \in Cache!Entries \cup {Absent}
    BY <1>1, <2>3, LiveType
  <2>6. CASE Cache!Expire(t)
    <3> DEFINE gone == Cache!Live(k) = Absent
    <3>1. /\ asked[t].op = "exists" => asked'[t].op = "answered" /\ asked'[t].result = ~gone
          /\ asked[t].op # "exists" /\ gone => asked'[t].op = "done" /\ asked'[t].result = Absent
          /\ asked[t].op # "exists" /\ ~gone => asked'[t].op = "read"
      <4>1. asked[t].op \in {"get", "exists"}
        BY <2>6 DEF Cache!Expire
      <4>2. CASE asked[t].op = "exists"
        <5>1. Cache!Becomes(t, "answered", ~gone)
          BY <2>6, <4>2 DEF Cache!Expire
        <5> HIDE DEF gone
        <5> QED
          BY <1>1, <4>2, <5>1, BecomesFacts, Zenon
      <4>3. CASE asked[t].op # "exists"
        <5>1. IF gone THEN Cache!Becomes(t, "done", Absent) ELSE Cache!Becomes(t, "read", Absent)
          BY <2>6, <4>3 DEF Cache!Expire
        <5> QED
          BY <1>1, <4>1, <4>3, <5>1, BecomesFacts
      <4> QED
        BY <4>2, <4>3
    <3>2. ~gone => entries'[k] = entries[k] /\ Cache!Live(k) = entries[k].value
      BY <2>6 DEF Cache!Expire, Cache!Live
    <3>3. CASE gone
      BY <2>3, <2>4, <3>1, <3>3 DEF AnswerInv
    <3>4. CASE ~gone
      BY <2>3, <2>4, <3>1, <3>2, <3>4 DEF AnswerInv
    <3> QED
      BY <3>3, <3>4
  <2>7. CASE Cache!Read(t)
    BY <1>1, <2>3, <2>4, <2>5, <2>7
       DEF Cache!Read, Cache!Becomes, CacheInv, AnswerInv, Cache!TypeOK
  <2>8. CASE Cache!Request(t)
    <3> DEFINE live == Cache!Live(k)
    <3>1. \/ asked'[t].op = "done" /\ asked'[t].result = live
          \/ asked'[t].op = "answered" /\ asked'[t].result = (live # Absent)
      <4>1. asked[t].op \in {"get", "exists"}
        BY <2>8 DEF Cache!Request
      <4>2. \/ Cache!Becomes(t, "done", live)
            \/ Cache!Becomes(t, "answered", live # Absent)
            \/ Cache!Becomes(t, "raised", Absent)
        BY <2>8 DEF Cache!Request
      <4>3. ~Cache!Becomes(t, "raised", Absent)
        BY <1>1, <1>4, <4>1, BecomesFacts
      <4>4. asked[t].op # "idle"
        BY <4>1
      <4> QED
        BY <1>1, <4>2, <4>3, <4>4, BecomesFacts, Zenon
    <3> QED
      BY <2>4, <3>1 DEF AnswerInv
  <2> QED
    BY <2>2, <2>6, <2>7, <2>8
<1> QED
  BY <1>2, <1>3, <1>4

LEMMA CacheKept == CacheInv /\ [Cache!Next]_Cache!vars => CacheInv'
<1> SUFFICES ASSUME CacheInv, [Cache!Next]_Cache!vars PROVE CacheInv'
  OBVIOUS
<1>1. CASE Cache!Next
  <2>1. CacheTypes'
    BY <1>1, CacheTypeStep DEF CacheInv
  <2>2. lived' \in [Clients -> SUBSET (Values \cup {Absent})]
    <3>1. Cache!TypeOK /\ Cache!Witness
      BY <1>1 DEF CacheInv, Cache!Next
    <3>2. \A t \in Clients : lived'[t] \in SUBSET (Values \cup {Absent})
      BY <2>1, <3>1, Witnessed
    <3>3. lived' = [t \in Clients |-> lived'[t]]
      BY <3>1 DEF Cache!Witness
    <3> QED
      BY <3>2, <3>3
  <2>3. \A t \in Clients : AnswerInv(t)'
    BY <1>1, <2>1, AnswerStep
  <2> QED
    BY <2>1, <2>2, <2>3 DEF CacheInv, CacheTypes, Cache!TypeOK
<1>2. CASE UNCHANGED Cache!vars
  BY <1>2 DEF Cache!vars, CacheInv, Cache!TypeOK, AnswerInv
<1> QED
  BY <1>1, <1>2

(* However any number of threads' critical sections and requests interleave. *)
LEMMA CacheInvariant == StoresSpec => []CacheInv
<1>1. StoresInit => CacheInv
  BY StoresAssumption
     DEF StoresInit, Cache!Init, CacheInv, Cache!TypeOK, AnswerInv, Cache!Idle
<1>2. CacheInv /\ [StoresNext]_<<exercised, vars, parquet, cache>> => CacheInv'
  <2>1. StoresNext => [Cache!Next]_Cache!vars
    BY DEF StoresNext, Cache!vars
  <2>2. UNCHANGED <<exercised, vars, parquet, cache>> => UNCHANGED Cache!vars
    BY DEF Cache!vars
  <2> QED
    BY <2>1, <2>2, CacheKept
<1> QED
  BY <1>1, <1>2, PTL DEF StoresSpec

(* get and exists, whatever other threads set, delete and let expire between *)
(* their critical sections, answer with what was under the key during the  *)
(* call, or get raises.                                                    *)
THEOREM CacheAnswersAreCurrent == StoresSpec => []AnswersAreCurrent
<1>1. CacheInv => AnswersAreCurrent
  <2> SUFFICES ASSUME CacheInv, NEW t \in Clients
               PROVE  /\ asked[t].op = "done" => asked[t].result \in lived[t] \cup {Error}
                      /\ asked[t].op = "answered" =>
                            IF asked[t].result THEN lived[t] # {Absent} ELSE Absent \in lived[t]
    BY DEF AnswersAreCurrent, Cache!AnswersAreCurrent
  <2>1. AnswerInv(t)
    BY DEF CacheInv
  <2>2. CASE asked[t].op = "answered"
    <3>1. asked[t].result = TRUE \/ asked[t].result = FALSE
      BY <2>1, <2>2 DEF AnswerInv
    <3>2. CASE asked[t].result = TRUE
      BY <2>1, <2>2, <3>2 DEF AnswerInv
    <3>3. CASE asked[t].result = FALSE
      BY <2>1, <2>2, <3>3 DEF AnswerInv
    <3> QED
      BY <3>1, <3>2, <3>3
  <2>3. CASE asked[t].op # "answered"
    BY <2>1, <2>3 DEF AnswerInv
  <2> QED
    BY <2>2, <2>3
<1> QED
  BY <1>1, CacheInvariant, PTL

-----------------------------------------------------------------------------
(* The stores together.                                                    *)

LEMMA StateSteps == StoresSpec => Spec
<1>1. StoresInit => Init
  BY DEF StoresInit
<1>2. [StoresNext]_<<exercised, vars, parquet, cache>> => [Next]_vars
  BY DEF StoresNext
<1> QED
  BY <1>1, <1>2, PTL DEF StoresSpec, Spec

(* Whichever store a behaviour exercises, every variable of every store has *)
(* its type.                                                               *)
THEOREM StoresTypeCorrect == StoresSpec => []StoreTypes
<1>1. StoreInv /\ ParquetInv /\ CacheInv => StoreTypes
  BY DEF StoreInv, ParquetInv, CacheInv, StoreTypes
<1> QED
  BY <1>1, StateSteps, StoreInvariant, ParquetInvariant, CacheInvariant, PTL
=============================================================================
