------------------------------ MODULE MCStores -------------------------------
(***************************************************************************)
(* The execution state store and the stores of quantcortex.data.storage do *)
(* not call each other: a behaviour exercises one of them and leaves the   *)
(* others as they started.                                                 *)
(***************************************************************************)
EXTENDS StatePersistence, TLC

CONSTANTS Readers, Parts, MaxWrites, MaxTime, TTLs, Error

VARIABLES
    exercised, \* "state", "parquet" or "cache"
    path, staging, backup, orphans, at, call, found, todo, writes, published, disturbed,
    service, entries, clock, asked, lived

Parquet == INSTANCE ParquetStore WITH
    Writers <- Clients, None <- Absent, pc <- at

Cache == INSTANCE RedisCache WITH
    Threads <- Clients, None <- Absent, backend <- service, call <- asked

ASSUME StoresAssumption ==
    /\ Readers \cap Clients = {}
    /\ MaxWrites \in Nat
    /\ MaxTime \in Nat \ {0}
    /\ TTLs \subseteq Nat
    /\ Absent \notin Parquet!Dirs
    /\ Absent \notin Parquet!Calls
    /\ Absent \notin Cache!Entries
    /\ Absent \notin Cache!Requests

parquet == <<path, staging, backup, orphans, at, call, found, todo, writes, published, disturbed>>
cache == <<service, entries, clock, asked, lived>>

StoresInit ==
    /\ exercised \in {"state", "parquet", "cache"}
    /\ Init
    /\ exercised # "state" => backend = "file"
    /\ Parquet!Init
    /\ Cache!Init
    /\ exercised # "cache" => service = "redis"

StoresNext ==
    \/ /\ exercised = "state"
       /\ Next
       /\ UNCHANGED <<exercised, parquet, cache>>
    \/ /\ exercised = "parquet"
       /\ Parquet!Next
       /\ UNCHANGED <<exercised, vars, cache>>
    \/ /\ exercised = "cache"
       /\ Cache!Next
       /\ UNCHANGED <<exercised, vars, parquet>>

StoresSpec == StoresInit /\ [][StoresNext]_<<exercised, vars, parquet, cache>>

Symmetry == Permutations(Clients) \cup Permutations(Parts) \cup Permutations(Values)

-----------------------------------------------------------------------------
(* Every variable of each store has its type.                              *)
StoreTypes == TypeOK /\ Parquet!TypeOK /\ Cache!TypeOK

(* A read no failed overwrite was undone under returns one version of the   *)
(* dataset (ParquetStore).                                                 *)
ReadsOneDataset == Parquet!ReadsOneDataset

(* The dataset last published is never lost (ParquetStore).                *)
PublishedSurvives == Parquet!PublishedSurvives

(* The cache answers with what was there (RedisCache).                     *)
AnswersAreCurrent == Cache!AnswersAreCurrent

(* A cache's get does not raise because of another thread (RedisCache).    *)
GetAnswers == Cache!GetAnswers
=============================================================================
