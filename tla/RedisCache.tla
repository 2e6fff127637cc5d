----------------------------- MODULE RedisCache -----------------------------
(***************************************************************************)
(* RedisCache (data/storage/redis_cache.py): a cache shared by the threads *)
(* of a process, held by a Redis server or by a dictionary of the process. *)
(* A step of a thread is one request to the server, one critical section,  *)
(* or one reading of the clock.  Values are opaque: what set encodes, get  *)
(* decodes.                                                                *)
(***************************************************************************)
EXTENDS Integers

CONSTANTS
    Threads,
    Keys,
    Values,
    MaxTime, \* bound on the clock
    TTLs,    \* lifetimes, 0 for an entry that does not expire
    None,
    Error    \* the call raised

VARIABLES
    backend, \* "redis", or "dict" for the in-process fallback
    entries, \* what is stored under a key: None, or a value and its expiry
    clock,   \* time.monotonic(), or the server's clock
    call,    \* the call a thread is in
    lived    \* history: what was live under a call's key since it began

vars == <<backend, entries, clock, call, lived>>

Entries == [value : Values, expiry : Nat \cup {None}]
Requests == [value : Values, ttl : TTLs, at : 1..MaxTime] \* arguments of set
Ops == {"set", "get", "delete", "exists"}
Idle == [op |-> "idle", key |-> None, entry |-> None, result |-> None]
Calls == [op : Ops \cup {"read", "done", "answered", "changed", "raised"},
          key : Keys, entry : Requests \cup {None},
          result : Values \cup BOOLEAN \cup {None, Error}]

-----------------------------------------------------------------------------
Expired(entry) == entry.expiry # None /\ clock >= entry.expiry

Live(key) ==
    IF entries[key] = None \/ Expired(entries[key]) THEN None
    ELSE entries[key].value

(* What is live under a call's key at some time of the call, or is set at  *)
(* some time of it, however late, belongs to the call's history.           *)
Seen(k) ==
    {Live(k), Live(k)'} \cup
    (IF entries'[k] \in {None, entries[k]} THEN {} ELSE {entries'[k].value})

Witness ==
    lived' = [t \in Threads |->
        UNION ({Seen(k) : k \in Keys \cap {call'[t].key}} \cup
               {IF call'[t].op = "idle" THEN {} ELSE lived[t]})]

(* Connecting either works, or falls back because there is no URL or       *)
(* because allow_fallback is set; otherwise there is no cache at all.      *)
Init ==
    /\ backend \in {"redis", "dict"}
    /\ entries = [k \in Keys |-> None]
    /\ clock = 1
    /\ call = [t \in Threads |-> Idle]
    /\ lived = [t \in Threads |-> {}]

Tick ==
    /\ clock < MaxTime
    /\ clock' = clock + 1
    /\ UNCHANGED <<backend, entries, call>>

(* The in-process set reads the clock before it takes the lock.            *)
Begin(t) ==
    /\ call[t].op = "idle"
    /\ \E op \in Ops, key \in Keys, value \in Values, ttl \in TTLs :
          call' = [call EXCEPT ![t] =
             [op |-> op, key |-> key, result |-> None,
              entry |-> IF op = "set" THEN [value |-> value, ttl |-> ttl, at |-> clock]
                        ELSE None]]
    /\ UNCHANGED <<backend, entries, clock>>

Becomes(t, op, result) ==
    call' = [call EXCEPT ![t].op = op, ![t].result = result]

(* Mutant: get does not look at the expiry.                                *)
ExpireNever(t) ==
    /\ call[t].op \in {"get", "exists"} /\ backend = "dict"
    /\ LET entry == entries[call[t].key]
       IN Becomes(t, IF call[t].op = "get" /\ entry # None THEN "read" ELSE "done", None)
    /\ UNCHANGED <<backend, entries, clock>>

(* _fallback_expired: one critical section that drops an expired entry.    *)
Expire(t) ==
    /\ call[t].op \in {"get", "exists"} /\ backend = "dict"
    /\ LET key == call[t].key
           gone == Live(key) = None
       IN /\ entries' = IF gone THEN [entries EXCEPT ![key] = None] ELSE entries
          /\ IF call[t].op = "exists" THEN Becomes(t, "answered", ~ gone)
             ELSE IF gone THEN Becomes(t, "done", None) ELSE Becomes(t, "read", None)
    /\ UNCHANGED <<backend, clock>>

(* The second critical section of get: a key that has gone is a KeyError.  *)
Read(t) ==
    /\ call[t].op = "read"
    /\ LET entry == entries[call[t].key]
       IN Becomes(t, "done", IF entry = None THEN Error ELSE entry.value)
    /\ UNCHANGED <<backend, entries, clock>>

(* Requests to the server, which drops what has expired, or raise.         *)
Request(t) ==
    /\ call[t].op \in {"get", "exists"} /\ backend = "redis"
    /\ LET live == Live(call[t].key)
       IN \/ call[t].op = "get" /\ Becomes(t, "done", live)
          \/ call[t].op = "exists" /\ Becomes(t, "answered", live # None)
          \/ Becomes(t, "raised", None)
    /\ UNCHANGED <<backend, entries, clock>>

(* What set stores; the server counts a lifetime from the request's arrival. *)
Stored(request) ==
    IF request = None THEN None
    ELSE [value |-> request.value,
          expiry |-> IF request.ttl = 0 THEN None
                     ELSE request.ttl + (IF backend = "redis" THEN clock ELSE request.at)]

(* set and delete: one critical section, or one request that may raise,    *)
(* with or without effect.                                                 *)
Change(t) ==
    /\ call[t].op \in {"set", "delete"}
    /\ LET after == [entries EXCEPT ![call[t].key] = Stored(call[t].entry)]
       IN \/ entries' = after /\ Becomes(t, "changed", None)
          \/ /\ backend = "redis" /\ entries' \in {entries, after}
             /\ Becomes(t, "raised", None)
    /\ UNCHANGED <<backend, clock>>

Return(t) ==
    /\ call[t].op \in {"done", "answered", "changed", "raised"}
    /\ call' = [call EXCEPT ![t] = Idle]
    /\ UNCHANGED <<backend, entries, clock>>

Next ==
    /\ \/ Tick
       \/ \E t \in Threads :
             \/ Begin(t) \/ Expire(t) \/ Read(t) \/ Request(t) \/ Change(t) \/ Return(t)
    /\ Witness

Spec == Init /\ [][Next]_vars

-----------------------------------------------------------------------------
(* Every variable has its type.                                            *)
TypeOK ==
    /\ backend \in {"redis", "dict"}
    /\ entries \in [Keys -> Entries \cup {None}]
    /\ clock \in 1..MaxTime
    /\ call \in [Threads -> Calls \cup {Idle}]
    /\ lived \in [Threads -> SUBSET (Values \cup {None})]

(* get and exists, whatever other threads set, delete and let expire       *)
(* between their critical sections, answer with what was under the key at  *)
(* some time of the call.                                                  *)
AnswersAreCurrent ==
    \A t \in Threads :
        /\ call[t].op = "done" => call[t].result \in lived[t] \cup {Error}
        /\ call[t].op = "answered" =>
              IF call[t].result THEN lived[t] # {None} ELSE None \in lived[t]

(* "Return the value stored under key (decoded), or None"                  *)
(* (redis_cache.py:170), also in "thread safe local mode"                  *)
(* (test_data_integrity.py:383): get does not raise because of what        *)
(* another thread does.                                                    *)
GetAnswers == \A t \in Threads : call[t].op = "done" => call[t].result # Error
=============================================================================
