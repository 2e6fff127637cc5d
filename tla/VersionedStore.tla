--------------------------- MODULE VersionedStore ---------------------------
(***************************************************************************)
(* What StatePersistence promises: a store whose calls take effect at one  *)
(* instant between invocation and return, and an execution snapshot that   *)
(* is replaced only by a caller who names its current revision.  A call    *)
(* that fails, or whose process dies, has taken effect or has not.         *)
(***************************************************************************)
EXTENDS Naturals

CONSTANTS
    Clients, \* processes and threads that share one store
    Keys,    \* plain keys of save_state, load_state and delete_state
    Values,  \* what is stored, under a plain key or in the snapshot
    Absent   \* no value

VARIABLES
    snapshot, \* the execution snapshot: its revision (0: none) and value
    state,    \* the plain keys
    request,  \* request[c]: the call c is making
    status    \* "idle", "pending", "applied" or "refused"

storeVars == <<snapshot, state, request, status>>

(* save_execution_snapshot, save_state, delete_state and load_state of the  *)
(* snapshot.  The fields a kind of call does not use are fixed.            *)
Requests(MaxExpected) ==
    [kind : {"snapshot"}, expected : 0..MaxExpected, key : {Absent}, value : Values]
        \cup [kind : {"save"}, expected : {0}, key : Keys, value : Values]
        \cup [kind : {"delete"}, expected : {0}, key : Keys, value : {Absent}]
        \cup [kind : {"load"}, expected : {0}, key : {Absent}, value : {Absent}]

NoRequest == [kind |-> "none", expected |-> 0, key |-> Absent, value |-> Absent]
NoSnapshot == [revision |-> 0, value |-> Absent]

(* What a request makes of a store [snapshot, state].                      *)
Effect(r, s) ==
    CASE r.kind = "snapshot" ->
            [s EXCEPT !.snapshot = [revision |-> s.snapshot.revision + 1,
                                    value |-> r.value]]
      [] r.kind \in {"save", "delete"} -> [s EXCEPT !.state[r.key] = r.value]
      [] OTHER -> s

(* _assert_snapshot_revision: no snapshot and None, or the same revision.  *)
Expected(r, s) == r.kind = "snapshot" => r.expected = s.snapshot.revision

Contents == [snapshot |-> snapshot, state |-> state]

Init ==
    /\ snapshot = NoSnapshot
    /\ state = [k \in Keys |-> Absent]
    /\ request = [c \in Clients |-> NoRequest]
    /\ status = [c \in Clients |-> "idle"]

Invoke(c) ==
    /\ status[c] = "idle"
    /\ \E r \in Requests(snapshot.revision) : request' = [request EXCEPT ![c] = r]
    /\ status' = [status EXCEPT ![c] = "pending"]
    /\ UNCHANGED <<snapshot, state>>

Apply(c) ==
    /\ status[c] = "pending"
    /\ Expected(request[c], Contents)
    /\ snapshot' = Effect(request[c], Contents).snapshot
    /\ state' = Effect(request[c], Contents).state
    /\ status' = [status EXCEPT ![c] = "applied"]
    /\ UNCHANGED request

Refuse(c) ==
    /\ status[c] = "pending"
    /\ ~ Expected(request[c], Contents)
    /\ status' = [status EXCEPT ![c] = "refused"]
    /\ UNCHANGED <<snapshot, state, request>>

(* A return after effect or refusal, or an error or death at any time.     *)
Finish(c) ==
    /\ status[c] # "idle"
    /\ status' = [status EXCEPT ![c] = "idle"]
    /\ request' = [request EXCEPT ![c] = NoRequest]
    /\ UNCHANGED <<snapshot, state>>

Next == \E c \in Clients : Invoke(c) \/ Apply(c) \/ Refuse(c) \/ Finish(c)

Spec == Init /\ [][Next]_storeVars
=============================================================================
