---------------------------- MODULE ParquetStore ----------------------------
(***************************************************************************)
(* ParquetStore (data/storage/parquet_store.py): one dataset directory,    *)
(* overwritten by a pair of renames, appended to file by file, and read by *)
(* discovering its files and then opening them.  Every call to the file    *)
(* system is a step, any call may fail and any process may die after it.   *)
(* Nothing locks the dataset.                                              *)
(***************************************************************************)
EXTENDS Integers

CONSTANTS
    Writers, Readers,
    Parts,     \* the hive partitions a table is split into, one file each
    MaxWrites, \* bound on the calls of write
    None

VARIABLES
    path,     \* the dataset directory, or None
    staging,  \* the temporary directory of a writer, or None
    backup,   \* what a writer has set aside, or None
    orphans,  \* backups whose process died or gave up
    pc,       \* what a process does next
    call,     \* the write a writer is in: its number, mode and partitions left
    found,    \* the files a reader has discovered
    todo,     \* the partitions it has still to list, then the files to open
    writes,   \* history: the calls of write so far
    published, \* history: the files of the last overwrite that became the dataset
    disturbed \* history: readers under whom a failed overwrite was undone

disk == <<path, staging, backup, orphans>>
history == <<writes, published, disturbed>>
vars == <<disk, pc, call, found, todo, history>>

Processes == Writers \cup Readers
Batches == 1..MaxWrites
Modes == {"overwrite", "append"}

(* A file's name is made of the batch (a uuid per write) and its partition. *)
Files == [batch : Batches, part : Parts, mode : Modes]
Dirs == [files : SUBSET Files, marker : BOOLEAN] \* the marker holds the schema
Calls == [batch : Batches, mode : Modes, left : SUBSET Parts]

EmptyDir == [files |-> {}, marker |-> FALSE]

(* Mutant: a file is not named for its batch.                              *)
NamedAlike(c, part) == [batch |-> 0, part |-> part, mode |-> c.mode]

(* The name of a file of a call.                                           *)
Named(c, part) == [batch |-> c.batch, part |-> part, mode |-> c.mode]

-----------------------------------------------------------------------------
Init ==
    /\ path = None
    /\ staging = [w \in Writers |-> None]
    /\ backup = [w \in Writers |-> None]
    /\ orphans = {}
    /\ pc = [p \in Processes |-> "idle"]
    /\ call = [w \in Writers |-> None]
    /\ found = [r \in Readers |-> {}]
    /\ todo = [r \in Readers |-> {}]
    /\ writes = 0
    /\ published = {}
    /\ disturbed = {}

Goto(p, label) == pc' = [pc EXCEPT ![p] = label]

(* write up to its first change of the disk.  An append whose schema is not *)
(* the dataset's is refused here; an empty directory has no schema at all. *)
StartWrite(w) ==
    /\ pc[w] = "idle" /\ writes < MaxWrites
    /\ \E mode \in Modes, parts \in (SUBSET Parts) \ {{}} :
          /\ writes' = writes + 1
          /\ call' = [call EXCEPT ![w] =
                [batch |-> writes + 1, mode |-> mode, left |-> parts]]
          /\ IF mode = "overwrite"
               THEN /\ staging' = [staging EXCEPT ![w] = EmptyDir]
                    /\ Goto(w, "files")
                    /\ UNCHANGED path
               ELSE /\ path # EmptyDir
                    /\ Goto(w, "mkdir")
                    /\ UNCHANGED <<staging, path>>
    /\ UNCHANGED <<backup, orphans, found, todo, published, disturbed>>

(* An append makes the directory unless it is there.                       *)
MakeDir(w) ==
    /\ pc[w] = "mkdir"
    /\ path' = IF path = None THEN EmptyDir ELSE path
    /\ Goto(w, "files")
    /\ UNCHANGED <<staging, backup, orphans, call, found, todo, history>>

(* Where a call's files go: an append writes through the dataset's path,   *)
(* and makes it again if it has gone.                                      *)
Into(w) ==
    IF call[w].mode = "overwrite" THEN staging[w]
    ELSE IF path = None THEN EmptyDir ELSE path

Put(w, dir) ==
    IF call[w].mode = "overwrite"
      THEN staging' = [staging EXCEPT ![w] = dir] /\ UNCHANGED path
      ELSE path' = dir /\ UNCHANGED staging

(* _write_table: one file per partition, then the marker.                  *)
WriteFile(w) ==
    /\ pc[w] = "files"
    /\ \E part \in call[w].left :
          /\ Put(w, [Into(w) EXCEPT !.files = @ \cup {Named(call[w], part)}])
          /\ call' = [call EXCEPT ![w].left = @ \ {part}]
    /\ UNCHANGED <<backup, orphans, pc, found, todo, history>>

(* The marker of an append whose directory has gone cannot be written.     *)
WriteMarker(w) ==
    /\ pc[w] = "files" /\ call[w].left = {}
    /\ call[w].mode = "append" => path # None
    /\ Put(w, [Into(w) EXCEPT !.marker = TRUE])
    /\ IF call[w].mode = "overwrite"
         THEN Goto(w, "look") /\ UNCHANGED call
         ELSE Goto(w, "idle") /\ call' = [call EXCEPT ![w] = None]
    /\ UNCHANGED <<backup, orphans, found, todo, history>>

(* path.exists()                                                           *)
Look(w) ==
    /\ pc[w] = "look"
    /\ Goto(w, IF path = None THEN "publish" ELSE "set_aside")
    /\ UNCHANGED <<disk, call, found, todo, history>>

(* Mutant: the old dataset is removed, not set aside.                      *)
SetAsideRemoved(w) ==
    /\ pc[w] = "set_aside" /\ path # None
    /\ path' = None
    /\ Goto(w, "publish")
    /\ UNCHANGED <<staging, backup, orphans, call, found, todo, history>>

(* path.rename(backup)                                                     *)
SetAside(w) ==
    /\ pc[w] = "set_aside" /\ path # None
    /\ backup' = [backup EXCEPT ![w] = path]
    /\ path' = None
    /\ Goto(w, "publish")
    /\ UNCHANGED <<staging, orphans, call, found, todo, history>>

(* staging.rename(path), which an existing dataset refuses.                *)
Publish(w) ==
    /\ pc[w] = "publish" /\ (path = None \/ path = EmptyDir)
    /\ path' = staging[w]
    /\ staging' = [staging EXCEPT ![w] = None]
    /\ published' = staging[w].files
    /\ Goto(w, "drop")
    /\ UNCHANGED <<backup, orphans, call, found, todo, writes, disturbed>>

(* The rename fails: a dataset is in the way, or the call itself failed.   *)
PublishFails(w) ==
    /\ pc[w] = "publish"
    /\ Goto(w, IF backup[w] # None /\ path = None THEN "restore" ELSE "give_up")
    /\ UNCHANGED <<disk, call, found, todo, history>>

(* backup.rename(path)                                                     *)
Restore(w) ==
    /\ pc[w] = "restore" /\ (path = None \/ path = EmptyDir)
    /\ path' = backup[w]
    /\ backup' = [backup EXCEPT ![w] = None]
    /\ Goto(w, "give_up")
    /\ disturbed' = {r \in Readers : pc[r] # "idle"}
    /\ UNCHANGED <<staging, orphans, call, found, todo, writes, published>>

(* rmtree(backup): write returns.                                          *)
DropBackup(w) ==
    /\ pc[w] = "drop"
    /\ backup' = [backup EXCEPT ![w] = None]
    /\ Goto(w, "idle")
    /\ call' = [call EXCEPT ![w] = None]
    /\ UNCHANGED <<path, staging, orphans, found, todo, history>>

(* A writer leaves: by an exception, whose finally removes the staging      *)
(* directory, or by its death, which leaves one that was never a dataset   *)
(* and is no concern of anyone's.  A backup stays either way.              *)
(* (Death at the second rename is a rename that fails, then this.)          *)
Leave(w) ==
    /\ pc[w] \notin {"idle", "publish"}
    /\ orphans' = (orphans \cup {backup[w]}) \ {None}
    /\ staging' = [staging EXCEPT ![w] = None]
    /\ backup' = [backup EXCEPT ![w] = None]
    /\ call' = [call EXCEPT ![w] = None]
    /\ Goto(w, "idle")
    /\ UNCHANGED <<path, found, todo, history>>

-----------------------------------------------------------------------------
(* read: list the directory, then its partitions, and open what was found. *)
StartRead(r) ==
    /\ pc[r] = "idle" /\ path # None
    /\ todo' = [todo EXCEPT ![r] = {f.part : f \in path.files}]
    /\ found' = [found EXCEPT ![r] = {}]
    /\ Goto(r, "discover")
    /\ UNCHANGED <<disk, call, history>>

Discover(r) ==
    /\ pc[r] = "discover" /\ path # None
    /\ \E part \in todo[r] :
          /\ {f \in path.files : f.part = part} # {}
          /\ todo' = [todo EXCEPT ![r] = @ \ {part}]
          /\ found' = [found EXCEPT ![r] = @ \cup {f \in path.files : f.part = part}]
    /\ UNCHANGED <<disk, pc, call, history>>

Discovered(r) ==
    /\ pc[r] = "discover" /\ todo[r] = {}
    /\ todo' = [todo EXCEPT ![r] = found[r]]
    /\ Goto(r, "open")
    /\ UNCHANGED <<disk, call, found, history>>

(* Mutant: names say the partition only, so a newer file answers to one.   *)
OpenByPart(r) ==
    /\ pc[r] = "open" /\ path # None
    /\ \E f \in todo[r], g \in path.files :
          /\ f.part = g.part
          /\ todo' = [todo EXCEPT ![r] = @ \ {f}]
          /\ found' = [found EXCEPT ![r] = (@ \ {f}) \cup {g}]
    /\ UNCHANGED <<disk, pc, call, history>>

(* to_table: a file that has gone is an error.  What tells files apart is  *)
(* in their names.                                                         *)
Open(r) ==
    /\ pc[r] = "open" /\ path # None
    /\ \E f \in todo[r] \cap path.files : todo' = [todo EXCEPT ![r] = @ \ {f}]
    /\ UNCHANGED <<disk, pc, call, found, history>>

Opened(r) ==
    /\ pc[r] = "open" /\ todo[r] = {}
    /\ Goto(r, "done")
    /\ UNCHANGED <<disk, call, found, todo, history>>

(* The result is used, or an error ended the read.                         *)
EndRead(r) ==
    /\ pc[r] # "idle"
    /\ Goto(r, "idle")
    /\ found' = [found EXCEPT ![r] = {}]
    /\ todo' = [todo EXCEPT ![r] = {}]
    /\ disturbed' = disturbed \ {r}
    /\ UNCHANGED <<disk, call, writes, published>>

Next ==
    \/ \E w \in Writers :
          \/ StartWrite(w) \/ MakeDir(w) \/ WriteFile(w) \/ WriteMarker(w)
          \/ Look(w) \/ SetAside(w) \/ Publish(w) \/ PublishFails(w)
          \/ Restore(w) \/ DropBackup(w) \/ Leave(w)
    \/ \E r \in Readers :
          \/ StartRead(r) \/ Discover(r) \/ Discovered(r)
          \/ Open(r) \/ Opened(r) \/ EndRead(r)

Spec == Init /\ [][Next]_vars

-----------------------------------------------------------------------------
Labels == {"idle", "mkdir", "files", "look", "set_aside", "publish", "restore",
           "give_up", "drop", "discover", "open", "done"}

(* Every variable has its type.                                            *)
TypeOK ==
    /\ path \in Dirs \cup {None}
    /\ staging \in [Writers -> Dirs \cup {None}]
    /\ backup \in [Writers -> Dirs \cup {None}]
    /\ orphans \subseteq Dirs
    /\ pc \in [Processes -> Labels]
    /\ call \in [Writers -> Calls \cup {None}]
    /\ found \in [Readers -> SUBSET Files]
    /\ todo \in [Readers -> (SUBSET Parts) \cup (SUBSET Files)]
    /\ writes \in 0..MaxWrites
    /\ published \subseteq Files
    /\ disturbed \subseteq Readers

(* A read that ends without an error never mixes two datasets: what it      *)
(* returns of overwrites comes from one of them, whatever is renamed between *)
(* listing, discovering and opening the files, unless another overwrite     *)
(* failed meanwhile and put an older dataset back, which can return.       *)
ReadsOneDataset ==
    \A r \in Readers \ disturbed : pc[r] = "done" =>
        \A f, g \in found[r] :
            f.mode = "overwrite" /\ g.mode = "overwrite" => f.batch = g.batch

(* Whoever dies between the two renames of write, or loses a race for the  *)
(* path, the dataset last published is whole on disk: in its place, or set *)
(* aside where an operator can find it.                                    *)
PublishedSurvives ==
    published # {} =>
        \E dir \in {path} \cup {backup[w] : w \in Writers} \cup orphans :
            dir # None /\ published \subseteq dir.files
=============================================================================
