------------------------------ MODULE StaticSync ------------------------------
(***************************************************************************)
(* hamr sync --watch (pkg/sync): every file of a directory is uploaded     *)
(* once, then the directories are watched and changes follow one by one.   *)
(* The directory holds a file and a subdirectory with a file; an editor    *)
(* changes them at any time.  A file may also change between the moment it *)
(* is opened and the moment its object is stored.                          *)
(***************************************************************************)
EXTENDS Naturals, Sequences, SequencesExt

CONSTANTS
    Top, Inner,   \* the file of the root, and the one of the subdirectory
    Sub,          \* the subdirectory
    MaxEdits,     \* bound: what the editor does
    MaxFaults,    \* bound: calls of the storage that fail
    QueueCap      \* the kernel's queue of events; more of them are lost

VARIABLES
    disk,         \* file -> its version, 0 if there is none
    sub,          \* the subdirectory exists
    bucket,       \* file -> the version uploaded, 0 if there is none
    watched,      \* which of {"root", "sub"} are watched
    queue,        \* events not handled yet
    pc,           \* where SyncAll and WatchAndSync are
    todo,         \* what the walk under way is still to visit
    open,         \* the upload under way: <<file, version>>, or <<>>
    edits, faults,
    unheard       \* files with a change that nothing will report (history)

ssvars == <<disk, sub, bucket, watched, queue, pc, todo, open, edits, faults, unheard>>

Files == {Top, Inner}
Versions == 0 .. MaxEdits + 1
Event == [op : {"write", "remove"}, name : Files \cup {Sub}]
On(f, names) == IF f \in names THEN <<f>> ELSE <<>>

TypeOK ==
    /\ disk \in [Files -> Versions] /\ bucket \in [Files -> Versions] /\ sub \in BOOLEAN
    /\ watched \subseteq {"root", "sub"}
    /\ queue \in Seq(Event) /\ Len(queue) <= QueueCap
    /\ pc \in {"bucket", "walk", "watch", "subs", "loop", "failed"}
    /\ todo \in Seq(Files \cup {Sub}) /\ (open = <<>> \/ open \in Files \X Versions)
    /\ edits \in 0 .. MaxEdits /\ faults \in 0 .. MaxFaults /\ unheard \subseteq Files

Init ==
    /\ sub \in BOOLEAN
    /\ disk = [f \in Files |-> IF f = Inner /\ ~sub THEN 0 ELSE 1]
    /\ bucket = [f \in Files |-> 0]
    /\ watched = {} /\ queue = <<>> /\ open = <<>> /\ pc = "bucket" /\ todo = <<>>
    /\ edits = 0 /\ faults = 0 /\ unheard = {}

Written(name) == [op |-> "write", name |-> name]
Announced == Written(Sub)
Removal(name) == [op |-> "remove", name |-> name]
Behind == {f \in Files : bucket[f] # disk[f]}
Here == {f \in Files : disk[f] # 0}
Keep == UNCHANGED <<disk, sub, edits>>
Fault == faults < MaxFaults /\ faults' = faults + 1

(***************************************************************************)
(* The editor, and the events the kernel queues for it.                    *)
(***************************************************************************)
Dir(name) == IF name = Inner THEN "sub" ELSE "root"
Of(d, e) == IF Dir(e.name) = d THEN <<e>> ELSE <<>>
Heard(d, events) == IF d \in watched THEN events ELSE <<>>

\* Events of watched directories are queued while there is room, those inside the
\* subdirectory first.  A file written in a new directory is covered by the event of
\* the directory, a file removed is not.
Notify(inside, outside) ==
    LET heard == Heard("sub", inside) \o Heard("root", outside)
        fits == Len(queue) + Len(heard) <= QueueCap
        lost == {e \in ToSet(inside \o outside) : (~fits \/ ~Contains(heard, e)) /\
                    ~(e.op = "write" /\ e.name # Top /\ Contains(queue, Announced) /\
                      ~Contains(queue, Removal(Inner)))}
    IN  /\ queue' = IF fits THEN queue \o heard ELSE queue
        /\ unheard' = IF pc \notin {"subs", "loop"} THEN unheard
                      ELSE unheard \cup {f \in Files : \E e \in lost :
                               e.name = f \/ (e = Announced /\ f = Inner)}

Edit(inside, outside) ==
    /\ edits < MaxEdits /\ edits' = edits + 1
    /\ Notify(inside, outside)
    /\ UNCHANGED <<bucket, pc, todo, open, faults>>
Change(e) == Edit(Of("sub", e), Of("root", e))

WriteFile(f) ==
    /\ f = Top \/ sub
    /\ disk' = [disk EXCEPT ![f] = edits + 2]
    /\ Change(Written(f)) /\ UNCHANGED <<sub, watched>>

RemoveFile(f) ==
    /\ disk[f] # 0 /\ disk' = [disk EXCEPT ![f] = 0]
    /\ Change(Removal(f)) /\ UNCHANGED <<sub, watched>>

\* A directory is made, or moved here with what it holds.
MakeSub ==
    /\ ~sub /\ sub' = TRUE
    /\ \E version \in {0, edits + 2} : disk' = [disk EXCEPT ![Inner] = version]
    /\ Change(Announced) /\ UNCHANGED watched

\* rm -r reports the files of a watched directory, and then the directory.
RemoveSub ==
    /\ sub /\ sub' = FALSE
    /\ disk' = [disk EXCEPT ![Inner] = 0] /\ watched' = watched \ {"sub"}
    /\ Edit(IF disk[Inner] = 0 THEN <<>> ELSE <<Removal(Inner)>>, <<Removal(Sub)>>)

\* A directory moved away reports its own name only; the objects of its files stay.
MoveSubAway ==
    /\ sub /\ sub' = FALSE
    /\ disk' = [disk EXCEPT ![Inner] = 0] /\ watched' = watched \ {"sub"}
    /\ edits < MaxEdits /\ edits' = edits + 1
    /\ queue' = IF "root" \in watched /\ Len(queue) < QueueCap
                THEN Append(queue, Removal(Sub)) ELSE queue
    /\ unheard' = unheard \cup (IF pc = "loop" THEN {Inner} ELSE {})
    /\ UNCHANGED <<bucket, pc, todo, open, faults>>

(***************************************************************************)
(* SyncAll: ends with the first error.                                     *)
(***************************************************************************)
Fails == /\ pc' = "failed" /\ todo' = <<>> /\ open' = <<>> /\ UNCHANGED <<bucket, watched, queue, unheard>>

EnsureBucket ==
    /\ pc = "bucket" /\ Keep
    /\ \/ /\ pc' = "walk" /\ todo' = On(Sub, IF sub THEN {Sub} ELSE {}) \o On(Top, Here)
          /\ UNCHANGED <<bucket, watched, queue, open, faults, unheard>>
       \/ Fault /\ Fails

\* The walk reads a directory when it gets there.
Visit ==
    /\ todo # <<>> /\ open = <<>> /\ Head(todo) = Sub /\ Keep /\ UNCHANGED faults
    /\ IF sub \/ pc = "loop"
         THEN /\ todo' = On(Inner, Here) \o Tail(todo)
              /\ UNCHANGED <<bucket, watched, queue, pc, open, unheard>>
         ELSE Fails

\* A file is opened; if it is gone, SyncAll ends and syncExistingFiles goes on.
OpenNext ==
    /\ todo # <<>> /\ open = <<>> /\ Head(todo) # Sub /\ Keep /\ UNCHANGED faults
    /\ IF disk[Head(todo)] # 0
         THEN /\ open' = <<Head(todo), disk[Head(todo)]>> /\ todo' = Tail(todo)
              /\ UNCHANGED <<bucket, watched, queue, pc, unheard>>
         ELSE IF pc = "walk" THEN Fails
         ELSE todo' = Tail(todo) /\ UNCHANGED <<bucket, watched, queue, pc, open, unheard>>

\* What is opened is stored, or the error ends SyncAll; the loop logs it.
Put ==
    /\ open # <<>> /\ Keep
    /\ \/ /\ bucket' = [bucket EXCEPT ![open[1]] = open[2]] /\ open' = <<>>
          /\ unheard' = IF disk[open[1]] = open[2] /\ ~Contains(queue, Removal(open[1]))
                        THEN unheard \ {open[1]} ELSE unheard
          /\ UNCHANGED <<watched, queue, pc, todo, faults>>
       \/ pc = "walk" /\ Fault /\ Fails
       \/ /\ pc = "loop" /\ Fault /\ open' = <<>> /\ unheard' = unheard \cup {open[1]}
          /\ UNCHANGED <<bucket, watched, queue, pc, todo>>

(***************************************************************************)
(* WatchAndSync.  addWatchDirs comes after the whole of SyncAll: nothing   *)
(* reports what has changed since a file was uploaded.                     *)
(***************************************************************************)
SyncedAll ==
    /\ pc = "walk" /\ todo = <<>> /\ open = <<>> /\ pc' = "watch" /\ Keep
    /\ UNCHANGED <<bucket, watched, queue, todo, open, faults, unheard>>

WatchRoot ==
    /\ pc = "watch" /\ Keep
    /\ watched' = {"root"} /\ pc' = IF sub THEN "subs" ELSE "loop"
    /\ unheard' = Behind \ (IF sub THEN {Inner} ELSE {})
    /\ UNCHANGED <<bucket, queue, todo, open, faults>>

WatchSub ==
    /\ pc = "subs" /\ Keep /\ UNCHANGED faults
    /\ IF sub
         THEN /\ watched' = {"root", "sub"} /\ pc' = "loop"
              /\ unheard' = unheard \cup (Behind \cap {Inner})
              /\ UNCHANGED <<bucket, queue, todo, open>>
         ELSE Fails

Taken(e) ==
    /\ pc = "loop" /\ queue # <<>> /\ todo = <<>> /\ open = <<>> /\ Keep
    /\ e = Head(queue) /\ queue' = Tail(queue) /\ UNCHANGED pc

\* Mutant: a new directory is watched, but what it holds already is not looked at.
NewDirectoryWatched ==
    watched' = watched \cup {"sub"} /\ UNCHANGED todo
\* The directory is watched before it is read: no file falls between.
NewDirectory ==
    watched' = watched \cup {"sub"} /\ todo' = <<Sub>>

\* A created or written name: a file is opened, a directory is added.
HandleWrite ==
    \E e \in Event :
       /\ Taken(e) /\ e.op = "write" /\ UNCHANGED <<bucket, faults, unheard>>
       /\ IF e.name = Sub
            THEN /\ UNCHANGED open
                 /\ IF sub THEN NewDirectory ELSE UNCHANGED <<watched, todo>>
            ELSE /\ open' = IF disk[e.name] = 0 THEN <<>> ELSE <<e.name, disk[e.name]>>
                 /\ UNCHANGED <<watched, todo>>

\* A removed or renamed name: the object of that very name is deleted.
HandleRemove ==
    \E e \in Event :
       /\ Taken(e) /\ e.op = "remove" /\ UNCHANGED <<watched, todo, open>>
       /\ \/ /\ bucket' = [f \in Files |-> IF f = e.name THEN 0 ELSE bucket[f]]
             /\ unheard' = unheard \ {f \in {e.name} : f # Sub /\ disk[f] = 0}
             /\ UNCHANGED faults
          \/ /\ Fault /\ UNCHANGED bucket
             /\ unheard' = unheard \cup ({e.name} \cap Files)

Next ==
    \/ \E f \in Files : WriteFile(f) \/ RemoveFile(f)
    \/ MakeSub \/ RemoveSub \/ MoveSubAway
    \/ EnsureBucket \/ Visit \/ OpenNext \/ Put \/ SyncedAll
    \/ WatchRoot \/ WatchSub \/ HandleWrite \/ HandleRemove

-------------------------------------------------------------------------------
\* When the loop has nothing left to do, the bucket holds what the directory holds,
\* but for files with a change between their upload and their watch, with an event
\* the kernel dropped or a call that failed, or in a directory moved away.
BucketFollows ==
    pc = "loop" /\ queue = <<>> /\ todo = <<>> /\ open = <<>> => Behind \subseteq unheard

Inv == TypeOK /\ BucketFollows
===============================================================================
