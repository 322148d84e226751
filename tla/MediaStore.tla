------------------------------ MODULE MediaStore ------------------------------
(***************************************************************************)
(* Uploads of images and videos under an id the caller supplies, and their *)
(* deletion (pkg/media over pkg/storage).  An image is several objects,    *)
(* one for each configured size; a video is the file and its thumbnail.    *)
(* Objects are saved and deleted one by one, and each call to the storage  *)
(* may fail; on S3 it may fail to its caller and still have been done.     *)
(* The model follows one id; what an upload stores is its number.          *)
(***************************************************************************)
EXTENDS Naturals, Sequences, SequencesExt

CONSTANTS
    Workers,    \* goroutines of the application that call the store
    Sizes,      \* the configured sizes, in their order
    MaxCalls    \* bound: calls made

VARIABLES
    kind,       \* "image" or "video": the store the id belongs to
    remote,     \* the storage is S3, not a local directory
    stored,     \* object -> the upload it is of, 0 if there is none
    calls,      \* number of calls made
    work,       \* worker -> what it does
    alone,      \* workers during whose call no other was made (history)
    before,     \* worker -> stored when its call began (history)
    residue,    \* an interrupted or ambiguous call may have left its traces (history)
    badThumb    \* the last thumbnail was not made, saved or deleted (history)

mdvars == <<kind, remote, stored, calls, work, alone, before, residue, badThumb>>

Objects == IF kind = "image" THEN Sizes ELSE <<"video", "thumb">>
Names == ToSet(Sizes) \cup {"video", "thumb"}
Empty == [n \in Names |-> 0]

Pcs == {"idle", "probe", "prepare", "save", "clean", "delete", "done", "exists", "failed", "removed"}
AtRest == {"idle", "done", "exists", "failed", "removed"}
Busy(w) == work[w].pc \notin AtRest

TypeOK ==
    /\ kind \in {"image", "video"} /\ remote \in BOOLEAN
    /\ stored \in [Names -> 0 .. MaxCalls] /\ calls \in 0 .. MaxCalls
    /\ work \in [Workers -> [pc : Pcs, number : 0 .. MaxCalls, at : 1 .. Len(Sizes) + 2,
                             written : 0 .. Len(Sizes)]]
    /\ alone \subseteq Workers /\ before \in [Workers -> [Names -> 0 .. MaxCalls]]
    /\ residue \in BOOLEAN /\ badThumb \in BOOLEAN

NoWork == [pc |-> "idle", number |-> 0, at |-> 1, written |-> 0]

Init ==
    /\ kind \in {"image", "video"} /\ remote \in BOOLEAN
    /\ stored = Empty /\ calls = 0 /\ alone = Workers
    /\ work = [w \in Workers |-> NoWork]
    /\ before = [w \in Workers |-> Empty]
    /\ residue = FALSE /\ badThumb = FALSE

Goto(w, pc) == work' = [work EXCEPT ![w] = [@ EXCEPT !.pc = pc, !.at = 1, !.written = 0]]
Returns(w, pc) == Goto(w, pc) /\ UNCHANGED <<stored, residue, badThumb>>
Same == UNCHANGED <<kind, remote, calls, alone, before>>

\* UploadFromReaderWithID, with or without overwrite, or Delete.
Begin(w) ==
    /\ ~Busy(w) /\ calls < MaxCalls
    /\ calls' = calls + 1
    /\ \E pc \in {"probe", "prepare", "delete"} :
           work' = [work EXCEPT ![w] = [pc |-> pc, number |-> calls + 1, at |-> 1, written |-> 0]]
    /\ LET others == {v \in Workers \ {w} : Busy(v)}
       IN  /\ alone' = IF others = {} THEN alone \cup {w} ELSE (alone \ others) \ {w}
           /\ residue' = (residue \/ others # {})
           /\ before' = [v \in Workers |-> IF v \in alone' THEN (IF v = w THEN stored ELSE before[v])
                                           ELSE Empty]
    /\ UNCHANGED <<kind, remote, stored, badThumb>>

\* Without overwrite the first object is looked for, and stands for all.
Probe(w) ==
    /\ work[w].pc = "probe" /\ Same
    /\ \/ Returns(w, "failed")
       \/ Returns(w, IF stored[Objects[1]] # 0 THEN "exists" ELSE "prepare")

\* The payload is read and converted; nothing is stored before it is ready.
Prepare(w) ==
    /\ work[w].pc = "prepare" /\ Same
    /\ \E pc \in {"save", "failed"} : Returns(w, pc)

\* The next object is stored (Save is atomic: a rename, or one PutObject).
Put(w, name) == stored' = [stored EXCEPT ![name] = work[w].number]

\* What the traces of earlier trouble are once an upload is complete.
Completed(w) == residue' = (residue /\ w \notin alone)

\* Mutant: the sizes are not saved in their configured order.
NextToSaveBackwards(w) == Objects[Len(Objects) + 1 - work[w].at]
NextToSave(w) == Objects[work[w].at]

\* An object of an image is saved; the upload has them all, or goes on.
SaveImage(w) ==
    /\ kind = "image" /\ work[w].pc = "save" /\ Same
    /\ Put(w, NextToSave(w)) /\ UNCHANGED badThumb
    /\ IF work[w].at = Len(Objects)
         THEN Goto(w, "done") /\ Completed(w)
         ELSE work' = [work EXCEPT ![w].at = @ + 1] /\ UNCHANGED residue

\* Save fails: what this upload has written is cleaned up.  The object at hand is
\* not in written; on S3 it may be there all the same.
SaveImageFails(w) ==
    /\ kind = "image" /\ work[w].pc = "save" /\ Same /\ UNCHANGED badThumb
    /\ work' = [work EXCEPT ![w].pc = IF work[w].at = 1 THEN "failed" ELSE "clean",
                            ![w].at = 1, ![w].written = work[w].at - 1]
    /\ \/ UNCHANGED <<stored, residue>>
       \/ remote /\ Put(w, NextToSave(w)) /\ residue' = TRUE

\* Mutant: the last of the written objects is left.
CleanedUpEarly(w) == work[w].at + 1 >= work[w].written
CleanedUp(w) == work[w].at = work[w].written

\* cleanupPartial deletes one written object after the other; a failure is logged.
Clean(w) ==
    /\ work[w].pc = "clean" /\ Same /\ UNCHANGED badThumb
    /\ \E ok \in BOOLEAN :
          /\ stored' = IF ok THEN [stored EXCEPT ![NextToSave(w)] = 0] ELSE stored
          /\ residue' = (residue \/ ~ok)
          /\ IF CleanedUp(w) THEN Goto(w, "failed") ELSE work' = [work EXCEPT ![w].at = @ + 1]

\* Mutant: the last size is deleted first.
NextToDeleteBackwards(w) == Objects[Len(Objects) + 1 - work[w].at]
NextToDelete(w) == Objects[work[w].at]

\* Delete removes the sizes in their order and gives up at the first failure.
DeleteImage(w) ==
    /\ kind = "image" /\ work[w].pc = "delete" /\ Same /\ UNCHANGED badThumb
    /\ \/ /\ stored' = [stored EXCEPT ![NextToDelete(w)] = 0]
          /\ IF work[w].at = Len(Objects)
               THEN Goto(w, "removed") /\ Completed(w)
               ELSE work' = [work EXCEPT ![w].at = @ + 1] /\ UNCHANGED residue
       \/ Returns(w, "failed")
       \/ /\ remote /\ Goto(w, "failed") /\ residue' = TRUE
          /\ stored' = [stored EXCEPT ![NextToDelete(w)] = 0]

\* A video is saved first; its thumbnail may fail without failing the upload.
SaveVideo(w) ==
    /\ kind = "video" /\ work[w].pc = "save" /\ work[w].at = 1 /\ Same
    /\ \/ Put(w, "video") /\ work' = [work EXCEPT ![w].at = 2] /\ UNCHANGED <<residue, badThumb>>
       \/ Returns(w, "failed")
       \/ remote /\ Put(w, "video") /\ Goto(w, "failed") /\ residue' = TRUE /\ UNCHANGED badThumb

\* Mutant: the thumbnail is kept if there is one already.
KeepThumb(w) ==
    IF stored["thumb"] = 0 THEN Put(w, "thumb") ELSE UNCHANGED stored
PutThumb(w) == Put(w, "thumb")

SaveThumb(w) ==
    /\ kind = "video" /\ work[w].pc = "save" /\ work[w].at = 2 /\ Same
    /\ Goto(w, "done") /\ Completed(w)
    /\ \/ PutThumb(w) /\ badThumb' = FALSE
       \/ UNCHANGED stored /\ badThumb' = TRUE

\* The video goes first, then the thumbnail, whose failure nobody hears of.
DeleteVideo(w) ==
    /\ kind = "video" /\ work[w].pc = "delete" /\ Same
    /\ IF work[w].at = 1
         THEN /\ UNCHANGED badThumb
              /\ \/ /\ stored' = [stored EXCEPT !["video"] = 0] /\ UNCHANGED residue
                    /\ work' = [work EXCEPT ![w].at = 2]
                 \/ Goto(w, "failed") /\ UNCHANGED <<stored, residue>>
                 \/ /\ remote /\ Goto(w, "failed") /\ residue' = TRUE
                    /\ stored' = [stored EXCEPT !["video"] = 0]
         ELSE /\ Goto(w, "removed") /\ Completed(w)
              /\ \/ stored' = [stored EXCEPT !["thumb"] = 0] /\ badThumb' = FALSE
                 \/ UNCHANGED stored /\ badThumb' = TRUE

\* The process dies: calls end where they are, and what they stored stays.
Crash ==
    /\ \E w \in Workers : Busy(w)
    /\ work' = [w \in Workers |-> IF Busy(w) THEN NoWork ELSE work[w]]
    /\ residue' = TRUE
    /\ UNCHANGED <<kind, remote, stored, calls, alone, before, badThumb>>

Next ==
    \/ \E w \in Workers :
          \/ Begin(w) \/ Probe(w) \/ Prepare(w)
          \/ SaveImage(w) \/ SaveImageFails(w) \/ Clean(w) \/ DeleteImage(w)
          \/ SaveVideo(w) \/ SaveThumb(w) \/ DeleteVideo(w)
    \/ Crash

-------------------------------------------------------------------------------
InUse == ToSet(Objects)
Quiet == \A w \in Workers : ~Busy(w)
Latest(w) == work[w].number = calls

\* An upload nobody disturbed replaces whatever earlier attempts have left (all of
\* it but a thumbnail that failed): a retry with overwrite repairs.
RetryRepairs ==
    \A w \in alone : Latest(w) /\ work[w].pc = "done" =>
        /\ stored[Objects[1]] = work[w].number
        /\ \A n \in InUse \ {"thumb"} : stored[n] = work[w].number
        /\ kind = "image" \/ stored["thumb"] = work[w].number \/ badThumb

\* An upload that fails for a new id, and whose cleanup works, leaves nothing.
FailureLeavesNothing ==
    \A w \in alone : Latest(w) /\ work[w].pc = "failed" /\ before[w] = Empty
        => residue \/ stored = Empty

\* The first object speaks for all: if it is there the asset is complete and of one
\* upload, however many uploads and deletions failed half-way, unless a cleanup
\* failed or calls overlapped.
ProbeIsRight ==
    Quiet /\ ~residue /\ stored[Objects[1]] # 0 =>
        \A n \in InUse : stored[n] = stored[Objects[1]] \/ (kind = "video" /\ badThumb)

\* Without overwrite an asset that is there is not touched.
ExistingIsKept ==
    \A w \in alone : Latest(w) /\ work[w].pc = "exists" =>
        stored = before[w] /\ stored[Objects[1]] # 0

\* A deletion that reports success has left no object but a thumbnail.
RemovedIsGone ==
    \A w \in alone : Latest(w) /\ work[w].pc = "removed" =>
        \A n \in InUse : stored[n] = 0 \/ (n = "thumb" /\ badThumb)

Inv == RetryRepairs /\ FailureLeavesNothing /\ ProbeIsRight /\ ExistingIsKept /\ RemovedIsGone
===============================================================================
