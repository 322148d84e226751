------------------------------- MODULE MockInbox -------------------------------
(***************************************************************************)
(* The inbox of the mail mock (mailmock.go, mailmock_mbox.go) or of the    *)
(* SMS mock (smsmock.go), and the file it is mirrored to: appended to on   *)
(* ingest, rewritten by everything else, read when hamr dev starts.  A     *)
(* write may fail, or be cut off half way.                                 *)
(***************************************************************************)
EXTENDS Integers, Sequences, FiniteSets, SequencesExt

CONSTANTS
    Ids,            \* ids of messages
    MaxMessages,    \* capacity of the inbox
    Caps,           \* capacities a restart may configure
    MaxFaults       \* bound: failed writes and restarts

VARIABLES
    kind,       \* "mail" or "sms"
    cap,        \* maxMessages
    messages,   \* the inbox in memory, oldest first
    file,       \* the entries on disk
    given,      \* ids given out
    kept,       \* history: those that were not deleted or evicted since
    excused,    \* history: ids a fault of the file may have cost
    faults

vars == <<kind, cap, messages, file, given, kept, excused, faults>>

\* How an entry lies in the file: whole, cut off, or on a line longer than
\* the reader of the SMS file takes.
Shapes == {"whole", "torn", "long"}
MessageType == [id : Ids, status : {"delivered", "failed", "delayed"}, long : BOOLEAN]

TypeOK ==
    /\ messages \in Seq(MessageType) /\ Len(messages) <= cap
    /\ \A n \in DOMAIN file : file[n].msg \in MessageType /\ file[n].shape \in Shapes
    /\ kept \subseteq given /\ given \subseteq Ids /\ excused \subseteq Ids

Init ==
    /\ kind \in {"mail", "sms"}
    /\ cap = MaxMessages
    /\ messages = << >> /\ file = << >>
    /\ given = {} /\ kept = {} /\ excused = {} /\ faults = 0

Entry(m) == [msg |-> m, shape |-> IF kind = "sms" /\ m.long THEN "long" ELSE "whole"]
Written(ms) == [n \in DOMAIN ms |-> Entry(ms[n])]
IdsOf(ms) == {ms[n].id : n \in DOMAIN ms}

----------------------------------------------------------------------------
(* readMboxInbox and the reader of the SMS lines.                          *)

\* An entry after one that was cut off is read as part of it.
Swallowed(n) == n > 1 /\ file[n - 1].shape = "torn"

\* The reader of lines stops at one that is too long.
Stopped(n) == \E m \in 1..n : file[m].shape = "long"

\* What the file says: a cut-off mail may still be read, by its headers; a
\* cut-off line is skipped.
Legible(tornToo) ==
    {n \in DOMAIN file :
        /\ ~Swallowed(n) /\ ~Stopped(n)
        /\ file[n].shape = "torn" => kind = "mail" /\ tornToo}

ReadFile(tornToo) ==
    LET whole == Legible(tornToo)
        order == SetToSortSeq(whole, <)
    IN  [k \in DOMAIN order |-> file[order[k]].msg]

\* What a restart may not find any more.
Doubtful == {file[n].msg.id : n \in DOMAIN file \ Legible(FALSE)}

----------------------------------------------------------------------------

Fault == faults < MaxFaults /\ faults' = faults + 1

InFile == {file[n].msg.id : n \in DOMAIN file}

\* The rewrite, through a temporary file and a rename: all of it or nothing.
Rewrite(ms) ==
    \/ /\ file' = Written(ms)
       /\ excused' = excused \ (IdsOf(ms) \cap kept)
       /\ UNCHANGED faults
    \/ /\ Fault
       /\ UNCHANGED file
       /\ excused' = excused \cup IdsOf(messages) \cup IdsOf(ms) \cup InFile

\* A line or an entry is added and the rest is left alone.
AppendTo(m) ==
    \/ /\ file' = Append(file, Entry(m))
       /\ UNCHANGED <<excused, faults>>
    \/ /\ Fault
       /\ file' \in {file, Append(file, [msg |-> m, shape |-> "torn"])}
       /\ excused' = excused \cup {m.id}

\* Mutant: at its limit the inbox appends to the file too.
AppendsAlways == TRUE
Appends == Len(messages) < cap

\* handleIngest and append: at the limit the oldest is dropped.
Ingest(id, long) ==
    LET m    == [id |-> id, status |-> "delivered", long |-> long]
        room == IF Len(messages) < cap THEN messages ELSE Tail(messages)
    IN  /\ id \notin given /\ given' = given \cup {id}
        /\ messages' = Append(room, m)
        /\ kept' = (kept \ (IdsOf(messages) \ IdsOf(room))) \cup {id}
        /\ IF Appends THEN AppendTo(m) ELSE Rewrite(Append(room, m))
        /\ UNCHANGED <<kind, cap>>

\* Delete, Clear and SetStatus of the dashboards.
Delete(n) ==
    LET left == RemoveAt(messages, n)
    IN  /\ messages' = left /\ Rewrite(left)
        /\ kept' = kept \ {messages[n].id}
        /\ UNCHANGED <<kind, cap, given>>

Clear ==
    /\ messages' = << >> /\ Rewrite(<< >>)
    /\ kept' = kept \ IdsOf(messages)
    /\ UNCHANGED <<kind, cap, given>>

SetStatus(n, status) ==
    LET set == [messages EXCEPT ![n].status = status]
    IN  /\ messages' = set /\ Rewrite(set)
        /\ UNCHANGED <<kind, cap, given, kept>>

Cut(ms, c) == SubSeq(ms, Len(ms) - c + 1, Len(ms))

\* A restart, with another limit perhaps: what is over it is dropped, in the
\* file too.
Restart(c, tornToo) ==
    LET read == ReadFile(tornToo)
        over == Len(read) > c
        left == IF over THEN Cut(read, c) ELSE read
    IN  /\ Fault
        /\ cap' = c /\ messages' = left
        /\ kept' = kept \ IdsOf(SubSeq(read, 1, Len(read) - Len(left)))
        /\ file' = IF over THEN Written(left) ELSE file
        /\ excused' = excused \cup Doubtful
        /\ UNCHANGED <<kind, given>>

Next ==
    \/ \E id \in Ids, long \in BOOLEAN : Ingest(id, long)
    \/ \E n \in DOMAIN messages : Delete(n) \/ \E s \in {"failed", "delayed"} : SetStatus(n, s)
    \/ Clear
    \/ \E c \in Caps, tornToo \in BOOLEAN : Restart(c, tornToo)

Spec == Init /\ [][Next]_vars

----------------------------------------------------------------------------

\* A message that was answered with an ID is in the inbox until it is deleted,
\* cleared or pushed out, and then never comes back, through restarts; but for
\* those a failed or cut-off write, or a line too long to read, stood in the
\* way of (append, writeMboxInbox, writeSMSInbox, loadFromDisk).
InboxIsKept == IdsOf(messages) \ excused = kept \ excused

\* As long as no write failed the file is the inbox, with every status.
FileIsInbox ==
    excused = {} /\ (\A n \in DOMAIN file : file[n].shape = "whole") =>
        [n \in DOMAIN file |-> file[n].msg] = messages

\* The parts of the inbox's invariant.
Inv == TypeOK /\ InboxIsKept /\ FileIsInbox
================================================================================
