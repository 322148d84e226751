------------------------------- MODULE MboxFormat ------------------------------
(***************************************************************************)
(* The mbox file of the mail mock as text (mailmock_mbox.go): what         *)
(* separates one message from the next, the quoting of body lines that     *)
(* look like a separator, the newline that is added, and the MIME tree of  *)
(* the parts.                                                              *)
(***************************************************************************)
EXTENDS Integers, Sequences, FiniteSets, SequencesExt

CONSTANTS
    MaxLines,   \* bound: lines of a body
    MaxMails    \* bound: messages of a file

\* A line: empty, some other text, a header, or so many ">" before "From ".
Empty == -1
Other == -2
Header == -3
FromLine == 0
BodyLines == {Empty, Other, 0, 1, 2}

\* A text is what lies between its newlines: "a" is one line, "a\n" two.
Texts == UNION {[1..n -> BodyLines] : n \in 1..MaxLines}

VARIABLES
    sent,   \* texts of the mails, oldest first
    inbox,  \* the texts hamr dev has of them
    step    \* restarts so far

vars == <<sent, inbox, step>>

----------------------------------------------------------------------------

\* escapeMBoxBody.
\* Mutant: only the plain separator is quoted.
QuotedPlain(line) == IF line = FromLine THEN 1 ELSE line
Quoted(line) == IF line >= FromLine THEN line + 1 ELSE line

\* A body ends in exactly one newline more than its own, or the one it lacks.
Terminated(text) == IF text = <<Empty>> \/ Last(text) = Empty THEN text ELSE Append(text, Empty)

\* writeMboxMessage: the separator, the headers, and the quoted body; what
\* follows its last newline is the blank line before the next separator.
Entry(text) ==
    <<FromLine, Header, Empty>> \o Terminated([n \in DOMAIN text |-> Quoted(text[n])])

WriteMbox(texts) == FlattenSeq([n \in DOMAIN texts |-> Entry(texts[n])])

\* splitMboxEntries: a separator counts after a blank line only.
Starts(file, n) == file[n] = FromLine /\ (n = 1 \/ file[n - 1] = Empty)

Entries(file) ==
    LET starts == SetToSortSeq({n \in DOMAIN file : Starts(file, n)}, <)
        end(k) == IF k = Len(starts) THEN Len(file) ELSE starts[k + 1] - 1
    IN  [k \in DOMAIN starts |-> SubSeq(file, starts[k], end(k))]

\* unescapeMBox, and the body after the headers.
Unquoted(line) == IF line >= 1 THEN line - 1 ELSE line
Body(entry) == [n \in 1..(Len(entry) - 3) |-> Unquoted(entry[n + 3])]

ReadMbox(file) ==
    LET entries == Entries(file) IN [k \in DOMAIN entries |-> Body(entries[k])]

----------------------------------------------------------------------------

Init == \E k \in 1..MaxMails : sent \in [1..k -> Texts] /\ inbox = sent /\ step = 0

\* hamr dev writes the inbox and starts again from the file.
Reread ==
    /\ step < 2 /\ step' = step + 1
    /\ inbox' = ReadMbox(WriteMbox(inbox))
    /\ UNCHANGED sent

Spec == Init /\ [][Reread]_vars

----------------------------------------------------------------------------
(* The MIME tree of one message and what is read back from it.             *)

Parts == [text : BOOLEAN, html : BOOLEAN, inline : 0..2, attach : 0..2]

Leaf(ct) == [ct |-> ct, parts |-> << >>]
Many(ct, parts) == [ct |-> ct, parts |-> parts]
Copies(leaf, k) == [n \in 1..k |-> leaf]

\* writeAltOrSingle, writeBodyAndInline and writeMIMEBody: each wraps the one
\* before when there is something to add.
Alternative(m) ==
    IF m.text /\ m.html THEN Many("alternative", <<Leaf("text"), Leaf("html")>>)
    ELSE Leaf(IF m.html THEN "html" ELSE "text")
Related(m) ==
    IF m.inline = 0 THEN Alternative(m)
    ELSE Many("related", <<Alternative(m)>> \o Copies(Leaf("inline"), m.inline))
Mixed(m) ==
    IF m.attach = 0 THEN Related(m)
    ELSE Many("mixed", <<Related(m)>> \o Copies(Leaf("attachment"), m.attach))

\* readPart goes down every multipart; the depth of Mixed is three.
RECURSIVE Leaves(_)
Leaves(tree) ==
    IF tree.parts = << >> THEN <<tree.ct>>
    ELSE FlattenSeq([n \in DOMAIN tree.parts |-> Leaves(tree.parts[n])])

\* A text that is empty is no text.
Read(m) ==
    LET leaves == Leaves(Mixed(m))
        number(ct) == Cardinality({n \in DOMAIN leaves : leaves[n] = ct})
    IN  [text |-> m.text /\ number("text") > 0, html |-> number("html") > 0,
         inline |-> number("inline"), attach |-> number("attachment")]

----------------------------------------------------------------------------

\* Whatever the bodies say, lines that look like separators or like quoted
\* separators and blank lines before them too, a file of several mails is read
\* back as the same mails; only a missing last newline is added, once.
SameMails ==
    /\ step = 0 => inbox = sent
    /\ step > 0 => inbox = [n \in DOMAIN sent |-> Terminated(sent[n])]

\* Every part of a message comes back, whichever of them it has.
SameParts == \A m \in Parts : Read(m) = m

\* The parts of the file's correctness.
Inv == SameMails /\ SameParts
================================================================================
