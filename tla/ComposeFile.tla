------------------------------ MODULE ComposeFile -------------------------------
(***************************************************************************)
(* One entry of a service's `ports:` list: how hamr reads it, in the short *)
(* form ([ip:][host:]container[/proto]) or the long one, and how it writes *)
(* it into the override once the port has walked                           *)
(* (internal/devserver/composeports.go). The reader that counts is docker  *)
(* compose, which reads both files; its grammar is external.               *)
(* A short form is its parts between colons: numbers, and words.           *)
(***************************************************************************)
EXTENDS Integers, Sequences, FiniteSets

CONSTANTS
    Numbers     \* port numbers that occur in a file; 0 is a number nobody writes

\* Words: nothing, an address, an address with colons in brackets, a range, text.
Empty == -1
V4    == -2
V6    == -3
PortRange == -4
Text  == -5
Absent == -6
Words == {Empty, V4, V6, PortRange, Text}
IsNum(t) == t \in Numbers
Refused == [ok |-> FALSE, ip |-> Empty, host |-> 0, cont |-> 0]
Binding(ip, host, cont) == [ok |-> TRUE, ip |-> ip, host |-> host, cont |-> cont]

VARIABLES
    spec,   \* the entry: short (parts) or long (fields)
    read,   \* what hamr made of it
    wrote   \* the parts hamr wrote for it, none before

vars == <<spec, read, wrote>>

Parts == UNION {[1 .. n -> Numbers \cup Words] : n \in 1 .. 3}
Fields == [target : Numbers, published : Numbers \cup {Absent, Empty, Text},
           ip : {Empty, V4, V6}]
Specs == [form : {"short"}, parts : Parts] \cup [form : {"long"}, fields : Fields]

(* Mutant: the two ports are taken in the wrong order. *)
ParseComposeShortPortSwapped(p) ==
    LET n == Len(p)
    IN  IF ~IsNum(p[n]) THEN Refused
        ELSE IF n = 1 THEN Binding(Empty, 0, p[1])
        ELSE IF n = 2 /\ IsNum(p[1]) THEN Binding(Empty, p[2], p[1])
        ELSE IF n = 3 /\ IsNum(p[2]) THEN Binding(p[1], p[2], p[3])
        ELSE Refused

\* The container's port is last; what is before it is a port, or an address and a port.
ParseComposeShortPort(p) ==
    LET n == Len(p)
    IN  IF ~IsNum(p[n]) THEN Refused
        ELSE IF n = 1 THEN Binding(Empty, 0, p[1])
        ELSE IF n = 2 /\ IsNum(p[1]) THEN Binding(Empty, p[1], p[2])
        ELSE IF n = 3 /\ IsNum(p[2]) THEN Binding(p[1], p[2], p[3])
        ELSE Refused

\* Nothing and the empty string are 0; other text is refused.
ReadPortNumber(v) == IF v \in {Absent, Empty} THEN 0 ELSE v
ParseComposeLongPort(f) ==
    IF f.published = Text THEN Refused
    ELSE Binding(f.ip, ReadPortNumber(f.published), ReadPortNumber(f.target))

ParseComposePortNode(s) ==
    IF s.form = "short" THEN ParseComposeShortPort(s.parts) ELSE ParseComposeLongPort(s.fields)

\* An address is written without its brackets: its colons part it anew.
Address(ip) == IF ip = V6 THEN <<Empty, Empty, Text>> ELSE IF ip = Empty THEN <<>> ELSE <<ip>>

(* Mutant: the address is dropped. *)
RenderShortPortNoIP(b) == (IF b.host # 0 THEN <<b.host>> ELSE <<>>) \o <<b.cont>>

\* The short form of a binding.
RenderShortPort(b) == Address(b.ip) \o (IF b.host # 0 THEN <<b.host>> ELSE <<>>) \o <<b.cont>>

\* docker: container; host:container; address:host:container; an address with
\* colons needs its brackets; an empty host port is any port.
DockerReads(p) ==
    LET n == Len(p)
        hostOf(t) == IF t = Empty THEN 0 ELSE t
    IN  IF ~IsNum(p[n]) THEN Refused
        ELSE IF n = 1 THEN Binding(Empty, 0, p[1])
        ELSE IF ~IsNum(p[n - 1]) /\ p[n - 1] # Empty THEN Refused
        ELSE IF n = 2 THEN Binding(Empty, hostOf(p[1]), p[2])
        ELSE IF n = 3 /\ p[1] \in {Empty, V4, V6}
        THEN Binding(p[1], hostOf(p[2]), p[3])
        ELSE Refused

---------------------------------------------------------------------------

Init == spec \in Specs /\ read = Refused /\ wrote = <<>>

\* The file is parsed at the start of a run.
Read ==
    /\ read = Refused /\ wrote = <<>>
    /\ read' = ParseComposePortNode(spec)
    /\ read'.ok
    /\ UNCHANGED <<spec, wrote>>

\* The port walked, or the container was found on it: the override says so.
Write ==
    /\ read.ok /\ wrote = <<>>
    /\ \E port \in Numbers :
           /\ read.host = 0 => port = CHOOSE q \in Numbers : TRUE   \* a port docker picks is not walked
           /\ read' = IF read.host = 0 THEN read ELSE [read EXCEPT !.host = port]
    /\ wrote' = RenderShortPort(read')
    /\ UNCHANGED spec

Next == Read \/ Write
Spec == Init /\ [][Next]_vars

---------------------------------------------------------------------------

\* hamr and docker read an entry alike, or hamr refuses it: no port is walked,
\* adopted or recorded that docker would not publish. (hamr refuses ranges, an
\* address with no port and variables, which docker takes.)
ReadAlike ==
    read.ok /\ wrote = <<>> /\ spec.form = "short" =>
        \/ DockerReads(spec.parts) = read
        \/ ~DockerReads(spec.parts).ok

\* docker reads from the override what hamr meant. Not so for an address with
\* colons, whose brackets are lost, nor for an address without a port.
WrittenAlike ==
    wrote # <<>> /\ read.ip \in {Empty, V4} /\ (read.ip # Empty => read.host # 0) =>
        DockerReads(wrote) = read

Inv == ReadAlike /\ WrittenAlike

=============================================================================
