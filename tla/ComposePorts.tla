------------------------------ MODULE ComposePorts ------------------------------
(***************************************************************************)
(* The ports of a docker compose entry: `hamr dev` inspects what runs,     *)
(* adopts it or walks the ports of what does not, keeps the result in an   *)
(* override file that every later docker command merges, and records the   *)
(* shifts that rewrite the environment (internal/devserver/portwalk.go,    *)
(* composeports.go, composeinspect.go, walks.go and the compose part of    *)
(* devserver.go). Runs follow one another; containers outlive them, break  *)
(* and are wiped; other programs take and leave ports; the file is edited. *)
(* One host address; a port given as 0 is chosen by docker.                *)
(***************************************************************************)
EXTENDS Integers, Sequences, FiniteSets

CONSTANTS
    Files,      \* what the compose file may say: a sequence of bindings [svc, host, cont]
    Gated,      \* services behind a profile: `up` does not start them
    AppBase,    \* the port of [proxy].target
    MaxPort,    \* other programs take ports up to this one
    Attempts,   \* maxPortWalkAttempts
    MaxMoves    \* bound on what the world does

VARIABLES
    pc,         \* where a run of `hamr dev` is
    walking,    \* [dev].port_walk
    keep,       \* keep_running
    named,      \* docker says which container port a published port is for
    file,       \* the compose file
    box,        \* service -> its container
    foreign,    \* ports other programs listen on
    override,   \* .hamr/compose.<name>.override.yaml: service -> its ports
    walks,      \* what the environment is rewritten by: old port -> new port
    appPort,    \* the port given to the app
    seen,       \* what inspectRunningCompose found
    shifts,     \* the shifts of this start, in order
    failed,     \* `docker compose up` failed
    history,    \* of this start: what it found, planned and replaced
    edited,     \* the file was edited since this start
    moves       \* what the world did so far

vars == <<pc, walking, keep, named, file, box, foreign, override, walks, appPort, seen, shifts,
          failed, history, edited, moves>>

\* A port docker chose.
Chosen == MaxPort + Attempts + 1

FileServices == {b.svc : b \in UNION {{f[i] : i \in DOMAIN f} : f \in Files}}
Bindings(f, s) == {i \in DOMAIN f : f[i].svc = s}

None == [there |-> FALSE, up |-> FALSE, ready |-> FALSE, ports |-> {}]
Live(c) == {IF p[2] = 0 THEN Chosen ELSE p[2] : p \in c.ports}
Held(b) == UNION {Live(b[s]) : s \in {t \in FileServices : b[t].up}}

\* The first free port from start on, 0 when every attempt is busy.
ProbeFreePort(start, taken) ==
    LET free == {p \in start .. start + Attempts - 1 : p \notin taken}
    IN  IF free = {} THEN 0 ELSE CHOOSE p \in free : \A q \in free : p <= q

(* Mutant: the ports handed out in this walk are not remembered. *)
WalkComposeServicesForgetful(f, toWalk, owned, busy) ==
    [i \in DOMAIN f |->
        LET base == f[i].host
            port == ProbeFreePort(base, busy \cup owned)
        IN  IF f[i].svc \notin toWalk \/ base = 0 \/ base \in owned \/ port = 0 THEN base ELSE port]

(* Mutant: a port of the project's own running container is walked as any busy port. *)
WalkComposeServicesPastOwned(f, toWalk, owned, busy) ==
    LET walk[i \in 0 .. Len(f)] ==
            IF i = 0 THEN [ports |-> <<>>, assigned |-> owned]
            ELSE LET before == walk[i - 1]
                     base   == f[i].host
                     port   == ProbeFreePort(base, busy \cup before.assigned)
                 IN  IF base = 0 \/ port = 0
                     THEN [before EXCEPT !.ports = Append(@, base)]
                     ELSE [ports |-> Append(before.ports, port),
                           assigned |-> before.assigned \cup {port}]
    IN  walk[Len(f)].ports

\* The ports of the services to walk, binding by binding; the others keep theirs.
WalkComposeServices(f, toWalk, owned, busy) ==
    LET walk[i \in 0 .. Len(f)] ==
            IF i = 0 THEN [ports |-> <<>>, assigned |-> owned]
            ELSE LET before == walk[i - 1]
                     base   == f[i].host
                     port   == ProbeFreePort(base, busy \cup before.assigned)
                 IN  IF f[i].svc \notin toWalk \/ base = 0 \/ base \in owned \/ port = 0
                     THEN [before EXCEPT !.ports = Append(@, base)]
                     ELSE [ports |-> Append(before.ports, port),
                           assigned |-> before.assigned \cup {port}]
    IN  walk[Len(f)].ports

\* How many members of a set of bindings, or of published ports, come before
\* this one; of two with one number, the one listed first.
RankOf(i, S, f) ==
    Cardinality({j \in S : f[j].host < f[i].host \/ (f[j].host = f[i].host /\ j < i)})
RankIn(p, S) ==
    Cardinality({q \in S : q.port < p.port \/ (q.port = p.port /\ q.cont < p.cont)})

(* Mutant: ports are paired by their order alone. *)
ResolvedPortsByOrder(f, s, publishers) ==
    LET binds == {i \in Bindings(f, s) : f[i].host # 0}
        own   == {p \in publishers : p.svc = s}
    IN  IF own = {} \/ Cardinality(binds) # Cardinality(own) THEN <<>>
        ELSE [i \in binds |->
                 (CHOOSE p \in own : RankIn(p, own) = RankOf(i, binds, f)).port]

\* Which published port is whose: by container port where that is unambiguous,
\* then by order, when as many of each are left. A partial map from bindings to ports.
ResolvedPorts(f, s, publishers) ==
    LET binds   == {i \in Bindings(f, s) : f[i].host # 0}
        own     == {p \in publishers : p.svc = s}
        sure    == {i \in binds :
                       /\ \A j \in binds : f[j].cont = f[i].cont => j = i
                       /\ Cardinality({p \in own : p.cont = f[i].cont}) = 1}
        theirs(i) == CHOOSE p \in own : p.cont = f[i].cont
        restB   == binds \ sure
        restP   == own \ {theirs(i) : i \in sure}
        paired  == IF Cardinality(restB) = Cardinality(restP) THEN restB ELSE {}
    IN  [i \in sure \cup paired |->
            IF i \in sure THEN theirs(i).port
            ELSE (CHOOSE p \in restP : RankIn(p, restP) = RankOf(i, restB, f)).port]

Running(st) == {p.svc : p \in st.publishers}
Resolved(f, st, s) == ResolvedPorts(f, s, st.publishers)

\* Shifts of what is walked, and of what runs, against what the file declares,
\* in the file's order.
WalkShifts(f, ports) ==
    LET shift[i \in 0 .. Len(f)] ==
            IF i = 0 THEN <<>>
            ELSE IF ports[i] # f[i].host
            THEN Append(shift[i - 1], [svc |-> f[i].svc, old |-> f[i].host, new |-> ports[i]])
            ELSE shift[i - 1]
    IN  shift[Len(f)]
StateShifts(f, st) ==
    WalkShifts(f, [i \in DOMAIN f |-> LET r == Resolved(f, st, f[i].svc)
                                       IN  IF i \in DOMAIN r THEN r[i] ELSE f[i].host])

(* Mutant: only what is ready counts, not what is running. *)
CombinedShiftsOfReady(f, st, walked) ==
    WalkShifts(f, walked)
        \o SelectSeq(StateShifts(f, st), LAMBDA sh : sh.svc \in st.adopted)

CombinedShifts(f, st, walked) == WalkShifts(f, walked) \o StateShifts(f, st)

\* Running services a declared port of which could not be paired.
Unmatched(f, st) ==
    {s \in Running(st) : \E i \in Bindings(f, s) :
        f[i].host # 0 /\ i \notin DOMAIN Resolved(f, st, s)}

(* Mutant: a running service is written with the ports of the file. *)
OverrideServicesFromFile(f, st, walked, s) == {<<f[i].cont, walked[i]>> : i \in Bindings(f, s)}

\* The ports the override gives a service: live, walked, or the file's.
OverrideServices(f, st, walked, s) ==
    LET r == Resolved(f, st, s)
    IN  {<<f[i].cont, IF i \in DOMAIN r THEN r[i] ELSE walked[i]>> : i \in Bindings(f, s)}

(* Mutant: an override that is not needed any more is left on disk. *)
ManageOverrideLeavesIt(f, st, combined, walked, old) ==
    LET affected == {combined[k].svc : k \in DOMAIN combined}
    IN  IF affected = {} THEN old
        ELSE [s \in affected |-> OverrideServices(f, st, walked, s)]

\* Written when anything drifts; else removed, unless a service could not be read.
ManageOverride(f, st, combined, walked, old) ==
    LET affected == {combined[k].svc : k \in DOMAIN combined}
    IN  IF affected # {} THEN [s \in affected |-> OverrideServices(f, st, walked, s)]
        ELSE IF Unmatched(f, st) # {} THEN old
        ELSE <<>>

\* The last of the shifts of a port is the one the rewrite sees.
ShiftsToMap(sq) ==
    [old \in {sq[k].old : k \in DOMAIN sq} |->
        LET of == {k \in DOMAIN sq : sq[k].old = old}
        IN  sq[CHOOSE k \in of : \A j \in of : j <= k].new]
ApplyShifts(port, m) == IF port \in DOMAIN m THEN m[port] ELSE port

\* docker compose: the file with the override merged over it.
Merged(s) ==
    IF s \in DOMAIN override THEN override[s]
    ELSE {<<file[i].cont, file[i].host>> : i \in Bindings(file, s)}

\* docker compose up -d: what runs as configured is left alone, the rest is
\* created anew, and what finds its port taken does not start.
ComposeUp(b) ==
    LET wanted   == {s \in FileServices : Bindings(file, s) # {} /\ s \notin Gated}
        keeps    == {s \in wanted : b[s].up /\ b[s].ports = Merged(s)}
        cleared  == [s \in FileServices |-> IF s \in wanted \ keeps THEN None ELSE b[s]]
        fresh(s) == [there |-> TRUE, up |-> TRUE, ready |-> TRUE, ports |-> Merged(s)]
        up[k \in 0 .. Len(file)] ==
            IF k = 0 THEN cleared
            ELSE LET s     == file[k].svc
                     taken == foreign \cup Held([up[k - 1] EXCEPT ![s] = None])
                 IN  IF s \notin wanted \ keeps THEN up[k - 1]
                     ELSE [up[k - 1] EXCEPT ![s] =
                              [fresh(s) EXCEPT !.up = (Live(fresh(s)) \ {Chosen}) \cap taken = {}]]
    IN  [now |-> up[Len(file)],
         created |-> {s \in wanted \ keeps : ~b[s].up}, replaced |-> {s \in wanted \ keeps : b[s].up},
         ok |-> \A s \in wanted : up[Len(file)][s].up]

---------------------------------------------------------------------------

NoStack == [adopted |-> {}, publishers |-> {}]
Fresh == [inspected |-> FALSE, busy |-> {}, walked |-> <<>>, unread |-> {}, moves |-> 0,
          created |-> {}, replaced |-> {}, was |-> [s \in FileServices |-> None]]

Init ==
    /\ pc = "off"
    /\ walking \in BOOLEAN /\ keep \in BOOLEAN /\ named \in BOOLEAN
    /\ (walking \/ keep) /\ (walking \/ named) /\ (keep \/ named)   \* at most one is off
    /\ file \in Files
    /\ box = [s \in FileServices |-> None]
    /\ foreign \in {{}} \cup {{p} : p \in 1 .. MaxPort}
    /\ override = <<>>
    /\ walks = <<>>
    /\ appPort = 0
    /\ seen = NoStack
    /\ shifts = <<>>
    /\ failed = FALSE
    /\ history = Fresh
    /\ edited = FALSE
    /\ moves = 0

\* Run begins: stale walks are cleared; the app's port is looked for and given back.
Start ==
    /\ pc = "off"
    /\ LET port == ProbeFreePort(AppBase, foreign \cup Held(box))
       IN  appPort' = IF walking THEN port
                      ELSE IF AppBase \in foreign \cup Held(box) THEN 0 ELSE AppBase
    /\ walks' = <<>>
    /\ shifts' = <<>>
    /\ failed' = FALSE
    /\ history' = [Fresh EXCEPT !.moves = moves]
    /\ edited' = FALSE
    /\ pc' = IF appPort' = 0 THEN "leaving" ELSE "inspect"
    /\ UNCHANGED <<walking, keep, named, file, box, foreign, override, seen, moves>>

\* docker compose ps: what runs, what of it is ready, and the ports published.
Inspect ==
    /\ pc = "inspect"
    /\ seen' = [adopted    |-> {s \in FileServices : box[s].up /\ box[s].ready},
                publishers |-> UNION {{[svc |-> s, cont |-> IF named THEN p[1] ELSE 0,
                                        port |-> IF p[2] = 0 THEN Chosen ELSE p[2]] :
                                           p \in box[s].ports} :
                                       s \in {t \in FileServices : box[t].up}}]
    /\ history' = [history EXCEPT !.was = box, !.inspected = TRUE]
    /\ pc' = "plan"
    /\ UNCHANGED <<walking, keep, named, file, box, foreign, override, walks, appPort, shifts,
                   failed, edited, moves>>

\* docker does not answer, or the file cannot be parsed: the entry is left as it is.
InspectFails ==
    /\ pc = "inspect"
    /\ failed' = TRUE
    /\ seen' = NoStack
    /\ pc' = "record"
    /\ UNCHANGED <<walking, keep, named, file, box, foreign, override, walks, appPort, shifts,
                   history, edited, moves>>

\* Every service up starts is there and ready.
AllAdopted ==
    LET expected == {file[i].svc : i \in DOMAIN file} \ Gated
    IN  expected # {} /\ expected \subseteq seen.adopted

\* What runs is taken over as it is.
Adopt ==
    /\ pc = "plan" /\ AllAdopted
    /\ shifts' = StateShifts(file, seen)
    /\ override' = ManageOverride(file, seen, shifts', [i \in DOMAIN file |-> file[i].host], override)
    /\ history' = [history EXCEPT !.unread = Unmatched(file, seen)]
    /\ pc' = "record"
    /\ UNCHANGED <<walking, keep, named, file, box, foreign, walks, appPort, seen, failed, edited,
                   moves>>

\* What does not run is walked, and the override says so before docker reads it.
Apply ==
    /\ pc = "plan" /\ ~AllAdopted
    /\ LET owned  == {p.port : p \in seen.publishers}
           busy   == foreign \cup Held(box)
           toWalk == FileServices \ Running(seen)
           walked == IF walking THEN WalkComposeServices(file, toWalk, owned, busy)
                     ELSE [i \in DOMAIN file |-> file[i].host]
       IN  /\ shifts' = CombinedShifts(file, seen, walked)
           /\ override' = ManageOverride(file, seen, shifts', walked, override)
           /\ history' = [history EXCEPT !.busy = busy, !.walked = walked,
                                             !.unread = Unmatched(file, seen)]
    /\ pc' = "up"
    /\ UNCHANGED <<walking, keep, named, file, box, foreign, walks, appPort, seen, failed, edited,
                   moves>>

\* docker compose up -d; its failure is shown, and the start goes on.
Up ==
    /\ pc = "up"
    /\ LET u == ComposeUp(box)
       IN  /\ box' = u.now
           /\ failed' = ~u.ok
           /\ history' = [history EXCEPT !.created = u.created, !.replaced = u.replaced]
    /\ pc' = "record"
    /\ UNCHANGED <<walking, keep, named, file, foreign, override, walks, appPort, seen, shifts,
                   edited, moves>>

(* Mutant: the walks of a failed start are not recorded. *)
RecordUnlessFailed ==
    /\ pc = "record"
    /\ walks' = IF failed THEN <<>>
                ELSE ShiftsToMap(<<[svc |-> "app", old |-> AppBase, new |-> appPort]>> \o shifts)
    /\ pc' = "serving"
    /\ UNCHANGED <<walking, keep, named, file, box, foreign, override, appPort, seen, shifts, failed,
                   history, edited, moves>>

\* walks.json is written and the environment of the apps built; the app starts.
Record ==
    /\ pc = "record"
    /\ walks' = ShiftsToMap(<<[svc |-> "app", old |-> AppBase, new |-> appPort]>> \o shifts)
    /\ pc' = "serving"
    /\ UNCHANGED <<walking, keep, named, file, box, foreign, override, appPort, seen, shifts, failed,
                   history, edited, moves>>

\* The panel wipes the entry: down -v, then up -d, both with the override merged.
Wipe ==
    /\ pc = "serving"
    /\ box' = [s \in FileServices |-> None]
    /\ pc' = "wiping"
    /\ UNCHANGED <<walking, keep, named, file, foreign, override, walks, appPort, seen, shifts, failed,
                   history, edited, moves>>
WipeUp ==
    /\ pc = "wiping"
    /\ LET u == ComposeUp(box) IN box' = u.now /\ failed' = ~u.ok
    /\ pc' = "serving"
    /\ UNCHANGED <<walking, keep, named, file, foreign, override, walks, appPort, seen, shifts,
                   history, edited, moves>>

\* The run ends, by itself or restarting.
Leave ==
    /\ pc \in {"plan", "up", "record", "serving"}
    /\ pc' = "leaving"
    /\ UNCHANGED <<walking, keep, named, file, box, foreign, override, walks, appPort, seen, shifts,
                   failed, history, edited, moves>>

\* Kept containers keep their override; else down, which may fail, and no override.
Teardown ==
    /\ pc = "leaving"
    /\ IF keep THEN UNCHANGED <<box, override>>
       ELSE /\ box' \in {box, [s \in FileServices |-> None]}
            /\ override' = <<>>
    /\ pc' = "off"
    /\ seen' = NoStack /\ shifts' = <<>> /\ failed' = FALSE
    /\ history' = Fresh /\ edited' = FALSE /\ appPort' = 0
    /\ UNCHANGED <<walking, keep, named, file, foreign, walks, moves>>

---------------------------------------------------------------------------
\* The world.

Moves == moves < MaxMoves /\ moves' = moves + 1

\* Another program takes a port, or leaves it.
Foreign(p) ==
    /\ Moves
    /\ p \notin Held(box)
    /\ foreign' = IF p \in foreign THEN foreign \ {p} ELSE foreign \cup {p}
    /\ UNCHANGED <<pc, walking, keep, named, file, box, override, walks, appPort, seen, shifts, failed,
                   history, edited>>

\* A container stops, or is no longer healthy.
Breaks(s) ==
    /\ Moves
    /\ box[s].up
    /\ \E stops \in BOOLEAN :
           box' = [box EXCEPT ![s].up = ~stops, ![s].ready = FALSE]
    /\ UNCHANGED <<pc, walking, keep, named, file, foreign, override, walks, appPort, seen, shifts,
                   failed, history, edited>>

\* The compose file is edited.
Edit(f) ==
    /\ Moves
    /\ pc \in {"off", "serving"}
    /\ f # file
    /\ file' = f
    /\ edited' = TRUE
    /\ UNCHANGED <<pc, walking, keep, named, box, foreign, override, walks, appPort, seen, shifts,
                   failed, history>>

\* .hamr/ is deleted between two runs.
Cleaned ==
    /\ Moves
    /\ pc = "off"
    /\ override' = <<>> /\ walks' = <<>>
    /\ UNCHANGED <<pc, walking, keep, named, file, box, foreign, appPort, seen, shifts, failed,
                   history, edited>>

Next ==
    \/ Start \/ Inspect \/ InspectFails \/ Adopt \/ Apply \/ Up \/ Record
    \/ Wipe \/ WipeUp \/ Leave \/ Teardown
    \/ \E p \in 1 .. MaxPort : Foreign(p)
    \/ \E s \in FileServices : Breaks(s)
    \/ \E f \in Files : Edit(f)
    \/ Cleaned

Spec == Init /\ [][Next]_vars

---------------------------------------------------------------------------

TypeOK ==
    /\ pc \in {"off", "inspect", "plan", "up", "record", "serving", "wiping", "leaving"}
    /\ file \in Files
    /\ foreign \subseteq 1 .. MaxPort
    /\ DOMAIN override \subseteq FileServices
    /\ DOMAIN box = FileServices

\* A published port is told by its container port, or is the only one; the
\* container is of the file as it is now, the ports docker chooses included.
Paired(s) == named \/ Cardinality({i \in Bindings(file, s) : file[i].host # 0}) = 1
Same(c, s) == {<<p[1], p[2] = 0>> : p \in c.ports}
                  = {<<file[i].cont, file[i].host = 0>> : i \in Bindings(file, s)}

\* A container that was running, whatever its health, is not replaced by a
\* start: docker finds it as the override says, also after the override was
\* lost and after the file was edited (manageComposeOverride, overrideServices).
\* Not promised to a service whose ports hamr could not read or pairs by their
\* order only, or whose container ports the file has changed; nor when such a
\* service keeps the override of an earlier start in force because nothing drifted.
RunningKept ==
    ~edited /\ (history.unread = {} \/ shifts # <<>>) =>
        \A s \in history.replaced :
            s \in history.unread \/ ~Paired(s) \/ ~Same(history.was[s], s)

\* The port declared by one binding only, and not the app's.
Alone(i) ==
    /\ file[i].host \notin {0, AppBase}
    /\ \A j \in DOMAIN file : file[j].host = file[i].host => j = i

\* While hamr serves, a service that runs is where the rewritten environment
\* says, whether it was adopted, walked, found on a walked port, or wiped since
\* (buildWalkRecords, shiftsToMap, composeArgs).
WalksTrue ==
    pc = "serving" /\ history.inspected /\ ~edited =>
        \A i \in DOMAIN file :
            box[file[i].svc].up /\ Same(box[file[i].svc], file[i].svc) /\ Alone(i)
            /\ Paired(file[i].svc) /\ history.unread = {} =>
                <<file[i].cont, ApplyShifts(file[i].host, walks)>> \in box[file[i].svc].ports

\* A start puts a service that was down on its own port, unless that port was
\* busy or handed out, whatever an earlier start had walked it to.
BackToBase ==
    \A i \in DOMAIN file :
        LET s == file[i].svc
        IN  s \in history.created /\ ~history.was[s].up /\ history.unread = {} /\ ~edited
            /\ <<file[i].cont, file[i].host>> \notin box[s].ports
            /\ box[s].there /\ file[i].host # 0 =>
                \/ file[i].host \in history.busy
                \/ \E j \in DOMAIN file \ {i} : history.walked[j] = file[i].host

\* Two services that were down are not given one port while there is another.
WalkedApart ==
    pc = "up" /\ walking =>
        \A i, j \in DOMAIN file :
            LET fresh(k) == /\ file[k].host # 0
                            /\ file[k].svc \notin Running(seen)
                            /\ file[k].host \notin {p.port : p \in seen.publishers}
                stuck(k) == ProbeFreePort(file[k].host,
                                history.busy \cup {p.port : p \in seen.publishers}
                                    \cup {history.walked[l] : l \in DOMAIN file}) = 0
            IN  i # j /\ fresh(i) /\ fresh(j) /\ ~stuck(i) /\ ~stuck(j) =>
                    history.walked[i] # history.walked[j]

Inv == TypeOK /\ RunningKept /\ WalksTrue /\ BackToBase /\ WalkedApart

=============================================================================
