----------------------------- MODULE ChangeFeed -----------------------------
(***************************************************************************)
(* What the file watcher promises the dev loop.  The saves that match a    *)
(* rule are numbered.  A save is told to the loop at most once; only a     *)
(* later save of the same rule may stand in for it (that is what debounce  *)
(* means); and none is dropped before the watcher stops.                   *)
(***************************************************************************)
EXTENDS Naturals

CONSTANTS Rules, MaxSaves

VARIABLES
    saves,    \* saves of a rule so far
    owed,     \* the saves of a rule that are neither told nor replaced
    told,     \* the saves of a rule that the loop was told of
    stopped

vars == <<saves, owed, told, stopped>>

Init ==
    /\ saves = [r \in Rules |-> 0] /\ stopped = FALSE
    /\ owed = [r \in Rules |-> {}] /\ told = [r \in Rules |-> {}]

Save(r) ==
    /\ saves[r] < MaxSaves
    /\ saves' = [saves EXCEPT ![r] = @ + 1]
    /\ owed' = [owed EXCEPT ![r] = @ \cup {saves'[r]}]
    /\ UNCHANGED <<told, stopped>>

Tell(r) ==
    /\ \E v \in owed[r] :
          owed' = [owed EXCEPT ![r] = @ \ {v}] /\ told' = [told EXCEPT ![r] = @ \cup {v}]
    /\ UNCHANGED <<saves, stopped>>

Replace(r) ==
    /\ \E v, w \in owed[r] : v < w /\ owed' = [owed EXCEPT ![r] = @ \ {v}]
    /\ UNCHANGED <<saves, told, stopped>>

(* Once it stops, or after, what is owed may be dropped.                   *)
Drop ==
    /\ stopped' /\ \A r \in Rules : owed'[r] \subseteq owed[r]
    /\ UNCHANGED <<saves, told>>

Next == Drop \/ \E r \in Rules : Save(r) \/ Tell(r) \/ Replace(r)

(* While it has not stopped, nothing is owed for ever once saves cease.    *)
Owing == ~stopped /\ \E r \in Rules : owed[r] # {}
NothingIsKept == Owing ~> ~Owing

Spec == Init /\ [][Next]_vars /\ NothingIsKept
=============================================================================
