------------------------------ MODULE FileTree ------------------------------
(***************************************************************************)
(* What the file system promises its user: a tree of directories, in which *)
(* a command adds or removes exactly one entry and leaves the others alone.*)
(* The promise ends with the first of the events in which the program is   *)
(* known not to keep it (sound = FALSE).                                   *)
(***************************************************************************)
EXTENDS Naturals, FiniteSets

CONSTANT Root          \* the root directory

VARIABLES tree,    \* directory |-> its entries; the empty function: no disk format
          sound    \* the promise holds

Empty == [d \in {} |-> {}]

Init == tree = Empty /\ sound = TRUE

\* mkfs makes the root directory, and only where there is none.
Format(t, u) == t = Empty /\ u = [d \in {Root} |-> {}]

\* mkdir, touch and fopen add one entry, for a file that is not in the tree.
Make(t, u) ==
    \E d \in DOMAIN t \cap DOMAIN u : \E e \in u[d] \ t[d] :
        /\ \A x \in DOMAIN t : \A f \in t[x] : f.id # e.id
        /\ u = [x \in DOMAIN t \cup (IF e.type = "dir" THEN {e.id} ELSE {}) |->
                   IF x = d THEN t[d] \cup {e}
                   ELSE IF x = e.id THEN {} ELSE t[x]]

\* Directories below d, d included.
Below(t, d) ==
    LET reach[n \in Nat] ==
            IF n = 0 THEN {d}
            ELSE LET near == reach[n - 1]
                 IN near \cup {x \in DOMAIN t : \E y \in near : \E e \in t[y] : e.id = x}
    IN reach[Cardinality(DOMAIN t)]

\* rmdir takes a directory out of the tree, with everything below it.
Remove(t, u) ==
    \E d \in DOMAIN t \cap DOMAIN u : \E e \in t[d] \ u[d] :
        /\ e.type = "dir"
        /\ u = [x \in DOMAIN t \ Below(t, e.id) |->
                   IF x = d THEN t[d] \ {e} ELSE t[x]]

Step(t, u) == t = u \/ Format(t, u) \/ Make(t, u) \/ Remove(t, u)

Next ==
    IF sound /\ sound'
    THEN \E t \in {tree}, u \in {tree'} : Step(t, u)   \* TLC evaluates each once
    ELSE sound' = FALSE

Spec == Init /\ [][Next]_<<tree, sound>>
=============================================================================
