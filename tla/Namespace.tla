----------------------------- MODULE Namespace -----------------------------
(***************************************************************************)
(* What the SAC server promises its clients about names: a tree of         *)
(* objects, each with a kind, the directory that holds it and its name.    *)
(* A request creates, deletes or moves one object and leaves every other   *)
(* object where it was.  The server may stop for good at any request.      *)
(***************************************************************************)
CONSTANTS Object, Root, Name, None

VARIABLES
    tree,   \* a record per existing object, None for the others
    up      \* FALSE once the server has stopped; nothing exists then

Exists(o) == tree[o] # None

InDir(o, d) == Exists(o) /\ o # Root /\ tree[o].dir = d

Children(d) == {o \in Object : InDir(o, d)}

\* Every object hangs from the root: no set of objects only hangs from itself.
Rooted(t) ==
    \A S \in (SUBSET {o \in Object \ {Root} : t[o] # None}) \ {{}} :
        \E o \in S : t[o].dir \notin S

Init ==
    /\ tree = [o \in Object |->
          IF o = Root THEN [kind |-> "dir", dir |-> Root, name |-> None] ELSE None]
    /\ up = TRUE

\* Every other object stays as it is.
Only(o) == up' = up /\ tree' = [tree EXCEPT ![o] = tree'[o]]

Create(o, d, name, kind) ==
    /\ ~Exists(o)
    /\ Exists(d) /\ tree[d].kind = "dir"
    /\ \A c \in Children(d) : tree[c].name # name
    /\ tree'[o] = [kind |-> kind, dir |-> d, name |-> name]

Delete(o) ==
    /\ Exists(o) /\ o # Root
    /\ Children(o) = {}
    /\ tree'[o] = None

\* The new name may already be taken: the server does not replace the object
\* that has it.
Move(o, d, name) ==
    /\ Exists(o) /\ o # Root
    /\ Exists(d) /\ tree[d].kind = "dir"
    /\ tree'[o] = [tree[o] EXCEPT !.dir = d, !.name = name]
    /\ Rooted(tree')

Stop ==
    /\ up' = FALSE
    /\ tree' = [o \in Object |-> None]

Next ==
    /\ up
    /\ \/ Stop
       \/ \E o \in Object :
             /\ Only(o)
             /\ \/ Delete(o)
                \/ \E d \in Object, name \in Name :
                      \/ \E kind \in {"file", "dir"} : Create(o, d, name, kind)
                      \/ Move(o, d, name)

Spec == Init /\ [][Next]_<<tree, up>>
=============================================================================
