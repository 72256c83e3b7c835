---------------------------- MODULE ContentStore ----------------------------
(***************************************************************************)
(* What the content-addressed store promises its callers, with no xorbs,  *)
(* transactions or collectors: a key points at content, content a key      *)
(* points at can be read back, and only content no key points at is ever   *)
(* given up (internal/cas/cas.go, "a committed reference always has bytes  *)
(* behind it").                                                            *)
(***************************************************************************)
CONSTANTS Content, Key, None

VARIABLES
    objects,    \* the content each key points at
    stored      \* the content that can be read back whole

vars == <<objects, stored>>

Init ==
    /\ objects = [k \in Key |-> None]
    /\ stored = {}

\* An upload, or a copy or link of content that is stored already.
Put(k, b) ==
    /\ objects' = [objects EXCEPT ![k] = b]
    /\ stored' = stored \cup {b}

Delete(k) ==
    /\ objects' = [objects EXCEPT ![k] = None]
    /\ UNCHANGED stored

Collect(b) ==
    /\ \A k \in Key : objects[k] # b
    /\ stored' = stored \ {b}
    /\ UNCHANGED objects

Next ==
    \/ \E k \in Key, b \in Content : Put(k, b)
    \/ \E k \in Key : Delete(k)
    \/ \E b \in Content : Collect(b)

Spec == Init /\ [][Next]_vars
=============================================================================
