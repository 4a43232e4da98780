------------------------------ MODULE PageSpace ------------------------------
(***************************************************************************)
(* What the heap and the indexes take the page layer for: a space of pages  *)
(* that are in use or not, and that hold what was last written to them.  No *)
(* cache, no free list, no difference between memory and disk.              *)
(***************************************************************************)
CONSTANTS Pages, Data, Unused

VARIABLES content,   \* content[p]: what page p holds, Unused if it is free
          answer     \* what the last call returned

pvars == <<content, answer>>

PInit ==
    /\ content = [p \in Pages |-> Unused]
    /\ answer = <<"none">>

\* A new page is one that nobody uses; it holds what its owner initialised.
New(v) ==
    \E p \in Pages :
        /\ content[p] = Unused
        /\ content' = [content EXCEPT ![p] = v]
        /\ answer' = <<"page", p>>

Fetch(p) ==
    /\ content[p] # Unused
    /\ answer' = <<"data", p, content[p]>>
    /\ UNCHANGED content

Store(p, v) ==
    /\ content[p] # Unused
    /\ content' = [content EXCEPT ![p] = v]
    /\ UNCHANGED answer

Release(p) ==
    /\ content[p] # Unused
    /\ content' = [content EXCEPT ![p] = Unused]
    /\ UNCHANGED answer

\* An I/O error is reported and changes nothing a client can see.
Failure == answer' = <<"error">> /\ UNCHANGED content

PNext ==
    \/ \E v \in Data : New(v)
    \/ \E p \in Pages : Fetch(p) \/ Release(p) \/ (\E v \in Data : Store(p, v))
    \/ Failure

PSpec == PInit /\ [][PNext]_pvars
=============================================================================
