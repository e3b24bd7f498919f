------------------------------ MODULE PagePool ------------------------------
(* What co_os_get_page and co_os_put_page promise on every host: a page has  *)
(* one holder from the time it is given out to the time it is put back.      *)
CONSTANT Pfns
VARIABLE owned

Init == owned = {}

Get(p) == p \notin owned /\ owned' = owned \cup {p}

Put(p) == p \in owned /\ owned' = owned \ {p}

PutAll == owned' = {}

Next == PutAll \/ \E p \in Pfns : Get(p) \/ Put(p)

Spec == Init /\ [][Next]_owned
=============================================================================
