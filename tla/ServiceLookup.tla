--------------------------- MODULE ServiceLookup ---------------------------
(***************************************************************************)
(* What vdhtc_probe_service promises its callers: each request is answered *)
(* once, with "found" or with "none"; one answer from the network serves   *)
(* everybody who waits for that service, and only them.  A request that is *)
(* still open when the daemon ends is dropped.                             *)
(***************************************************************************)
CONSTANTS Clients, Hashes, HashOf

VARIABLE status   \* status[c]: "idle", "asked", "found", "none" or "dropped"

Waiting(h) == {c \in Clients : status[c] = "asked" /\ HashOf[c] = h}

SetTo(C, s) == status' = [c \in Clients |-> IF c \in C THEN s ELSE status[c]]

Ask(c) == status[c] = "idle" /\ SetTo({c}, "asked")

Found(h) == SetTo(Waiting(h), "found")

NotFound(C) == (\A c \in C : status[c] = "asked") /\ SetTo(C, "none")

Exit == SetTo({c \in Clients : status[c] = "asked"}, "dropped")

Init == status = [c \in Clients |-> "idle"]

Next == \/ \E c \in Clients : Ask(c)
        \/ \E h \in Hashes : Found(h)
        \/ \E C \in SUBSET Clients : NotFound(C)
        \/ Exit

Spec == Init /\ [][Next]_status
=============================================================================
