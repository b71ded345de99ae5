------------------------------ MODULE Registry ------------------------------
(***************************************************************************)
(* What the local control socket promises to the clients that post         *)
(* services: requests that were accepted are carried out one by one, each  *)
(* as a whole and in their order, until the daemon ends.                   *)
(*                                                                         *)
(* reg[hash] is the [proto, addrs] of a posted service.                    *)
(***************************************************************************)
EXTENDS Naturals, Sequences, FiniteSets

CONSTANTS Requests, MaxAddrs

VARIABLES reg, todo

vars == <<reg, todo>>

Without(r, h) == [k \in DOMAIN r \ {h} |-> r[k]]
With(r, h, s) == [k \in DOMAIN r \cup {h} |-> IF k = h THEN s ELSE r[k]]

Range(s) == {s[k] : k \in DOMAIN s}

(* The addresses that a service may have after more entries were posted:   *)
(* none is forgotten, and all that were posted are there, with a type that *)
(* was posted, unless the service is full.                                 *)
Grown(old, new) ==
    {A \in SUBSET (old \cup new) :
       /\ \A x, y \in A : x.addr = y.addr => x = y
       /\ \A x \in old : \E y \in A : y.addr = x.addr
       /\ \/ Cardinality(A) = MaxAddrs
          \/ \A e \in new : \E y \in A \cap new : y.addr = e.addr}

(* A service speaks one protocol: a post with another one has no effect.   *)
Post(r) ==
    LET old == IF r.hash \in DOMAIN reg THEN reg[r.hash] ELSE [proto |-> r.proto, addrs |-> {}]
    IN  IF old.proto # r.proto THEN reg' = reg
        ELSE \E A \in Grown(old.addrs, Range(r.entries)) :
               reg' = With(reg, r.hash, [proto |-> r.proto, addrs |-> A])

(* Some of a service's addresses are withdrawn, or all of the service.     *)
Unpost(r) ==
    IF r.hash \notin DOMAIN reg THEN reg' = reg
    ELSE LET left == {x \in reg[r.hash].addrs : x.addr \notin Range(r.addrs)}
         IN  reg' = IF r.addrs = <<>> \/ left = {} THEN Without(reg, r.hash)
                    ELSE With(reg, r.hash, [reg[r.hash] EXCEPT !.addrs = left])

Submit == \E r \in Requests : todo' = Append(todo, r) /\ reg' = reg

Execute ==
    /\ todo # <<>>
    /\ todo' = Tail(todo)
    /\ LET r == Head(todo)
       IN  CASE r.cmd = "post_service"   -> Post(r)
             [] r.cmd = "unpost_service" -> Unpost(r)
             [] OTHER                    -> reg' = reg

(* The daemon ends or crashes.                                             *)
End == reg' = <<>> /\ todo' = <<>>

Init == reg = <<>> /\ todo = <<>>

Next == Submit \/ Execute \/ End

Spec == Init /\ [][Next]_vars
=============================================================================
