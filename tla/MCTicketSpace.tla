--------------------------- MODULE MCTicketSpace ---------------------------
(* Small instances of TicketSpace: two clients ask for the same service,   *)
(* and a third one for another.                                            *)
EXTENDS TicketSpace

CONSTANTS c1, c2, c3, h, g

MCHashOf == [c \in Clients |-> IF c = c3 THEN g ELSE h]
=============================================================================
