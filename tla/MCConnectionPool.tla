--------------------------- MODULE MCConnectionPool ---------------------------
(***************************************************************************)
(* Model checking of ConnectionPool: clients and senders are model values; *)
(* clients are interchangeable, and so are the HTTP handlers and the other *)
(* senders, each among themselves.                                         *)
(***************************************************************************)
EXTENDS ConnectionPool, TLC

PoolSymmetry == Permutations(Clients) \cup Permutations(Handlers)
                  \cup Permutations(Senders \ Handlers)
=============================================================================
