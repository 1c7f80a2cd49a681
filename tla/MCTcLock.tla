------------------------------ MODULE MCTcLock ------------------------------
(* Module TcLock for TLC: two sessions, the global mode and two partial    *)
(* modes, a VTN whose name sorts before "global-mode" among them.          *)
EXTENDS TcLock, TLC

MCNames == {"a-vtn", "global-mode", "real-mode"}

MCRank == [n \in MCNames |-> CASE n = "a-vtn" -> 1
                               [] n = "global-mode" -> 2
                               [] n = "real-mode" -> 3]

(* No action or property tells the sessions apart.                         *)
MCSymmetry == Permutations(Sessions)
====
