--------------------------- MODULE MCTcConfigQueue ---------------------------
(* Module TcConfigQueue for TLC: the global mode alone, no writers.        *)
EXTENDS TcConfigQueue

MCNames == {"global-mode"}

MCRank == [n \in MCNames |-> 1]

MCInfinite == {0, -1}

MCTimeouts == {1, -1}

MCAnyTimeout == {0, 1, -1}
====
