----------------------------- MODULE MCTcModule -----------------------------
(* Module TcModule for TLC: two sessions that compete for the global mode, *)
(* or one session with the global mode, a partial mode and driver audits.  *)
EXTENDS TcModule, TLC

MCNames == {"global-mode", "real-mode"}

MCGlobal == {"global-mode"}

MCRank == [n \in MCNames |-> IF n = "global-mode" THEN 1 ELSE 2]

(* No action or invariant tells the sessions apart.                        *)
MCSymmetry == Permutations(Sessions)
====
