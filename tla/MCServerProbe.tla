------------------------------ MODULE MCServerProbe ------------------------------
(* Instances of ServerProbe for TLC. *)
EXTENDS ServerProbe, TLC

CONSTANTS w1, t1, t2, url1, url2, good, bad

OneWorker == [t \in Threads |-> w1]
Denied == [url |-> url1, token |-> bad]
Works == [url |-> url1, token |-> good]
Alike == Permutations(Threads)
=============================================================================
