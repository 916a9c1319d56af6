----------------------------- MODULE MCEventLoop -----------------------------
(* Symmetries for the TLC runs of EventLoop. *)
EXTENDS EventLoop, TLC

HttpPeerSymmetry == Permutations(Http) \cup Permutations(Peer)
===============================================================================
