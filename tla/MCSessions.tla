----------------------------- MODULE MCSessions -----------------------------
(* The session store for TLC: sessions are interchangeable until minted.    *)
EXTENDS Sessions, TLC

Symmetry == Permutations(Sessions) \cup Permutations(Users)
=============================================================================
