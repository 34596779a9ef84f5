------------------------------ MODULE MCGuilds ------------------------------
(* Guilds for TLC: users, guild ids and request slots are interchangeable.  *)
EXTENDS Guilds, TLC

MCSymmetry == Permutations(Users) \cup Permutations(Slots) \cup Permutations(Guilds)
=============================================================================
