--------------------------- MODULE MCMatchEconomy ---------------------------
(* The match-end writer for TLC: three characters, of which the first and   *)
(* the last belong to one account; the lower character of a pair has the    *)
(* first slot in one pairing and the second in the other.                   *)
EXTENDS MatchEconomy

MCUserOf == <<1, 2, 1>>
MCPairings == {<<1, 2>>, <<3, 2>>}
=============================================================================
