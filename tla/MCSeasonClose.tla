---------------------------- MODULE MCSeasonClose ----------------------------
(* The end of a season for TLC: a member of a guild, a character without    *)
(* one, a character whose row cannot be parsed and one that is created      *)
(* while the season ends.                                                   *)
EXTENDS SeasonClose

MCMembers == {1}
MCUnreadable == {3}
MCNewcomers == {4}
=============================================================================
