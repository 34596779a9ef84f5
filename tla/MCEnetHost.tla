----------------------------- MODULE MCEnetHost -----------------------------
(* Small instances of EnetHost: ann and bob are paired, ann (or cat) has a  *)
(* second match of her own; ann's NAT may give her a second source port.    *)
EXTENDS EnetHost

MCAddrs == {"a1", "a2", "b1"}
MCTickets == 1..3
MCKeys == {1, 2, 3} \X {1, 2}
MCKeysTwo == {1, 2} \X {1, 2}
PairThenSolo == <<<<1, 2>>, <<3>>>>

(* Ann requeues after a match with bob.  *)
AnnAgain == <<"ann", "bob", "ann">>
OwnAddrs == [ann |-> {"a1", "a2"}, bob |-> {"b1"}]
OneNat == [a \in MCAddrs |-> "x"]
OneNatHttp == <<"x", "x", "x">>
OwnIp == [a1 |-> "x", a2 |-> "x", b1 |-> "y"]
OwnHttp == <<"x", "y", "x">>
=============================================================================
