----------------------------- MODULE MCApiCodec -----------------------------
(***************************************************************************)
(* Instances of ApiCodec for TLC: bytes of sixteen values, integers of two    *)
(* bytes and of three, so that every size and both signs occur.            *)
(***************************************************************************)
EXTENDS ApiCodec

User(layer, bandwidth, time, vlan) ==
  [t \in UserTags |->
     CASE t = "LAYER" -> layer
       [] t = "BANDWIDTH" -> bandwidth
       [] t \in NumberTags -> time
       [] t \in ToSet(VlanTags) -> vlan
       [] OTHER -> t]

Hop(link, vlans, capacity) == [link |-> link, vlans |-> vlans, capacity |-> capacity]

Path(hops, lifetimes) ==
  [id |-> "p", hops |-> hops, lifetimes |-> lifetimes, maximum |-> 5]

HopLists ==
  UNION {[1 .. n -> {Hop("x", "any", 0), Hop("y", "", 9), Hop("z", "1-2", 0)}] : n \in 0 .. 3}

Cosched == [t \in CoscheduleTags |-> IF t \in CoscheduleLongs THEN 40 ELSE 7]

MCRequests ==
  [user : {User(l, b, t, v) : l \in {"2", "3"}, b \in {0, 7, 8, 127, 128, 255, 256, 300, 2047, 2048, 4095},
                            t \in {0, 3}, v \in {"", "any"}}
          \cup {User("3", 1, t, "") : t \in {0, 7, 8, 15, 127, 128, 200, 255}},
   path : {<<>>}, reserved : {<<>>}, cosched : {<<>>, <<Cosched>>}]
  \cup
  [user : {User("2", 1, 2, "any")},
   path : {<<Path(h, l)>> : h \in HopLists, l \in {<<>>, <<<<1, 2, 1>>, <<9, 12, 3>>>>}},
   reserved : {<<>>, <<Path(<<Hop("y", "", 0)>>, <<>>)>>}, cosched : {<<>>}]

Iscd(type, given) == [type |-> type, given |-> given]
Link(name, bag, iscds, adapts) ==
  [name |-> name, remote |-> adapts, iscds |-> iscds, adapts |-> adapts, bag |-> bag]

TPath(bag, schedules, bags) ==
  [bag |-> bag, schedules |-> schedules,
   links |-> [i \in DOMAIN bags |->
                Link(i, bags[i], IF i = 1 THEN <<Iscd("l2sc", {"VLANRANGESUGG"})>>
                                 ELSE <<Iscd("tdm", {"TIMESLOTAVAI"}),
                                        Iscd("lsc", {"WAVELENASSI"}), Iscd("psc", {})>>,
                     i = 2)]]

TPaths == {TPath(b, s, l) : b \in {0, 1, 3}, s \in {0, 2}, l \in {<<>>, <<0, 2>>, <<2, 1, 0>>}}
Few == {TPath(0, 0, <<0>>), TPath(2, 1, <<1, 3>>)}

MCResults ==
  [error : {TRUE}, path : {<<>>}, alternates : {<<>>}, flexible : {<<>>}]
  \cup [error : {FALSE}, path : {<<>>} \cup {<<p>> : p \in TPaths},
        alternates : {<<>>} \cup {<<p>> : p \in Few} \cup {<<p, q>> : p, q \in Few},
        flexible : {<<>>} \cup {<<p, q>> : p, q \in Few}]

NoResult == [error |-> TRUE, path |-> <<>>, alternates |-> <<>>, flexible |-> <<>>]
Plain == [user |-> User("3", 1, 0, ""), path |-> <<>>, reserved |-> <<>>, cosched |-> <<>>]

\* Every request, and every result.
MCExchanges == (MCRequests \X {NoResult}) \cup ({Plain} \X MCResults)
=============================================================================
