------------------------------- MODULE MCRaw -------------------------------
(* Instances of RawReceive for TLC. *)
EXTENDS RawReceive, TLC

Block == <<>>
Data(tag, n) == Whole([h |-> "data", tag |-> tag], n)
Udp == [kind |-> "udp", destination_port |-> 53]
Tcp == [kind |-> "tcp", destination_port |-> 53, flags |-> {"SYN"}]
Mss == [k |-> "mss", n |-> 4]
Nop == [k |-> "nop", n |-> 1]
End == [k |-> "end", n |-> 1]

Spec0 == [ver |-> 4, ethernet |-> Block, ip |-> Block, transport |-> Udp, mtu |-> Auto, id |-> 0]
Limits == [max_inbox |-> 8, max_datagrams |-> 8, max_buffered |-> 100000]
Expect0 == [from |-> "any", by |-> "header", port |-> 53, length |-> 0, wire |-> <<>>]

Base == [sends |-> <<>>, frames |-> <<>>, faults |-> 0, calls |-> 2, expect |-> Expect0, limits |-> Limits]

Send(spec, data) == [spec |-> spec, data |-> data]

-----------------------------------------------------------------------------
(* One packet of each shape, with the length fields a scenario may give.     *)
Ethernets == {Block, [source |-> "a"], [vlan_id |-> 7], [vlan_priority |-> 1], [vlan_id |-> 5000], [vlan_id |-> 70000], [ether_type |-> "other"]}

Ipv4s == {Block, [dscp |-> 64], [source |-> "ethlike"], [protocol |-> "raw"], [fragment_offset |-> 8192]}
           \cup [ihl : {4, 5, 6, 15, 16}] \cup [total_length : {0, 19, 20, 27, 28, 60, 65535}]
           \cup {[options |-> o] : o \in {<<Nop>>, <<[k |-> "copied", n |-> 4], [k |-> "local", n |-> 3]>>, <<[k |-> "local", n |-> 44]>>}}

Ipv6s == {Block, [source |-> "ethlike"], [next_header |-> "raw"], [fragment_id |-> 1], [fragment_offset |-> 8192], [more_fragments |-> TRUE]}
           \cup [payload_length : {0, 7, 8, 20, 65535}] \cup [fragment_id : {1}, payload_length : {0, 7, 8}]

Transports == {Block}
                \cup {[Udp EXCEPT !.kind = "udp"] @@ x : x \in [length : {0, 7, 8, 9, 65535}] \cup [checksum : {"auto", "invalid", "zero"}]}
                \cup {Tcp @@ x : x \in [data_offset : {0, 4, 5, 6, 7, 15, 16}, options : {<<>>, <<Mss>>, <<Nop, End, Nop, Nop, Mss>>}]
                                        \cup [options : {<<Mss, Nop>>, <<End, Mss>>}]}

Shapes ==
  {[Spec0 EXCEPT !.ethernet = e, !.transport = t] : e \in Ethernets, t \in {Block, Udp}}
  \cup {[Spec0 EXCEPT !.ip = i, !.transport = t] : i \in Ipv4s, t \in Transports}
  \cup {[Spec0 EXCEPT !.ver = 6, !.ip = i, !.transport = t] : i \in Ipv6s, t \in Transports}

Codec == {[Base EXCEPT !.sends = <<Send(s, Data("a", 1))>>, !.calls = 1] : s \in Shapes}

-----------------------------------------------------------------------------
(* Fragments on a network that reorders, and loses or repeats one frame.     *)
Split(spec, n, id) == [spec EXCEPT !.mtu = n, !.id = id, !.ip = [id |-> id] @@ @]
Udp4 == Spec0
Udp6 == [Spec0 EXCEPT !.ver = 6, !.ip = Block]
Tcp4 == [Spec0 EXCEPT !.transport = Tcp @@ [options |-> <<Mss>>], !.ip = [options |-> <<[k |-> "local", n |-> 4]>>]]
Wire(spec, data) == BuildRawPackets(spec, data).v[1]
Sized(n) == [Expect0 EXCEPT !.by = "length", !.length = n]

Junk == [from |-> "other", wire |-> Wire([Udp4 EXCEPT !.ip = [total_length |-> 65535]], Data("junk", 1))]
Other == [from |-> "peer", wire |-> Wire([Udp4 EXCEPT !.transport.destination_port = 9], Data("other", 4))]
(* A fragment over octets 8 .. 15 of the datagram with identification 1. *)
Overlap == [from |-> "peer",
            wire |-> Wire([Spec0 EXCEPT !.transport = Block,
                             !.ip = [id |-> 1, protocol |-> "udp", fragment_offset |-> 1, more_fragments |-> TRUE]], Data("x", 8))]

(* Two datagrams of two fragments each, of the same length. *)
Two == [Base EXCEPT !.sends = <<Send(Split(Udp4, 48, 1), Data("a", 24)), Send(Split(Udp4, 48, 2), Data("b", 24))>>,
                    !.faults = 1, !.expect = Sized(24)]
(* One in three fragments, its options in the first; whole packets around it. *)
Three == [Base EXCEPT !.sends = <<Send(Split(Tcp4, 52, 1), Data("a", 40))>>, !.frames = <<Junk, Other>>,
                      !.expect = Sized(40)]
(* The first fragment alone satisfies an expectation on the header. *)
Early == [Three EXCEPT !.expect = [Expect0 EXCEPT !.from = "peer"]]
Six == [Base EXCEPT !.sends = <<Send([Udp6 EXCEPT !.mtu = 64, !.id = 3], Data("a", 30))>>, !.frames = <<Other>>,
                    !.faults = 1, !.expect = Sized(30), !.limits.max_inbox = 2]
(* Rejected: fragments that overlap, and those for which there is no room.   *)
Overlapping == [Base EXCEPT !.sends = <<Send(Split(Udp4, 48, 1), Data("a", 24))>>, !.frames = <<Overlap, Other>>,
                            !.expect = Sized(24)]
Crowded == [Two EXCEPT !.faults = 0, !.limits = [max_inbox |-> 8, max_datagrams |-> 1, max_buffered |-> 40]]
Full == [Two EXCEPT !.faults = 0, !.limits.max_buffered = 32, !.expect = Sized(99)]
(* Each fragment fits an IP packet, what they are fragments of does not.     *)
Oversize == [Base EXCEPT !.sends = <<Send(Split([Spec0 EXCEPT !.transport = Tcp], 40000, 1), Data("a", 65520))>>,
                         !.frames = <<Other>>, !.expect = Sized(65520)]
(* An exact match on octets that do not decode. *)
Hex == [Base EXCEPT !.frames = <<Other, Junk>>, !.expect = [Expect0 EXCEPT !.by = "hex", !.wire = Junk.wire]]

AllScenarios == Codec \cup {Two, Three, Early, Six, Overlapping, Crowded, Full, Oversize, Hex}
=============================================================================
