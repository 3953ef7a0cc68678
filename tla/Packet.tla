------------------------------- MODULE Packet -------------------------------
(***************************************************************************)
(* The raw packet codec: what send_raw builds, encodes and fragments, and  *)
(* what the decoder makes of a frame.                                      *)
(*                                                                         *)
(* An octet string is a sequence of runs, [of, lo, hi] being the octets    *)
(* lo .. hi - 1 of a header or of a payload; the fields a decoder reads    *)
(* are in the header, and every length and offset is counted in octets as  *)
(* the code does.  Octets read as a header they are not may hold           *)
(* anything, so decoding gives the set of the possible results.            *)
(***************************************************************************)
EXTENDS Integers, Sequences, SequencesExt, TLC

Auto == -1  \* a length the encoder computes

LOCAL Least(a, b) == IF a < b THEN a ELSE b
LOCAL Most(a, b) == IF a > b THEN a ELSE b

Size(b) ==
  LET upto[i \in 0 .. Len(b)] == IF i = 0 THEN 0 ELSE upto[i - 1] + b[i].hi - b[i].lo
  IN upto[Len(b)]

(* b[lo .. hi - 1] *)
Slice(b, lo, hi) ==
  LET start(i) == Size(SubSeq(b, 1, i - 1))
      cut(i)   == [of |-> b[i].of,
                   lo |-> b[i].lo + Most(0, lo - start(i)),
                   hi |-> Least(b[i].hi, b[i].lo + hi - start(i))]
  IN SelectSeq([i \in DOMAIN b |-> cut(i)], LAMBDA r : r.lo < r.hi)

(* Concatenation; octets that follow one another in one string are one run. *)
Glue(a, b) ==
  IF a # <<>> /\ b # <<>> /\ Last(a).of = Head(b).of /\ Last(a).hi = Head(b).lo
    THEN Front(a) \o <<[Last(a) EXCEPT !.hi = Head(b).hi]>> \o Tail(b)
    ELSE a \o b

Whole(of, n) == IF n = 0 THEN <<>> ELSE <<[of |-> of, lo |-> 0, hi |-> n]>>

-----------------------------------------------------------------------------
(* A packet is [eth, net, tp, data].                                         *)
(*   eth  [h, on, vlan, etype, range]                                        *)
(*   net  [h, ver, ihl, total, id, df, mf, off, frag, next, opts, ethlike,   *)
(*         range]: both IP versions; "total" is payload_length for IPv6,     *)
(*         "next" the protocol or next_header, "frag" an IPv6 fragment       *)
(*         header, "range" says that the other fields fit their bits, and    *)
(*         "ethlike" that octets 12 and 13 happen to be an EtherType         *)
(*   tp   [h, port, len, opts, flags, sum, covers]: "len" is data_offset or  *)
(*         the UDP length; "covers" is how many octets the checksum is of    *)
(*   data an octet string                                                    *)
(* Options are [k, n], a kind and a length.                                  *)

Ok(x) == [r |-> "ok", v |-> x]
Err == [r |-> "error"]
Panic == [r |-> "panic"]

OptionsSize(opts) ==
  LET upto[i \in 0 .. Len(opts)] == IF i = 0 THEN 0 ELSE upto[i - 1] + opts[i].n
  IN upto[Len(opts)]
Padded(n) == ((n + 3) \div 4) * 4

Protocol(p) ==
  IF p.net.next # "auto" THEN p.net.next ELSE IF p.tp.h # "none" THEN p.tp.h ELSE "missing"

(* Checksum::resolve *)
Resolve(tp, n) == IF tp.sum = "auto" THEN [tp EXCEPT !.sum = "good", !.covers = n]
                  ELSE IF tp.sum = "invalid" THEN [tp EXCEPT !.sum = "bad", !.covers = n] ELSE tp

EncodeTcp(p) ==
  LET n   == Padded(OptionsSize(p.tp.opts))
      len == IF p.tp.len = Auto THEN 5 + n \div 4 ELSE p.tp.len
  IN IF n > 40 \/ len > 15 THEN Err
     ELSE Ok(Whole([Resolve(p.tp, 20 + n + Size(p.data)) EXCEPT !.len = len], 20 + n))

EncodeUdp(p) ==
  LET n == 8 + Size(p.data)
  IN IF n > 65535 THEN Err
     ELSE Ok(Whole([Resolve(p.tp, n) EXCEPT !.len = IF @ = Auto THEN n ELSE @], 8))

EncodeTransport(p) ==
  CASE p.tp.h = "none" -> Ok(<<>>) [] p.tp.h = "tcp" -> EncodeTcp(p) [] p.tp.h = "udp" -> EncodeUdp(p)

EncodeIpv4(net, protocol, b) ==
  LET n     == Padded(OptionsSize(net.opts))
      ihl   == IF net.ihl = Auto THEN 5 + n \div 4 ELSE net.ihl
      total == IF net.total = Auto THEN 20 + n + Size(b) ELSE net.total
  IN IF ~net.range \/ net.off > 8191 \/ OptionsSize(net.opts) > 40 \/ ihl > 15 \/ 20 + n + Size(b) > 65535 THEN Err
     ELSE Ok(Whole([net EXCEPT !.ihl = ihl, !.total = total, !.next = protocol], 20 + n) \o b)

EncodeIpv6(net, protocol, b) ==
  LET n     == IF net.frag THEN 8 ELSE 0
      total == IF net.total = Auto THEN n + Size(b) ELSE net.total
  IN IF ~net.range \/ n + Size(b) > 65535 \/ (net.frag /\ net.off > 8191) THEN Err
     ELSE Ok(Whole([net EXCEPT !.total = total, !.next = protocol], 40 + n) \o b)

EncodeEthernet(p, ip) ==
  LET etype == IF p.eth.etype = "auto" THEN "ip" ELSE p.eth.etype
  IN IF ~p.eth.range THEN Err ELSE Ok(Whole([p.eth EXCEPT !.etype = etype], IF p.eth.vlan THEN 18 ELSE 14) \o ip)

(* Packet::encode *)
Encode(p) ==
  LET t  == EncodeTransport(p)
      b  == Glue(t.v, p.data)
      ip == IF p.net.ver = 4 THEN EncodeIpv4(p.net, Protocol(p), b) ELSE EncodeIpv6(p.net, Protocol(p), b)
  IN IF Protocol(p) = "missing" \/ t.r = "error" \/ ip.r = "error" THEN Err
     ELSE IF p.eth.on THEN EncodeEthernet(p, ip.v) ELSE ip

-----------------------------------------------------------------------------
(* A range of b is taken; out of bounds, the thread panics. *)
Taking(b, lo, hi, results) == IF lo <= hi /\ hi <= Size(b) THEN results ELSE {Panic}

(* The header at the front of b, when that is what is there. *)
IsHeader(b, h, n) == b # <<>> /\ b[1].of.h = h /\ b[1].lo = 0 /\ b[1].hi >= n

(* decode_tcp_options on the octets between the fixed header and "limit".   *)
DecodeTcpOptions(opts, limit) ==
  LET at(i)    == OptionsSize(SubSeq(opts, 1, i - 1))
      last     == Len(opts) + 1
      short(i) == opts[i].k # "nop" /\ at(i) + opts[i].n > limit
      stops(i) == at(i) >= limit \/ i = last \/ opts[i].k = "end" \/ short(i)
      stop     == CHOOSE i \in 1 .. last : stops(i) /\ \A j \in 1 .. i - 1 : ~stops(j)
      read     == SubSeq(opts, 1, stop - 1)
      end      == <<[k |-> "end", n |-> 1]>>
  IN IF at(stop) >= limit THEN {Ok(read)}
     ELSE IF stop = last /\ at(stop) = Padded(at(stop)) THEN {Err, Ok(read), Ok(read \o end)}
     ELSE IF stop = last \/ opts[stop].k = "end" THEN {Ok(read \o end)}
     ELSE {Err}

(* The headers that octets which are not one may be taken for. *)
Unknown(h) ==
  {[h |-> h, port |-> Auto, len |-> n, opts |-> <<>>, flags |-> {}, sum |-> "bad", covers |-> 0] :
     n \in IF h = "tcp" THEN {0, 5, 6, 15} ELSE {0, 8, 9, 65535}}

(* A faulty TCP decoder: the options are not known to be there. *)
DecodeTcpUnchecked(b, fragmented) ==
  LET one(t) == IF t.len < 5 THEN {Err}
                ELSE Taking(b, 20, 4 * t.len,
                       {IF o.r = "error" THEN Err
                        ELSE Ok([tp |-> [t EXCEPT !.opts = o.v], data |-> Slice(b, 4 * t.len, Size(b)), valid |-> "none"]) :
                          o \in DecodeTcpOptions(t.opts, 4 * t.len - 20)})
  IN IF Size(b) < 20 THEN {Err}
     ELSE UNION {one(t) : t \in IF IsHeader(b, "tcp", 20) THEN {b[1].of} ELSE Unknown("tcp")}

DecodeTcp(b, fragmented) ==
  LET valid(t) == IF fragmented THEN "none" ELSE IF t.sum = "good" /\ t.covers = Size(b) THEN "yes" ELSE "no"
      one(t) == IF t.len < 5 \/ Size(b) < 4 * t.len THEN {Err}
                ELSE Taking(b, 20, 4 * t.len,
                       {IF o.r = "error" THEN Err
                        ELSE Ok([tp |-> [t EXCEPT !.opts = o.v], data |-> Slice(b, 4 * t.len, Size(b)), valid |-> valid(t)]) :
                          o \in DecodeTcpOptions(t.opts, 4 * t.len - 20)})
  IN IF Size(b) < 20 THEN {Err}
     ELSE UNION {one(t) : t \in IF IsHeader(b, "tcp", 20) THEN {b[1].of} ELSE Unknown("tcp")}

DecodeUdp(b, ver, fragmented) ==
  LET n(t) == Least(t.len, Size(b))
      valid(t) == IF fragmented THEN "none"
                  ELSE IF (t.sum = "zero" /\ ver = 4) \/ (t.sum = "good" /\ t.covers = n(t)) THEN "yes" ELSE "no"
      one(t) == IF t.len < 8 \/ (~fragmented /\ t.len > Size(b)) THEN {Err}
                ELSE Taking(b, 8, n(t), {Ok([tp |-> t, data |-> Slice(b, 8, n(t)), valid |-> valid(t)])})
  IN IF Size(b) < 8 THEN {Err}
     ELSE UNION {one(t) : t \in IF IsHeader(b, "udp", 8) THEN {b[1].of} ELSE Unknown("udp")}

NoTransport == [h |-> "none", port |-> Auto, len |-> Auto, opts |-> <<>>, flags |-> {}, sum |-> "auto", covers |-> 0]

DecodeTransport(protocol, b, ver, fragmented) ==
  CASE protocol = "tcp" -> DecodeTcp(b, fragmented)
    [] protocol = "udp" -> DecodeUdp(b, ver, fragmented)
    [] OTHER -> {Ok([tp |-> NoTransport, data |-> b, valid |-> "none"])}

(* complete_transport_header; when it is not there, no header is looked for. *)
CompleteTransportHeader(protocol, b) ==
  CASE protocol = "tcp" -> IF IsHeader(b, "tcp", 13) THEN b[1].of.len >= 5 /\ Size(b) >= 4 * b[1].of.len
                           ELSE Size(b) >= 20
    [] protocol = "udp" -> Size(b) >= 8
    [] OTHER -> TRUE

(* The end of decode_ipv4 and decode_ipv6: the IP payload b is known. *)
DecodePayload(eth, net, b) ==
  LET fragmented == (net.off # 0 \/ net.mf) /\ (net.ver = 4 \/ net.frag)
      opaque     == /\ fragmented \/ net.frag
                    /\ net.off # 0 \/ ~CompleteTransportHeader(net.next, b)
      found      == IF opaque THEN {Ok([tp |-> NoTransport, data |-> b, valid |-> "none"])}
                              ELSE DecodeTransport(net.next, b, net.ver, fragmented)
  IN {IF t.r # "ok" THEN t
      ELSE Ok([packet |-> [eth |-> eth, net |-> net, tp |-> t.v.tp, data |-> t.v.data], body |-> b, valid |-> t.v.valid]) :
        t \in found}

DecodeIpv4(b, eth) ==
  LET net == b[1].of
      n   == 4 * net.ihl
  IN IF ~IsHeader(b, "net", 20) \/ net.ihl < 5 \/ Size(b) < n \/ net.total < n \/ net.total > Size(b) THEN {Err}
     ELSE Taking(b, n, net.total, DecodePayload(eth, net, Slice(b, n, net.total)))

DecodeIpv6(b, eth) ==
  LET net == b[1].of
      end == 40 + net.total
      n   == IF net.frag THEN 48 ELSE 40
  IN IF ~IsHeader(b, "net", 40) \/ end > Size(b) \/ end < n THEN {Err}
     ELSE Taking(b, n, end, DecodePayload(eth, net, Slice(b, n, end)))

NoEthernet == [h |-> "eth", on |-> FALSE, vlan |-> FALSE, etype |-> "auto", range |-> TRUE]

(* decode_ip_inner; the first octet of anything else is no IP version. *)
DecodeIp(b, eth) ==
  IF ~IsHeader(b, "net", 1) THEN {Err}
  ELSE IF b[1].of.ver = 4 THEN DecodeIpv4(b, eth) ELSE DecodeIpv6(b, eth)

DecodeEthernet(b) ==
  LET n == IF IsHeader(b, "eth", 14) /\ b[1].of.vlan THEN 18 ELSE 14
  IN IF Size(b) < n THEN {Err}
     ELSE Taking(b, n, Size(b), DecodeIp(Slice(b, n, Size(b)), IF IsHeader(b, "eth", n) THEN b[1].of ELSE NoEthernet))

(* decode_raw_wire: octets 12 and 13 tell an Ethernet frame from an IP one. *)
DecodeRawWire(b) ==
  LET framed == Size(b) >= 14 /\ IF b[1].of.h = "eth" THEN b[1].of.vlan \/ b[1].of.etype = "ip"
                                 ELSE b[1].of.h = "net" /\ b[1].of.ethlike
  IN IF framed THEN DecodeEthernet(b) ELSE DecodeIp(b, NoEthernet)

-----------------------------------------------------------------------------
(* The fields that expectations and captures name, by header: the sections   *)
(* a packet has, each with its fields.                                       *)
NetworkFields(net) ==
  IF net.ver = 4
    THEN [ipv4 |-> [id |-> net.id, fragment_offset |-> net.off, more_fragments |-> net.mf, dont_fragment |-> net.df,
                    protocol |-> net.next, ihl |-> net.ihl, total_length |-> net.total, options |-> net.opts]]
  ELSE IF net.frag
    THEN [ipv6 |-> [payload_length |-> net.total, next_header |-> net.next, fragment_offset |-> net.off,
                    more_fragments |-> net.mf, fragment_id |-> net.id]]
    ELSE [ipv6 |-> [payload_length |-> net.total, next_header |-> net.next]]

TransportFields(tp) ==
  CASE tp.h = "tcp" -> [tcp |-> [destination_port |-> tp.port, data_offset |-> tp.len, options_count |-> Len(tp.opts),
                                 flags |-> tp.flags, checksum |-> tp.sum]]
    [] tp.h = "udp" -> [udp |-> [destination_port |-> tp.port, length |-> tp.len, checksum |-> tp.sum]]
    [] OTHER -> <<>>

DecodedFields(d) ==
  LET p == d.packet
  IN [packet |-> [length |-> Size(d.body)], raw |-> [payload |-> p.data], transport |-> [checksum_valid |-> d.valid]]
       @@ (IF p.eth.on THEN [ethernet |-> [ether_type |-> p.eth.etype, vlan |-> p.eth.vlan]] ELSE <<>>)
       @@ NetworkFields(p.net) @@ TransportFields(p.tp)

(* raw_packet_fields: what it assigns again it assigns the same values. *)
RawPacketFields(d) == DecodedFields(d)

-----------------------------------------------------------------------------
(* b in pieces, the first of at most n0 octets and the others of n1, each    *)
(* encoded as the payload of a fragment header.                              *)
Pieces(p, b, n0, n1, net(_)) ==
  LET count     == IF Size(b) <= n0 THEN 1 ELSE 1 + (Size(b) - n0 + n1 - 1) \div n1
      from(i)   == IF i = 1 THEN 0 ELSE n0 + (i - 2) * n1
      to(i)     == IF i = count THEN Size(b) ELSE from(i + 1)
      header(i) == [net(i) EXCEPT !.ihl = Auto, !.total = Auto, !.next = Protocol(p),
                                  !.off = from(i) \div 8, !.mf = i < count]
      packet(i) == [p EXCEPT !.net = header(i), !.tp = NoTransport, !.data = Slice(b, from(i), to(i))]
  IN [i \in 1 .. count |-> Encode(packet(i))]

Fragments(pieces) ==
  IF \E i \in DOMAIN pieces : pieces[i].r = "error" THEN Err ELSE Ok([i \in DOMAIN pieces |-> pieces[i].v])

Single(w) == IF w.r = "error" THEN Err ELSE Ok(<<w.v>>)

(* copied_ipv4_options: the options every fragment carries. *)
CopiedIpv4Options(opts) ==
  LET end == {i \in DOMAIN opts : opts[i].k = "end"}
      all == IF end = {} THEN opts ELSE SubSeq(opts, 1, (CHOOSE i \in end : \A j \in end : i <= j) - 1)
  IN SelectSeq(all, LAMBDA o : o.k = "copied")

FragmentIpv4(p, mtu) ==
  LET t      == EncodeTransport(p)
      b      == Glue(t.v, p.data)
      later  == CopiedIpv4Options(p.net.opts)
      n0     == 20 + Padded(OptionsSize(p.net.opts))
      n1     == 20 + Padded(OptionsSize(later))
      units(n) == ((mtu - n) \div 8) * 8
      net(i) == [p.net EXCEPT !.df = FALSE, !.opts = IF i = 1 THEN @ ELSE later]
  IN IF p.net.off # 0 \/ p.net.mf \/ Protocol(p) = "missing" \/ t.r = "error" \/ OptionsSize(p.net.opts) > 40 THEN Err
     ELSE IF n0 + Size(b) <= mtu THEN Single(Encode(p))
     ELSE IF p.net.df \/ mtu < n0 + 8 \/ mtu < n1 + 8 THEN Err
     ELSE Fragments(Pieces(p, b, units(n0), units(n1), net))

FragmentIpv6(p, mtu, id) ==
  LET t      == EncodeTransport(p)
      b      == Glue(t.v, p.data)
      units  == ((mtu - 48) \div 8) * 8
      net(i) == [p.net EXCEPT !.frag = TRUE, !.id = id]
  IN IF p.net.frag \/ Protocol(p) = "missing" \/ t.r = "error" THEN Err
     ELSE IF 40 + Size(b) <= mtu THEN Single(Encode(p))
     ELSE IF mtu < 56 THEN Err
     ELSE Fragments(Pieces(p, b, units, units, net))

-----------------------------------------------------------------------------
(* build_raw_packets.  A specification is [ver, ethernet, ip, transport,     *)
(* mtu, id]; ethernet, ip and transport map the attributes a scenario gives  *)
(* to their values, and are empty for a block it does not have.              *)
Get(a, k, default) == IF k \in DOMAIN a THEN a[k] ELSE default

Width == [vlan_id |-> 65536, dscp |-> 256, id |-> 65536, fragment_id |-> 2 ^ 30, fragment_offset |-> 65536, ihl |-> 256,
          total_length |-> 65536, payload_length |-> 65536, data_offset |-> 256, length |-> 65536]

Fits(a) == \A k \in DOMAIN a \cap DOMAIN Width : a[k] < Width[k]

BuildEthernetHeader(a) ==
  [h |-> "eth", on |-> DOMAIN a # {}, vlan |-> "vlan_id" \in DOMAIN a, etype |-> Get(a, "ether_type", "auto"),
   range |-> Get(a, "vlan_id", 0) <= 4095]

BuildIpv4Header(a) ==
  [h |-> "net", ver |-> 4, ihl |-> Get(a, "ihl", Auto), total |-> Get(a, "total_length", Auto), id |-> Get(a, "id", 0),
   df |-> Get(a, "dont_fragment", FALSE), mf |-> Get(a, "more_fragments", FALSE), off |-> Get(a, "fragment_offset", 0),
   frag |-> FALSE, next |-> Get(a, "protocol", "auto"), opts |-> Get(a, "options", <<>>),
   ethlike |-> Get(a, "source", "plain") = "ethlike", range |-> Get(a, "dscp", 0) <= 63]

(* An explicit fragment header needs to know what follows it. *)
BuildIpv6Header(a, inferred) ==
  [h |-> "net", ver |-> 6, ihl |-> Auto, total |-> Get(a, "payload_length", Auto), id |-> Get(a, "fragment_id", 0),
   df |-> FALSE, mf |-> Get(a, "more_fragments", FALSE), off |-> Get(a, "fragment_offset", 0),
   frag |-> Get(a, "more_fragments", FALSE) \/ {"fragment_offset", "fragment_id"} \cap DOMAIN a # {},
   next |-> Get(a, "next_header", inferred), opts |-> <<>>, ethlike |-> Get(a, "source", "plain") = "ethlike", range |-> TRUE]

BuildTransportHeader(a) ==
  IF DOMAIN a = {} THEN NoTransport
  ELSE [h |-> a.kind, port |-> Get(a, "destination_port", 0), len |-> Get(a, IF a.kind = "tcp" THEN "data_offset" ELSE "length", Auto),
        opts |-> Get(a, "options", <<>>), flags |-> Get(a, "flags", {}), sum |-> Get(a, "checksum", "auto"), covers |-> 0]

BuildRawPackets(spec, data) ==
  LET tp     == BuildTransportHeader(spec.transport)
      net    == IF spec.ver = 4 THEN BuildIpv4Header(spec.ip) ELSE BuildIpv6Header(spec.ip, IF tp.h = "none" THEN "auto" ELSE tp.h)
      packet == [eth |-> BuildEthernetHeader(spec.ethernet), net |-> net, tp |-> tp, data |-> data]
  IN IF "vlan_priority" \in DOMAIN spec.ethernet /\ ~packet.eth.vlan THEN Err
     ELSE IF ~Fits(spec.ethernet) \/ ~Fits(spec.ip) \/ ~Fits(spec.transport) \/ spec.ver = 0 THEN Err
     ELSE IF spec.mtu = Auto THEN Single(Encode(packet))
     ELSE IF spec.ver = 4 THEN FragmentIpv4(packet, spec.mtu) ELSE FragmentIpv6(packet, spec.mtu, spec.id)

=============================================================================
