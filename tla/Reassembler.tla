---------------------------- MODULE Reassembler ----------------------------
(***************************************************************************)
(* FragmentReassembler: what push makes of a decoded packet.  The          *)
(* reassembler maps the key of each unfinished datagram to what it has of  *)
(* it: [created, eth, net, chunks, total], total = Auto until the final    *)
(* fragment is there.                                                      *)
(***************************************************************************)
EXTENDS Packet, FiniteSets, Functions

IsFragment(net) == IF net.ver = 4 THEN net.off # 0 \/ net.mf ELSE net.frag


(* fragment_identity; the two addresses are the same throughout. *)
FragmentKey(net) == <<net.ver, net.id, net.next>>

Octets(chunks) == SumFunction([o \in DOMAIN chunks |-> Size(chunks[o])])
Buffered(r) == SumFunction([k \in DOMAIN r |-> Octets(r[k].chunks)])

ClearFragmentHeader(net) ==
  [net EXCEPT !.off = 0, !.mf = FALSE, !.frag = FALSE, !.total = Auto, !.ihl = Auto, !.id = IF net.frag THEN 0 ELSE @]

(* Whether the chunks follow one another from 0 to total. *)
Complete(set) ==
  /\ set.total # Auto
  /\ Octets(set.chunks) = set.total
  /\ \A o \in DOMAIN set.chunks : Octets(Restrict(set.chunks, {e \in DOMAIN set.chunks : e < o})) = o

Joined(chunks) == FoldLeft(LAMBDA b, o : Glue(b, chunks[o]), <<>>, SetToSortSeq(DOMAIN chunks, <))

(* The datagram is complete: it leaves the reassembler and is decoded. *)
Finish(r, k) ==
  LET set == r[k]
      net == ClearFragmentHeader(set.net)
      whole(t) == [eth |-> set.eth, net |-> net, tp |-> t.tp, data |-> t.data]
  IN {[sets |-> Restrict(r, DOMAIN r \ {k}),
       out |-> IF t.r = "ok" THEN Ok(<<whole(t.v)>>) ELSE t] :
        t \in DecodeTransport(net.next, Joined(set.chunks), net.ver, FALSE)}

(* push_at once the limits are checked: the chunk is put in its place. *)
Add(r, k, new, net, body, eth) ==
  LET o       == 8 * net.off
      end     == o + Size(body)
      old     == IF k \in DOMAIN r THEN r[k] ELSE new
      overlap == {e \in DOMAIN old.chunks : o < e + Size(old.chunks[e]) /\ e < end}
      set     == [old EXCEPT !.eth = IF o = 0 THEN eth ELSE @, !.net = IF o = 0 THEN net ELSE @,
                             !.total = IF net.mf THEN @ ELSE end,
                             !.chunks = [x \in DOMAIN @ \cup {o} |-> IF x = o THEN body ELSE @[x]]]
      with(s) == [x \in DOMAIN r \cup {k} |-> IF x = k THEN s ELSE r[x]]
      rejected == [sets |-> Restrict(r, DOMAIN r \ {k}), out |-> Err]
  IN IF overlap # {}
       THEN {IF o \in overlap /\ old.chunks[o] = body THEN [sets |-> r, out |-> Ok(<<>>)] ELSE rejected}
     ELSE IF ~net.mf /\ old.total \notin {Auto, end} THEN {rejected}
     ELSE IF Complete(set) THEN Finish(with(set), k)
     ELSE {[sets |-> with(set), out |-> Ok(<<>>)]}

BuffersTooMuch(r, b, limits) == Buffered(r) + Size(b) > limits.max_buffered

(* push_at: "old" are the datagrams that are past the timeout, "now" is the  *)
(* order in which datagrams were begun.  The result is the packet, nothing   *)
(* yet, or an error.                                                         *)
Push(r0, d, now, old, limits) ==
  LET r    == Restrict(r0, DOMAIN r0 \ old)
      net  == d.packet.net
      k    == FragmentKey(net)
      o    == 8 * net.off
      new  == [created |-> now, eth |-> d.packet.eth, net |-> net, chunks |-> <<>>, total |-> Auto]
      same == k \in DOMAIN r /\ o \in DOMAIN r[k].chunks /\ r[k].chunks[o] = d.body
      rejected == {[sets |-> r, out |-> Err]}
  IN IF ~IsFragment(net) THEN {[sets |-> r, out |-> Ok(<<d.packet>>)]}
     ELSE IF net.mf /\ Size(d.body) % 8 # 0 THEN rejected
     ELSE IF k \notin DOMAIN r /\ Cardinality(DOMAIN r) >= limits.max_datagrams THEN rejected
     ELSE IF ~same /\ BuffersTooMuch(r, d.body, limits) THEN rejected
     ELSE Add(r, k, new, net, d.body, d.packet.eth)

=============================================================================
