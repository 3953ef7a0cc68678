------------------------------ MODULE TcpPair ------------------------------
(***************************************************************************)
(* Two trackers against each other over two in-order channels: the two     *)
(* roles of a protocol with raw_tcp_stateful and no transport faults.  An  *)
(* endpoint sends any packet its tracker accepts and takes the next packet *)
(* that reached it, if its tracker accepts that.                           *)
(***************************************************************************)
EXTENDS Integers, TcpTracker

CONSTANTS
  MaxFlight,   \* packets on their way in one direction, at most
  FlagSets     \* the flags a packet may carry

VARIABLES
  tracker,     \* tracker[e]: the state of endpoint e's tracker
  flight       \* flight[e]: packets on their way to e

Ends == {"a", "b"}
Peer(e) == IF e = "a" THEN "b" ELSE "a"

PairInit == tracker = [e \in Ends |-> "Closed"] /\ flight = [e \in Ends |-> <<>>]

(* send_raw with an accepted packet *)
SendPacket(e) ==
  \E flags \in FlagSets :
    /\ Len(flight[Peer(e)]) < MaxFlight
    /\ Observe(tracker[e], "out", flags) # "invalid"
    /\ tracker' = [tracker EXCEPT ![e] = Observe(@, "out", flags)]
    /\ flight' = [flight EXCEPT ![Peer(e)] = Append(@, flags)]

(* recv_raw of an accepted packet *)
TakePacket(e) ==
  /\ flight[e] # <<>>
  /\ Observe(tracker[e], "in", Head(flight[e])) # "invalid"
  /\ tracker' = [tracker EXCEPT ![e] = Observe(@, "in", Head(flight[e]))]
  /\ flight' = [flight EXCEPT ![e] = Tail(@)]

PairNext == \E e \in Ends : SendPacket(e) \/ TakePacket(e)

(* The pairs of states two ends of one connection can be in when nothing   *)
(* is on its way, in either order.                                         *)
Agreeing ==
  {<<"Closed", "Closed">>, <<"SynSent", "SynReceived">>, <<"Established", "SynReceived">>,
   <<"Established", "Established">>, <<"FinWait1", "CloseWait">>,
   <<"FinWait2", "CloseWait">>, <<"TimeWait", "LastAck">>,
   <<"TimeWait", "TimeWait">>, <<"TimeWait", "Closed">>, <<"Reset", "Reset">>}
Quiet == flight = [e \in Ends |-> <<>>]
PairIn(pairs) == \E e \in Ends : <<tracker[e], tracker[Peer(e)]>> \in pairs

(* PairAgrees: two trackers that accepted every packet and have nothing on *)
(* its way agree on the connection (TcpStateTracker::observe): a close one *)
(* end finished the other does not still wait to begin, a reset reaches    *)
(* both.  The one disagreement is an end that was acknowledged before it   *)
(* answered the SYN.                                                       *)
PairAgrees == Quiet => PairIn(Agreeing \cup {<<"SynSent", "Established">>})
=============================================================================
