-------------------------- MODULE NearbySyncProofs --------------------------
(***************************************************************************)
(* Theorems about NearbySyncExchange, for any number of readers, offers,   *)
(* sessions, packets in flight and failing calls.                          *)
(*                                                                         *)
(* A packet is a testimony: what it says about the exchange of its sender  *)
(* stays true as long as that exchange is the one its sender runs, and     *)
(* after that nobody can act on it as if it were.  IInv states it for each *)
(* type of packet and for what the readers remember of packets.  Moves     *)
(* says what any action of a reader may do to its exchange, to the radio   *)
(* and to what is durable; the actions are shown to be Moves first, and    *)
(* the invariant to survive a Moves after that.                            *)
(*                                                                         *)
(* The last part is the arithmetic of PeerSequence, on which the radio of  *)
(* the model relies, for a counter of any width.                           *)
(***************************************************************************)
EXTENDS NearbySyncExchange, PeerSequence, TLAPS

(* The packets of a list, and those from x to y that may still arrive. *)
Among(q) == {q[i] : i \in 1..Len(q)}
Air(x, y) == Among(radio[<<x, y>>])

Channels(ch) ==
  /\ ch \in [Device \X Device -> Seq(Packet)]
  /\ \A x, y \in Device : Len(ch[<<x, y>>]) <= given.flight

Applied(n) == n.role = "Receiver" /\ n.state \in AppliedStates

(* What one reader keeps to, whatever arrives. *)
Local(n, failures) ==
  /\ n.state \in PairedState => n.peer # NoPeer
  /\ n.state \in {"WaitingForOffer", "OfferReady", "WaitingForComplete"} => n.role = "Receiver"
  /\ n.state = "WaitingForAck" => n.role = "Sender"
  /\ n.state \in PairedState \ {"Pairing"} => n.pairingConfirmed
  /\ n.role = "Sender" /\ n.session > 0 => n.offer # NoOffer
  /\ n.state # "Idle" => n.session > 0
  /\ n.peerOffer # NoOffer => n.role = "Receiver" /\ n.pairingConfirmed /\ n.peer # NoPeer
  /\ n.pairingConfirmed => n.peer # NoPeer
  /\ n.state = "OfferReady" \/ Applied(n) => n.peerOffer # NoOffer
  /\ n.role = "Sender" /\ n.state = "Accepted" => n.peerAcceptedLocalOffer
  /\ n.peer # NoPeer => n.peerAdded \/ failures > 0
  /\ n.error = "Protocol" => n.state \in {"Idle", "Error"}

(* What packet p to y says of the reader that sent it, in the session it   *)
(* was sent in.                                                            *)
Testifies(n, y, p) ==
  /\ p.role = n.role
  /\ p.type = "Bind" => n.peer # NoPeer /\ n.peer.device = y /\ n.peer.session = p.target
  /\ p.type = "Offer" => n.peer # NoPeer /\ n.peer.device = y /\ n.pairingConfirmed
  /\ p.type = "Complete" => n.peerAcceptedLocalOffer

Testimony ==
  \A x, y \in Device : \A p \in Air(x, y) :
    /\ x # y
    /\ p.session > 0 /\ p.session <= node[x].session
    /\ p.session = node[x].session => Testifies(node[x], y, p)
    /\ p.type = "Offer" => p.offer # NoOffer
    /\ p.type = "Ack" => \E o \in Offer : <<x, y, p.target, o>> \in applied

(* What a reader has learned from packets. *)
Knowledge ==
  \A d \in Device : node[d].peer # NoPeer =>
    /\ node[d].peer.device # d
    /\ node[d].peer.session > 0 /\ node[d].peer.session <= PeerNode(d).session
    /\ node[d].peer.role # node[d].role
    /\ Current(d) => node[d].peer.role = PeerNode(d).role

(* Offer o of reader d in session s, as far as anyone can tell. *)
Said(d, s, o) ==
  \/ node[d].role = "Sender" /\ s = node[d].session /\ s > 0 /\ o = node[d].offer
  \/ \E e \in Device : \E p \in Air(d, e) : p.type = "Offer" /\ p.session = s /\ p.offer = o
  \/ \E e \in Device : /\ node[e].peerOffer # NoOffer /\ node[e].peerOffer = o
                       /\ node[e].peer.device = d /\ node[e].peer.session = s
  \/ \E e \in Device : <<e, d, s, o>> \in applied

OneOffer ==
  \A d \in Device, s \in Session, o1, o2 \in Offer :
    /\ Said(d, s, o1) => s <= node[d].session
    /\ d \notin given.fickle /\ Said(d, s, o1) /\ Said(d, s, o2) => o1 = o2

IInv ==
  /\ Types /\ Channels(radio)
  /\ \A d \in Device : Local(node[d], faults)
  /\ Testimony /\ Knowledge /\ OneOffer
  /\ PairingIsMutual /\ OfferIsAuthorised /\ SuccessIsShared /\ NoFalseAccusation /\ AckIsHonest

-----------------------------------------------------------------------------
(* Packet p from e, that could reach d, says it all. *)
Heard(d, e, p, type) == p \in Air(e, d) /\ p.type = type

(* A fresh exchange m of a reader whose last one was n. *)
StartsOver(n, m) ==
  /\ m.session = n.session + 1
  /\ m.state \in {"Discovering", "Error"}
  /\ m.peer = NoPeer /\ m.peerOffer = NoOffer
  /\ m.error = "Protocol" => faults' > 0
  /\ applied' = applied

(* The same exchange of d goes on, as m. *)
KeepsOn(d, n, m) ==
  /\ m.session = n.session /\ m.role = n.role
  /\ n.peer # NoPeer => m.peer = n.peer
  /\ n.pairingConfirmed => m.pairingConfirmed
  /\ n.peerAcceptedLocalOffer => m.peerAcceptedLocalOffer
  /\ m.offer # n.offer => d \in given.fickle /\ n.state = "WaitingForAck"
  /\ n.peer = NoPeer /\ m.peer # NoPeer =>
       \E e \in Device : \E p \in Air(e, d) : m.peer = PeerOf(e, p) /\ p.role # n.role
  /\ m.state \in PairedState =>
       \/ n.state \in PairedState
       \/ \E e \in Device : \E p \in Air(e, d) :
            p.type = "Bind" /\ m.peer = PeerOf(e, p) /\ p.target = n.session
  /\ m.peerOffer # n.peerOffer =>
       /\ n.peerOffer = NoOffer
       /\ \E e \in Device : \E p \in Air(e, d) :
            p.type = "Offer" /\ m.peer = PeerOf(e, p) /\ p.offer = m.peerOffer
  /\ m.state = "Accepted" =>
       \/ n.state = "Accepted"
       \/ \E e \in Device : \E p \in Air(e, d) :
            /\ p.type = IF m.role = "Sender" THEN "Ack" ELSE "Complete"
            /\ m.peer = PeerOf(e, p) /\ p.target = n.session
  /\ Applied(m) =>
       \/ Applied(n)
       \/ <<d, m.peer.device, m.peer.session, m.peerOffer>> \in applied'
  /\ m.error = "Protocol" =>
       \/ faults' > 0
       \/ n.error = "Protocol" /\ m.peer = n.peer
       \/ /\ n.peerOffer # NoOffer /\ n.peer # NoPeer /\ m.peer = n.peer
          /\ \E e \in Device : \E p \in Air(e, d) :
               p.type = "Offer" /\ n.peer = PeerOf(e, p) /\ p.offer # n.peerOffer
  /\ applied \subseteq applied'
  /\ applied' \subseteq applied \cup
       (IF n.peerOffer = NoOffer THEN {} ELSE {<<d, n.peer.device, n.peer.session, n.peerOffer>>})

(* The packets that d, whose exchange is now m, may have put on the air.   *)
Sincere(d, m, y, p) ==
  /\ y # d
  /\ \E type \in PacketType : p = PacketOf(m, type)
  /\ p.type # "Hello" => m.peer # NoPeer /\ y = m.peer.device
  /\ p.type = "Offer" => m.role = "Sender" /\ m.pairingConfirmed
  /\ p.type = "Ack" => m.peerOffer # NoOffer /\ Applied(m)
  /\ p.type = "Complete" => m.peerAcceptedLocalOffer

Speaks(d, m) ==
  \A x, y \in Device : \A p \in Among(radio'[<<x, y>>]) :
    p \in Air(x, y) \/ (x = d /\ m.session > 0 /\ Sincere(d, m, y, p))

Moves(d) ==
  /\ given' = given
  /\ faults' \in Nat /\ faults' >= faults /\ faults' <= given.sendFaults
  /\ node'[d] \in Node /\ node' = [node EXCEPT ![d] = node'[d]]
  /\ Channels(radio')
  /\ Local(node'[d], faults')
  /\ Speaks(d, node'[d])
  /\ StartsOver(node[d], node'[d]) \/ KeepsOn(d, node[d], node'[d])

-----------------------------------------------------------------------------
(* Sets and sequences *)

(* The bounds of a behaviour are numbers; they do not change. *)
LEMMA Bounds ==
  ASSUME given \in Circumstances
  PROVE  /\ given.flight \in Nat \ {0}
         /\ given.sendFaults \in Nat
         /\ given.sessions \in Nat
         /\ given.present \subseteq Device
BY NearbyAssumption DEF Circumstance

LEMMA SameTypes ==
  ASSUME given' = given
  PROVE  Node' = Node /\ Packet' = Packet /\ Session' = Session /\ Peer' = Peer
<1>1. Session' = Session
  BY DEF Session
<1>2. Peer' = Peer
  BY <1>1 DEF Peer
<1>3. Packet' = Packet
  BY <1>1 DEF Packet
<1>4. Node' = Node
  BY <1>1, <1>2 DEF Node
<1> QED
  BY <1>1, <1>2, <1>3, <1>4

(* A packet joins a list, which may forget its oldest one. *)
LEMMA FlyAdds ==
  ASSUME NEW S, NEW q \in Seq(S), NEW p \in S,
         given.flight \in Nat \ {0}, Len(q) <= given.flight
  PROVE  /\ Fly(q, p) \in Seq(S)
         /\ Len(Fly(q, p)) <= given.flight
         /\ Among(Fly(q, p)) \subseteq Among(q) \cup {p}
<1>1. CASE Len(q) < given.flight
  <2>1. Fly(q, p) = Append(q, p)
    BY <1>1 DEF Fly
  <2>2. /\ Append(q, p) \in Seq(S) /\ Len(Append(q, p)) = Len(q) + 1
        /\ \A i \in 1..Len(q) : Append(q, p)[i] = q[i]
        /\ Append(q, p)[Len(q) + 1] = p
    OBVIOUS
  <2> QED
    BY <1>1, <2>1, <2>2 DEF Among
<1>2. CASE ~(Len(q) < given.flight)
  <2>1. Fly(q, p) = Append(Tail(q), p)
    BY <1>2 DEF Fly
  <2>2. q # <<>> /\ Len(q) \in Nat \ {0}
    BY <1>2
  <2>3. /\ Tail(q) \in Seq(S) /\ Len(Tail(q)) = Len(q) - 1
        /\ \A i \in 1..Len(q) - 1 : Tail(q)[i] = q[i + 1]
    BY <2>2
  <2>4. /\ Append(Tail(q), p) \in Seq(S) /\ Len(Append(Tail(q), p)) = Len(q)
        /\ \A i \in 1..Len(q) - 1 : Append(Tail(q), p)[i] = q[i + 1]
        /\ Append(Tail(q), p)[Len(q)] = p
    BY <2>2, <2>3
  <2> DEFINE r == Append(Tail(q), p)
  <2>5. \A i \in 1..Len(r) : r[i] = p \/ \E j \in 1..Len(q) : r[i] = q[j]
    <3> SUFFICES ASSUME NEW i \in 1..Len(r), r[i] # p
                 PROVE  \E j \in 1..Len(q) : r[i] = q[j]
      OBVIOUS
    <3>0. /\ Len(r) = Len(q) /\ r[Len(q)] = p
          /\ \A j \in 1..Len(q) - 1 : r[j] = q[j + 1]
      BY <2>4
    <3> HIDE DEF r
    <3>1. i # Len(q)
      BY <3>0
    <3>2. i \in 1..Len(q) - 1 /\ i + 1 \in 1..Len(q)
      BY <2>2, <3>0, <3>1
    <3>3. r[i] = q[i + 1]
      BY <3>0, <3>2
    <3> QED
      BY <3>2, <3>3
  <2>6. Among(r) \subseteq Among(q) \cup {p}
    <3> HIDE DEF r
    <3> QED
      BY <2>5 DEF Among
  <2> QED
    BY <2>1, <2>4, <2>6
<1> QED
  BY <1>1, <1>2

(* An accepted packet leaves with all that are older; a lost one alone.    *)
LEMMA RestStays ==
  ASSUME NEW S, NEW q \in Seq(S), NEW k \in 1..Len(q)
  PROVE  /\ SubSeq(q, k + 1, Len(q)) \in Seq(S)
         /\ Len(SubSeq(q, k + 1, Len(q))) <= Len(q)
         /\ Among(SubSeq(q, k + 1, Len(q))) \subseteq Among(q)
<1> DEFINE r == SubSeq(q, k + 1, Len(q))
<1>1. r \in Seq(S) /\ Len(r) = Len(q) - k
  OBVIOUS
<1>2. \A i \in 1..Len(r) : r[i] = q[k + i] /\ k + i \in 1..Len(q)
  BY <1>1
<1> HIDE DEF r
<1>3. r \in Seq(S) /\ Len(r) <= Len(q) /\ Among(r) \subseteq Among(q)
  BY <1>1, <1>2 DEF Among
<1> QED
  BY <1>3 DEF r

LEMMA OthersStay ==
  ASSUME NEW S, NEW q \in Seq(S), NEW k \in 1..Len(q)
  PROVE  LET r == SubSeq(q, 1, k - 1) \o SubSeq(q, k + 1, Len(q))
         IN  /\ r \in Seq(S)
             /\ Len(r) <= Len(q)
             /\ Among(r) \subseteq Among(q)
<1> DEFINE front == SubSeq(q, 1, k - 1)
           back == SubSeq(q, k + 1, Len(q))
           r == front \o back
<1>1. front \in Seq(S) /\ Len(front) = k - 1 /\ \A i \in 1..k - 1 : front[i] = q[i]
  OBVIOUS
<1>2. back \in Seq(S) /\ Len(back) = Len(q) - k /\ \A i \in 1..Len(q) - k : back[i] = q[k + i]
  OBVIOUS
<1> HIDE DEF front, back
<1>3. r \in Seq(S) /\ Len(r) = Len(q) - 1
  BY <1>1, <1>2
<1>4. \A i \in 1..Len(r) : r[i] = IF i <= k - 1 THEN front[i] ELSE back[i - (k - 1)]
  BY <1>1, <1>2, <1>3
<1>5. \A i \in 1..Len(r) : \E j \in 1..Len(q) : r[i] = q[j]
  <2> TAKE i \in 1..Len(r)
  <2>1. CASE i <= k - 1
    BY <1>1, <1>3, <1>4, <2>1
  <2>2. CASE ~(i <= k - 1)
    <3>1. r[i] = q[i + 1] /\ i + 1 \in 1..Len(q)
      BY <1>2, <1>3, <1>4, <2>2
    <3> QED
      BY <3>1
  <2> QED
    BY <2>1, <2>2
<1> HIDE DEF r
<1>6. r \in Seq(S) /\ Len(r) <= Len(q) /\ Among(r) \subseteq Among(q)
  BY <1>3, <1>5 DEF Among
<1> QED
  BY <1>6 DEF r, front, back

-----------------------------------------------------------------------------
(* The air *)

LEMMA AirIsTyped ==
  ASSUME Channels(radio), NEW x \in Device, NEW y \in Device, NEW p \in Air(x, y)
  PROVE  p \in Packet
BY DEF Channels, Air, Among

LEMMA PacketConsumed ==
  ASSUME given \in Circumstances, Channels(radio),
         NEW d \in Device, NEW e \in Device, NEW i \in 1..Len(radio[<<e, d>>])
  PROVE  /\ Channels(Consumed(e, d, i))
         /\ \A u, v \in Device : Among(Consumed(e, d, i)[<<u, v>>]) \subseteq Air(u, v)
         /\ radio[<<e, d>>][i] \in Air(e, d)
         /\ radio[<<e, d>>][i] \in Packet
<1> DEFINE q == radio[<<e, d>>]
           rest == SubSeq(q, i + 1, Len(q))
           new == Consumed(e, d, i)
<1>1. q \in Seq(Packet) /\ Len(q) <= given.flight /\ given.flight \in Nat \ {0}
  BY Bounds DEF Channels
<1>2. q[i] \in Air(e, d) /\ q[i] \in Packet
  BY <1>1 DEF Air, Among
<1>3. rest \in Seq(Packet) /\ Len(rest) <= Len(q) /\ Among(rest) \subseteq Among(q)
  <2> HIDE DEF q
  <2>1. i \in 1..Len(q)
    BY DEF q
  <2> QED
    BY <1>1, <2>1, RestStays
<1>4. new = [radio EXCEPT ![<<e, d>>] = rest]
  BY DEF Consumed
<1>5. Len(rest) <= given.flight
  <2> HIDE DEF rest
  <2> QED
    BY <1>1, <1>3
<1> HIDE DEF new
<1>6. PICK r \in Seq(Packet) :
        /\ Len(r) <= given.flight
        /\ Among(r) \subseteq Among(q)
        /\ new = [radio EXCEPT ![<<e, d>>] = r]
  BY <1>3, <1>4, <1>5
<1>7. new \in [Device \X Device -> Seq(Packet)]
  BY <1>6 DEF Channels
<1>8. \A u, v \in Device : new[<<u, v>>] = IF u = e /\ v = d THEN r ELSE radio[<<u, v>>]
  BY <1>6 DEF Channels
<1>9. Channels(new)
  BY <1>6, <1>7, <1>8 DEF Channels
<1> QED
  BY <1>2, <1>6, <1>8, <1>9 DEF new, Air

LEMMA PacketLost ==
  ASSUME given \in Circumstances, Channels(radio),
         NEW d \in Device, NEW e \in Device, Lose(e, d)
  PROVE  /\ Channels(radio')
         /\ \A x, y \in Device : Among(radio'[<<x, y>>]) \subseteq Air(x, y)
<1>1. PICK i \in 1..Len(radio[<<e, d>>]) :
        radio' = [radio EXCEPT ![<<e, d>>] = SubSeq(@, 1, i - 1) \o SubSeq(@, i + 1, Len(@))]
  BY DEF Lose
<1> DEFINE q == radio[<<e, d>>]
           others == SubSeq(q, 1, i - 1) \o SubSeq(q, i + 1, Len(q))
<1>2. q \in Seq(Packet) /\ Len(q) <= given.flight /\ given.flight \in Nat \ {0}
  BY Bounds DEF Channels
<1>3. others \in Seq(Packet) /\ Len(others) <= Len(q) /\ Among(others) \subseteq Among(q)
  <2> HIDE DEF q
  <2>1. i \in 1..Len(q)
    BY DEF q
  <2> QED
    BY <1>2, <2>1, OthersStay
<1>4. Len(others) <= given.flight
  <2> HIDE DEF others
  <2> QED
    BY <1>2, <1>3
<1>5. PICK r \in Seq(Packet) :
        /\ Len(r) <= given.flight
        /\ Among(r) \subseteq Among(q)
        /\ radio' = [radio EXCEPT ![<<e, d>>] = r]
  BY <1>1, <1>3, <1>4
<1>6. radio' \in [Device \X Device -> Seq(Packet)]
  BY <1>5 DEF Channels
<1>7. \A u, v \in Device : radio'[<<u, v>>] = IF u = e /\ v = d THEN r ELSE radio[<<u, v>>]
  BY <1>5 DEF Channels
<1>8. Channels(radio')
  BY <1>5, <1>6, <1>7 DEF Channels
<1>9. ASSUME NEW x \in Device, NEW y \in Device
      PROVE  Among(radio'[<<x, y>>]) \subseteq Air(x, y)
  <2>1. CASE x = e /\ y = d
    <3>1. radio'[<<x, y>>] = r
      BY <1>7, <2>1
    <3> QED
      BY <1>5, <2>1, <3>1 DEF Air
  <2>2. CASE ~(x = e /\ y = d)
    <3>1. radio'[<<x, y>>] = radio[<<x, y>>]
      BY <1>7, <2>2
    <3> QED
      BY <3>1 DEF Air
  <2> QED
    BY <2>1, <2>2
<1> QED
  BY <1>8, <1>9

LEMMA HelloFlies ==
  ASSUME given \in Circumstances, Channels(radio), NEW d \in Device,
         NEW m, PacketOf(m, "Hello") \in Packet, Broadcast(d, m)
  PROVE  /\ Channels(radio')
         /\ \A x, y \in Device : \A p \in Among(radio'[<<x, y>>]) :
              p \in Air(x, y) \/ (x = d /\ y # d /\ p = PacketOf(m, "Hello"))
<1> DEFINE h == PacketOf(m, "Hello")
<1>1. given.flight \in Nat \ {0}
  BY Bounds
<1>2. \A x, y \in Device : radio[<<x, y>>] \in Seq(Packet) /\ Len(radio[<<x, y>>]) <= given.flight
  BY DEF Channels
<1>3. ASSUME NEW x \in Device, NEW y \in Device
      PROVE  radio'[<<x, y>>] = IF x = d /\ y \in given.present \ {d}
                                  THEN Fly(radio[<<x, y>>], h) ELSE radio[<<x, y>>]
  BY DEF Broadcast, Channels
<1>4. DOMAIN radio' = Device \X Device /\ radio' = [pair \in Device \X Device |-> radio'[pair]]
  BY DEF Broadcast, Channels
<1> HIDE DEF h
<1>5. ASSUME NEW x \in Device, NEW y \in Device
      PROVE  /\ radio'[<<x, y>>] \in Seq(Packet) /\ Len(radio'[<<x, y>>]) <= given.flight
             /\ \A p \in Among(radio'[<<x, y>>]) : p \in Air(x, y) \/ (x = d /\ y # d /\ p = h)
  <2>1. CASE x = d /\ y \in given.present \ {d}
    <3>1. h \in Packet
      BY DEF h
    <3>2. /\ Fly(radio[<<x, y>>], h) \in Seq(Packet)
          /\ Len(Fly(radio[<<x, y>>], h)) <= given.flight
          /\ Among(Fly(radio[<<x, y>>], h)) \subseteq Among(radio[<<x, y>>]) \cup {h}
      BY <1>1, <1>2, <3>1, FlyAdds
    <3>3. radio'[<<x, y>>] = Fly(radio[<<x, y>>], h)
      BY <1>3, <2>1
    <3> QED
      BY <2>1, <3>2, <3>3 DEF Air
  <2>2. CASE ~(x = d /\ y \in given.present \ {d})
    <3>1. radio'[<<x, y>>] = radio[<<x, y>>]
      BY <1>3, <2>2
    <3> QED
      BY <1>2, <3>1 DEF Air
  <2> QED
    BY <2>1, <2>2
<1>6. radio' \in [Device \X Device -> Seq(Packet)]
  BY <1>4, <1>5
<1> QED
  BY <1>5, <1>6 DEF Channels, h

(* Send leaves d as it should be, with one more packet on the air, or as   *)
(* it is after a refusal, with none.                                       *)
LEMMA SendSpeaks ==
  ASSUME given \in Circumstances, Channels(radio), node \in [Device -> Node],
         faults \in 0..given.sendFaults, NEW d \in Device,
         NEW ch, Channels(ch), \A x, y \in Device : Among(ch[<<x, y>>]) \subseteq Air(x, y),
         NEW type, NEW ok, NEW failed, ok.peer.device \in Device, ok.peerAdded \in BOOLEAN,
         PacketOf(ok, type) \in Packet,
         ok.peerAdded \/ faults > 0,
         Send(d, ch, type, ok, failed)
  PROVE  /\ Channels(radio')
         /\ faults' \in Nat /\ faults' >= faults /\ faults' <= given.sendFaults
         /\ \/ /\ node' = [node EXCEPT ![d] = ok]
               /\ \A x, y \in Device : \A p \in Among(radio'[<<x, y>>]) :
                    p \in Air(x, y) \/ (x = d /\ y = ok.peer.device /\ p = PacketOf(ok, type))
            \/ /\ node' = [node EXCEPT ![d] = failed]
               /\ faults' > 0
               /\ \A x, y \in Device : Among(radio'[<<x, y>>]) \subseteq Air(x, y)
<1>1. given.sendFaults \in Nat /\ faults \in Nat /\ faults <= given.sendFaults
  BY Bounds
<1>2. CASE /\ node' = [node EXCEPT ![d] = ok]
           /\ radio' = [ch EXCEPT ![<<d, ok.peer.device>>] = Fly(@, PacketOf(ok, type))]
           /\ faults' = faults
  <2> DEFINE to == ok.peer.device
             packet == PacketOf(ok, type)
             q == ch[<<d, to>>]
  <2>1. to \in Device /\ packet \in Packet
    OBVIOUS
  <2> HIDE DEF to, packet
  <2>2. q \in Seq(Packet) /\ Len(q) <= given.flight /\ given.flight \in Nat \ {0}
    BY <2>1, Bounds DEF Channels
  <2>3. /\ Fly(q, packet) \in Seq(Packet) /\ Len(Fly(q, packet)) <= given.flight
        /\ Among(Fly(q, packet)) \subseteq Among(q) \cup {packet}
    <3> HIDE DEF q
    <3> QED
      BY <2>1, <2>2, FlyAdds
  <2>4. PICK r \in Seq(Packet) :
          /\ Len(r) <= given.flight
          /\ Among(r) \subseteq Among(q) \cup {packet}
          /\ radio' = [ch EXCEPT ![<<d, to>>] = r]
    BY <1>2, <2>3 DEF to, packet
  <2>5. radio' \in [Device \X Device -> Seq(Packet)]
    BY <2>1, <2>4 DEF Channels
  <2>6. \A u, v \in Device : radio'[<<u, v>>] = IF u = d /\ v = to THEN r ELSE ch[<<u, v>>]
    BY <2>1, <2>4 DEF Channels
  <2>7. Channels(radio')
    BY <2>4, <2>5, <2>6 DEF Channels
  <2>8. ASSUME NEW x \in Device, NEW y \in Device, NEW p \in Among(radio'[<<x, y>>])
        PROVE  p \in Air(x, y) \/ (x = d /\ y = to /\ p = packet)
    <3>1. CASE x = d /\ y = to
      <4>1. radio'[<<x, y>>] = r
        BY <2>6, <3>1
      <4>2. p \in Among(q) \/ p = packet
        BY <2>4, <4>1
      <4> QED
        BY <3>1, <4>2
    <3>2. CASE ~(x = d /\ y = to)
      <4>1. radio'[<<x, y>>] = ch[<<x, y>>]
        BY <2>6, <3>2
      <4> QED
        BY <4>1
    <3> QED
      BY <3>1, <3>2
  <2>9. faults' \in Nat /\ faults' >= faults /\ faults' <= given.sendFaults
    BY <1>1, <1>2
  <2>10. \A x, y \in Device : \A p \in Among(radio'[<<x, y>>]) :
           p \in Air(x, y) \/ (x = d /\ y = to /\ p = packet)
    BY <2>8
  <2> QED
    BY <1>2, <2>7, <2>9, <2>10 DEF to, packet
<1>3. CASE /\ ok.peerAdded => faults < given.sendFaults
           /\ faults' = IF ok.peerAdded THEN faults + 1 ELSE faults
           /\ node' = [node EXCEPT ![d] = failed]
           /\ radio' = ch
  <2>1. faults' \in Nat /\ faults' >= faults /\ faults' <= given.sendFaults /\ faults' > 0
    BY <1>1, <1>3
  <2> QED
    BY <1>3, <2>1
<1> QED
  BY <1>2, <1>3 DEF Send

-----------------------------------------------------------------------------
(* What the actions are: Moves *)

LEMMA Reader ==
  ASSUME IInv, NEW d \in Device
  PROVE  /\ given \in Circumstances /\ Channels(radio)
         /\ node \in [Device -> Node] /\ node[d] \in Node
         /\ faults \in 0..given.sendFaults /\ faults \in Nat /\ given.sendFaults \in Nat
         /\ Local(node[d], faults)
         /\ node[d].peer # NoPeer => /\ node[d].peer \in Peer /\ node[d].peer.device \in Device
                                     /\ node[d].peer.device # d
<1>1. given \in Circumstances /\ node \in [Device -> Node] /\ faults \in 0..given.sendFaults
  BY DEF IInv, Types
<1>2. given.sendFaults \in Nat
  BY <1>1, Bounds
<1>3. node[d] \in Node
  BY <1>1
<1>4. node[d].peer # NoPeer => node[d].peer \in Peer /\ node[d].peer.device \in Device
  BY <1>3 DEF Node, Peer
<1>5. node[d].peer # NoPeer => node[d].peer.device # d
  BY DEF IInv, Knowledge
<1> QED
  BY <1>1, <1>2, <1>3, <1>4, <1>5 DEF IInv

LEMMA PacketTyped ==
  ASSUME given \in Circumstances, NEW n \in Node, NEW type \in PacketType,
         n.peer # NoPeer \/ type \in {"Hello", "Offer"}
  PROVE  PacketOf(n, type) \in Packet
<1>1. n.role \in Role /\ n.session \in Session /\ n.offer \in Offer \cup {NoOffer}
  BY DEF Node
<1>2. n.peer # NoPeer => n.peer.session \in Session
  BY DEF Node, Peer
<1>3. 0 \in Session
  BY Bounds DEF Session
<1>4. PacketOf(n, type).target \in Session
  BY <1>2, <1>3 DEF PacketOf
<1> QED
  BY <1>1, <1>4 DEF PacketOf, Packet

LEMMA LocalGrows ==
  ASSUME NEW n, NEW f \in Nat, NEW g \in Nat, f <= g, Local(n, f)
  PROVE  Local(n, g)
BY DEF Local

(* d becomes m and says nothing. *)
LEMMA SilentMoves ==
  ASSUME IInv, NEW d \in Device, given' = given,
         NEW m \in Node, node' = [node EXCEPT ![d] = m],
         Channels(radio'), \A x, y \in Device : Among(radio'[<<x, y>>]) \subseteq Air(x, y),
         faults' \in Nat, faults' >= faults, faults' <= given.sendFaults,
         Local(m, faults'),
         StartsOver(node[d], m) \/ KeepsOn(d, node[d], m)
  PROVE  Moves(d)
<1>1. node'[d] = m
  BY Reader
<1>2. Speaks(d, m)
  BY DEF Speaks
<1> QED
  BY <1>1, <1>2 DEF Moves

(* d sends a packet as ok, or fails to. *)
LEMMA SendMoves ==
  ASSUME IInv, NEW d \in Device, given' = given,
         NEW ch, Channels(ch), \A x, y \in Device : Among(ch[<<x, y>>]) \subseteq Air(x, y),
         NEW type \in PacketType \ {"Hello"}, NEW ok \in Node, NEW failed \in Node,
         Send(d, ch, type, ok, failed),
         ok.peer # NoPeer, ok.peer.device # d, ok.session > 0,
         type = "Offer" => ok.role = "Sender" /\ ok.pairingConfirmed,
         type = "Ack" => ok.peerOffer # NoOffer /\ Applied(ok),
         type = "Complete" => ok.peerAcceptedLocalOffer,
         Local(ok, faults), Local(failed, faults),
         KeepsOn(d, node[d], ok), faults' > 0 => KeepsOn(d, node[d], failed)
  PROVE  Moves(d)
<1>1. ok.peer.device \in Device /\ ok.peerAdded \in BOOLEAN
  BY DEF Node, Peer
<1>2. PacketOf(ok, type) \in Packet
  BY PacketTyped, Reader
<1>3. ok.peerAdded \/ faults > 0
  BY DEF Local
<1>4. /\ Channels(radio')
      /\ faults' \in Nat /\ faults' >= faults /\ faults' <= given.sendFaults
      /\ \/ /\ node' = [node EXCEPT ![d] = ok]
            /\ \A x, y \in Device : \A p \in Among(radio'[<<x, y>>]) :
                 p \in Air(x, y) \/ (x = d /\ y = ok.peer.device /\ p = PacketOf(ok, type))
         \/ /\ node' = [node EXCEPT ![d] = failed]
            /\ faults' > 0
            /\ \A x, y \in Device : Among(radio'[<<x, y>>]) \subseteq Air(x, y)
  BY <1>1, <1>2, <1>3, Reader, SendSpeaks
<1>5. Local(ok, faults') /\ Local(failed, faults')
  BY <1>4, LocalGrows, Reader
<1>6. CASE /\ node' = [node EXCEPT ![d] = ok]
           /\ \A x, y \in Device : \A p \in Among(radio'[<<x, y>>]) :
                p \in Air(x, y) \/ (x = d /\ y = ok.peer.device /\ p = PacketOf(ok, type))
  <2>1. node'[d] = ok
    BY <1>6, Reader
  <2>2. Sincere(d, ok, ok.peer.device, PacketOf(ok, type))
    BY DEF Sincere, PacketOf
  <2>3. Speaks(d, ok)
    BY <1>6, <2>2 DEF Speaks
  <2> QED
    BY <1>4, <1>5, <1>6, <2>1, <2>3 DEF Moves
<1>7. CASE /\ node' = [node EXCEPT ![d] = failed]
           /\ faults' > 0
           /\ \A x, y \in Device : Among(radio'[<<x, y>>]) \subseteq Air(x, y)
  BY <1>4, <1>5, <1>7, SilentMoves
<1> QED
  BY <1>4, <1>6, <1>7

LEMMA StartIsMove ==
  ASSUME IInv, NEW d \in Device, NEW role \in Role, NEW offer \in Offer \cup {NoOffer},
         Start(d, role, offer)
  PROVE  Moves(d)
<1> DEFINE m == [state |-> "Discovering", error |-> "None", role |-> role,
                 session |-> node[d].session + 1, peer |-> NoPeer, peerAdded |-> FALSE,
                 offer |-> offer, peerOffer |-> NoOffer, pairingConfirmed |-> FALSE,
                 localBindSent |-> FALSE, peerAcceptedLocalOffer |-> FALSE]
<1>1. node[d].session \in Nat /\ node[d].session + 1 \in Session
  BY Reader, Bounds DEF Start, Node, Session
<1>2. m \in Node
  BY <1>1 DEF Node, State, Error
<1>3. role = "Sender" => offer # NoOffer
  BY NearbyAssumption DEF Start
<1>4. Local(m, faults)
  BY <1>1, <1>3 DEF Local, PairedState, Applied, AppliedStates
<1>5. given' = given /\ applied' = applied
  BY DEF Start
<1>6. CASE node' = [node EXCEPT ![d] = m] /\ Broadcast(d, m) /\ faults' = faults
  <2>1. PacketOf(m, "Hello") \in Packet
    BY <1>2, PacketTyped, Reader DEF PacketType
  <2>2. /\ Channels(radio')
        /\ \A x, y \in Device : \A p \in Among(radio'[<<x, y>>]) :
             p \in Air(x, y) \/ (x = d /\ y # d /\ p = PacketOf(m, "Hello"))
    <3> HIDE DEF m
    <3> QED
      BY <1>6, <2>1, Reader, HelloFlies
  <2>3. ASSUME NEW y \in Device, y # d
        PROVE  Sincere(d, m, y, PacketOf(m, "Hello"))
    BY <2>3 DEF Sincere, PacketOf, PacketType
  <2>4. m.session > 0
    BY <1>1
  <2>5. StartsOver(node[d], m)
    BY <1>5 DEF StartsOver
  <2>6. node'[d] = m
    BY <1>6, Reader
  <2> HIDE DEF m
  <2>7. Speaks(d, m)
    BY <2>2, <2>3, <2>4 DEF Speaks
  <2>8. faults' \in Nat /\ faults' >= faults /\ faults' <= given.sendFaults
    BY <1>6, Reader
  <2>9. Local(m, faults')
    BY <1>4, <1>6
  <2> QED
    BY <1>2, <1>5, <1>6, <2>2, <2>5, <2>6, <2>7, <2>8, <2>9 DEF Moves
<1>7. CASE /\ faults < given.sendFaults /\ faults' = faults + 1
           /\ \E error \in {"RadioStart", "Protocol"} : node' = [node EXCEPT ![d] = Fail(m, error)]
           /\ radio' = radio
  <2>1. PICK error \in {"RadioStart", "Protocol"} : node' = [node EXCEPT ![d] = Fail(m, error)]
    BY <1>7
  <2>2. Fail(m, error) \in Node
    BY <1>2 DEF Fail, Node, State, Error
  <2>3. Local(Fail(m, error), faults')
    BY <1>1, <1>3 DEF Fail, Local, PairedState, Applied, AppliedStates
  <2>4. StartsOver(node[d], Fail(m, error))
    BY <1>5, <1>7, Reader DEF StartsOver, Fail
  <2>5. faults' \in Nat /\ faults' >= faults /\ faults' <= given.sendFaults
    BY <1>7, Reader
  <2>6. Channels(radio') /\ \A x, y \in Device : Among(radio'[<<x, y>>]) \subseteq Air(x, y)
    BY <1>7, Reader DEF Air
  <2> HIDE DEF m
  <2> QED
    BY <1>5, <2>1, <2>2, <2>3, <2>4, <2>5, <2>6, SilentMoves
<1> QED
  BY <1>6, <1>7 DEF Start

(* A reader that says nothing and whose exchange goes on, as m. *)
LEMMA QuietMoves ==
  ASSUME IInv, NEW d \in Device, given' = given,
         NEW ch, Channels(ch), \A x, y \in Device : Among(ch[<<x, y>>]) \subseteq Air(x, y),
         NEW m \in Node, Quietly(d, ch, m), Local(m, faults), KeepsOn(d, node[d], m)
  PROVE  Moves(d)
<1>1. node' = [node EXCEPT ![d] = m] /\ radio' = ch /\ faults' = faults
  BY DEF Quietly
<1>2. faults' \in Nat /\ faults' >= faults /\ faults' <= given.sendFaults
  BY <1>1, Reader
<1> QED
  BY <1>1, <1>2, SilentMoves

(* Nothing is new on the air as it is. *)
LEMMA AirAsItIs ==
  ASSUME IInv
  PROVE  Channels(radio) /\ \A x, y \in Device : Among(radio[<<x, y>>]) \subseteq Air(x, y)
BY DEF IInv, Air

LEMMA StopIsMove ==
  ASSUME IInv, NEW d \in Device, Stop(d)
  PROVE  Moves(d)
<1> DEFINE n == node[d]
           m == Enter(n, "Idle")
<1>1. n \in Node /\ Local(n, faults)
  BY Reader
<1>2. m \in Node
  BY <1>1 DEF Enter, Node, State
<1>3. Local(m, faults)
  BY <1>1, <1>2 DEF Enter, Node, Local, PairedState, Applied, AppliedStates
<1>4. given' = given /\ applied' = applied /\ Quietly(d, radio, m)
  BY DEF Stop
<1>5. KeepsOn(d, n, m)
  BY <1>1, <1>4 DEF KeepsOn, Enter, Node, PairedState, Applied, AppliedStates
<1> HIDE DEF m
<1> QED
  BY <1>2, <1>3, <1>4, <1>5, AirAsItIs, QuietMoves

LEMMA SaveFailsIsMove ==
  ASSUME IInv, NEW d \in Device, SaveFails(d)
  PROVE  Moves(d)
<1> DEFINE n == node[d]
           m == Enter(n, "Idle")
<1>1. n \in Node /\ Local(n, faults)
  BY Reader
<1>2. m \in Node
  BY <1>1 DEF Enter, Node, State
<1>3. Local(m, faults)
  BY <1>1, <1>2 DEF Enter, Node, Local, PairedState, Applied, AppliedStates
<1>4. given' = given /\ applied' = applied /\ Quietly(d, radio, m)
  BY DEF SaveFails
<1>5. KeepsOn(d, n, m)
  BY <1>1, <1>4 DEF KeepsOn, Enter, Node, PairedState, Applied, AppliedStates
<1> HIDE DEF m
<1> QED
  BY <1>2, <1>3, <1>4, <1>5, AirAsItIs, QuietMoves

LEMMA ConfirmIsMove ==
  ASSUME IInv, NEW d \in Device, ConfirmPairing(d)
  PROVE  Moves(d)
<1> DEFINE n == [node[d] EXCEPT !.pairingConfirmed = TRUE]
<1>1. node[d] \in Node /\ Local(node[d], faults) /\ node[d].peer.device # d
  BY Reader DEF ConfirmPairing
<1>2. n \in Node /\ node[d].state = "Pairing" /\ node[d].peer # NoPeer
  BY <1>1 DEF ConfirmPairing, Node
<1>3. given' = given /\ applied' = applied
  BY DEF ConfirmPairing
<1>4. CASE n.role = "Sender"
  <2> DEFINE ok == Enter(n, "WaitingForAck")
             failed == Fail(n, "Protocol")
  <2>1. ok \in Node /\ failed \in Node
    BY <1>1, <1>2 DEF Enter, Fail, Node, State, Error
  <2>2. /\ ok.peer # NoPeer /\ ok.peer.device # d /\ ok.session > 0
        /\ ok.role = "Sender" /\ ok.pairingConfirmed
    BY <1>1, <1>2, <1>4 DEF Enter, Node, Local
  <2>3. Local(ok, faults) /\ Local(failed, faults)
    BY <1>1, <1>2, <1>4 DEF Enter, Fail, Node, Local, PairedState, State, Applied, AppliedStates
  <2>4. KeepsOn(d, node[d], ok)
    BY <1>1, <1>2, <1>3, <1>4 DEF KeepsOn, Enter, Node, PairedState, State, Applied, AppliedStates, Local
  <2>5. faults' > 0 => KeepsOn(d, node[d], failed)
    BY <1>1, <1>2, <1>3 DEF KeepsOn, Fail, Node, PairedState, Applied, AppliedStates
  <2>6. Send(d, radio, "Offer", ok, failed)
    BY <1>2, <1>4 DEF ConfirmPairing
  <2> HIDE DEF ok, failed
  <2> QED
    BY <1>3, <2>1, <2>2, <2>3, <2>4, <2>5, <2>6, AirAsItIs, SendMoves DEF PacketType
<1>5. CASE n.role # "Sender"
  <2> DEFINE m == Enter(n, "WaitingForOffer")
  <2>1. m \in Node
    BY <1>1, <1>2 DEF Enter, Node, State
  <2>2. Local(m, faults)
    BY <1>1, <1>2, <1>5 DEF Enter, Node, Role, Local, PairedState, State, Applied, AppliedStates
  <2>3. KeepsOn(d, node[d], m)
    BY <1>1, <1>2, <1>3, <1>5 DEF KeepsOn, Enter, Node, PairedState, State, Applied, AppliedStates, Local
  <2>4. Quietly(d, radio, m)
    BY <1>2, <1>5 DEF ConfirmPairing
  <2> HIDE DEF m
  <2> QED
    BY <1>3, <2>1, <2>2, <2>3, <2>4, AirAsItIs, QuietMoves
<1> QED
  BY <1>4, <1>5

LEMMA AcknowledgeIsMove ==
  ASSUME IInv, NEW d \in Device, AcknowledgePeerOffer(d)
  PROVE  Moves(d)
<1> DEFINE n == node[d]
           m == Enter(n, "WaitingForComplete")
<1>1. n \in Node /\ Local(n, faults)
  BY Reader
<1>2. n.role = "Receiver" /\ n.state = "OfferReady" /\ n.peerOffer # NoOffer
  BY DEF AcknowledgePeerOffer
<1>3. m \in Node
  BY <1>1 DEF Enter, Node, State
<1>4. n.peer # NoPeer /\ n.peer.device # d
  BY <1>1, <1>2, Reader DEF Local
<1>5. /\ m.peer # NoPeer /\ m.peer.device # d /\ m.session > 0
      /\ m.peerOffer # NoOffer /\ Applied(m)
  BY <1>1, <1>2, <1>4 DEF Enter, Node, Local, Applied, AppliedStates
<1>6. Local(m, faults)
  BY <1>1, <1>2 DEF Enter, Node, Local, PairedState, State, Applied, AppliedStates
<1>7. /\ given' = given /\ Send(d, radio, "Ack", m, m)
      /\ applied' = applied \cup {<<d, n.peer.device, n.peer.session, n.peerOffer>>}
  BY DEF AcknowledgePeerOffer
<1>8. KeepsOn(d, n, m)
  BY <1>1, <1>2, <1>7 DEF KeepsOn, Enter, Node, PairedState, State, Local
<1> HIDE DEF m
<1> QED
  BY <1>3, <1>5, <1>6, <1>7, <1>8, AirAsItIs, SendMoves DEF PacketType

LEMMA ChangeIsMove ==
  ASSUME IInv, NEW d \in Device, ChangeOffer(d)
  PROVE  Moves(d)
<1>1. PICK offer \in Offer : node' = [node EXCEPT ![d].offer = offer]
  BY DEF ChangeOffer
<1> DEFINE n == node[d]
           m == [n EXCEPT !.offer = offer]
<1>2. n \in Node /\ Local(n, faults) /\ offer # NoOffer
  BY Reader, NearbyAssumption
<1>3. m \in Node
  BY <1>2 DEF Node
<1>4. Local(m, faults)
  BY <1>2 DEF Node, Local, Applied
<1>5. /\ given' = given /\ applied' = applied /\ radio' = radio /\ faults' = faults
      /\ d \in given.fickle /\ n.state = "WaitingForAck"
  BY DEF ChangeOffer
<1>6. KeepsOn(d, n, m)
  BY <1>2, <1>5 DEF KeepsOn, Node, PairedState, State, Applied, AppliedStates
<1>7. node' = [node EXCEPT ![d] = m]
  BY <1>1
<1> HIDE DEF m
<1>8. Quietly(d, radio, m)
  BY <1>5, <1>7 DEF Quietly
<1> QED
  BY <1>3, <1>4, <1>5, <1>6, <1>8, AirAsItIs, QuietMoves

-----------------------------------------------------------------------------
(* Timers *)

(* Any failure is one that may happen to d at any time. *)
LEMMA FailIsMove ==
  ASSUME IInv, NEW d \in Device, NEW error \in Error \ {"Protocol"},
         Quietly(d, radio, Fail(node[d], error)), UNCHANGED <<given, applied>>,
         node[d].state # "Idle"
  PROVE  Moves(d)
<1> DEFINE n == node[d]
           m == Fail(n, error)
<1>1. n \in Node /\ Local(n, faults)
  BY Reader
<1>2. m \in Node
  BY <1>1 DEF Fail, Node, State
<1>3. Local(m, faults)
  BY <1>1, <1>2 DEF Fail, Node, Local, PairedState, Applied, AppliedStates
<1>4. KeepsOn(d, n, m)
  BY <1>1 DEF KeepsOn, Fail, Node, PairedState, Applied, AppliedStates
<1>5. given' = given /\ Quietly(d, radio, m)
  OBVIOUS
<1> HIDE DEF m
<1> QED
  BY <1>2, <1>3, <1>4, <1>5, AirAsItIs, QuietMoves

LEMMA TimedOutIsMove ==
  ASSUME IInv, NEW d \in Device, TimedOut(d)
  PROVE  Moves(d)
<1>1. PICK error \in Error \ {"Protocol"} : Quietly(d, radio, Fail(node[d], error))
  BY DEF TimedOut, Error
<1>2. node[d].state # "Idle" /\ UNCHANGED <<given, applied>>
  BY DEF TimedOut
<1> QED
  BY <1>1, <1>2, FailIsMove

LEMMA OverflowIsMove ==
  ASSUME IInv, NEW d \in Device, QueueOverflows(d)
  PROVE  Moves(d)
BY FailIsMove DEF QueueOverflows, Error

(* A reader that sends again changes nothing, or that it has sent a Bind.  *)
LEMMA SameKeepsOn ==
  ASSUME NEW d, NEW n \in Node, applied' = applied
  PROVE  /\ KeepsOn(d, n, n)
         /\ KeepsOn(d, n, [n EXCEPT !.localBindSent = TRUE])
BY DEF KeepsOn, Node, Applied

LEMMA ResendHelloIsMove ==
  ASSUME IInv, NEW d \in Device, ResendHello(d)
  PROVE  Moves(d)
<1> DEFINE n == node[d]
<1>1. n \in Node /\ Local(n, faults) /\ n.state = "Discovering"
  BY Reader DEF ResendHello
<1>2. n.session > 0
  BY <1>1 DEF Local
<1>3. UNCHANGED <<given, node, faults, applied>> /\ Broadcast(d, n)
  BY DEF ResendHello
<1>4. PacketOf(n, "Hello") \in Packet
  BY <1>1, PacketTyped, Reader DEF PacketType
<1>5. KeepsOn(d, n, n)
  BY <1>1, <1>3, SameKeepsOn
<1>6. node'[d] = n /\ node' = [node EXCEPT ![d] = n]
  BY <1>3, Reader
<1>7. faults' \in Nat /\ faults' >= faults /\ faults' <= given.sendFaults
  BY <1>3, Reader
<1>8. ASSUME NEW y \in Device, y # d
      PROVE  Sincere(d, n, y, PacketOf(n, "Hello"))
  BY <1>8 DEF Sincere, PacketOf, PacketType
<1> HIDE DEF n
<1>9. /\ Channels(radio')
      /\ \A x, y \in Device : \A p \in Among(radio'[<<x, y>>]) :
           p \in Air(x, y) \/ (x = d /\ y # d /\ p = PacketOf(n, "Hello"))
  BY <1>3, <1>4, Reader, HelloFlies
<1>10. Speaks(d, n)
  BY <1>2, <1>8, <1>9 DEF Speaks
<1>11. Local(n, faults')
  BY <1>1, <1>3
<1>12. KeepsOn(d, node[d], n)
  BY <1>5 DEF n
<1> QED
  BY <1>1, <1>3, <1>6, <1>7, <1>9, <1>10, <1>11, <1>12 DEF Moves

LEMMA ResendIsMove ==
  ASSUME IInv, NEW d \in Device, NEW type \in PacketType \ {"Hello"},
         Resend(d, type), node[d].state # "Idle",
         type = "Offer" => node[d].role = "Sender" /\ node[d].pairingConfirmed,
         type = "Ack" => node[d].peerOffer # NoOffer /\ Applied(node[d]),
         type = "Complete" => node[d].peerAcceptedLocalOffer
  PROVE  Moves(d)
<1> DEFINE n == node[d]
           m == IF type = "Bind" THEN [n EXCEPT !.localBindSent = TRUE] ELSE n
<1>1. n \in Node /\ Local(n, faults) /\ n.peer # NoPeer /\ n.peer.device # d
  BY Reader DEF Resend
<1>2. m \in Node
  BY <1>1 DEF Node
<1>3. Local(m, faults)
  BY <1>1 DEF Node, Local, Applied
<1>4. /\ m.peer = n.peer /\ m.session = n.session /\ m.session > 0
      /\ type = "Offer" => m.role = "Sender" /\ m.pairingConfirmed
      /\ type = "Ack" => m.peerOffer # NoOffer /\ Applied(m)
      /\ type = "Complete" => m.peerAcceptedLocalOffer
  BY <1>1 DEF Node, Local, Applied
<1>5. given' = given /\ applied' = applied /\ Send(d, radio, type, m, n)
  BY DEF Resend
<1>6. KeepsOn(d, n, n) /\ KeepsOn(d, n, m)
  BY <1>1, <1>5, SameKeepsOn
<1> HIDE DEF m
<1> QED
  BY <1>1, <1>2, <1>3, <1>4, <1>5, <1>6, AirAsItIs, SendMoves

LEMMA TimersAreMoves ==
  ASSUME IInv, NEW d \in Device,
         ResendBind(d) \/ ResendOffer(d) \/ ResendAck(d) \/ ResendComplete(d)
  PROVE  Moves(d)
<1>1. node[d] \in Node /\ Local(node[d], faults)
  BY Reader
<1>2. CASE ResendBind(d)
  BY <1>2, ResendIsMove DEF ResendBind, BindStates, PacketType
<1>3. CASE ResendOffer(d)
  <2>1. node[d].role = "Sender" /\ node[d].pairingConfirmed /\ node[d].state = "WaitingForAck"
    BY <1>1, <1>3 DEF ResendOffer, Local, PairedState, State
  <2> QED
    BY <1>3, <2>1, ResendIsMove DEF ResendOffer, PacketType
<1>4. CASE ResendAck(d)
  <2>1. /\ node[d].peerOffer # NoOffer /\ Applied(node[d])
        /\ node[d].state = "WaitingForComplete"
    BY <1>1, <1>4 DEF ResendAck, Local, Applied, AppliedStates
  <2> QED
    BY <1>4, <2>1, ResendIsMove DEF ResendAck, PacketType
<1>5. CASE ResendComplete(d)
  <2>1. node[d].peerAcceptedLocalOffer /\ node[d].state = "Accepted"
    BY <1>1, <1>5 DEF ResendComplete, Local
  <2> QED
    BY <1>5, <2>1, ResendIsMove DEF ResendComplete, PacketType
<1> QED
  BY <1>2, <1>3, <1>4, <1>5

-----------------------------------------------------------------------------
(* Packets that arrive *)

LEMMA Arrival ==
  ASSUME IInv, NEW d \in Device, NEW e \in Device, NEW i \in 1..Len(radio[<<e, d>>]),
         NEW p, p = radio[<<e, d>>][i]
  PROVE  /\ Channels(Consumed(e, d, i))
         /\ \A x, y \in Device : Among(Consumed(e, d, i)[<<x, y>>]) \subseteq Air(x, y)
         /\ p \in Air(e, d) /\ p \in Packet /\ e # d
         /\ PeerOf(e, p) \in Peer /\ PeerOf(e, p) # NoPeer /\ PeerOf(e, p).device = e
<1>1. /\ Channels(Consumed(e, d, i))
      /\ \A x, y \in Device : Among(Consumed(e, d, i)[<<x, y>>]) \subseteq Air(x, y)
      /\ p \in Air(e, d) /\ p \in Packet
  BY Reader, PacketConsumed
<1>2. e # d
  BY <1>1 DEF IInv, Testimony
<1>3. PeerOf(e, p) \in Peer /\ PeerOf(e, p).device = e
  BY <1>1 DEF PeerOf, Peer, Packet
<1>4. Session \subseteq Nat
  BY Reader, Bounds DEF Session
<1>5. PeerOf(e, p) # NoPeer
  BY <1>3, <1>4, NearbyAssumption DEF Peer, Role
<1> QED
  BY <1>1, <1>2, <1>3, <1>5

(* p from e is one that d may bind to its sender for, or has.              *)
Introduces(d, e, p) ==
  /\ p \in Air(e, d) /\ p \in Packet /\ e # d
  /\ PeerOf(e, p) \in Peer /\ PeerOf(e, p) # NoPeer /\ PeerOf(e, p).device = e
  /\ Hears(node[d], p)
  /\ node[d].peer = NoPeer \/ Matches(node[d], e, p)

(* m is the exchange of d, bound to the sender of p. *)
BoundTo(d, e, p, m, failures) ==
  /\ m \in Node /\ m.peer = PeerOf(e, p) /\ m.peer # NoPeer /\ m.peer.device # d
  /\ m.session > 0 /\ m.state = node[d].state /\ m.error # "Protocol"
  /\ Local(m, failures) /\ KeepsOn(d, node[d], m)

LEMMA BoundIs ==
  ASSUME IInv, NEW d \in Device, NEW e \in Device, NEW p, Introduces(d, e, p),
         applied' = applied, NEW added \in BOOLEAN,
         NEW f \in Nat, f >= faults, added \/ f > 0
  PROVE  BoundTo(d, e, p, Bound(node[d], e, p, added), f)
<1> DEFINE n == node[d]
           m == Bound(n, e, p, added)
<1>1. n \in Node /\ Local(n, faults) /\ faults \in Nat
  BY Reader
<1>2. /\ n.state \notin {"Idle", "Error"} /\ p.role # n.role /\ p \in Air(e, d)
      /\ PeerOf(e, p) \in Peer /\ PeerOf(e, p) # NoPeer /\ PeerOf(e, p).device # d
      /\ n.peer = NoPeer \/ n.peer = PeerOf(e, p)
  BY DEF Hears, Introduces, Matches
<1>3. m \in Node
  BY <1>1, <1>2 DEF Bound, Node
<1>4. m.peer = PeerOf(e, p)
  BY <1>1, <1>2 DEF Bound, Node
<1>5. /\ m.session = n.session /\ m.state = n.state /\ m.error = n.error
      /\ m.role = n.role /\ m.offer = n.offer /\ m.peerOffer = n.peerOffer
      /\ m.pairingConfirmed = n.pairingConfirmed
      /\ m.peerAcceptedLocalOffer = n.peerAcceptedLocalOffer
      /\ m.peerAdded \/ ~added \/ (n.peer # NoPeer /\ m.peerAdded = n.peerAdded)
      /\ ~added /\ n.peer # NoPeer => m.peerAdded = n.peerAdded
  BY <1>1 DEF Bound, Node
<1>6. m.session > 0 /\ m.error # "Protocol"
  BY <1>1, <1>2, <1>5 DEF Local
<1>7. m.peerAdded \/ f > 0
  BY <1>1, <1>5 DEF Local
<1>8. Local(m, f)
  BY <1>1, <1>2, <1>4, <1>5, <1>6, <1>7 DEF Local, Applied
<1>9. KeepsOn(d, n, m)
  BY <1>2, <1>4, <1>5, <1>6 DEF KeepsOn, Applied
<1> QED
  BY <1>2, <1>3, <1>4, <1>5, <1>6, <1>8, <1>9 DEF BoundTo

LEMMA AddPeerFailsIsMove ==
  ASSUME IInv, NEW d \in Device, NEW e \in Device, NEW p, Introduces(d, e, p),
         given' = given, applied' = applied,
         NEW ch, Channels(ch), \A x, y \in Device : Among(ch[<<x, y>>]) \subseteq Air(x, y),
         AddPeerFails(d, ch, e, p)
  PROVE  Moves(d)
<1> DEFINE m == Bound(node[d], e, p, FALSE)
<1>1. /\ node' = [node EXCEPT ![d] = m] /\ radio' = ch /\ faults' = faults + 1
      /\ node[d].peer = NoPeer /\ faults < given.sendFaults
  BY DEF AddPeerFails
<1>2. faults' \in Nat /\ faults' >= faults /\ faults' <= given.sendFaults /\ faults' > 0
  BY <1>1, Reader
<1>3. BoundTo(d, e, p, m, faults')
  BY <1>2, BoundIs
<1> HIDE DEF m
<1>4. m \in Node /\ Local(m, faults') /\ KeepsOn(d, node[d], m)
  BY <1>3 DEF BoundTo
<1> QED
  BY <1>1, <1>2, <1>4, SilentMoves

LEMMA HelloIsMove ==
  ASSUME IInv, NEW d \in Device, NEW e \in Device, NEW i \in 1..Len(radio[<<e, d>>]),
         ReceiveHello(d, e, i)
  PROVE  Moves(d)
<1> DEFINE p == radio[<<e, d>>][i]
           n == node[d]
           ch == Consumed(e, d, i)
           m == Bound(n, e, p, TRUE)
           ok == [m EXCEPT !.localBindSent = TRUE]
           failed == Fail(m, "Protocol")
<1>1. /\ given' = given /\ applied' = applied
      /\ Hears(n, p) /\ (n.peer = NoPeer \/ Matches(n, e, p))
      /\ \/ AddPeerFails(d, ch, e, p)
         \/ m.state = "Discovering" /\ Send(d, ch, "Bind", ok, failed)
         \/ m.state # "Discovering" /\ Quietly(d, ch, m)
  BY DEF ReceiveHello
<1>2. /\ Channels(ch) /\ \A x, y \in Device : Among(ch[<<x, y>>]) \subseteq Air(x, y)
      /\ p \in Air(e, d) /\ p \in Packet /\ e # d
      /\ PeerOf(e, p) \in Peer /\ PeerOf(e, p) # NoPeer /\ PeerOf(e, p).device = e
  BY Arrival
<1>3. Introduces(d, e, p)
  BY <1>1, <1>2 DEF Introduces
<1> HIDE DEF p, ch
<1>4. CASE AddPeerFails(d, ch, e, p)
  BY <1>1, <1>2, <1>3, <1>4, AddPeerFailsIsMove
<1>5. BoundTo(d, e, p, m, faults)
  <2>1. TRUE \in BOOLEAN /\ faults \in Nat /\ faults >= faults
    BY Reader
  <2> QED
    BY <1>1, <1>3, <2>1, BoundIs, Zenon
<1> HIDE DEF m
<1>6. /\ m \in Node /\ m.peer # NoPeer /\ m.peer.device # d /\ m.session > 0
      /\ Local(m, faults) /\ KeepsOn(d, n, m) /\ m.error # "Protocol"
  BY <1>5 DEF BoundTo
<1>7. CASE m.state = "Discovering" /\ Send(d, ch, "Bind", ok, failed)
  <2>1. ok \in Node /\ failed \in Node
    BY <1>6 DEF Fail, Node, State, Error
  <2>2. ok.peer # NoPeer /\ ok.peer.device # d /\ ok.session > 0
    BY <1>6 DEF Node
  <2>3. Local(ok, faults) /\ Local(failed, faults)
    BY <1>6 DEF Fail, Node, Local, PairedState, Applied, AppliedStates
  <2>4. KeepsOn(d, n, ok)
    BY <1>6 DEF KeepsOn, Node, Applied
  <2>5. faults' > 0 => KeepsOn(d, n, failed)
    BY <1>6 DEF KeepsOn, Fail, Node, PairedState, Applied, AppliedStates
  <2>6. "Bind" \in PacketType \ {"Hello"}
    BY DEF PacketType
  <2> HIDE DEF ok, failed
  <2> QED
    BY <1>1, <1>2, <1>7, <2>1, <2>2, <2>3, <2>4, <2>5, <2>6, SendMoves
<1>8. CASE m.state # "Discovering" /\ Quietly(d, ch, m)
  BY <1>1, <1>2, <1>6, <1>8, QuietMoves
<1> QED
  BY <1>1, <1>4, <1>7, <1>8

(* A Bind to this very exchange pairs it with the one it comes from.       *)
LEMMA PairedKeepsOn ==
  ASSUME NEW d \in Device, NEW e \in Device, NEW p \in Air(e, d), p.type = "Bind",
         NEW n \in Node, p.target = n.session,
         NEW m \in Node, m.peer = PeerOf(e, p), m.peer # NoPeer, m.state = n.state,
         m.error # "Protocol", Local(m, faults), KeepsOn(d, n, m)
  PROVE  /\ Paired(m) \in Node /\ Local(Paired(m), faults) /\ KeepsOn(d, n, Paired(m))
         /\ Paired(m).peer = m.peer /\ Paired(m).session = m.session
<1>1. Paired(m) \in Node /\ Paired(m).peer = m.peer /\ Paired(m).session = m.session
  BY DEF Paired, Enter, Node, State
<1>2. Local(Paired(m), faults)
  BY DEF Paired, Enter, Node, Local, PairedState, Applied, AppliedStates
<1>3. KeepsOn(d, n, Paired(m))
  BY DEF Paired, Enter, Node, KeepsOn, PairedState, Applied, AppliedStates
<1> QED
  BY <1>1, <1>2, <1>3

LEMMA BindIsMove ==
  ASSUME IInv, NEW d \in Device, NEW e \in Device, NEW i \in 1..Len(radio[<<e, d>>]),
         ReceiveBind(d, e, i)
  PROVE  Moves(d)
<1> DEFINE p == radio[<<e, d>>][i]
           n == node[d]
           ch == Consumed(e, d, i)
           m == Bound(n, e, p, TRUE)
           sent == [m EXCEPT !.localBindSent = TRUE]
           failed == Fail(m, "Protocol")
<1>1. /\ p.type = "Bind" /\ Hears(n, p) /\ p.target = n.session
      /\ given' = given /\ applied' = applied
      /\ n.peer = NoPeer \/ Matches(n, e, p)
      /\ \/ AddPeerFails(d, ch, e, p)
         \/ Quietly(d, ch, Paired(m))
         \/ Send(d, ch, "Bind", Paired(sent), failed)
  BY DEF ReceiveBind, Addressed
<1>2. /\ Channels(ch) /\ \A x, y \in Device : Among(ch[<<x, y>>]) \subseteq Air(x, y)
      /\ p \in Air(e, d) /\ p \in Packet /\ e # d
      /\ PeerOf(e, p) \in Peer /\ PeerOf(e, p) # NoPeer /\ PeerOf(e, p).device = e
  BY Arrival
<1>3. Introduces(d, e, p)
  BY <1>1, <1>2 DEF Introduces
<1> HIDE DEF p, ch
<1>4. CASE AddPeerFails(d, ch, e, p)
  BY <1>1, <1>2, <1>3, <1>4, AddPeerFailsIsMove
<1>5. BoundTo(d, e, p, m, faults)
  <2>1. TRUE \in BOOLEAN /\ faults \in Nat /\ faults >= faults
    BY Reader
  <2> QED
    BY <1>1, <1>3, <2>1, BoundIs, Zenon
<1>6. n \in Node
  BY Reader
<1> HIDE DEF m
<1>7. /\ m \in Node /\ m.peer = PeerOf(e, p) /\ m.peer # NoPeer /\ m.peer.device # d
      /\ m.session > 0 /\ m.state = n.state
      /\ Local(m, faults) /\ KeepsOn(d, n, m) /\ m.error # "Protocol"
  BY <1>5 DEF BoundTo
<1> HIDE DEF n
<1>8. /\ sent \in Node /\ sent.peer = m.peer /\ sent.session = m.session
      /\ sent.state = m.state /\ sent.error = m.error
      /\ Local(sent, faults) /\ KeepsOn(d, n, sent)
  <2>1. /\ sent \in Node /\ sent.peer = m.peer /\ sent.session = m.session
        /\ sent.state = m.state /\ sent.error = m.error
    BY <1>7 DEF Node
  <2>2. Local(sent, faults)
    BY <1>7 DEF Node, Local, Applied
  <2>3. KeepsOn(d, n, sent)
    BY <1>7 DEF Node, KeepsOn, Applied
  <2> QED
    BY <2>1, <2>2, <2>3
<1>9. CASE Quietly(d, ch, Paired(m))
  <2>1. Paired(m) \in Node /\ Local(Paired(m), faults) /\ KeepsOn(d, n, Paired(m))
    BY <1>1, <1>2, <1>6, <1>7, PairedKeepsOn
  <2> QED
    BY <1>1, <1>2, <1>9, <2>1, QuietMoves DEF n
<1>10. CASE Send(d, ch, "Bind", Paired(sent), failed)
  <2> HIDE DEF sent
  <2>1. /\ Paired(sent) \in Node /\ Local(Paired(sent), faults) /\ KeepsOn(d, n, Paired(sent))
        /\ Paired(sent).peer = m.peer /\ Paired(sent).session = m.session
    BY <1>1, <1>2, <1>6, <1>7, <1>8, PairedKeepsOn
  <2>2. failed \in Node /\ Local(failed, faults)
    BY <1>7 DEF Fail, Node, State, Error, Local, PairedState, Applied, AppliedStates
  <2>3. faults' > 0 => KeepsOn(d, n, failed)
    BY <1>7 DEF KeepsOn, Fail, Node, PairedState, Applied, AppliedStates
  <2>4. "Bind" \in PacketType \ {"Hello"}
    BY DEF PacketType
  <2> HIDE DEF failed
  <2> QED
    BY <1>1, <1>2, <1>7, <1>10, <2>1, <2>2, <2>3, <2>4, SendMoves DEF n
<1> QED
  BY <1>1, <1>4, <1>9, <1>10

LEMMA OfferIsMove ==
  ASSUME IInv, NEW d \in Device, NEW e \in Device, NEW i \in 1..Len(radio[<<e, d>>]),
         ReceiveOffer(d, e, i)
  PROVE  Moves(d)
<1> DEFINE p == radio[<<e, d>>][i]
           n == node[d]
           ch == Consumed(e, d, i)
           m == [n EXCEPT !.peerOffer = p.offer,
                          !.state = IF @ = "WaitingForOffer" THEN "OfferReady" ELSE @]
           failed == Fail(n, "Protocol")
<1>1. /\ given' = given /\ applied' = applied
      /\ p.type = "Offer" /\ n.role = "Receiver" /\ n.state \in OfferStates
      /\ n.peer = PeerOf(e, p)
      /\ \/ n.peerOffer \notin {NoOffer, p.offer} /\ Quietly(d, ch, failed)
         \/ /\ n.peerOffer \in {NoOffer, p.offer} /\ n.state \in AppliedStates
            /\ Send(d, ch, "Ack", m, m)
         \/ n.peerOffer \in {NoOffer, p.offer} /\ Quietly(d, ch, m)
  BY DEF ReceiveOffer, Matches, SameOffer
<1>2. /\ Channels(ch) /\ \A x, y \in Device : Among(ch[<<x, y>>]) \subseteq Air(x, y)
      /\ p \in Air(e, d) /\ p \in Packet /\ e # d
      /\ PeerOf(e, p) \in Peer /\ PeerOf(e, p) # NoPeer /\ PeerOf(e, p).device = e
  BY Arrival
<1>3. n \in Node /\ Local(n, faults)
  BY Reader
<1>4. p.offer # NoOffer /\ p.offer \in Offer
  BY <1>1, <1>2 DEF IInv, Testimony, Packet
<1>5. n.peer # NoPeer /\ n.peer.device # d /\ n.session > 0 /\ n.pairingConfirmed
  BY <1>1, <1>2, <1>3 DEF Local, OfferStates, PairedState, State
<1> HIDE DEF p, ch, n
<1>6. CASE n.peerOffer \notin {NoOffer, p.offer} /\ Quietly(d, ch, failed)
  <2>1. failed \in Node
    BY <1>3 DEF Fail, Node, State, Error
  <2>2. Local(failed, faults)
    BY <1>3, <1>5 DEF Fail, Node, Local, PairedState, Applied, AppliedStates
  <2>3. /\ failed.session = n.session /\ failed.role = n.role /\ failed.peer = n.peer
        /\ failed.pairingConfirmed = n.pairingConfirmed
        /\ failed.peerAcceptedLocalOffer = n.peerAcceptedLocalOffer
        /\ failed.offer = n.offer /\ failed.peerOffer = n.peerOffer
        /\ failed.state = "Error"
    BY <1>3 DEF Fail, Node
  <2> HIDE DEF failed
  <2>4. /\ n.peerOffer # NoOffer /\ n.peer # NoPeer
        /\ \E x \in Device : \E q \in Air(x, d) :
             q.type = "Offer" /\ n.peer = PeerOf(x, q) /\ q.offer # n.peerOffer
    BY <1>1, <1>2, <1>5, <1>6
  <2>5. KeepsOn(d, n, failed)
    BY <1>1, <2>3, <2>4 DEF KeepsOn, PairedState, Applied, AppliedStates
  <2> QED
    BY <1>1, <1>2, <1>6, <2>1, <2>2, <2>5, QuietMoves DEF n
<1>7. CASE n.peerOffer \in {NoOffer, p.offer}
  <2>1. /\ m \in Node
        /\ m.session = n.session /\ m.role = n.role /\ m.peer = n.peer /\ m.error = n.error
        /\ m.peerAdded = n.peerAdded
        /\ m.pairingConfirmed = n.pairingConfirmed
        /\ m.peerAcceptedLocalOffer = n.peerAcceptedLocalOffer
        /\ m.offer = n.offer /\ m.peerOffer = p.offer
        /\ m.state = IF n.state = "WaitingForOffer" THEN "OfferReady" ELSE n.state
    BY <1>3, <1>4 DEF Node, State
  <2> HIDE DEF m
  <2>2. Local(m, faults)
    BY <1>1, <1>3, <1>4, <1>5, <2>1
       DEF Local, PairedState, State, Applied, AppliedStates, OfferStates
  <2>3. n.error # "Protocol"
    BY <1>1, <1>3 DEF Local, OfferStates
  <2>4. Applied(m) => Applied(n)
    BY <2>1 DEF Applied, AppliedStates
  <2>5. KeepsOn(d, n, m)
    BY <1>1, <1>2, <1>7, <2>1, <2>3, <2>4 DEF KeepsOn, PairedState, State, OfferStates
  <2>6. CASE Quietly(d, ch, m)
    BY <1>1, <1>2, <2>1, <2>2, <2>5, <2>6, QuietMoves DEF n
  <2>7. CASE n.state \in AppliedStates /\ Send(d, ch, "Ack", m, m)
    <3>1. m.peerOffer # NoOffer /\ Applied(m)
      BY <1>1, <1>4, <2>1, <2>7 DEF Applied, AppliedStates
    <3>2. "Ack" \in PacketType \ {"Hello"}
      BY DEF PacketType
    <3>3. m.peer # NoPeer /\ m.peer.device # d /\ m.session > 0
      BY <1>5, <2>1
    <3> QED
      BY <1>1, <1>2, <2>1, <2>2, <2>5, <2>7, <3>1, <3>2, <3>3, SendMoves DEF n
  <2> QED
    BY <1>1, <1>7, <2>6, <2>7
<1> QED
  BY <1>1, <1>6, <1>7

LEMMA AckIsMove ==
  ASSUME IInv, NEW d \in Device, NEW e \in Device, NEW i \in 1..Len(radio[<<e, d>>]),
         ReceiveAck(d, e, i)
  PROVE  Moves(d)
<1> DEFINE p == radio[<<e, d>>][i]
           n == node[d]
           ch == Consumed(e, d, i)
           m == [n EXCEPT !.peerAcceptedLocalOffer = TRUE, !.state = "Accepted"]
<1>1. /\ given' = given /\ applied' = applied
      /\ p.type = "Ack" /\ n.role = "Sender" /\ n.state \in {"WaitingForAck", "Accepted"}
      /\ p.target = n.session /\ n.peer = PeerOf(e, p)
      /\ Send(d, ch, "Complete", m, m)
  BY DEF ReceiveAck, Matches, Addressed
<1>2. /\ Channels(ch) /\ \A x, y \in Device : Among(ch[<<x, y>>]) \subseteq Air(x, y)
      /\ p \in Air(e, d) /\ p \in Packet /\ e # d
      /\ PeerOf(e, p) \in Peer /\ PeerOf(e, p) # NoPeer /\ PeerOf(e, p).device = e
  BY Arrival
<1>3. n \in Node /\ Local(n, faults)
  BY Reader
<1>4. n.peer # NoPeer /\ n.peer.device # d /\ n.session > 0 /\ n.pairingConfirmed
  BY <1>1, <1>2, <1>3 DEF Local, PairedState, State
<1> HIDE DEF p, ch, n
<1>5. /\ m \in Node
      /\ m.session = n.session /\ m.role = n.role /\ m.peer = n.peer /\ m.error = n.error
      /\ m.peerAdded = n.peerAdded
      /\ m.pairingConfirmed = n.pairingConfirmed
      /\ m.peerAcceptedLocalOffer
      /\ m.offer = n.offer /\ m.peerOffer = n.peerOffer
      /\ m.state = "Accepted"
  BY <1>3 DEF Node, State
<1> HIDE DEF m
<1>6. Local(m, faults)
  BY <1>1, <1>3, <1>4, <1>5 DEF Local, PairedState, State, Applied, AppliedStates
<1>7. n.error # "Protocol"
  BY <1>1, <1>3 DEF Local
<1>8. KeepsOn(d, n, m)
  BY <1>1, <1>2, <1>5, <1>7 DEF KeepsOn, PairedState, State, Applied
<1>9. "Complete" \in PacketType \ {"Hello"}
  BY DEF PacketType
<1> QED
  BY <1>1, <1>2, <1>4, <1>5, <1>6, <1>8, <1>9, SendMoves DEF n

LEMMA CompleteIsMove ==
  ASSUME IInv, NEW d \in Device, NEW e \in Device, NEW i \in 1..Len(radio[<<e, d>>]),
         ReceiveComplete(d, e, i)
  PROVE  Moves(d)
<1> DEFINE p == radio[<<e, d>>][i]
           n == node[d]
           ch == Consumed(e, d, i)
           m == Enter(n, "Accepted")
<1>1. /\ given' = given /\ applied' = applied
      /\ p.type = "Complete" /\ n.role = "Receiver"
      /\ n.state \in {"WaitingForComplete", "Accepted"}
      /\ p.target = n.session /\ n.peer = PeerOf(e, p)
      /\ Quietly(d, ch, m)
  BY DEF ReceiveComplete, Matches, Addressed
<1>2. /\ Channels(ch) /\ \A x, y \in Device : Among(ch[<<x, y>>]) \subseteq Air(x, y)
      /\ p \in Air(e, d) /\ p \in Packet /\ e # d
      /\ PeerOf(e, p) \in Peer /\ PeerOf(e, p) # NoPeer /\ PeerOf(e, p).device = e
  BY Arrival
<1>3. n \in Node /\ Local(n, faults)
  BY Reader
<1> HIDE DEF p, ch, n
<1>4. /\ m \in Node
      /\ m.session = n.session /\ m.role = n.role /\ m.peer = n.peer /\ m.error = n.error
      /\ m.peerAdded = n.peerAdded
      /\ m.pairingConfirmed = n.pairingConfirmed
      /\ m.peerAcceptedLocalOffer = n.peerAcceptedLocalOffer
      /\ m.offer = n.offer /\ m.peerOffer = n.peerOffer
      /\ m.state = "Accepted"
  BY <1>3 DEF Enter, Node, State
<1> HIDE DEF m
<1>5. Local(m, faults)
  BY <1>1, <1>3, <1>4 DEF Local, PairedState, State, Applied, AppliedStates
<1>6. n.error # "Protocol"
  BY <1>1, <1>3 DEF Local
<1>7. KeepsOn(d, n, m)
  BY <1>1, <1>2, <1>4, <1>6 DEF KeepsOn, PairedState, State, Applied, AppliedStates
<1> QED
  BY <1>1, <1>2, <1>4, <1>5, <1>7, QuietMoves DEF n

LEMMA LoseIsMove ==
  ASSUME IInv, NEW d \in Device, NEW e \in Device, Lose(e, d)
  PROVE  Moves(d)
<1>1. UNCHANGED <<given, node, faults, applied>>
  BY DEF Lose
<1>2. Channels(radio') /\ \A x, y \in Device : Among(radio'[<<x, y>>]) \subseteq Air(x, y)
  BY Reader, PacketLost
<1>3. node[d] \in Node /\ node' = [node EXCEPT ![d] = node[d]] /\ Local(node[d], faults')
  BY <1>1, Reader
<1>4. faults' \in Nat /\ faults' >= faults /\ faults' <= given.sendFaults
  BY <1>1, Reader
<1>5. KeepsOn(d, node[d], node[d])
  BY <1>1, <1>3, SameKeepsOn
<1> QED
  BY <1>1, <1>2, <1>3, <1>4, <1>5, SilentMoves

LEMMA StepsAreMoves ==
  ASSUME IInv, [Next]_vars
  PROVE  UNCHANGED vars \/ \E d \in Device : Moves(d)
<1>1. ASSUME NEW d \in Device, User(d)
      PROVE  Moves(d)
  BY <1>1, StartIsMove, StopIsMove, ConfirmIsMove, AcknowledgeIsMove, SaveFailsIsMove, ChangeIsMove
     DEF User
<1>2. ASSUME NEW d \in Device, NEW e \in Device, Receive(d, e)
      PROVE  Moves(d)
  BY <1>2, HelloIsMove, BindIsMove, OfferIsMove, AckIsMove, CompleteIsMove DEF Receive
<1>3. ASSUME NEW d \in Device, Update(d)
      PROVE  Moves(d)
  BY <1>2, <1>3, TimedOutIsMove, OverflowIsMove, ResendHelloIsMove, TimersAreMoves DEF Update
<1> QED
  BY <1>1, <1>3, LoseIsMove DEF Next

-----------------------------------------------------------------------------
(* What a Moves leaves true *)

(* The exchange of d before and after, and those of the others.            *)
LEMMA Moved ==
  ASSUME IInv, NEW d \in Device, Moves(d)
  PROVE  /\ \A x \in Device : x # d => node'[x] = node[x]
         /\ node'[d] \in Node /\ node[d].session \in Nat /\ node'[d].session \in Nat
         /\ node'[d].session = node[d].session \/ node'[d].session = node[d].session + 1
         /\ node'[d].session = node[d].session => KeepsOn(d, node[d], node'[d])
         /\ node'[d].peer # NoPeer => node'[d].session = node[d].session
         /\ applied \subseteq applied'
         /\ given' = given /\ given \in Circumstances
         /\ Session \subseteq Nat
<1>1. given \in Circumstances /\ given' = given
  BY Reader DEF Moves
<1>2. Session \subseteq Nat
  BY <1>1, Bounds DEF Session
<1>3. node \in [Device -> Node] /\ node'[d] \in Node
  BY Reader DEF Moves
<1>4. node[d].session \in Nat /\ node'[d].session \in Nat
  BY <1>2, <1>3 DEF Node
<1>5. node' = [node EXCEPT ![d] = node'[d]]
  BY DEF Moves
<1>6. \A x \in Device : x # d => node'[x] = node[x]
  BY <1>3, <1>5
<1>7. StartsOver(node[d], node'[d]) \/ KeepsOn(d, node[d], node'[d])
  BY DEF Moves
<1>8. /\ node'[d].session = node[d].session \/ node'[d].session = node[d].session + 1
      /\ node'[d].session = node[d].session => KeepsOn(d, node[d], node'[d])
      /\ node'[d].peer # NoPeer => node'[d].session = node[d].session
  BY <1>4, <1>7 DEF StartsOver, KeepsOn
<1>9. applied \subseteq applied'
  BY <1>7 DEF StartsOver, KeepsOn
<1> QED
  BY <1>1, <1>2, <1>3, <1>4, <1>6, <1>8, <1>9

(* Who was bound to d and still has its current session saw it go on.      *)
LEMMA StillCurrent ==
  ASSUME IInv, NEW d \in Device, Moves(d), NEW x \in Device, x # d,
         node[x].peer # NoPeer,
         node[x].peer.session = node'[node[x].peer.device].session
  PROVE  /\ node[x].peer.session = node[node[x].peer.device].session
         /\ node[x].peer.device = d => KeepsOn(d, node[d], node'[d])
         /\ node[x].peer.device # d =>
              node'[node[x].peer.device] = node[node[x].peer.device]
<1>1. /\ node[x].peer.device \in Device
      /\ node[x].peer.session <= node[node[x].peer.device].session
      /\ node[x].peer.session \in Nat
  BY Reader, Moved DEF IInv, Knowledge, PeerNode, Peer
<1>2. CASE node[x].peer.device = d
  <2>1. node'[d].session = node[d].session
    BY <1>1, <1>2, Moved
  <2> QED
    BY <1>2, <2>1, Moved
<1>3. CASE node[x].peer.device # d
  BY <1>1, <1>3, Moved
<1> QED
  BY <1>2, <1>3

LEMMA TypesKept ==
  ASSUME IInv, NEW d \in Device, Moves(d)
  PROVE  Types' /\ Channels(radio)' /\ \A x \in Device : Local(node[x], faults)'
<1>1. Node' = Node /\ Packet' = Packet /\ Session' = Session /\ given' = given
  BY SameTypes DEF Moves
<1>2. node' \in [Device -> Node] /\ node[d] \in Node
  BY Reader, Moved DEF Moves
<1>3. Channels(radio)'
  BY <1>1 DEF Moves, Channels
<1>4. \A pair \in Device \X Device :
        Len(radio'[pair]) <= given'.flight /\ \A i \in 1..Len(radio'[pair]) : radio'[pair][i] \in Packet'
  BY <1>3 DEF Channels
<1>5. faults' \in 0..given'.sendFaults
  BY <1>1 DEF Moves
<1>6. applied' \subseteq Device \X Device \X Session \X Offer
  <2>1. applied \subseteq Device \X Device \X Session \X Offer
    BY DEF IInv, Types
  <2>2. CASE applied' = applied
    BY <2>1, <2>2
  <2>3. CASE applied' # applied
    <3>1. /\ node[d].peerOffer # NoOffer
          /\ applied' \subseteq applied \cup
               {<<d, node[d].peer.device, node[d].peer.session, node[d].peerOffer>>}
      BY <2>3 DEF Moves, StartsOver, KeepsOn
    <3>2. node[d].peer # NoPeer
      BY <3>1, Reader DEF Local
    <3>3. /\ node[d].peer.device \in Device /\ node[d].peer.session \in Session
          /\ node[d].peerOffer \in Offer
      BY <1>2, <3>1, <3>2, Reader DEF Peer, Node
    <3> QED
      BY <2>1, <3>1, <3>3
  <2> QED
    BY <2>2, <2>3
<1>7. Types'
  BY <1>1, <1>2, <1>4, <1>5, <1>6, Moved DEF Types
<1>8. ASSUME NEW x \in Device
      PROVE  Local(node'[x], faults')
  <2>1. faults \in Nat /\ faults' \in Nat /\ faults <= faults'
    BY Reader DEF Moves
  <2>2. CASE x = d
    BY <2>2 DEF Moves
  <2>3. CASE x # d
    BY <2>1, <2>3, Moved, LocalGrows, Reader
  <2> QED
    BY <2>2, <2>3
<1> QED
  BY <1>3, <1>7, <1>8

LEMMA HonestyKept ==
  ASSUME IInv, NEW d \in Device, Moves(d)
  PROVE  AckIsHonest'
<1> SUFFICES ASSUME NEW x \in Device, Applied(node'[x])
             PROVE  <<x, node'[x].peer.device, node'[x].peer.session, node'[x].peerOffer>> \in applied'
  BY DEF AckIsHonest, Applied, AppliedStates
<1>1. CASE x # d
  BY <1>1, Moved DEF IInv, AckIsHonest, Applied, AppliedStates
<1>2. CASE x = d
  <2>1. KeepsOn(d, node[d], node'[d])
    BY <1>2 DEF Moves, StartsOver, Applied, AppliedStates
  <2>2. CASE Applied(node[d])
    <3>1. <<d, node[d].peer.device, node[d].peer.session, node[d].peerOffer>> \in applied
      BY <2>2 DEF IInv, AckIsHonest, Applied, AppliedStates
    <3>2. node[d].peer # NoPeer /\ node[d].peerOffer # NoOffer
      BY <2>2, Reader DEF Local
    <3>3. node'[d].peer = node[d].peer /\ node'[d].peerOffer = node[d].peerOffer
      BY <2>1, <3>2 DEF KeepsOn
    <3> QED
      BY <1>2, <3>1, <3>3, Moved
  <2>3. CASE ~Applied(node[d])
    BY <1>2, <2>1, <2>3 DEF KeepsOn
  <2> QED
    BY <2>2, <2>3
<1> QED
  BY <1>1, <1>2

LEMMA TestimonyKept ==
  ASSUME IInv, NEW d \in Device, Moves(d)
  PROVE  Testimony'
<1> DEFINE n == node[d]
           m == node'[d]
<1> SUFFICES ASSUME NEW x \in Device, NEW y \in Device, NEW p \in Among(radio'[<<x, y>>])
             PROVE  /\ x # y
                    /\ p.session > 0 /\ p.session <= node'[x].session
                    /\ p.session = node'[x].session => Testifies(node'[x], y, p)
                    /\ p.type = "Offer" => p.offer # NoOffer
                    /\ p.type = "Ack" => \E o \in Offer : <<x, y, p.target, o>> \in applied'
  BY DEF Testimony, Air
<1>1. CASE p \in Air(x, y)
  <2>1. /\ x # y
        /\ p.session > 0 /\ p.session <= node[x].session
        /\ p.session = node[x].session => Testifies(node[x], y, p)
        /\ p.type = "Offer" => p.offer # NoOffer
        /\ p.type = "Ack" => \E o \in Offer : <<x, y, p.target, o>> \in applied
    BY <1>1 DEF IInv, Testimony
  <2>2. p.session \in Nat
    BY <1>1, AirIsTyped, Moved DEF IInv, Packet
  <2>3. p.session <= node'[x].session
    BY <2>1, <2>2, Moved
  <2>4. ASSUME p.session = node'[x].session
        PROVE  Testifies(node'[x], y, p)
    <3>1. CASE x # d
      BY <2>1, <2>4, <3>1, Moved
    <3>2. CASE x = d
      <4>1. KeepsOn(d, n, m) /\ Testifies(n, y, p)
        BY <2>1, <2>2, <2>4, <3>2, Moved
      <4> QED
        BY <3>2, <4>1 DEF KeepsOn, Testifies
    <3> QED
      BY <3>1, <3>2
  <2> QED
    BY <2>1, <2>3, <2>4, Moved
<1>2. CASE p \notin Air(x, y)
  <2>1. x = d /\ m.session > 0 /\ Sincere(d, m, y, p)
    BY <1>2 DEF Moves, Speaks
  <2>2. PICK type \in PacketType : p = PacketOf(m, type)
    BY <2>1 DEF Sincere
  <2>3. /\ p.session = m.session /\ p.role = m.role /\ p.type = type
        /\ type = "Offer" => p.offer = m.offer
        /\ type \in {"Bind", "Ack"} => p.target = m.peer.session
    BY <2>2 DEF PacketOf
  <2>4. Testifies(m, y, p)
    BY <2>1, <2>3 DEF Sincere, Testifies
  <2>5. p.type = "Offer" => p.offer # NoOffer
    BY <2>1, <2>3 DEF Sincere, Moves, Local
  <2>6. ASSUME p.type = "Ack"
        PROVE  \E o \in Offer : <<x, y, p.target, o>> \in applied'
    <3>1. Applied(m) /\ m.peerOffer # NoOffer /\ y = m.peer.device
      BY <2>1, <2>6 DEF Sincere
    <3>2. <<d, m.peer.device, m.peer.session, m.peerOffer>> \in applied'
      BY <3>1, HonestyKept DEF AckIsHonest, Applied, AppliedStates
    <3>3. m.peerOffer \in Offer
      BY <3>1, Moved DEF Node
    <3> QED
      BY <2>1, <2>3, <2>6, <3>1, <3>2, <3>3
  <2> QED
    BY <2>1, <2>3, <2>4, <2>5, <2>6, Moved DEF Sincere
<1> QED
  BY <1>1, <1>2

LEMMA KnowledgeKept ==
  ASSUME IInv, NEW d \in Device, Moves(d)
  PROVE  Knowledge'
<1> SUFFICES ASSUME NEW x \in Device, node'[x].peer # NoPeer
             PROVE  LET f == node'[x].peer.device IN
                    /\ f # x
                    /\ node'[x].peer.session > 0 /\ node'[x].peer.session <= node'[f].session
                    /\ node'[x].peer.role # node'[x].role
                    /\ node'[f].session = node'[x].peer.session => node'[x].peer.role = node'[f].role
  BY DEF Knowledge, PeerNode, Current
<1>1. ASSUME node'[x].peer = node[x].peer, node'[x].role = node[x].role
      PROVE  LET f == node[x].peer.device IN
             /\ f # x
             /\ node[x].peer.session > 0 /\ node[x].peer.session <= node'[f].session
             /\ node[x].peer.role # node[x].role
             /\ node'[f].session = node[x].peer.session => node[x].peer.role = node'[f].role
  <2> DEFINE f == node[x].peer.device
  <2>1. /\ f # x /\ f \in Device
        /\ node[x].peer.session > 0 /\ node[x].peer.session <= node[f].session
        /\ node[x].peer.role # node[x].role
        /\ node[f].session = node[x].peer.session => node[x].peer.role = node[f].role
        /\ node[x].peer.session \in Nat
    BY <1>1, Reader, Moved DEF IInv, Knowledge, PeerNode, Current, Peer
  <2>2. CASE f # d
    BY <2>1, <2>2, Moved
  <2>3. CASE f = d
    <3>1. node[x].peer.session <= node'[d].session
      BY <2>1, <2>3, Moved
    <3>2. ASSUME node'[d].session = node[x].peer.session
          PROVE  node[x].peer.role = node'[d].role
      <4>1. node'[d].session = node[d].session
        BY <2>1, <2>3, <3>2, Moved
      <4>2. node'[d].role = node[d].role
        BY <4>1, Moved DEF KeepsOn
      <4> QED
        BY <2>1, <2>3, <3>2, <4>1, <4>2
    <3> QED
      BY <2>1, <2>3, <3>1, <3>2
  <2> QED
    BY <2>2, <2>3
<1>2. CASE x # d
  BY <1>1, <1>2, Moved
<1>3. CASE x = d
  <2>1. KeepsOn(d, node[d], node'[d])
    BY <1>3, Moved
  <2>2. CASE node[d].peer # NoPeer
    BY <1>1, <1>3, <2>1, <2>2 DEF KeepsOn
  <2>3. CASE node[d].peer = NoPeer
    <3>1. PICK e \in Device : \E p \in Air(e, d) :
            node'[d].peer = PeerOf(e, p) /\ p.role # node[d].role
      BY <1>3, <2>1, <2>3 DEF KeepsOn
    <3>2. PICK p \in Air(e, d) : node'[d].peer = PeerOf(e, p) /\ p.role # node[d].role
      BY <3>1
    <3>3. /\ e # d /\ p.session > 0 /\ p.session <= node[e].session
          /\ p.session = node[e].session => p.role = node[e].role
      BY DEF IInv, Testimony, Testifies
    <3>4. node'[d].peer.device = e /\ node'[d].peer.session = p.session /\ node'[d].peer.role = p.role
      BY <3>2 DEF PeerOf
    <3>5. node'[e] = node[e] /\ node'[d].role = node[d].role
      BY <2>1, <3>3, Moved DEF KeepsOn
    <3> QED
      BY <1>3, <3>2, <3>3, <3>4, <3>5
  <2> QED
    BY <2>2, <2>3
<1> QED
  BY <1>2, <1>3

LEMMA PairingKept ==
  ASSUME IInv, NEW d \in Device, Moves(d)
  PROVE  PairingIsMutual'
<1> DEFINE me(x) == [device |-> x, session |-> node'[x].session, role |-> node'[x].role]
<1> SUFFICES ASSUME NEW x \in Device, node'[x].state \in PairedState, node'[x].peer # NoPeer,
                    node'[node'[x].peer.device].session = node'[x].peer.session
             PROVE  node'[node'[x].peer.device].peer = me(x)
  BY DEF PairingIsMutual, PeerNode, Current
<1> DEFINE f == node'[x].peer.device
<1>1. CASE x # d
  <2>1. node'[x] = node[x] /\ f = node[x].peer.device /\ f \in Device
    BY <1>1, Reader, Moved
  <2>9. /\ node[x].peer.session = node[f].session
        /\ f = d => KeepsOn(d, node[d], node'[d])
        /\ f # d => node'[f] = node[f]
    BY <1>1, <2>1, StillCurrent
  <2>2. node[f].peer = me(x)
    BY <2>1, <2>9 DEF IInv, PairingIsMutual, PeerNode, Current
  <2>3. me(x) # NoPeer
    <3>1. node[x] \in Node
      BY Reader
    <3> QED
      BY <2>1, <3>1, Moved, NearbyAssumption DEF Node, Role
  <2>4. f = d => node'[d].peer = node[d].peer
    BY <2>2, <2>3, <2>9 DEF KeepsOn
  <2> QED
    BY <2>1, <2>2, <2>4, <2>9
<1>2. CASE x = d
  <2>1. KeepsOn(d, node[d], node'[d])
    BY <1>2, Moved
  <2>2. f # d /\ f \in Device /\ node'[f] = node[f]
    BY <1>2, KnowledgeKept, Moved DEF Knowledge, Node, Peer
  <2>3. CASE node[d].state \in PairedState
    <3>1. node[d].peer # NoPeer /\ node'[d].peer = node[d].peer
      BY <2>1, <2>3, Reader DEF Local, KeepsOn
    <3>2. node[f].peer = [device |-> d, session |-> node[d].session, role |-> node[d].role]
      BY <1>2, <2>2, <2>3, <3>1 DEF IInv, PairingIsMutual, PeerNode, Current
    <3> QED
      BY <1>2, <2>1, <2>2, <3>2 DEF KeepsOn
  <2>4. CASE node[d].state \notin PairedState
    <3>1. PICK e \in Device : \E p \in Air(e, d) :
            p.type = "Bind" /\ node'[d].peer = PeerOf(e, p) /\ p.target = node[d].session
      BY <1>2, <2>1, <2>4 DEF KeepsOn
    <3>2. PICK p \in Air(e, d) :
            p.type = "Bind" /\ node'[d].peer = PeerOf(e, p) /\ p.target = node[d].session
      BY <3>1
    <3>3. f = e /\ node'[d].peer.session = p.session /\ node'[d].peer.role = p.role
      BY <1>2, <3>2 DEF PeerOf
    <3>4. /\ p.role = node[e].role
          /\ node[e].peer # NoPeer /\ node[e].peer.device = d /\ node[e].peer.session = node[d].session
      BY <1>2, <2>2, <3>2, <3>3 DEF IInv, Testimony, Testifies
    <3>5. node[e].peer \in Peer /\ node[e] \in Node /\ node[e].peer.role # node[e].role
      BY <3>4, Reader DEF IInv, Knowledge
    <3>6. node'[d].peer.role # node'[d].role /\ node'[d] \in Node
      BY <1>2, KnowledgeKept, Moved DEF Knowledge
    <3>7. node[e].peer.role = node'[d].role
      BY <3>3, <3>4, <3>5, <3>6 DEF Node, Peer, Role
    <3>8. node[e].peer = [device |-> d, session |-> node'[d].session, role |-> node'[d].role]
      BY <2>1, <3>4, <3>5, <3>7 DEF Peer, KeepsOn
    <3> QED
      BY <1>2, <2>2, <3>3, <3>8
  <2> QED
    BY <2>3, <2>4
<1> QED
  BY <1>1, <1>2

(* Nobody learns of an offer that was not known, except by its sender      *)
(* making it: in a fresh session, or by changing it if it does that.       *)
LEMMA SaidBefore ==
  ASSUME IInv, NEW d \in Device, Moves(d),
         NEW x \in Device, NEW s \in Session, NEW o \in Offer, Said(x, s, o)'
  PROVE  \/ Said(x, s, o)
         \/ /\ x = d /\ s = node'[d].session
            /\ \/ x \in given.fickle
               \/ s = node[d].session + 1 /\ o = node'[d].offer
<1> DEFINE n == node[d]
           m == node'[d]
<1>1. CASE node'[x].role = "Sender" /\ s = node'[x].session /\ s > 0 /\ o = node'[x].offer
  <2>1. CASE x # d
    BY <1>1, <2>1, Moved DEF Said
  <2>2. CASE x = d /\ m.session # n.session
    BY <1>1, <2>2, Moved
  <2>3. CASE x = d /\ m.session = n.session
    <3>1. KeepsOn(d, n, m)
      BY <2>3, Moved
    <3>2. CASE m.offer = n.offer
      BY <1>1, <2>3, <3>1, <3>2 DEF KeepsOn, Said
    <3>3. CASE m.offer # n.offer
      BY <1>1, <2>3, <3>1, <3>3 DEF KeepsOn
    <3> QED
      BY <3>2, <3>3
  <2> QED
    BY <2>1, <2>2, <2>3
<1>2. ASSUME NEW e \in Device, NEW p \in Among(radio'[<<x, e>>]),
             p.type = "Offer", p.session = s, p.offer = o
      PROVE  \/ Said(x, s, o)
             \/ node'[x].role = "Sender" /\ s = node'[x].session /\ s > 0 /\ o = node'[x].offer
  <2>1. CASE p \in Air(x, e)
    BY <1>2, <2>1 DEF Said
  <2>2. CASE p \notin Air(x, e)
    <3>1. x = d /\ m.session > 0 /\ Sincere(d, m, e, p)
      BY <2>2 DEF Moves, Speaks
    <3> QED
      BY <1>2, <3>1 DEF Sincere, PacketOf
  <2> QED
    BY <2>1, <2>2
<1>3. ASSUME NEW e \in Device, node'[e].peerOffer # NoOffer, node'[e].peerOffer = o,
             node'[e].peer.device = x, node'[e].peer.session = s
      PROVE  Said(x, s, o)
  <2>1. CASE e # d
    BY <1>3, <2>1, Moved DEF Said
  <2>2. CASE e = d
    <3>1. KeepsOn(d, n, m)
      BY <1>3, <2>2 DEF Moves, StartsOver
    <3>2. CASE m.peerOffer = n.peerOffer
      <4>1. n.peer # NoPeer /\ m.peer = n.peer
        BY <1>3, <2>2, <3>1, <3>2, Reader DEF Local, KeepsOn
      <4> QED
        BY <1>3, <2>2, <3>2, <4>1 DEF Said
    <3>3. CASE m.peerOffer # n.peerOffer
      <4>1. PICK y \in Device : \E p \in Air(y, d) :
              p.type = "Offer" /\ m.peer = PeerOf(y, p) /\ p.offer = m.peerOffer
        BY <3>1, <3>3 DEF KeepsOn
      <4>2. PICK p \in Air(y, d) :
              p.type = "Offer" /\ m.peer = PeerOf(y, p) /\ p.offer = m.peerOffer
        BY <4>1
      <4>3. y = x /\ p.session = s /\ p.offer = o
        BY <1>3, <2>2, <4>2 DEF PeerOf
      <4> QED
        BY <4>2, <4>3 DEF Said
    <3> QED
      BY <3>2, <3>3
  <2> QED
    BY <2>1, <2>2
<1>4. ASSUME NEW e \in Device, <<e, x, s, o>> \in applied'
      PROVE  Said(x, s, o)
  <2>1. CASE <<e, x, s, o>> \in applied
    BY <2>1 DEF Said
  <2>2. CASE <<e, x, s, o>> \notin applied
    <3>1. /\ n.peerOffer # NoOffer
          /\ <<e, x, s, o>> = <<d, n.peer.device, n.peer.session, n.peerOffer>>
      BY <1>4, <2>2 DEF Moves, StartsOver, KeepsOn
    <3> QED
      BY <3>1 DEF Said
  <2> QED
    BY <2>1, <2>2
<1>5. \/ node'[x].role = "Sender" /\ s = node'[x].session /\ s > 0 /\ o = node'[x].offer
      \/ \E e \in Device : \E p \in Among(radio'[<<x, e>>]) :
           p.type = "Offer" /\ p.session = s /\ p.offer = o
      \/ \E e \in Device : /\ node'[e].peerOffer # NoOffer /\ node'[e].peerOffer = o
                           /\ node'[e].peer.device = x /\ node'[e].peer.session = s
      \/ \E e \in Device : <<e, x, s, o>> \in applied'
  BY DEF Said, Air
<1> QED
  BY <1>1, <1>2, <1>3, <1>4, <1>5

LEMMA OneOfferKept ==
  ASSUME IInv, NEW d \in Device, Moves(d)
  PROVE  OneOffer'
<1>1. Session' = Session /\ given' = given
  BY SameTypes DEF Moves
<1> SUFFICES ASSUME NEW x \in Device, NEW s \in Session, NEW o1 \in Offer, NEW o2 \in Offer
             PROVE  /\ Said(x, s, o1)' => s <= node'[x].session
                    /\ x \notin given.fickle /\ Said(x, s, o1)' /\ Said(x, s, o2)' => o1 = o2
  BY <1>1 DEF OneOffer
<1>2. /\ Said(x, s, o1) => s <= node[x].session
      /\ Said(x, s, o2) => s <= node[x].session
      /\ x \notin given.fickle /\ Said(x, s, o1) /\ Said(x, s, o2) => o1 = o2
  BY DEF IInv, OneOffer
<1>3. s \in Nat /\ node[d].session \in Nat /\ node'[d].session \in Nat
  BY Moved
<1>4. node[x].session \in Nat /\ node[x].session <= node'[x].session /\ s <= s
  <2>1. node[x] \in Node /\ Session \subseteq Nat
    BY Reader, Moved
  <2>2. node[x].session \in Nat
    BY <2>1 DEF Node
  <2>3. node'[x].session = node[x].session \/ node'[x].session = node[x].session + 1
    BY Moved
  <2> QED
    BY <1>3, <2>2, <2>3
<1>5. ASSUME Said(x, s, o1)'
      PROVE  s <= node'[x].session
  <2>1. CASE Said(x, s, o1)
    <3>1. node'[x].session \in Nat
      BY <1>3, <1>4, Moved
    <3> QED
      BY <1>2, <1>3, <1>4, <2>1, <3>1
  <2>2. CASE ~Said(x, s, o1)
    BY <1>4, <1>5, <2>2, SaidBefore
  <2> QED
    BY <2>1, <2>2
<1>6. ASSUME x \notin given.fickle, Said(x, s, o1)', Said(x, s, o2)'
      PROVE  o1 = o2
  <2>1. /\ Said(x, s, o1) \/ (x = d /\ s = node[d].session + 1 /\ o1 = node'[d].offer)
        /\ Said(x, s, o2) \/ (x = d /\ s = node[d].session + 1 /\ o2 = node'[d].offer)
    BY <1>6, SaidBefore
  <2>2. CASE x = d /\ s = node[d].session + 1
    <3>1. ~Said(x, s, o1) /\ ~Said(x, s, o2)
      BY <1>2, <1>3, <2>2
    <3> QED
      BY <2>1, <3>1
  <2>3. CASE ~(x = d /\ s = node[d].session + 1)
    BY <1>2, <1>6, <2>1, <2>3
  <2> QED
    BY <2>2, <2>3
<1> QED
  BY <1>5, <1>6

LEMMA AuthorityKept ==
  ASSUME IInv, NEW d \in Device, Moves(d)
  PROVE  OfferIsAuthorised'
<1> DEFINE f(x) == node'[x].peer.device
<1> SUFFICES ASSUME NEW x \in Device, node'[x].peerOffer # NoOffer
             PROVE  /\ node'[x].pairingConfirmed
                    /\ node'[x].peer # NoPeer /\ node'[f(x)].session = node'[x].peer.session =>
                         /\ f(x) \in given.fickle \/ node'[x].peerOffer = node'[f(x)].offer
                         /\ node'[f(x)].pairingConfirmed
                         /\ node'[f(x)].peer.device = x
  BY Moved DEF OfferIsAuthorised, PeerNode, Current
<1>1. Local(node'[x], faults')
  BY TypesKept
<1>2. node'[x].pairingConfirmed /\ node'[x].peer # NoPeer /\ node'[x].role = "Receiver"
  BY <1>1 DEF Local
<1> SUFFICES ASSUME node'[f(x)].session = node'[x].peer.session
             PROVE  /\ f(x) \in given.fickle \/ node'[x].peerOffer = node'[f(x)].offer
                    /\ node'[f(x)].pairingConfirmed
                    /\ node'[f(x)].peer.device = x
  BY <1>2
(* An offer that x held before. *)
<1>3. ASSUME node'[x].peerOffer = node[x].peerOffer, node'[x].peer = node[x].peer,
             node[f(x)].session = node[x].peer.session
      PROVE  /\ f(x) \in given.fickle \/ node[x].peerOffer = node[f(x)].offer
             /\ node[f(x)].pairingConfirmed
             /\ node[f(x)].peer.device = x
  BY <1>2, <1>3 DEF IInv, OfferIsAuthorised, PeerNode, Current
<1>4. CASE x # d
  <2>1. node'[x] = node[x] /\ f(x) = node[x].peer.device /\ f(x) \in Device
    BY <1>2, <1>4, Reader, Moved
  <2>2. /\ node[x].peer.session = node[f(x)].session
        /\ f(x) = d => KeepsOn(d, node[d], node'[d])
        /\ f(x) # d => node'[f(x)] = node[f(x)]
    BY <1>2, <1>4, <2>1, StillCurrent
  <2>3. /\ f(x) \in given.fickle \/ node[x].peerOffer = node[f(x)].offer
        /\ node[f(x)].pairingConfirmed
        /\ node[f(x)].peer.device = x
    BY <1>3, <2>1, <2>2
  <2>4. node[f(x)].peer # NoPeer
    BY <2>1, <2>3, Reader DEF Local
  <2> QED
    BY <2>1, <2>2, <2>3, <2>4 DEF KeepsOn
<1>5. CASE x = d
  <2>1. KeepsOn(d, node[d], node'[d])
    BY <1>2, <1>5, Moved
  <2>2. f(x) # d /\ f(x) \in Device /\ node'[f(x)] = node[f(x)]
    BY <1>2, <1>5, KnowledgeKept, Moved DEF Knowledge, Node, Peer
  <2>3. CASE node'[d].peerOffer = node[d].peerOffer
    <3>1. node'[d].peer = node[d].peer
      BY <1>5, <2>1, <2>3, Reader DEF Local, KeepsOn
    <3> QED
      BY <1>3, <1>5, <2>2, <2>3, <3>1
  <2>4. CASE node'[d].peerOffer # node[d].peerOffer
    <3>1. PICK e \in Device : \E p \in Air(e, d) :
            p.type = "Offer" /\ node'[d].peer = PeerOf(e, p) /\ p.offer = node'[d].peerOffer
      BY <2>1, <2>4 DEF KeepsOn
    <3>2. PICK p \in Air(e, d) :
            p.type = "Offer" /\ node'[d].peer = PeerOf(e, p) /\ p.offer = node'[d].peerOffer
      BY <3>1
    <3>3. f(x) = e /\ node'[d].peer.session = p.session /\ node'[d].peer.role = p.role
      BY <1>5, <3>2 DEF PeerOf
    <3>4. /\ p.session = node[e].session /\ p.session > 0
          /\ p.role = node[e].role
          /\ node[e].peer.device = d /\ node[e].pairingConfirmed
      BY <1>5, <2>2, <3>2, <3>3 DEF IInv, Testimony, Testifies
    <3>5. node[e].role = "Sender"
      <4>1. node'[d].peer.role # node'[d].role
        BY <1>2, <1>5, KnowledgeKept DEF Knowledge
      <4>2. node[e].role \in Role
        BY Reader DEF Node
      <4> QED
        BY <1>2, <1>5, <3>3, <3>4, <4>1, <4>2 DEF Role
    <3>6. /\ p.session \in Session /\ p.offer \in Offer
          /\ node[e].offer \in Offer
      <4>1. node[e] \in Node /\ Local(node[e], faults)
        BY Reader
      <4>2. p.offer \in Offer /\ p.session \in Session
        BY <1>5, <3>2, AirIsTyped DEF IInv, Packet
      <4> QED
        BY <3>4, <3>5, <4>1, <4>2 DEF Local, Node
    <3>7. Said(e, p.session, p.offer) /\ Said(e, p.session, node[e].offer)
      BY <3>2, <3>4, <3>5 DEF Said
    <3>8. e \in given.fickle \/ p.offer = node[e].offer
      BY <3>6, <3>7 DEF IInv, OneOffer
    <3> QED
      BY <1>5, <2>2, <3>2, <3>3, <3>4, <3>8
  <2> QED
    BY <2>3, <2>4
<1> QED
  BY <1>4, <1>5

LEMMA SuccessKept ==
  ASSUME IInv, NEW d \in Device, Moves(d)
  PROVE  SuccessIsShared'
<1> DEFINE f(x) == node'[x].peer.device
<1> SUFFICES ASSUME NEW x \in Device, node'[x].state = "Accepted"
             PROVE  IF node'[x].role = "Sender"
                      THEN \/ x \in given.fickle
                           \/ <<f(x), x, node'[x].session, node'[x].offer>> \in applied'
                      ELSE node'[x].peer # NoPeer /\ node'[f(x)].session = node'[x].peer.session
                             => node'[f(x)].peerAcceptedLocalOffer
  BY Moved DEF SuccessIsShared, PeerNode, Current
<1>1. CASE x # d
  <2>1. node'[x] = node[x]
    BY <1>1, Moved
  <2>2. CASE node[x].role = "Sender"
    BY <2>1, <2>2, Moved DEF IInv, SuccessIsShared
  <2>3. ASSUME node[x].role # "Sender", node[x].peer # NoPeer,
               node'[f(x)].session = node[x].peer.session
        PROVE  node'[f(x)].peerAcceptedLocalOffer
    <3>1. /\ node[x].peer.session = node[f(x)].session
          /\ f(x) = d => KeepsOn(d, node[d], node'[d])
          /\ f(x) # d => node'[f(x)] = node[f(x)]
      BY <1>1, <2>1, <2>3, StillCurrent
    <3>2. node[f(x)].peerAcceptedLocalOffer
      BY <2>1, <2>3, <3>1 DEF IInv, SuccessIsShared, PeerNode, Current
    <3> QED
      BY <3>1, <3>2 DEF KeepsOn
  <2> QED
    BY <2>1, <2>2, <2>3
<1>2. CASE x = d
  <2>1. KeepsOn(d, node[d], node'[d])
    BY <1>2 DEF Moves, StartsOver
  <2>2. Local(node[d], faults) /\ node[d] \in Node /\ node'[d] \in Node /\ Local(node'[d], faults')
    BY Reader, Moved DEF Moves
  <2>3. node'[d].peer # NoPeer
    BY <1>2, <2>2 DEF Local, PairedState, State
  <2>4. f(d) # d /\ f(d) \in Device /\ node'[f(d)] = node[f(d)]
    BY <2>2, <2>3, KnowledgeKept, Moved DEF Knowledge, Node, Peer
  <2>5. node'[d].role = node[d].role /\ node'[d].session = node[d].session
    BY <2>1 DEF KeepsOn
  <2>6. CASE node[d].state = "Accepted"
    <3>1. node'[d].peer = node[d].peer
      BY <2>1, <2>2, <2>6 DEF Local, PairedState, State, KeepsOn
    <3>2. node'[d].offer = node[d].offer
      BY <2>1, <2>6 DEF KeepsOn
    <3>3. CASE node[d].role = "Sender"
      BY <1>2, <2>5, <2>6, <3>1, <3>2, <3>3, Moved DEF IInv, SuccessIsShared
    <3>4. CASE node[d].role # "Sender"
      BY <1>2, <2>3, <2>4, <2>5, <2>6, <3>1, <3>4 DEF IInv, SuccessIsShared, PeerNode, Current
    <3> QED
      BY <3>3, <3>4
  <2>7. CASE node[d].state # "Accepted"
    <3>1. PICK e \in Device : \E p \in Air(e, d) :
            /\ p.type = IF node'[d].role = "Sender" THEN "Ack" ELSE "Complete"
            /\ node'[d].peer = PeerOf(e, p) /\ p.target = node[d].session
      BY <1>2, <2>1, <2>7 DEF KeepsOn
    <3>2. PICK p \in Air(e, d) :
            /\ p.type = IF node'[d].role = "Sender" THEN "Ack" ELSE "Complete"
            /\ node'[d].peer = PeerOf(e, p) /\ p.target = node[d].session
      BY <3>1
    <3>3. f(d) = e /\ node'[d].peer.session = p.session
      BY <3>2 DEF PeerOf
    <3>4. CASE node'[d].role = "Sender"
      <4>1. PICK o \in Offer : <<e, d, node[d].session, o>> \in applied
        BY <3>2, <3>4 DEF IInv, Testimony
      <4>2. node[d].session > 0 /\ node[d].session \in Session
        <5>1. node'[d].session > 0
          BY <1>2, <2>2 DEF Local
        <5> QED
          BY <2>2, <2>5, <5>1 DEF Node
      <4>3. node[d].offer \in Offer
        BY <2>2, <2>5, <3>4, <4>2 DEF Local, Node
      <4>4. Said(d, node[d].session, o) /\ Said(d, node[d].session, node[d].offer)
        BY <2>5, <3>4, <4>1, <4>2 DEF Said
      <4>5. d \in given.fickle \/ o = node[d].offer
        BY <4>2, <4>3, <4>4 DEF IInv, OneOffer
      <4>6. d \in given.fickle \/ node'[d].offer = node[d].offer
        BY <2>1 DEF KeepsOn
      <4> QED
        BY <1>2, <2>5, <3>3, <3>4, <4>1, <4>5, <4>6, Moved
    <3>5. CASE node'[d].role # "Sender"
      <4>1. p.session = node[e].session => node[e].peerAcceptedLocalOffer
        BY <3>2, <3>5 DEF IInv, Testimony, Testifies
      <4> QED
        BY <1>2, <2>4, <3>3, <3>5, <4>1
    <3> QED
      BY <3>4, <3>5
  <2> QED
    BY <2>6, <2>7
<1> QED
  BY <1>1, <1>2

LEMMA AccusationKept ==
  ASSUME IInv, NEW d \in Device, Moves(d)
  PROVE  NoFalseAccusation'
<1> SUFFICES ASSUME NEW x \in Device, node'[x].error = "Protocol"
             PROVE  faults' > 0 \/ node'[x].peer.device \in given.fickle
  BY Moved DEF NoFalseAccusation
<1>1. faults \in Nat /\ faults' \in Nat /\ faults' >= faults
  BY Reader DEF Moves
<1>2. node[x].error = "Protocol" => faults' > 0 \/ node[x].peer.device \in given.fickle
  BY <1>1 DEF IInv, NoFalseAccusation
<1>3. CASE x # d
  BY <1>2, <1>3, Moved
<1>4. CASE x = d
  <2>1. CASE faults' > 0
    BY <2>1
  <2>2. CASE ~(faults' > 0)
    <3>1. KeepsOn(d, node[d], node'[d])
      BY <1>4, <2>2 DEF Moves, StartsOver
    <3>2. CASE node[d].error = "Protocol" /\ node'[d].peer = node[d].peer
      BY <1>2, <1>4, <3>2
    <3>3. CASE /\ node[d].peerOffer # NoOffer /\ node[d].peer # NoPeer
               /\ node'[d].peer = node[d].peer
               /\ \E e \in Device : \E p \in Air(e, d) :
                    p.type = "Offer" /\ node[d].peer = PeerOf(e, p) /\ p.offer # node[d].peerOffer
      <4>1. PICK e \in Device : \E p \in Air(e, d) :
              p.type = "Offer" /\ node[d].peer = PeerOf(e, p) /\ p.offer # node[d].peerOffer
        BY <3>3
      <4>2. PICK p \in Air(e, d) :
              p.type = "Offer" /\ node[d].peer = PeerOf(e, p) /\ p.offer # node[d].peerOffer
        BY <4>1
      <4>3. node[d].peer.device = e /\ node[d].peer.session = p.session
        BY <4>2 DEF PeerOf
      <4>4. p.offer \in Offer /\ p.session \in Session
        BY <4>2, AirIsTyped DEF IInv, Testimony, Packet
      <4>5. node[d].peerOffer \in Offer
        BY <3>3, Reader DEF Node
      <4>6. Said(e, p.session, p.offer) /\ Said(e, p.session, node[d].peerOffer)
        BY <3>3, <4>2, <4>3 DEF Said
      <4>7. e \in given.fickle
        BY <4>2, <4>4, <4>5, <4>6 DEF IInv, OneOffer
      <4> QED
        BY <1>4, <3>3, <4>3, <4>7
    <3> QED
      BY <1>4, <2>2, <3>1, <3>2, <3>3 DEF KeepsOn
  <2> QED
    BY <2>1, <2>2
<1> QED
  BY <1>3, <1>4

-----------------------------------------------------------------------------
(* The theorems *)

LEMMA IInvInitially ==
  ASSUME Init
  PROVE  IInv
<1>1. given \in Circumstances
  BY DEF Init
<1>2. given.flight \in Nat \ {0} /\ given.sendFaults \in Nat /\ 0 \in Session
  BY <1>1, Bounds DEF Session
<1>3. \A d \in Device :
        /\ node[d].state = "Idle" /\ node[d].error = "None" /\ node[d].role = "Sender"
        /\ node[d].session = 0 /\ node[d].peer = NoPeer /\ node[d].peerOffer = NoOffer
        /\ node[d].pairingConfirmed = FALSE
  BY DEF Init
<1>4. node \in [Device -> Node]
  BY <1>2 DEF Init, Node, State, Error, Role
<1>5. /\ radio \in [Device \X Device -> Seq(Packet)]
      /\ \A pair \in Device \X Device : radio[pair] = <<>>
  BY DEF Init
<1>6. \A x, y \in Device : Air(x, y) = {}
  BY <1>5 DEF Air, Among
<1>7. faults = 0 /\ applied = {}
  BY DEF Init
<1>8. Types
  BY <1>1, <1>2, <1>4, <1>5, <1>7 DEF Types
<1>9. Channels(radio)
  BY <1>2, <1>5 DEF Channels
<1>10. ASSUME NEW d \in Device
       PROVE  Local(node[d], faults)
  <2> DEFINE n == node[d]
  <2>1. /\ n.state = "Idle" /\ n.error = "None" /\ n.role = "Sender" /\ n.session = 0
        /\ n.peer = NoPeer /\ n.peerOffer = NoOffer /\ n.pairingConfirmed = FALSE
    BY <1>3
  <2> HIDE DEF n
  <2>2. Local(n, faults)
    BY <2>1 DEF Local, PairedState, Applied, AppliedStates
  <2> QED
    BY <2>2 DEF n
<1>11. Testimony /\ Knowledge
  BY <1>3, <1>6 DEF Testimony, Knowledge
<1>12. \A d \in Device, s \in Session, o \in Offer : ~Said(d, s, o)
  <2>1. Session \subseteq Nat
    BY <1>1, Bounds DEF Session
  <2> QED
    BY <1>3, <1>6, <1>7, <2>1 DEF Said
<1>13. OneOffer
  BY <1>12 DEF OneOffer
<1>14. PairingIsMutual /\ OfferIsAuthorised /\ SuccessIsShared /\ NoFalseAccusation /\ AckIsHonest
  BY <1>3 DEF PairingIsMutual, OfferIsAuthorised, SuccessIsShared, NoFalseAccusation, AckIsHonest,
              PairedState
<1> QED
  BY <1>8, <1>9, <1>10, <1>11, <1>13, <1>14 DEF IInv

LEMMA IInvUnchanged ==
  ASSUME IInv, UNCHANGED vars
  PROVE  IInv'
<1>1. UNCHANGED <<given, node, radio, faults, applied>>
  BY DEF vars
<1>2. Node' = Node /\ Packet' = Packet /\ Session' = Session /\ Peer' = Peer
  BY <1>1, SameTypes
<1>3. Types' /\ Channels(radio)' /\ \A d \in Device : Local(node[d], faults)'
  BY <1>1, <1>2 DEF IInv, Types, Channels
<1>4. \A x, y \in Device : Air(x, y)' = Air(x, y)
  BY <1>1 DEF Air
<1>5. Testimony' /\ Knowledge'
  <2>1. Testimony /\ Knowledge
    BY DEF IInv
  <2>2. ASSUME NEW x \in Device, NEW y \in Device, NEW p \in Air(x, y)
        PROVE  Testifies(node[x], y, p)' <=> Testifies(node[x], y, p)
    BY <1>1 DEF Testifies
  <2>3. Testimony'
    BY <1>1, <1>4, <2>1, <2>2 DEF Testimony
  <2>4. Knowledge'
    BY <1>1, <2>1 DEF Knowledge, PeerNode, Current
  <2> QED
    BY <2>3, <2>4
<1>6. \A d \in Device : \A s, o : Said(d, s, o)' <=> Said(d, s, o)
  BY <1>1, <1>4 DEF Said
<1>7. OneOffer'
  BY <1>1, <1>2, <1>6 DEF IInv, OneOffer
<1>8. PairingIsMutual' /\ OfferIsAuthorised' /\ SuccessIsShared' /\ NoFalseAccusation' /\ AckIsHonest'
  BY <1>1 DEF IInv, PairingIsMutual, OfferIsAuthorised, SuccessIsShared, NoFalseAccusation,
              AckIsHonest, PeerNode, Current
<1> QED
  BY <1>3, <1>5, <1>7, <1>8 DEF IInv

LEMMA IInvKept ==
  ASSUME IInv, [Next]_vars
  PROVE  IInv'
<1>1. CASE UNCHANGED vars
  BY <1>1, IInvUnchanged
<1>2. CASE \E d \in Device : Moves(d)
  BY <1>2, TypesKept, HonestyKept, TestimonyKept, KnowledgeKept, OneOfferKept, PairingKept,
     AuthorityKept, SuccessKept, AccusationKept DEF IInv
<1> QED
  BY <1>1, <1>2, StepsAreMoves

LEMMA IInvAlways == Spec => []IInv
<1>1. Init => IInv
  BY IInvInitially
<1>2. IInv /\ [Next]_vars => IInv'
  BY IInvKept
<1> QED
  BY <1>1, <1>2, PTL DEF Spec

(* Every exchange and packet keeps its fields, and a reader is only ever   *)
(* bound to another one, that plays the other role.                        *)
THEOREM TypeCorrect == Spec => []TypeOK
<1>1. IInv => TypeOK
  BY DEF IInv, Local, Knowledge, RolesFit, TypeOK
<1> QED
  BY <1>1, IInvAlways, PTL

(* Two readers that show a pairing code are bound to each other, in        *)
(* opposite roles and for these two sessions, whoever else is on the air   *)
(* and however often anybody started over.                                 *)
THEOREM PairingAlwaysMutual == Spec => []PairingIsMutual
<1>1. IInv => PairingIsMutual
  BY DEF IInv
<1> QED
  BY <1>1, IInvAlways, PTL

(* No receiver ever holds an offer but that of the exchange it is paired   *)
(* with, and only once both users have confirmed.                          *)
THEOREM OffersAlwaysAuthorised == Spec => []OfferIsAuthorised
<1>1. IInv => OfferIsAuthorised
  BY DEF IInv
<1> QED
  BY <1>1, IInvAlways, PTL

(* Success reported is success shared: a sender's offer is durable at the  *)
(* receiver, a receiver's sender knows that it is.                         *)
THEOREM SuccessAlwaysShared == Spec => []SuccessIsShared
<1>1. IInv => SuccessIsShared
  BY DEF IInv
<1> QED
  BY <1>1, IInvAlways, PTL

(* Readers that keep their offer are never accused of a protocol error     *)
(* unless a radio call failed.                                             *)
THEOREM NobodyFalselyAccused == Spec => []NoFalseAccusation
<1>1. IInv => NoFalseAccusation
  BY DEF IInv
<1> QED
  BY <1>1, IInvAlways, PTL

(* What a receiver acknowledges is what it made durable. *)
THEOREM AcksAlwaysHonest == Spec => []AckIsHonest
<1>1. IInv => AckIsHonest
  BY DEF IInv
<1> QED
  BY <1>1, IInvAlways, PTL

(* Within an exchange the offer shown to the user never changes.           *)
THEOREM OffersStayPinned == Spec => OfferIsPinned
<1> DEFINE Pinned ==
      \A d \in Device :
        node[d].peerOffer # NoOffer /\ node'[d].session = node[d].session
          => node'[d].peerOffer = node[d].peerOffer
<1>1. IInv /\ [Next]_vars => [Pinned]_vars
  <2> SUFFICES ASSUME IInv, [Next]_vars, ~UNCHANGED vars, NEW x \in Device,
                      node[x].peerOffer # NoOffer, node'[x].session = node[x].session
               PROVE  node'[x].peerOffer = node[x].peerOffer
    OBVIOUS
  <2>1. PICK d \in Device : Moves(d)
    BY StepsAreMoves
  <2>2. CASE x # d
    BY <2>1, <2>2, Moved
  <2>3. CASE x = d
    BY <2>1, <2>3, Moved DEF KeepsOn
  <2> QED
    BY <2>2, <2>3
<1> QED
  BY <1>1, IInvAlways, PTL DEF Spec, OfferIsPinned

-----------------------------------------------------------------------------
(* Packet numbers *)

(* A difference between two numbers less than Modulus apart is reduced     *)
(* as the 16-bit subtraction reduces it.                                   *)
LEMMA Reduced ==
  ASSUME NEW x \in Int, -Modulus < x, x < Modulus
  PROVE  x % Modulus = IF x < 0 THEN x + Modulus ELSE x
<1> DEFINE M == Modulus
<1>1. M \in Nat /\ M > 0
  BY HalfAssumption DEF Modulus
<1>2. ASSUME NEW m \in Nat, m > 0, NEW y \in Int, -m < y, y < m
      PROVE  y % m = IF y < 0 THEN y + m ELSE y
  BY <1>2, Z3
<1> QED
  BY <1>1, <1>2

(* Later(s, k) is the number sendPacket() gives the k-th packet after s.   *)
THEOREM CountsLikeTheSender == LaterIsCounted
<1> SUFFICES ASSUME NEW s \in Sequence, NEW k \in 0..(Half - 1)
             PROVE  /\ Later(s, 0) = s
                    /\ Later(s, k + 1) = Successor(Later(s, k))
                    /\ Earlier(Later(s, k), k) = s
  BY DEF LaterIsCounted
<1>1. Later(s, k) \in 1..(Modulus - 1)
  BY HalfAssumption DEF Later, Sequence, Modulus
<1>2. (Later(s, k) + 1) % Modulus = IF Later(s, k) = Modulus - 1 THEN 0 ELSE Later(s, k) + 1
  <2>1. CASE Later(s, k) = Modulus - 1
    <3>1. Modulus % Modulus = 0
      <4>1. ASSUME NEW m \in Nat, m > 0 PROVE m % m = 0
        BY <4>1, Z3
      <4> QED
        BY <4>1, HalfAssumption DEF Modulus
    <3> QED
      BY <2>1, <3>1, HalfAssumption DEF Modulus
  <2>2. CASE Later(s, k) # Modulus - 1
    <3> DEFINE x == Later(s, k) + 1
    <3>1. x \in Int /\ -Modulus < x /\ x < Modulus /\ x > 0
      BY <1>1, <2>2, HalfAssumption DEF Modulus
    <3>2. x % Modulus = IF x < 0 THEN x + Modulus ELSE x
      BY <3>1, Reduced
    <3> QED
      BY <2>2, <3>1, <3>2
  <2> QED
    BY <2>1, <2>2
<1>3. Later(s, 0) = s
  BY HalfAssumption DEF Later, Sequence, Modulus
<1>4. Later(s, k + 1) = Successor(Later(s, k))
  BY <1>1, <1>2, HalfAssumption DEF Later, Successor, Sequence, Modulus
<1>5. Earlier(Later(s, k), k) = s
  BY HalfAssumption DEF Later, Earlier, Sequence, Modulus
<1> QED
  BY <1>3, <1>4, <1>5

(* accept() takes the next packet after any loss of fewer than half the    *)
(* numbers, wherever the counter stands.                                   *)
THEOREM TakesFresh == FreshIsTaken
<1> SUFFICES ASSUME NEW s \in Sequence, NEW k \in 1..(Half - 2)
             PROVE  SequenceIsNewer(Later(s, k), s)
  BY DEF FreshIsTaken
<1> DEFINE x == Later(s, k) - s
<1>1. x \in Int /\ -Modulus < x /\ x < Modulus
  BY HalfAssumption DEF Later, Sequence, Modulus
<1>2. x % Modulus = IF x < 0 THEN x + Modulus ELSE x
  BY <1>1, Reduced
<1>3. (IF x < 0 THEN x + Modulus ELSE x) \in 1..(Half - 1)
  BY HalfAssumption DEF Later, Sequence, Modulus
<1>4. Later(s, k) # 0 /\ Later(s, k) # s
  BY HalfAssumption DEF Later, Sequence, Modulus
<1> QED
  BY <1>2, <1>3, <1>4 DEF SequenceIsNewer

(* accept() refuses a packet repeated from the half before the last one it *)
(* took.                                                                   *)
THEOREM RefusesStale == StaleIsRefused
<1> SUFFICES ASSUME NEW s \in Sequence, NEW k \in 0..(Half - 1), k # 0
             PROVE  (Earlier(s, k) - s) % Modulus \notin 1..(Half - 1)
  <2>1. ASSUME NEW s \in Sequence PROVE Earlier(s, 0) = s
    BY <2>1, HalfAssumption DEF Earlier, Sequence, Modulus
  <2> QED
    BY <2>1 DEF StaleIsRefused, SequenceIsNewer
<1> DEFINE x == Earlier(s, k) - s
<1>1. x \in Int /\ -Modulus < x /\ x < Modulus
  BY HalfAssumption DEF Earlier, Sequence, Modulus
<1>2. x % Modulus = IF x < 0 THEN x + Modulus ELSE x
  BY <1>1, Reduced
<1>3. (IF x < 0 THEN x + Modulus ELSE x) \notin 1..(Half - 1)
  BY HalfAssumption DEF Earlier, Sequence, Modulus
<1> QED
  BY <1>2, <1>3
=============================================================================
