------------------------- MODULE NearbySyncExchange -------------------------
(***************************************************************************)
(* src/network/NearbySyncExchange.cpp: readers hand a reading position or  *)
(* reading statistics from a sender to a receiver over ESP-NOW.  Each      *)
(* reader runs the same code; the user of each picks a role, compares the  *)
(* pairing code and confirms, and the receiver's user confirms the offer.  *)
(*                                                                         *)
(* The radio loses, delays, duplicates and reorders packets: radio at      *)
(* <<d, e>> lists the packets from d to e that can still arrive, in order. *)
(* PeerBinding::accept takes only sequence numbers newer than the last one *)
(* it took, so accepting a packet makes it and everything sent before it   *)
(* unacceptable for good: they leave the list.  (PeerSequence checks that  *)
(* arithmetic.)  A packet that is not accepted stays and may come again.   *)
(* A full list forgets its oldest packet.                                  *)
(***************************************************************************)
EXTENDS Naturals, Sequences

CONSTANTS
  Device,        \* the readers in range of each other
  Offer,         \* the payloads a sender may offer
  NoOffer,
  NoPeer,
  Circumstances  \* what an exchange may meet, one of these for a behaviour

(* present: the readers that take part; fickle: those of them that,        *)
(* running other firmware, change their offer; impatient: whether timers   *)
(* expire, queues overflow and users walk away.  Bounds: the exchanges a   *)
(* reader starts (each has a fresh session id), the packets in flight from *)
(* one reader to another, the radio calls that report failure.             *)
Circumstance ==
  [present : SUBSET Device, fickle : SUBSET Device, impatient : BOOLEAN,
   sessions : Nat, flight : Nat \ {0}, sendFaults : Nat]

ASSUME NearbyAssumption ==
  /\ NoOffer \notin Offer
  /\ NoPeer \notin [device : Device, session : Nat, role : {"Sender", "Receiver"}]
  /\ Circumstances \subseteq Circumstance

VARIABLES
  given,     \* the circumstances of this behaviour
  node,      \* the exchange object of each reader
  radio,     \* packets in flight
  faults,    \* radio calls that have failed so far
  applied    \* history: <<receiver, sender, session, offer>> made durable

vars == <<given, node, radio, faults, applied>>

State == {"Idle", "Discovering", "Pairing", "WaitingForAck", "WaitingForOffer",
          "OfferReady", "WaitingForComplete", "Accepted", "Error"}
Error == {"None", "RadioStart", "NoPeer", "PairingTimeout", "TransferTimeout", "QueueOverflow", "Protocol"}
Role == {"Sender", "Receiver"}
PacketType == {"Hello", "Bind", "Offer", "Ack", "Complete"}

Session == 0..given.sessions      \* 0 before the first start()
Peer == [device : Device, session : Session, role : Role]

(* target is the session a Bind, Ack or Complete is addressed to.          *)
Packet == [type : PacketType, role : Role, session : Session, target : Session,
           offer : Offer \cup {NoOffer}]

Node == [state : State, error : Error, role : Role, session : Session,
         peer : Peer \cup {NoPeer}, peerAdded : BOOLEAN, offer : Offer \cup {NoOffer},
         peerOffer : Offer \cup {NoOffer}, pairingConfirmed : BOOLEAN,
         localBindSent : BOOLEAN, peerAcceptedLocalOffer : BOOLEAN]

Init ==
  /\ given \in Circumstances
  /\ node = [d \in Device |->
       [state |-> "Idle", error |-> "None", role |-> "Sender", session |-> 0,
        peer |-> NoPeer, peerAdded |-> FALSE, offer |-> NoOffer,
        peerOffer |-> NoOffer, pairingConfirmed |-> FALSE,
        localBindSent |-> FALSE, peerAcceptedLocalOffer |-> FALSE]]
  /\ radio = [pair \in Device \X Device |-> <<>>]
  /\ faults = 0
  /\ applied = {}

-----------------------------------------------------------------------------
(* Sending *)

Fly(q, p) == Append(IF Len(q) < given.flight THEN q ELSE Tail(q), p)

Enter(n, state) == [n EXCEPT !.state = state]
Fail(n, error) == [n EXCEPT !.state = "Error", !.error = error]

PacketOf(n, type) ==
  [type |-> type, role |-> n.role, session |-> n.session,
   target |-> IF type \in {"Bind", "Ack", "Complete"} THEN n.peer.session ELSE 0,
   offer |-> IF type = "Offer" THEN n.offer ELSE NoOffer]

(* d sends a packet of this type to its peer over the air as it is (ch)    *)
(* and becomes ok, or the radio refuses and it becomes failed.  A peer     *)
(* that could not be registered with the radio refuses every time.         *)
Send(d, ch, type, ok, failed) ==
  \/ /\ ok.peerAdded
     /\ node' = [node EXCEPT ![d] = ok]
     /\ radio' = [ch EXCEPT ![<<d, ok.peer.device>>] = Fly(@, PacketOf(ok, type))]
     /\ faults' = faults
  \/ /\ ok.peerAdded => faults < given.sendFaults
     /\ faults' = IF ok.peerAdded THEN faults + 1 ELSE faults
     /\ node' = [node EXCEPT ![d] = failed]
     /\ radio' = ch

Quietly(d, ch, n) ==
  /\ node' = [node EXCEPT ![d] = n]
  /\ radio' = ch
  /\ faults' = faults

Broadcast(d, n) ==
  radio' = [pair \in DOMAIN radio |->
    IF pair[1] = d /\ pair[2] \in given.present \ {d} THEN Fly(radio[pair], PacketOf(n, "Hello")) ELSE radio[pair]]

-----------------------------------------------------------------------------
(* What the user and the activity do *)

(* start(): every field of the object is reset, then the first Hello goes  *)
(* out.  The activity starts an exchange only from Idle.                   *)
Start(d, role, offer) ==
  /\ d \in given.present
  /\ node[d].state = "Idle"
  /\ node[d].session < given.sessions
  /\ offer \in IF role = "Sender" THEN Offer ELSE {NoOffer}
  /\ LET n == [state |-> "Discovering", error |-> "None", role |-> role,
               session |-> node[d].session + 1, peer |-> NoPeer, peerAdded |-> FALSE,
               offer |-> offer, peerOffer |-> NoOffer, pairingConfirmed |-> FALSE,
               localBindSent |-> FALSE, peerAcceptedLocalOffer |-> FALSE]
     IN \/ node' = [node EXCEPT ![d] = n] /\ Broadcast(d, n) /\ faults' = faults
        \/ /\ faults < given.sendFaults
           /\ faults' = faults + 1
           /\ \E error \in {"RadioStart", "Protocol"} : node' = [node EXCEPT ![d] = Fail(n, error)]
           /\ radio' = radio
  /\ UNCHANGED <<given, applied>>

(* stop(): the user leaves, the activity closes the exchange after an      *)
(* error, or it exits by itself soon after success (readyToExit()).        *)
Stop(d) ==
  /\ node[d].state # "Idle"
  /\ given.impatient \/ node[d].state = "Accepted"
  /\ Quietly(d, radio, Enter(node[d], "Idle"))
  /\ UNCHANGED <<given, applied>>

(* The user has compared the code shown on both readers.                   *)
ConfirmPairing(d) ==
  LET n == [node[d] EXCEPT !.pairingConfirmed = TRUE] IN
  /\ n.state = "Pairing"
  /\ n.peer # NoPeer
  /\ IF n.role = "Sender"
       THEN Send(d, radio, "Offer", Enter(n, "WaitingForAck"), Fail(n, "Protocol"))
       ELSE Quietly(d, radio, Enter(n, "WaitingForOffer"))
  /\ UNCHANGED <<given, applied>>

(* The user accepts the offer.  The activity saves it first; a save that   *)
(* fails ends the exchange (setError), a saved one is acknowledged, and an *)
(* ACK the radio refuses is left to the retries.                           *)
AcknowledgePeerOffer(d) ==
  LET n == node[d] IN
  /\ n.role = "Receiver"
  /\ n.state = "OfferReady"
  /\ n.peerOffer # NoOffer
  /\ applied' = applied \cup {<<d, n.peer.device, n.peer.session, n.peerOffer>>}
  /\ LET m == Enter(n, "WaitingForComplete") IN Send(d, radio, "Ack", m, m)
  /\ UNCHANGED given

SaveFails(d) ==
  /\ given.impatient
  /\ node[d].role = "Receiver" /\ node[d].state = "OfferReady"
  /\ Quietly(d, radio, Enter(node[d], "Idle"))
  /\ UNCHANGED <<given, applied>>

(* A sender running some other firmware may offer something else halfway.  *)
ChangeOffer(d) ==
  /\ d \in given.fickle
  /\ node[d].state = "WaitingForAck"
  /\ \E offer \in Offer : node' = [node EXCEPT ![d].offer = offer]
  /\ UNCHANGED <<given, radio, faults, applied>>

-----------------------------------------------------------------------------
(* update(): the timers *)

TimedOut(d) ==
  LET n == node[d] IN
  /\ given.impatient
  /\ \/ /\ n.state = "Discovering"
        /\ Quietly(d, radio, Fail(n, IF n.peer # NoPeer THEN "PairingTimeout" ELSE "NoPeer"))
     \/ /\ n.state \in {"WaitingForAck", "WaitingForOffer", "WaitingForComplete"}
        /\ Quietly(d, radio, Fail(n, "TransferTimeout"))
  /\ UNCHANGED <<given, applied>>

(* More than MAX_EVENTS packets arrived since the last update(); those     *)
(* handled before the overflow is noticed are Receive steps before this.   *)
QueueOverflows(d) ==
  /\ given.impatient
  /\ node[d].state \notin {"Idle", "Error"}
  /\ Quietly(d, radio, Fail(node[d], "QueueOverflow"))
  /\ UNCHANGED <<given, applied>>

ResendHello(d) ==
  /\ node[d].state = "Discovering" /\ node[d].peer = NoPeer
  /\ Broadcast(d, node[d])
  /\ UNCHANGED <<given, node, faults, applied>>

(* A retry that the radio refuses is like one that is lost.                *)
Resend(d, type) ==
  /\ node[d].peer # NoPeer
  /\ Send(d, radio, type, IF type = "Bind" THEN [node[d] EXCEPT !.localBindSent = TRUE]
                          ELSE node[d], node[d])
  /\ UNCHANGED <<given, applied>>

(* Mutant: a sender that has confirmed no longer repeats its Bind. *)
BindStatesBeforeConfirm == {"Discovering", "Pairing", "WaitingForOffer", "OfferReady"}

BindStates == {"Discovering", "Pairing", "WaitingForAck", "WaitingForOffer", "OfferReady"}

ResendBind(d) ==
  /\ node[d].state \in BindStates
  /\ Resend(d, "Bind")

ResendOffer(d) ==
  /\ node[d].state = "WaitingForAck"
  /\ ~node[d].peerAcceptedLocalOffer
  /\ Resend(d, "Offer")

ResendAck(d) == node[d].state = "WaitingForComplete" /\ Resend(d, "Ack")

ResendComplete(d) ==
  /\ node[d].state = "Accepted" /\ node[d].role = "Sender"
  /\ Resend(d, "Complete")

-----------------------------------------------------------------------------
(* handlePacket(): the i-th packet from e reaches d *)

PeerOf(e, p) == [device |-> e, session |-> p.session, role |-> p.role]

(* Mutant: the role in the packet is not looked at. *)
HearsAnyRole(n, p) == n.state \notin {"Idle", "Error"}

Hears(n, p) == n.state \notin {"Idle", "Error"} /\ p.role # n.role

(* Mutant: any reader will do once there is a peer. *)
MatchesAnyone(n, e, p) == n.peer # NoPeer

Matches(n, e, p) == n.peer = PeerOf(e, p)

Addressed(n, p) == p.target = n.session

Consumed(e, d, i) == [radio EXCEPT ![<<e, d>>] = SubSeq(@, i + 1, Len(@))]

(* PeerBinding::bind and addPeer; the second may fail and leave a binding  *)
(* that nothing can be sent to.                                            *)
Bound(n, e, p, added) ==
  IF n.peer = NoPeer THEN [n EXCEPT !.peer = PeerOf(e, p), !.peerAdded = added] ELSE n

AddPeerFails(d, ch, e, p) ==
  /\ node[d].peer = NoPeer
  /\ faults < given.sendFaults
  /\ faults' = faults + 1
  /\ node' = [node EXCEPT ![d] = Bound(@, e, p, FALSE)]
  /\ radio' = ch

ReceiveHello(d, e, i) ==
  LET p == radio[<<e, d>>][i]
      n == node[d]
      m == Bound(n, e, p, TRUE)
  IN
  /\ p.type = "Hello" /\ Hears(n, p)
  /\ (n.peer = NoPeer /\ n.state = "Discovering") \/ Matches(n, e, p)
  /\ \/ AddPeerFails(d, Consumed(e, d, i), e, p)
     \/ IF m.state = "Discovering"
          THEN Send(d, Consumed(e, d, i), "Bind", [m EXCEPT !.localBindSent = TRUE],
                    Fail(m, "Protocol"))
          ELSE Quietly(d, Consumed(e, d, i), m)
  /\ UNCHANGED <<given, applied>>

Paired(n) == IF n.state = "Discovering" THEN Enter(n, "Pairing") ELSE n

ReceiveBind(d, e, i) ==
  LET p == radio[<<e, d>>][i]
      n == node[d]
      m == Bound(n, e, p, TRUE)
  IN
  /\ p.type = "Bind" /\ Hears(n, p)
  /\ Addressed(n, p)
  /\ n.peer = NoPeer \/ Matches(n, e, p)
  /\ \/ AddPeerFails(d, Consumed(e, d, i), e, p)
     \/ IF m.localBindSent
          THEN Quietly(d, Consumed(e, d, i), Paired(m))
          ELSE Send(d, Consumed(e, d, i), "Bind", Paired([m EXCEPT !.localBindSent = TRUE]),
                    Fail(m, "Protocol"))
  /\ UNCHANGED <<given, applied>>

(* Mutants: an offer is taken while the user still compares the code; it   *)
(* is acknowledged while the user still looks at it; it replaces the first *)
(* one; the first one repeated counts as a second.                         *)
OfferStatesUnconfirmed ==
  {"Pairing", "WaitingForOffer", "OfferReady", "WaitingForComplete", "Accepted"}
AppliedStatesEarly == {"OfferReady", "WaitingForComplete", "Accepted"}
AnyOffer(n, p) == TRUE
FirstOfferOnly(n, p) == n.peerOffer = NoOffer

OfferStates == {"WaitingForOffer", "OfferReady", "WaitingForComplete", "Accepted"}
AppliedStates == {"WaitingForComplete", "Accepted"}
SameOffer(n, p) == n.peerOffer \in {NoOffer, p.offer}

(* The first offer is pinned: a different one in the same session is an    *)
(* error, and is not acknowledged.                                         *)
ReceiveOffer(d, e, i) ==
  LET p == radio[<<e, d>>][i]
      n == node[d]
      m == [n EXCEPT !.peerOffer = p.offer,
                     !.state = IF @ = "WaitingForOffer" THEN "OfferReady" ELSE @]
  IN
  /\ p.type = "Offer" /\ Hears(n, p)
  /\ n.role = "Receiver"
  /\ n.state \in OfferStates
  /\ Matches(n, e, p)
  /\ IF ~SameOffer(n, p)
       THEN Quietly(d, Consumed(e, d, i), Fail(n, "Protocol"))
       ELSE IF n.state \in AppliedStates
       THEN Send(d, Consumed(e, d, i), "Ack", m, m)
       ELSE Quietly(d, Consumed(e, d, i), m)
  /\ UNCHANGED <<given, applied>>

ReceiveAck(d, e, i) ==
  LET p == radio[<<e, d>>][i]
      n == node[d]
      m == [n EXCEPT !.peerAcceptedLocalOffer = TRUE, !.state = "Accepted"]
  IN
  /\ p.type = "Ack" /\ Hears(n, p)
  /\ n.role = "Sender"
  /\ n.state \in {"WaitingForAck", "Accepted"}
  /\ Addressed(n, p)
  /\ Matches(n, e, p)
  /\ Send(d, Consumed(e, d, i), "Complete", m, m)
  /\ UNCHANGED <<given, applied>>

ReceiveComplete(d, e, i) ==
  LET p == radio[<<e, d>>][i]
      n == node[d]
  IN
  /\ p.type = "Complete" /\ Hears(n, p)
  /\ n.role = "Receiver"
  /\ n.state \in {"WaitingForComplete", "Accepted"}
  /\ Addressed(n, p)
  /\ Matches(n, e, p)
  /\ Quietly(d, Consumed(e, d, i), Enter(n, "Accepted"))
  /\ UNCHANGED <<given, applied>>

Receive(d, e) ==
  \E i \in 1..Len(radio[<<e, d>>]) :
    \/ ReceiveHello(d, e, i) \/ ReceiveBind(d, e, i) \/ ReceiveOffer(d, e, i)
    \/ ReceiveAck(d, e, i) \/ ReceiveComplete(d, e, i)

(* A packet is lost: collision, busy callback guard or busy queue mutex.   *)
Lose(e, d) ==
  /\ \E i \in 1..Len(radio[<<e, d>>]) :
       radio' = [radio EXCEPT ![<<e, d>>] = SubSeq(@, 1, i - 1) \o SubSeq(@, i + 1, Len(@))]
  /\ UNCHANGED <<given, node, faults, applied>>

-----------------------------------------------------------------------------
User(d) ==
  \/ \E role \in Role, offer \in Offer \cup {NoOffer} : Start(d, role, offer)
  \/ Stop(d) \/ ConfirmPairing(d) \/ AcknowledgePeerOffer(d) \/ SaveFails(d)
  \/ ChangeOffer(d)

Update(d) ==
  \/ TimedOut(d) \/ QueueOverflows(d)
  \/ ResendHello(d) \/ ResendBind(d) \/ ResendOffer(d) \/ ResendAck(d) \/ ResendComplete(d)
  \/ \E e \in Device : Receive(d, e)

Next ==
  \/ \E d \in Device : User(d) \/ Update(d)
  \/ \E d, e \in Device : Lose(e, d)

Spec == Init /\ [][Next]_vars

-----------------------------------------------------------------------------
Types ==
  /\ given \in Circumstances
  /\ node \in [Device -> Node]
  /\ \A pair \in Device \X Device :
       Len(radio[pair]) <= given.flight /\ \A i \in 1..Len(radio[pair]) : radio[pair][i] \in Packet
  /\ faults \in 0..given.sendFaults
  /\ applied \subseteq Device \X Device \X Session \X Offer

(* What a reader may be in, and whom it may be bound to, in its role.      *)
RolesFit ==
  \A d \in Device :
    /\ node[d].state = "WaitingForAck" => node[d].role = "Sender"
    /\ node[d].state \in {"WaitingForOffer", "OfferReady", "WaitingForComplete"} => node[d].role = "Receiver"
    /\ node[d].peer # NoPeer => node[d].peer.device # d /\ node[d].peer.role # node[d].role

(* Every exchange and packet has its fields, and readers are bound to      *)
(* others that play the other role.                                        *)
TypeOK == Types /\ RolesFit

PairedState == State \ {"Idle", "Discovering", "Error"}

(* The exchange object d is bound to is still the one e runs.              *)
Current(d) == node[d].peer # NoPeer /\ node[node[d].peer.device].session = node[d].peer.session

PeerNode(d) == node[node[d].peer.device]

(* A reader that shows a pairing code is bound to a reader that is bound   *)
(* to it, in the opposite role, and both compute the code from the same    *)
(* two sessions - whoever else is on the air and however often either side *)
(* started over.                                                           *)
PairingIsMutual ==
  \A d \in Device : node[d].state \in PairedState /\ Current(d) =>
    PeerNode(d).peer = [device |-> d, session |-> node[d].session, role |-> node[d].role]

(* A receiver holds only the offer of the very exchange it is paired with, *)
(* and only after both users confirmed the code.                           *)
OfferIsAuthorised ==
  \A d \in Device : node[d].peerOffer # NoOffer =>
    /\ node[d].pairingConfirmed
    /\ Current(d) => /\ node[d].peer.device \in given.fickle \/ node[d].peerOffer = PeerNode(d).offer
                     /\ PeerNode(d).pairingConfirmed
                     /\ PeerNode(d).peer.device = d

(* A sender reports success only when the receiver has made this offer     *)
(* durable, and a receiver only when the sender knows that it has.         *)
SuccessIsShared ==
  \A d \in Device : node[d].state = "Accepted" =>
    IF node[d].role = "Sender"
      THEN d \in given.fickle \/ <<node[d].peer.device, d, node[d].session, node[d].offer>> \in applied
      ELSE Current(d) => PeerNode(d).peerAcceptedLocalOffer

(* Well-behaved readers never accuse each other of breaking the protocol:  *)
(* only a radio call that fails, or a peer that does change its offer, can *)
(* end an exchange with that error.                                        *)
NoFalseAccusation ==
  \A d \in Device :
    node[d].error = "Protocol" => faults > 0 \/ node[d].peer.device \in given.fickle

(* The offer shown to the user is the one that is saved and acknowledged:  *)
(* within an exchange it never changes once it is there.                   *)
OfferIsPinned ==
  [][\A d \in Device :
       node[d].peerOffer # NoOffer /\ node'[d].session = node[d].session
         => node'[d].peerOffer = node[d].peerOffer]_vars

(* Every ACK that a receiver sends, resent ones included, vouches for the  *)
(* very payload it has made durable, whatever the sender offers meanwhile. *)
AckIsHonest ==
  \A d \in Device :
    node[d].role = "Receiver" /\ node[d].state \in {"WaitingForComplete", "Accepted"} =>
      <<d, node[d].peer.device, node[d].peer.session, node[d].peerOffer>> \in applied

-----------------------------------------------------------------------------
(* Liveness.  Both users confirm what they are asked to confirm; update()  *)
(* is called from the main loop and its timers resend; of infinitely many  *)
(* offers, and of infinitely many other packets, that could be taken the   *)
(* radio lets one through.                                                 *)

Confirm(d) == ConfirmPairing(d) \/ AcknowledgePeerOffer(d)

Repeat(d) == ResendHello(d) \/ ResendBind(d) \/ ResendAck(d) \/ ResendComplete(d)

OfferArrives(d) ==
  \E e \in Device : \E i \in 1..Len(radio[<<e, d>>]) : ReceiveOffer(d, e, i)

OtherArrives(d) ==
  \E e \in Device : \E i \in 1..Len(radio[<<e, d>>]) :
    \/ ReceiveHello(d, e, i) \/ ReceiveBind(d, e, i)
    \/ ReceiveAck(d, e, i) \/ ReceiveComplete(d, e, i)

Fairness ==
  \A d \in Device :
    /\ WF_vars(Confirm(d)) /\ WF_vars(Repeat(d)) /\ WF_vars(ResendOffer(d))
    /\ SF_vars(OfferArrives(d)) /\ SF_vars(OtherArrives(d))

FairSpec == Spec /\ Fairness

(* Two readers started in opposite roles reach a transfer that is durable  *)
(* at the receiver and reported as such by the sender, however many        *)
(* packets are lost: in every state each side still repeats whatever the   *)
(* other may be missing.  (The receiver's own success is not promised: the *)
(* sender stops repeating its Complete when it exits, 900 ms later.)       *)
ExchangeCompletes ==
  \A d, e \in Device :
    ( /\ node[d].role = "Sender" /\ node[d].state = "Discovering"
      /\ node[e].role = "Receiver" /\ node[e].state = "Discovering" )
    ~> /\ node[d].state = "Accepted"
       /\ \E offer \in Offer : <<e, d, node[d].session, offer>> \in applied

=============================================================================
