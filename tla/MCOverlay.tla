----------------------------- MODULE MCOverlay -----------------------------
(***************************************************************************)
(* Small instances of Overlay.  A scenario has the connections that may be *)
(* opened, the calls that may be made and the first state it needs:        *)
(*   "crossing"   nodes 1 and 2 dial each other, drop and ban;             *)
(*   "slots"      nodes 3 and 5 dial node 2, which has one slot for them    *)
(*                and prefers node 3;                                       *)
(*   "ban"        node 2, connected to node 1, dials it, is dropped or     *)
(*                banned;                                                  *)
(*   "race"       one connection that is never accepted, with failures and *)
(*                timers;                                                  *)
(*   "idle"       one connection after its handshake, the same;            *)
(*   "self"       node 1 dials itself, with timers;                        *)
(*   "tick"       node 1 keeps dialing the peers of its configuration;     *)
(*   "promote"    node 2 dials back the node that called it, or sheds it;   *)
(*   "flood"      three connected nodes and a transaction;                 *)
(*   "envelopes"  three connected nodes and an envelope.                   *)
(***************************************************************************)
EXTENDS Overlay

CONSTANTS Scenarios, MaxLedgerSeq

VARIABLES scenario

MCNodes == {1, 2, 3, 5}
MCAddresses == {1, 2, 3, 4, 5}      \* nobody listens at 4

\* Connections are named by their number; caller and address of each.
Calls == <<<<1, 2>>, <<2, 1>>, <<3, 2>>, <<1, 1>>, <<1, 4>>, <<5, 2>>, <<1, 3>>, <<1, 4>>,
           <<2, 3>>, <<3, 1>>>>
MCConnections == DOMAIN Calls
MCCallerOf == [c \in MCConnections |-> Calls[c][1]]
MCAddressOf == [c \in MCConnections |-> Calls[c][2]]

MCNetworkOf == [n \in MCNodes |-> "public"]
MCKnownPeers == [n \in MCNodes |-> IF n = 1 THEN {4} ELSE {}]
MCPreferredPeers == [n \in MCNodes |-> IF n = 1 THEN {3} ELSE {}]
MCPreferredKeys == [n \in MCNodes |-> IF n = 2 THEN {3} ELSE {}]
Orders == {<<1, 2, 3, 4, 5>>, <<5, 4, 3, 2, 1>>}

Open(s) ==
  CASE s \in {"crossing", "ban"} -> {1, 2}
    [] s = "slots" -> {3, 6}
    [] s \in {"race", "idle"} -> {1}
    [] s = "self" -> {4}
    [] s = "tick" -> {5, 7, 8}
    [] s = "promote" -> {1, 2}
    [] s \in {"flood", "envelopes"} -> {1, 9, 10}

ConnectedAtFirst(s) ==
  CASE s \in {"promote", "ban", "idle"} -> {1} [] s \in {"flood", "envelopes"} -> Open(s) [] OTHER -> {}

Steps(s) ==
  CASE s = "crossing" -> {"Connect", "Establish", "Accept", "Shutdown"}
    [] s = "ban" -> {"Connect", "Establish", "Accept", "DropPeer"}
    [] s = "slots" -> {"Connect", "Establish", "Accept"}
    [] s = "race" -> {"Connect", "Timers", "Establish", "Failures"}
    [] s = "self" -> {"Connect", "Timers", "Establish", "Accept"}
    [] s = "idle" -> {"Timers", "Failures", "Submit"}
    [] s = "tick" -> {"Tick", "Timers"}
    [] s = "promote" -> {"Tick", "Establish", "Accept", "Shutdown"}
    [] s = "flood" -> {"Submit", "Close"}
    [] s = "envelopes" -> {"Emit"}

---------------------------------------------------------------------------
(* Connections whose handshake has ended, nothing in flight. *)

Connected(e) ==
  LET me == NodeOf(e)
      them == NodeOf(Other(e))
      sent == IF e[2] = "WE_CALLED_REMOTE" THEN 2 ELSE 3
  IN [NewPeer(e[2], them) EXCEPT
        !.state = "GOT_AUTH", !.peerID = them, !.reading = "header",
        !.link = IF e[2] = "WE_CALLED_REMOTE" THEN "answered" ELSE "accepted",
        !.sendKey = getSendingMacKey(me, them, e, Other(e), e[2]),
        !.recvKey = getReceivingMacKey(me, them, e, Other(e), e[2]),
        !.sendSeq = sent, !.recvSeq = 5 - sent, !.timer = PEER_TIMEOUT]

ConnectedList(n, role, cs) ==
  LET es == {e \in cs \X {role} : NodeOf(e) = n}
  IN [NewList EXCEPT !.authenticated =
        [id \in {NodeOf(Other(e)) : e \in es} |-> CHOOSE e \in es : NodeOf(Other(e)) = id]]

Record(n, a, cs) ==
  [type |-> IF \E c \in cs : CallerOf[c] = n /\ AddressOf[c] = a THEN "OUTBOUND" ELSE "INBOUND",
   failures |-> 0, due |-> FALSE]

InitConnected(cs) ==
  /\ node = [n \in Nodes |->
               LET out == ConnectedList(n, "WE_CALLED_REMOTE", cs)
                   in == ConnectedList(n, "REMOTE_CALLED_US", cs)
               IN [NewNode(n) EXCEPT
                     !.outbound = out, !.inbound = in, !.resolving = "waiting",
                     !.db = [a \in DOMAIN out.authenticated \cup DOMAIN in.authenticated |->
                               Record(n, a, cs)]]]
  /\ ends = [e \in Ends |-> IF e[1] \in cs THEN Connected(e) ELSE NoPeer]
  /\ wire = [e \in Ends |-> <<>>]
  /\ taken = [e \in Ends |-> 0]

MCInit ==
  /\ scenario \in Scenarios
  /\ IF ConnectedAtFirst(scenario) = {} THEN Init ELSE InitConnected(ConnectedAtFirst(scenario))

---------------------------------------------------------------------------
Ticking == IF scenario = "promote" THEN 2 ELSE 1
Victims == {<<>>} \cup (IF scenario = "promote" THEN getAuthenticatedPeers(State(2)) ELSE {})

(* The item is submitted once, and its copies arrive before a node forgets   *)
(* that it had it (four ledgers after it came, in the code).                 *)
Item == 1
NotSubmitted == \A n \in Nodes : node[n].floodMap = <<>> /\ node[n].ledgerSeq = 1
InFlight == \E e \in Ends : taken[Other(e)] < Len(Sent(e))
Forgets(n, applied) ==
  \E t \in DOMAIN node[n].transactions \ applied : node[n].transactions[t] + 1 >= MAX_TX_AGE

(* Where timers and failures are not the question, what is posted or given   *)
(* to the kernel ends before anything else happens, one end after another.   *)
Prompt == scenario \notin {"race", "self", "idle"}
Urgent == {e \in Ends : \/ ends[e].posted > 0 \/ ends[e].reading = "body"
                        \/ ends[e].writing \in {"write", "flush"}}
Calm == Prompt => Urgent = {}
Acting == IF Prompt /\ Urgent # {} THEN {CHOOSE e \in Urgent : TRUE} ELSE Open(scenario) \X Roles

Has(step) == Calm /\ step \in Steps(scenario) /\ UNCHANGED scenario
Same == UNCHANGED scenario

MCNext ==
  \/ \E order \in Orders : Has("Tick") /\ Start(Ticking, order)
  \/ \E order \in Orders : \E victim \in Victims : Has("Tick") /\ Tick(Ticking, victim, order)
  \/ Has("Tick") /\ Resolved(Ticking)
  \/ Has("Tick") /\ triggerPeerResolution(Ticking)
  \/ \E a \in Addresses : Has("Tick") /\ BackOffOver(Ticking, a)
  \/ \E c \in Open(scenario) : Has("Connect") /\ Connect(CallerOf[c], AddressOf[c])
  \/ \E ban \in BOOLEAN : Has("DropPeer") /\ DropPeer(1, 2, ban)
  \/ Has("DropPeer") /\ Unban(1, 2)
  \/ Has("Shutdown") /\ Shutdown(2)
  \/ \E n \in {1, 2} : Has("Submit") /\ NotSubmitted /\ Submit(n, Item)
  \/ \E n \in {1, 2}, applied \in SUBSET {Item} :
       /\ Has("Close") /\ node[n].ledgerSeq < MaxLedgerSeq
       /\ Forgets(n, applied) => ~InFlight
       /\ LedgerClosed(n, applied)
  \/ \E n \in {1, 2} : Has("Emit") /\ Emit(n, Item)
  \/ \E n \in {1, 2, 3} : Has("Emit") /\ EnvelopeReady(n, Item)
  \/ \E c \in Open(scenario) : Has("Establish") /\ Establish(c)
  \/ \E c \in Open(scenario), error \in BOOLEAN : Calm /\ Same /\ ConnectHandler(c, error)
  \/ \E c \in Open(scenario) : Has("Accept") /\ handleKnock(c)
  \/ \E e \in Acting : Calm /\ Same /\ ReadHeader(e)
  \/ \E e \in Acting : Has("Timers") /\ IdleTimer(e)
  \/ \E e \in Acting : Same /\ Written(e)
  \/ \E e \in Acting : Same /\ Flushed(e)
  \/ \E e \in Acting : Same /\ WriteError(e, FALSE)
  \/ \E e \in Acting : Has("Failures") /\ WriteError(e, TRUE)
  \/ \E e \in Acting, ipLost, ready \in BOOLEAN : Same /\ ReadBody(e, ipLost, ready)
  \/ \E e \in Acting : Same /\ ReadError(e, FALSE)
  \/ \E e \in Acting : Same /\ RunPosted(e)

---------------------------------------------------------------------------
(* Liveness, asked of the scenarios that leave timers and failures free.     *)

TimedEnds == {1, 4} \X Roles
Timed(e) == scenario \in (IF e[1] = 1 THEN {"race", "idle"} ELSE {"self"})
mcvars == <<vars, scenario>>

(* The event loop runs what is posted and the timers that expire, and the    *)
(* kernel ends each write it was given, with success or with an error.       *)
(* Nothing is assumed of the other node, nor that a read ever ends.          *)
Fairness ==
  \A e \in TimedEnds :
    /\ WF_vars(Timed(e) /\ RunPosted(e))
    /\ WF_vars(Timed(e) /\ WriteStep(e))
    /\ WF_vars(Timed(e) /\ IdleTimer(e))

MCSpec == MCInit /\ [][MCNext]_mcvars /\ Fairness

Closing(e) == Timed(e) /\ ends[e].state = "CLOSING" /\ ends[e].sock # "closed"
Pending(e) == Timed(e) /\ e \in getPendingPeers(State(NodeOf(e)))

(* Every end that was dropped closes its socket in the end, also one that    *)
(* was told to flush its queue first, and no end stays in mPending: its      *)
(* handshake ends or a timer drops it.                                       *)
ConnectionsEnd ==
  \A e \in TimedEnds : []<>~Closing(e) /\ []<>~Pending(e)
=============================================================================
