------------------------------ MODULE Overlay ------------------------------
(***************************************************************************)
(* The overlay of a few nodes: the overlay manager of each                  *)
(* (overlay/OverlayManagerImpl.cpp, LoadManager.cpp, BanManagerImpl.cpp,    *)
(* PeerDoor.cpp), its ends of the connections (modules TCPPeer and Peer)    *)
(* and the wires between them.                                              *)
(*                                                                          *)
(* node[n] is the record of node n, ends[e] that of an end, wire[e] what e  *)
(* has sent so far and taken[e] how many messages it has read of what the   *)
(* other end sent.  Every action is one callback of the main thread.        *)
(***************************************************************************)
EXTENDS Peer, Folds

CONSTANTS
  HandleBody(_, _, _, _, _, _),  \* what a node does with a message: readBodyHandler
  HandleTick(_, _, _),           \* what it does on a tick: tick
  HandleIO(_, _, _, _),          \* what it does on the other events of a socket: handleIO
  Broadcast(_, _, _),            \* broadcast
  Drop(_, _, _, _),              \* dropWith
  Nodes,            \* the running nodes
  KnownPeers,       \* KNOWN_PEERS of each node, resolved
  PreferredPeers,   \* PREFERRED_PEERS of each node, resolved
  PreferredKeys,    \* PREFERRED_PEER_KEYS of each node
  MAX_TX_AGE        \* ledgers a transaction stays pending (4 in HerderImpl)

VARIABLES node, ends, wire, taken

vars == <<node, ends, wire, taken>>

State(n) == [me |-> n, nd |-> node[n], es |-> ends]

Becomes(n, st) == node' = [node EXCEPT ![n] = st.nd] /\ ends' = st.es

RESERVED_FOR_PROMOTION == 1

NewList == [pending |-> {}, authenticated |-> <<>>]

NewNode(n) ==
  [outbound |-> NewList, inbound |-> NewList, shuttingDown |-> FALSE, aborted |-> {},
   db |-> <<>>, preferred |-> {}, preferredKeys |-> PreferredKeys[n],
   cache |-> [t \in {"INBOUND", "OUTBOUND", "PREFERRED"} |-> <<>>],
   resolving |-> "no", banned |-> {},
   floodMap |-> <<>>, ledgerSeq |-> 1, transactions |-> <<>>, applied |-> {}, processed |-> {}, fetching |-> {}]

---------------------------------------------------------------------------
(* Opening connections. *)

Unused(es, n, a) ==
  {c \in Connections : /\ CallerOf[c] = n /\ AddressOf[c] = a
                       /\ es[<<c, "WE_CALLED_REMOTE">>].state = "none"}

(* connectToImpl; the count is of connections that are now pending. *)
connectToImpl(acc, a, forceoutbound) ==
  LET st == acc.st
      current == getConnectedPeer(st, a)
      e == <<CHOOSE c \in Unused(st.es, st.me, a) : TRUE, "WE_CALLED_REMOTE">>
      added == addOutboundConnection(
                 initiate([st EXCEPT !.nd.db = UpdateBackOff(@, a, "INCREASE")], e), e)
  IN IF current = {} \/ (forceoutbound /\ \A o \in current : o[2] = "REMOTE_CALLED_US")
     THEN [st |-> added, count |-> acc.count + (IF e \in added.nd.outbound.pending THEN 1 ELSE 0)]
     ELSE acc

getPeersToConnectTo(st, maxNum, type, order) ==
  LET keep == {a \in Addresses :
                 LET peer == getConnectedPeer(st, a)
                 IN \/ peer = {}
                    \/ type = "INBOUND" /\ \A o \in peer : o[2] = "REMOTE_CALLED_US"}
  IN getRandomPeers(st.nd.db, st.nd.cache[type], nextAttemptCutoff(type), maxNum, keep, order)

connectTo(st, maxNum, type, order) ==
  LET drawn == getPeersToConnectTo(st, maxNum, type, order)
  IN FoldLeft(LAMBDA acc, a : connectToImpl(acc, a, type = "INBOUND"),
              [st |-> [st EXCEPT !.nd.cache[type] = drawn.cache], count |-> 0], drawn.result)

---------------------------------------------------------------------------
(* What a tick does, in order. *)

(* The costliest authenticated peer; costs are rates, so any peer may be it. *)
maybeShedExcessLoad(st, victim) ==
  IF victim \in getAuthenticatedPeers(st) THEN drop(st, victim, "IGNORE_WRITE_QUEUE") ELSE st

storePeerList(st, addresses, setPreferred, startup) ==
  LET type == IF setPreferred THEN "SET_PREFERRED" ELSE "UPDATE_TO_OUTBOUND"
      stored(db, a) == IF startup THEN UpdateBoth(db, a, type, "HARD_RESET") ELSE UpdateType(db, a, type)
      st1 == IF setPreferred THEN [st EXCEPT !.nd.preferred = addresses] ELSE st
  IN [st1 EXCEPT !.nd.db = FoldSet(LAMBDA a, db : stored(db, a), @, addresses)]

storeResolved(st, startup) ==
  storePeerList(storePeerList(st, KnownPeers[st.me], FALSE, startup), PreferredPeers[st.me], TRUE, startup)

connectToPreferred(st, order) ==
  LET slots == availableOutboundPendingSlots(st)
      tried == connectTo(st, TARGET_PEER_CONNECTIONS, "PREFERRED", order)
  IN IF availableOutboundAuthenticatedSlots(st) > 0 \/ nonPreferredAuthenticatedCount(st) > 0
     THEN [st |-> IF tried.count <= slots THEN tried.st
                  ELSE Abort(tried.st, "pendingUsedByPreferred <= availablePendingSlots"),
           slots |-> slots - tried.count, trying |-> TRUE]
     ELSE [st |-> st, slots |-> slots, trying |-> FALSE]

outboundToConnect(slots, authenticatedSlots) ==
  IF slots > RESERVED_FOR_PROMOTION
  THEN IF slots - RESERVED_FOR_PROMOTION < authenticatedSlots
       THEN slots - RESERVED_FOR_PROMOTION ELSE authenticatedSlots
  ELSE RESERVED_FOR_PROMOTION

(* authenticatedSlots is what was free before the tick opened connections. *)
connectToOutbound(acc, authenticatedSlots, order) ==
  LET tried == connectTo(acc.st, outboundToConnect(acc.slots, authenticatedSlots), "OUTBOUND", order)
  IN IF acc.trying /\ acc.slots > 0 /\ authenticatedSlots > 0
     THEN [acc EXCEPT !.st = IF tried.count <= acc.slots THEN tried.st
                             ELSE Abort(tried.st, "pendingUsedByOutbound <= availablePendingSlots"),
                      !.slots = @ - tried.count]
     ELSE acc

promoteInbound(acc, order) ==
  IF acc.slots > 0 THEN connectTo(acc.st, acc.slots, "INBOUND", order).st ELSE acc.st

tick(st, victim, order) ==
  LET shed == maybeShedExcessLoad(st, victim)
      resolved == IF shed.nd.resolving = "ready"
                  THEN [storeResolved(shed, FALSE) EXCEPT !.nd.resolving = "waiting"] ELSE shed
      preferred == connectToPreferred(resolved, order)
  IN promoteInbound(connectToOutbound(preferred, availableOutboundAuthenticatedSlots(resolved), order),
                    order)

---------------------------------------------------------------------------
(* The timers of the overlay manager and its commands. *)

CanDial(n) == \A a \in DOMAIN node[n].db \cup KnownPeers[n] \cup PreferredPeers[n] : Unused(ends, n, a) # {}

(* The timer set by start() fires: peers of the configuration, resolution, first tick. *)
Start(n, order) ==
  /\ node[n].resolving = "no" /\ ~node[n].shuttingDown /\ CanDial(n)
  /\ LET st == [storeResolved(State(n), TRUE) EXCEPT !.nd.resolving = "running"]
     IN Becomes(n, HandleTick(st, <<>>, order))
  /\ UNCHANGED <<wire, taken>>

Tick(n, victim, order) ==
  /\ node[n].resolving # "no" /\ ~node[n].shuttingDown /\ CanDial(n)
  /\ Becomes(n, HandleTick(State(n), victim, order))
  /\ UNCHANGED <<wire, taken>>

(* The resolver thread is done (the next tick takes its result), and the    *)
(* timer that starts it again.                                              *)
Resolved(n) ==
  /\ node[n].resolving = "running"
  /\ node' = [node EXCEPT ![n].resolving = "ready"]
  /\ UNCHANGED <<ends, wire, taken>>

triggerPeerResolution(n) ==
  /\ node[n].resolving = "waiting" /\ ~node[n].shuttingDown
  /\ node' = [node EXCEPT ![n].resolving = "running"]
  /\ UNCHANGED <<ends, wire, taken>>

BackOffOver(n, a) ==
  /\ a \in DOMAIN node[n].db /\ ~node[n].db[a].due
  /\ node' = [node EXCEPT ![n].db[a].due = TRUE]
  /\ UNCHANGED <<ends, wire, taken>>

(* The "connect" command. *)
Connect(n, a) ==
  /\ Unused(ends, n, a) # {}
  /\ getConnectedPeer(State(n), a) = {}
  /\ Becomes(n, connectToImpl([st |-> State(n), count |-> 0], a, FALSE).st)
  /\ UNCHANGED <<wire, taken>>

(* The "droppeer" command, with or without ban=1, and "unban". *)
DropPeer(n, id, ban) ==
  LET found == {e \in getAuthenticatedPeers(State(n)) : ends[e].peerID = id}
  IN /\ found # {}
     /\ Becomes(n, LET st == Drop(State(n), CHOOSE e \in found : TRUE, "ERR_MISC", "IGNORE_WRITE_QUEUE")
                   IN IF ban THEN [st EXCEPT !.nd.banned = @ \cup {id}] ELSE st)
     /\ UNCHANGED <<wire, taken>>

Unban(n, id) ==
  /\ id \in node[n].banned
  /\ node' = [node EXCEPT ![n].banned = @ \ {id}]
  /\ UNCHANGED <<ends, wire, taken>>

(* mShuttingDown is set before the peers are dropped, and a drop does       *)
(* nothing from then on but queue its error message.                        *)
Shutdown(n) ==
  /\ ~node[n].shuttingDown
  /\ LET st == [State(n) EXCEPT !.nd.shuttingDown = TRUE, !.nd.floodMap = <<>>]
         listed == getPendingPeers(st) \cup Range(st.nd.inbound.authenticated)
                     \cup Range(st.nd.outbound.authenticated)
     IN Becomes(n, FoldSet(LAMBDA e, s : Drop(s, e, "ERR_MISC", "IGNORE_WRITE_QUEUE"), st, listed))
  /\ UNCHANGED <<wire, taken>>

---------------------------------------------------------------------------
(* The herder's use of the overlay. *)

(* A transaction is submitted to n, or n emits an envelope. *)
Submit(n, tx) ==
  /\ tx \notin DOMAIN node[n].transactions \cup node[n].applied
  /\ Becomes(n, Broadcast([State(n) EXCEPT !.nd = takeTransaction(@, tx)], "TRANSACTION", tx))
  /\ UNCHANGED <<wire, taken>>

Emit(n, env) ==
  /\ env \notin node[n].fetching
  /\ Becomes(n, Broadcast([State(n) EXCEPT !.nd.processed = @ \cup {env}], "SCP_MESSAGE", env))
  /\ UNCHANGED <<wire, taken>>

(* What an envelope waited for has arrived. *)
EnvelopeReady(n, env) ==
  /\ env \in node[n].fetching
  /\ Becomes(n, envelopeReady(State(n), env))
  /\ UNCHANGED <<wire, taken>>

(* A ledger closes: old flood records go, the transactions it applied and    *)
(* the oldest pending ones too, and the other ones are broadcast again.      *)
LedgerClosed(n, applied) ==
  LET old == State(n)
      pending == {t \in DOMAIN old.nd.transactions \ applied : old.nd.transactions[t] + 1 < MAX_TX_AGE}
      st == clearBelow([old EXCEPT !.nd.ledgerSeq = @ + 1, !.nd.applied = @ \cup applied,
                                   !.nd.transactions = [t \in pending |-> @[t] + 1]],
                       old.nd.ledgerSeq + 1)
  IN /\ applied \subseteq DOMAIN old.nd.transactions
     /\ Becomes(n, FoldSet(LAMBDA t, s : Broadcast(s, "TRANSACTION", t), st, pending))
     /\ UNCHANGED <<wire, taken>>

---------------------------------------------------------------------------
(* What the sockets do. *)

handleIO(event, st, e, error) ==
  CASE event = "connect" -> connectHandler(st, e, error)
    [] event = "write" -> written(st, e, error)
    [] event = "flush" -> flushed(st, e, error)
    [] event = "header" -> readHeaderHandler(st, e, error)
    [] event = "timer" -> idleTimerExpired(st, e)

Running(a) == a \in Nodes

(* The kernel establishes a connection; the handler runs later. *)
Establish(c) ==
  LET e == <<c, "WE_CALLED_REMOTE">>
  IN /\ ends[e].link = "calling" /\ ends[e].sock # "closed"
     /\ Running(AddressOf[c]) /\ ~node[AddressOf[c]].shuttingDown
     /\ ends' = [ends EXCEPT ![e].link = "established"]
     /\ UNCHANGED <<node, wire, taken>>

ConnectHandler(c, error) ==
  LET e == <<c, "WE_CALLED_REMOTE">>
      st == [State(NodeOf(e)) EXCEPT !.es[e].link = IF error THEN "failed" ELSE "answered"]
  IN /\ ends[e].link = IF error THEN "calling" ELSE "established"
     /\ Becomes(NodeOf(e), HandleIO("connect", st, e, error))
     /\ UNCHANGED <<wire, taken>>

handleKnock(c) ==
  LET e == <<c, "REMOTE_CALLED_US">>
  IN /\ ends[Other(e)].link \in {"established", "answered"}
     /\ ends[e].state = "none" /\ ~node[NodeOf(e)].shuttingDown
     /\ Becomes(NodeOf(e), addInboundConnection(accept(State(NodeOf(e)), e), e))
     /\ UNCHANGED <<wire, taken>>

Written(e) ==
  /\ ends[e].writing = "write" /\ ends[e].sock = "open"
  /\ wire' = [wire EXCEPT ![e] = Append(@, Head(ends[e].queue))]
  /\ Becomes(NodeOf(e), HandleIO("write", State(NodeOf(e)), e, FALSE))
  /\ UNCHANGED taken

Flushed(e) ==
  /\ ends[e].writing = "flush" /\ ends[e].sock = "open"
  /\ Becomes(NodeOf(e), HandleIO("flush", State(NodeOf(e)), e, FALSE))
  /\ UNCHANGED <<wire, taken>>

(* An operation fails when the connection is gone, or (fails) on its own. *)
WriteError(e, fails) ==
  /\ ends[e].writing \in {"write", "flush"}
  /\ fails \/ ends[e].sock # "open" \/ ends[Other(e)].sock # "open"
  /\ Becomes(NodeOf(e), HandleIO(ends[e].writing, State(NodeOf(e)), e, TRUE))
  /\ UNCHANGED <<wire, taken>>

Unread(e) == taken[e] < Len(wire[Other(e)])

ReadHeader(e) ==
  /\ ends[e].reading = "header" /\ ends[e].sock = "open" /\ Unread(e)
  /\ Becomes(NodeOf(e), HandleIO("header", State(NodeOf(e)), e, FALSE))
  /\ UNCHANGED <<wire, taken>>

ReadBody(e, ipLost, ready) ==
  /\ ends[e].reading = "body" /\ ends[e].sock = "open" /\ Unread(e)
  /\ ipLost => ends[Other(e)].sock = "closed"
  /\ taken' = [taken EXCEPT ![e] = @ + 1]
  /\ Becomes(NodeOf(e), HandleBody(State(NodeOf(e)), e, wire[Other(e)][taken[e] + 1],
                                        ipLost, ready, FALSE))
  /\ UNCHANGED wire

(* The end of the stream, a reset by the other end, or a failure. *)
ReadError(e, fails) ==
  /\ ends[e].reading \in {"header", "body"}
  /\ \/ fails \/ ends[e].sock # "open" \/ ends[Other(e)].sock = "closed"
     \/ ends[Other(e)].sock = "shut" /\ ~Unread(e)
  /\ Becomes(NodeOf(e), IF ends[e].reading = "header"
                        THEN HandleIO("header", State(NodeOf(e)), e, TRUE)
                        ELSE HandleBody(State(NodeOf(e)), e, <<>>, FALSE, FALSE, TRUE))
  /\ UNCHANGED <<wire, taken>>

(* The two tasks shutdown() posts, one after the other. *)
RunPosted(e) ==
  /\ ends[e].posted > 0
  /\ ends' = [ends EXCEPT ![e] =
               IF @.posted = 1 THEN [@ EXCEPT !.sock = "shut", !.posted = 2]
               ELSE [@ EXCEPT !.sock = "closed", !.posted = 0]]
  /\ UNCHANGED <<node, wire, taken>>

IdleTimer(e) ==
  /\ ends[e].timer > 0
  /\ Becomes(NodeOf(e), HandleIO("timer", State(NodeOf(e)), e, FALSE))
  /\ UNCHANGED <<wire, taken>>

---------------------------------------------------------------------------
Init ==
  /\ node = [n \in Nodes |-> NewNode(n)]
  /\ ends = [e \in Ends |-> NoPeer]
  /\ wire = [e \in Ends |-> <<>>]
  /\ taken = [e \in Ends |-> 0]

WriteStep(e) == Written(e) \/ Flushed(e) \/ \E fails \in BOOLEAN : WriteError(e, fails)

---------------------------------------------------------------------------
(* Properties. *)

Listed(n) ==
  UNION {node[n][l].pending \cup Range(node[n][l].authenticated) : l \in {"inbound", "outbound"}}

(* However dials cross, handshakes interleave and peers are dropped, a node *)
(* never lists two connections to the same node (recvHello looks at both    *)
(* lists), holds no more peers than it has slots for, keeps in              *)
(* mAuthenticated only peers whose handshake ended, under their own NodeID, *)
(* and in mPending only ones whose handshake has not; and no assertion of   *)
(* the overlay fails.                                                       *)
ListsAreRight ==
  \A n \in Nodes :
    /\ node[n].aborted = {}
    /\ \A e, f \in Listed(n) : e # f /\ ends[e].peerID # 0 => ends[e].peerID # ends[f].peerID
    /\ Cardinality(node[n].outbound.pending) <= MAX_OUTBOUND_PENDING_CONNECTIONS
    /\ Cardinality(node[n].inbound.pending) <=
         MAX_INBOUND_PENDING_CONNECTIONS + POSSIBLY_PREFERRED_EXTRA
    /\ \A l \in {"inbound", "outbound"} :
         LET list == node[n][l]
         IN /\ Cardinality(DOMAIN list.authenticated) <= maxAuthenticatedCount(l)
            /\ \A id \in DOMAIN list.authenticated :
                 ends[list.authenticated[id]].state = "GOT_AUTH" /\ ends[list.authenticated[id]].peerID = id
            /\ \A e \in list.pending : ends[e].state \in {"CONNECTING", "CONNECTED", "GOT_HELLO"}

(* What e has sent on its connection, what is still queued included. *)
Sent(e) == wire[e] \o ends[e].queue

(* Two nodes that follow the protocol never take each other for an          *)
(* impostor: whatever is sent in both directions at once, each message has  *)
(* the key and the sequence number its receiver expects, so that neither    *)
(* end reports ERR_AUTH.                                                    *)
HonestPeersAuthenticate ==
  \A e \in Ends : \A i \in DOMAIN Sent(e) :
    Sent(e)[i].type = "ERROR_MSG" => Sent(e)[i].body # "ERR_AUTH"

ReceivedItems(e, type) ==
  {wire[Other(e)][i].body : i \in {i \in 1 .. taken[e] : wire[Other(e)][i].type = type}}

(* A transaction goes over a connection at most once in each direction, and *)
(* never back to a peer it was received from (Floodgate.h), although every  *)
(* ledger close broadcasts pending transactions again and old flood records *)
(* are forgotten.                                                           *)
FloodOnce ==
  [][\A e \in Ends : \A i \in Len(Sent(e)) + 1 .. Len(Sent(e)') :
       Sent(e)'[i].type = "TRANSACTION" =>
         /\ \A j \in 1 .. i - 1 : Sent(e)'[j].type = "TRANSACTION" => Sent(e)'[j].body # Sent(e)'[i].body
         /\ Sent(e)'[i].body \notin ReceivedItems(e, "TRANSACTION")']_vars
=============================================================================
