------------------------------ MODULE TCPPeer ------------------------------
(***************************************************************************)
(* One end of a connection (overlay/TCPPeer.cpp, the transport part of      *)
(* overlay/Peer.cpp) and the lists of peers a node keeps                    *)
(* (OverlayManagerImpl::PeersList).                                         *)
(*                                                                          *)
(* Connection c joins two ends, <<c, "WE_CALLED_REMOTE">> at its caller and *)
(* <<c, "REMOTE_CALLED_US">> at the node it called.  A handler works on     *)
(* st = [me, nd, es]: the node it runs at, that node's record and the       *)
(* records of all ends, of which it changes its own node's only.            *)
(*                                                                          *)
(* All handlers run on the main thread.  What asio completes later is part  *)
(* of an end's record: writing is the operation in flight ("write" or       *)
(* "flush"), link how far asynchronous connecting is, sock the socket,      *)
(* reading what is being read ("header" or "body"), posted the task of      *)
(* shutdown() that runs next (0 for none), timer the time mIdleTimer is     *)
(* armed for (0 if it is not).  Ages count the time since the last read,    *)
(* the last write and the last empty queue in units of                      *)
(* PEER_AUTHENTICATION_TIMEOUT, growing each time the idle timer expires;   *)
(* -1 is an event after the timer was last armed.                           *)
(***************************************************************************)
EXTENDS PeerRecords

CONSTANTS
  Connections,      \* connections that may be opened
  CallerOf,         \* the node that opens each
  AddressOf,        \* the address it calls
  PEER_TIMEOUT, PEER_STRAGGLER_TIMEOUT,
  TARGET_PEER_CONNECTIONS, MAX_ADDITIONAL_PEER_CONNECTIONS,
  MAX_OUTBOUND_PENDING_CONNECTIONS, MAX_INBOUND_PENDING_CONNECTIONS,
  POSSIBLY_PREFERRED_EXTRA,
  PREFERRED_PEERS_ONLY

Roles == {"WE_CALLED_REMOTE", "REMOTE_CALLED_US"}
Ends == Connections \X Roles
Other(e) == <<e[1], CHOOSE r \in Roles : r # e[2]>>

(* A running node is named by its address; address and NodeID 0 are empty. *)
NodeOf(e) == IF e[2] = "WE_CALLED_REMOTE" THEN CallerOf[e[1]] ELSE AddressOf[e[1]]

NoKey == <<>>

NewPeer(role, address) ==
  [state |-> IF role = "WE_CALLED_REMOTE" THEN "CONNECTING" ELSE "CONNECTED",
   address |-> address, peerID |-> 0,
   sendKey |-> NoKey, recvKey |-> NoKey, sendSeq |-> 0, recvSeq |-> 0,
   queue |-> <<>>, writing |-> "no", delayed |-> FALSE, scheduled |-> FALSE, posted |-> 0,
   sock |-> "open", link |-> IF role = "WE_CALLED_REMOTE" THEN "calling" ELSE "accepted",
   reading |-> "no", timer |-> 0, sinceRead |-> 0, sinceWrite |-> 0, sinceEmpty |-> 0]

NoPeer == [NewPeer("WE_CALLED_REMOTE", 0) EXCEPT !.state = "none", !.link = "none"]

isAuthenticated(p) == p.state = "GOT_AUTH"

shouldAbort(st, e) == st.es[e].state = "CLOSING" \/ st.nd.shuttingDown

Set(st, e, p) == [st EXCEPT !.es[e] = p]

Abort(st, why) == [st EXCEPT !.nd.aborted = @ \cup {why}]

getIOTimeout(p) == IF isAuthenticated(p) THEN PEER_TIMEOUT ELSE 1

startIdleTimer(st, e) ==
  IF shouldAbort(st, e) THEN st ELSE [st EXCEPT !.es[e].timer = getIOTimeout(st.es[e])]

startRead(st, e) ==
  IF shouldAbort(st, e) THEN st
  ELSE IF st.es[e].reading # "no" THEN Abort(st, "mIncomingHeader.size() == 0")
  ELSE [st EXCEPT !.es[e].reading = "header"]

messageSender(p) ==
  IF p.queue = <<>>
  THEN [p EXCEPT !.writing = "flush", !.sinceEmpty = -1]
  ELSE [p EXCEPT !.writing = "write"]

sendBytes(st, e, msg) ==
  LET p == [st.es[e] EXCEPT !.queue = Append(@, msg)]
  IN IF st.es[e].state = "CLOSING" THEN st
     ELSE Set(st, e, IF p.writing = "no" THEN messageSender(p) ELSE p)

shutdown(p) ==
  IF p.scheduled THEN p ELSE [p EXCEPT !.timer = 0, !.scheduled = TRUE, !.posted = 1]

---------------------------------------------------------------------------
(* The lists: pending is a set of ends, authenticated maps a NodeID to an end. *)

ListOf(e) == IF e[2] = "WE_CALLED_REMOTE" THEN "outbound" ELSE "inbound"

Without(f, k) == [x \in DOMAIN f \ {k} |-> f[x]]

removePeer(st, e) ==
  LET l == ListOf(e)
      id == st.es[e].peerID
  IN IF st.es[e].state # "CLOSING" THEN Abort(st, "peer->getState() == Peer::CLOSING")
     ELSE IF e \in st.nd[l].pending THEN [st EXCEPT !.nd[l].pending = @ \ {e}]
     ELSE IF id \in DOMAIN st.nd[l].authenticated
          THEN [st EXCEPT !.nd[l].authenticated = Without(@, id)]
          ELSE st

drop_NoDelayedShutdown(st, e, mode) ==
  LET closing == removePeer([st EXCEPT !.es[e].state = "CLOSING"], e)
      p == closing.es[e]
  IN IF shouldAbort(st, e) THEN st
     ELSE Set(closing, e, IF mode = "IGNORE_WRITE_QUEUE" \/ p.writing = "no" THEN shutdown(p) ELSE p)

drop(st, e, mode) ==
  LET closing == removePeer([st EXCEPT !.es[e].state = "CLOSING"], e)
      p == closing.es[e]
  IN IF shouldAbort(st, e) THEN st
     ELSE Set(closing, e, IF mode = "IGNORE_WRITE_QUEUE" \/ p.writing = "no"
                          THEN shutdown(p) ELSE [p EXCEPT !.delayed = TRUE])

byAddress(st, l, a) ==
  {e \in st.nd[l].pending \cup Range(st.nd[l].authenticated) : st.es[e].address = a}

(* The peer getConnectedPeer returns: an outbound one if there is one. *)
getConnectedPeer(st, a) ==
  IF byAddress(st, "outbound", a) # {} THEN byAddress(st, "outbound", a) ELSE byAddress(st, "inbound", a)

getAuthenticatedPeers(st) ==
  Range(st.nd.outbound.authenticated) \cup
  {st.nd.inbound.authenticated[n] :
     n \in DOMAIN st.nd.inbound.authenticated \ DOMAIN st.nd.outbound.authenticated}

getPendingPeers(st) == st.nd.outbound.pending \cup st.nd.inbound.pending

isPreferred(st, e) ==
  \/ st.es[e].address \in st.nd.preferred
  \/ isAuthenticated(st.es[e]) /\ st.es[e].peerID \in st.nd.preferredKeys

maxAuthenticatedCount(l) ==
  IF l = "outbound" THEN TARGET_PEER_CONNECTIONS ELSE MAX_ADDITIONAL_PEER_CONNECTIONS

(* The result and the state after moving e from pending to authenticated. *)
moveToAuthenticated(st, e) ==
  LET l == ListOf(e)
      id == st.es[e].peerID
  IN IF e \notin st.nd[l].pending \/ id \in DOMAIN st.nd[l].authenticated
     THEN [moved |-> FALSE, st |-> st]
     ELSE [moved |-> TRUE,
           st |-> [st EXCEPT !.nd[l] =
                    [pending |-> @.pending \ {e},
                     authenticated |->
                       [n \in DOMAIN @.authenticated \cup {id} |->
                          IF n = id THEN e ELSE @.authenticated[n]]]]]

availableOutboundPendingSlots(st) ==
  LET used == Cardinality(st.nd.outbound.pending)
  IN IF used < MAX_OUTBOUND_PENDING_CONNECTIONS
     THEN MAX_OUTBOUND_PENDING_CONNECTIONS - used ELSE 0

availableOutboundAuthenticatedSlots(st) ==
  LET used == Cardinality(DOMAIN st.nd.outbound.authenticated)
  IN IF used < TARGET_PEER_CONNECTIONS THEN TARGET_PEER_CONNECTIONS - used ELSE 0

nonPreferredAuthenticatedCount(st) ==
  Cardinality({e \in Range(st.nd.outbound.authenticated) : ~isPreferred(st, e)})

isPossiblyPreferred(st, ip) == ip \in st.nd.preferred

---------------------------------------------------------------------------
(* Opening a connection. *)

addInboundConnection(st, e) ==
  LET used == Cardinality(st.nd.inbound.pending)
      haveSpace == \/ used < MAX_INBOUND_PENDING_CONNECTIONS
                   \/ /\ used < MAX_INBOUND_PENDING_CONNECTIONS + POSSIBLY_PREFERRED_EXTRA
                      /\ isPossiblyPreferred(st, CallerOf[e[1]])
  IN IF st.nd.shuttingDown \/ ~haveSpace
     THEN drop(st, e, "IGNORE_WRITE_QUEUE")
     ELSE [st EXCEPT !.nd.inbound.pending = @ \cup {e}]

addOutboundConnection(st, e) ==
  IF \/ st.nd.shuttingDown
     \/ Cardinality(st.nd.outbound.pending) >= MAX_OUTBOUND_PENDING_CONNECTIONS
  THEN drop(st, e, "IGNORE_WRITE_QUEUE")
  ELSE [st EXCEPT !.nd.outbound.pending = @ \cup {e}]

initiate(st, e) ==
  startIdleTimer(Set(st, e, NewPeer("WE_CALLED_REMOTE", AddressOf[e[1]])), e)

accept(st, e) ==
  startRead(startIdleTimer(Set(st, e, NewPeer("REMOTE_CALLED_US", 0)), e), e)

---------------------------------------------------------------------------
(* What asio calls back. *)

writeHandler(st, e, error) ==
  LET st1 == [st EXCEPT !.es[e].sinceWrite = -1]
  IN IF ~error THEN st1
     ELSE IF st.es[e].delayed THEN Set(st1, e, shutdown(st1.es[e]))
     ELSE drop(st1, e, "IGNORE_WRITE_QUEUE")

(* async_write completed: the front of the queue was written, or was not. *)
written(st, e, error) ==
  LET st1 == writeHandler(st, e, error)
      p == [st1.es[e] EXCEPT !.queue = Tail(@)]
  IN Set(st1, e, IF error THEN [p EXCEPT !.writing = "failed"] ELSE messageSender(p))

(* async_flush completed. *)
flushed(st, e, error) ==
  LET st1 == writeHandler(st, e, error)
      p == st1.es[e]
      idle == [p EXCEPT !.writing = "no"]
  IN IF error THEN Set(st1, e, [p EXCEPT !.writing = "failed"])
     ELSE Set(st1, e, IF p.queue # <<>> THEN messageSender(p)
                      ELSE IF p.delayed THEN shutdown(idle) ELSE idle)

receivedBytes(st, e) == IF shouldAbort(st, e) THEN st ELSE [st EXCEPT !.es[e].sinceRead = -1]

(* The header of a message was read; its length is acceptable. *)
readHeaderHandler(st, e, error) ==
  IF error THEN drop([st EXCEPT !.es[e].reading = "failed"], e, "IGNORE_WRITE_QUEUE")
  ELSE [receivedBytes(st, e) EXCEPT !.es[e].reading = "body"]

idleTimerExpired(st, e) ==
  LET grown(age) == IF age > PEER_STRAGGLER_TIMEOUT THEN age ELSE age + st.es[e].timer
      st1 == [st EXCEPT !.es[e] =
               [@ EXCEPT !.timer = 0, !.sinceRead = grown(st.es[e].sinceRead),
                         !.sinceWrite = grown(st.es[e].sinceWrite),
                         !.sinceEmpty = grown(st.es[e].sinceEmpty)]]
      p == st1.es[e]
      timeout == getIOTimeout(p)
  IN IF \/ p.sinceRead >= timeout /\ p.sinceWrite >= timeout
        \/ p.sinceEmpty >= PEER_STRAGGLER_TIMEOUT
     THEN drop(st1, e, "IGNORE_WRITE_QUEUE")
     ELSE startIdleTimer(st1, e)
=============================================================================
