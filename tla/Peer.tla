-------------------------------- MODULE Peer --------------------------------
(***************************************************************************)
(* The protocol part of a peer (overlay/Peer.cpp): the HELLO/AUTH           *)
(* handshake with its keys (overlay/PeerAuth.cpp), the messages that follow *)
(* it, and the flood gate (overlay/Floodgate.cpp).                          *)
(*                                                                          *)
(* A message is [type, body, seq, mac].  Keys are terms: a MAC key is built *)
(* from the two public keys, the direction and the two nonces, and a MAC is *)
(* valid when it is the receiver's key.  A public key is its node, a nonce  *)
(* its end.  Bodies: HELLO carries the sender's identity, PEERS a set of    *)
(* addresses, ERROR_MSG a code, TRANSACTION and SCP_MESSAGE an item,        *)
(* GET_SCP_STATE nothing.                                                   *)
(***************************************************************************)
EXTENDS TCPPeer

CONSTANTS
  NetworkOf,        \* the network a node belongs to
  FLOOD_LEEWAY      \* ledgers a flood record is kept; 10 in Floodgate::clearBelow

PlainTypes == {"HELLO", "ERROR_MSG"}
HandshakeTypes == {"HELLO", "AUTH", "ERROR_MSG"}

sendMessage(st, e, type, body) ==
  LET p == st.es[e]
      plain == type \in PlainTypes
      msg == [type |-> type, body |-> body, seq |-> IF plain THEN 0 ELSE p.sendSeq,
              mac |-> IF plain THEN NoKey ELSE p.sendKey]
  IN sendBytes(IF plain THEN st ELSE [st EXCEPT !.es[e].sendSeq = @ + 1], e, msg)

(* Peer::drop(err, msg, dropMode). *)
dropWith(st, e, code, mode) == drop(sendMessage(st, e, "ERROR_MSG", code), e, mode)

sendHello(st, e) ==
  sendMessage(st, e, "HELLO",
              [peerID |-> st.me, pubkey |-> st.me, nonce |-> e, networkID |-> NetworkOf[st.me]])

sendAuth(st, e) == sendMessage(st, e, "AUTH", 0)

sendPeers(st, e) ==
  sendMessage(st, e, "PEERS", getPeersToSend(st.nd.db, st.es[e].address))

sendGetScpState(st, e) == sendMessage(st, e, "GET_SCP_STATE", 0)

---------------------------------------------------------------------------
(* PeerAuth: both ends derive the same shared key, the caller's half first. *)

getSharedKey(localPublic, remotePublic, role) ==
  IF role = "WE_CALLED_REMOTE" THEN <<localPublic, remotePublic>> ELSE <<remotePublic, localPublic>>

getSendingMacKey(localPublic, remotePublic, localNonce, remoteNonce, role) ==
  <<getSharedKey(localPublic, remotePublic, role),
    IF role = "WE_CALLED_REMOTE" THEN 0 ELSE 1, localNonce, remoteNonce>>

getReceivingMacKey_Swapped(localPublic, remotePublic, localNonce, remoteNonce, role) ==
  <<getSharedKey(localPublic, remotePublic, role),
    IF role = "WE_CALLED_REMOTE" THEN 1 ELSE 0, localNonce, remoteNonce>>

getReceivingMacKey(localPublic, remotePublic, localNonce, remoteNonce, role) ==
  <<getSharedKey(localPublic, remotePublic, role),
    IF role = "WE_CALLED_REMOTE" THEN 1 ELSE 0, remoteNonce, localNonce>>

---------------------------------------------------------------------------
(* Floodgate: nd.floodMap maps a message to [ledgerSeq, told]. *)

Flooded(nd, type, item) == <<type, item>> \in DOMAIN nd.floodMap

putRecord(nd, key, record) ==
  [nd EXCEPT !.floodMap = [k \in DOMAIN @ \cup {key} |-> IF k = key THEN record ELSE @[k]]]

addRecord(st, e, type, item) ==
  LET key == <<type, item>>
      from == {st.es[e].address}
  IN IF st.nd.shuttingDown THEN st
     ELSE IF Flooded(st.nd, type, item)
     THEN [st EXCEPT !.nd.floodMap[key].told = @ \cup from]
     ELSE [st EXCEPT !.nd = putRecord(@, key, [ledgerSeq |-> @.ledgerSeq, told |-> from])]

broadcast_ForgetsWhoWasTold(st, type, item) ==
  LET key == <<type, item>>
      nd == IF Flooded(st.nd, type, item) THEN st.nd
            ELSE putRecord(st.nd, key, [ledgerSeq |-> st.nd.ledgerSeq, told |-> {}])
      untold == {e \in getAuthenticatedPeers(st) : st.es[e].address \notin nd.floodMap[key].told}
      sent == [e \in DOMAIN st.es |->
                 IF e \in untold THEN sendMessage(st, e, type, item).es[e] ELSE st.es[e]]
  IN IF st.nd.shuttingDown THEN st ELSE [st EXCEPT !.nd = nd, !.es = sent]

(* Sends to the authenticated peers not told before, in any order: each has  *)
(* its own queue.                                                            *)
broadcast(st, type, item) ==
  LET key == <<type, item>>
      nd == IF Flooded(st.nd, type, item) THEN st.nd
            ELSE putRecord(st.nd, key, [ledgerSeq |-> st.nd.ledgerSeq, told |-> {}])
      peers == getAuthenticatedPeers(st)
      untold == {e \in peers : st.es[e].address \notin nd.floodMap[key].told}
      sent == [e \in DOMAIN st.es |->
                 IF e \in untold THEN sendMessage(st, e, type, item).es[e] ELSE st.es[e]]
      told == [nd EXCEPT !.floodMap[key].told = @ \cup {st.es[e].address : e \in untold}]
  IN IF st.nd.shuttingDown THEN st
     ELSE IF \E e \in peers : ~isAuthenticated(st.es[e])
     THEN Abort(st, "peer.second->isAuthenticated()")
     ELSE [st EXCEPT !.nd = told, !.es = sent]

clearBelow(st, currentLedger) ==
  LET keep == {k \in DOMAIN st.nd.floodMap :
                 st.nd.floodMap[k].ledgerSeq + FLOOD_LEEWAY >= currentLedger}
  IN [st EXCEPT !.nd.floodMap = [k \in keep |-> st.nd.floodMap[k]]]

---------------------------------------------------------------------------
(* The handshake. *)

updatePeerRecordAfterEcho(st, e) ==
  [st EXCEPT !.nd.db = UpdateType(@, st.es[e].address,
     IF isPreferred(st, e) THEN "SET_PREFERRED"
     ELSE IF e[2] = "WE_CALLED_REMOTE" THEN "SET_OUTBOUND" ELSE "REMOVE_PREFERRED")]

updatePeerRecordAfterAuthentication(st, e) ==
  IF e[2] = "WE_CALLED_REMOTE"
  THEN [st EXCEPT !.nd.db = UpdateBackOff(@, st.es[e].address, "RESET")]
  ELSE st

alreadyConnected_PendingIgnored(st, e) ==
  \E l \in {"outbound", "inbound"} : st.es[e].peerID \in DOMAIN st.nd[l].authenticated

(* Another connection of this node, pending or authenticated, to the same node. *)
alreadyConnected(st, e) ==
  \/ \E l \in {"outbound", "inbound"} : st.es[e].peerID \in DOMAIN st.nd[l].authenticated
  \/ \E o \in getPendingPeers(st) \ {e} : st.es[o].peerID = st.es[e].peerID

(* ipLost: the remote endpoint of the socket is gone, so getIP() is empty. *)
recvHello(st, e, elo, ipLost) ==
  LET role == e[2]
      st1 == [st EXCEPT !.es[e] =
               [@ EXCEPT !.state = "GOT_HELLO", !.peerID = elo.peerID,
                         !.sendSeq = 0, !.recvSeq = 0,
                         !.sendKey = getSendingMacKey(st.me, elo.pubkey, e, elo.nonce, role),
                         !.recvKey = getReceivingMacKey(st.me, elo.pubkey, e, elo.nonce, role)]]
      st2 == IF role = "REMOTE_CALLED_US" THEN sendHello(st1, e) ELSE st1
      mode == IF role = "REMOTE_CALLED_US" THEN "FLUSH_WRITE_QUEUE" ELSE "IGNORE_WRITE_QUEUE"
      st3 == updatePeerRecordAfterEcho([st2 EXCEPT !.es[e].address = NodeOf(Other(e))], e)
  IN IF st.es[e].state \in {"GOT_HELLO", "GOT_AUTH"} \/ elo.peerID \in st.nd.banned
     THEN drop(st, e, "IGNORE_WRITE_QUEUE")
     ELSE IF elo.peerID = st.me \/ elo.networkID # NetworkOf[st.me]
     THEN dropWith(st2, e, "ERR_CONF", mode)
     ELSE IF ipLost THEN dropWith(st2, e, "ERR_CONF", "IGNORE_WRITE_QUEUE")
     ELSE IF alreadyConnected(st3, e) THEN dropWith(st3, e, "ERR_CONF", mode)
     ELSE IF role = "WE_CALLED_REMOTE" THEN sendAuth(st3, e)
     ELSE st3

(* A preferred peer takes the place of the first one that is not. *)
acceptAuthenticatedPeer(st, e) ==
  LET auth == st.nd[ListOf(e)].authenticated
      space == Cardinality(DOMAIN auth) < maxAuthenticatedCount(ListOf(e))
      victims == {n \in DOMAIN auth : ~isPreferred(st, auth[n])}
      victim == CHOOSE n \in victims : \A m \in victims : n <= m
  IN IF isPreferred(st, e) /\ ~space /\ victims # {}
     THEN moveToAuthenticated(dropWith(st, auth[victim], "ERR_LOAD", "IGNORE_WRITE_QUEUE"), e)
     ELSE IF space /\ (isPreferred(st, e) \/ ~PREFERRED_PEERS_ONLY)
     THEN moveToAuthenticated(st, e)
     ELSE [moved |-> FALSE, st |-> st]

recvAuth(st, e) ==
  LET st1 == [st EXCEPT !.es[e].state = "GOT_AUTH"]
      st2 == IF e[2] = "REMOTE_CALLED_US" THEN sendPeers(sendAuth(st1, e), e) ELSE st1
      accepted == acceptAuthenticatedPeer(updatePeerRecordAfterAuthentication(st2, e), e)
  IN IF st.es[e].state # "GOT_HELLO" THEN dropWith(st, e, "ERR_MISC", "IGNORE_WRITE_QUEUE")
     ELSE IF accepted.moved THEN sendGetScpState(accepted.st, e)
     ELSE dropWith(accepted.st, e, "ERR_LOAD", "FLUSH_WRITE_QUEUE")

connectHandler(st, e, error) ==
  IF error THEN drop(st, e, "IGNORE_WRITE_QUEUE")
  ELSE sendHello([startRead(st, e) EXCEPT !.es[e].state = "CONNECTED"], e)

---------------------------------------------------------------------------
(* The messages of authenticated peers. *)

(* An address is taken for the node's own when it has the sender's IP and   *)
(* this node's port; every node listens on the same port here.              *)
recvPeers(st, e, addresses) ==
  LET new == addresses \ (Private \cup {st.es[e].address} \cup DOMAIN st.nd.db)
  IN [st EXCEPT !.nd.db = [a \in DOMAIN @ \cup new |-> load(@, a)]]

(* The herder refuses a transaction that was applied and takes one it has   *)
(* not seen; nd.transactions maps the pending ones to their age in ledgers. *)
takeTransaction(nd, tx) ==
  [nd EXCEPT !.transactions = [t \in DOMAIN @ \cup {tx} |-> IF t = tx THEN 0 ELSE @[t]]]

recvTransaction(st, e, tx) ==
  IF tx \in st.nd.applied THEN st
  ELSE IF tx \in DOMAIN st.nd.transactions THEN addRecord(st, e, "TRANSACTION", tx)
  ELSE broadcast(addRecord([st EXCEPT !.nd = takeTransaction(@, tx)], e, "TRANSACTION", tx),
                 "TRANSACTION", tx)

(* The herder hands an envelope on when it has all the envelope refers to:  *)
(* at once (ready) or later; an envelope it has processed it only notes.    *)
envelopeReady(st, env) ==
  broadcast([st EXCEPT !.nd.processed = @ \cup {env}, !.nd.fetching = @ \ {env}], "SCP_MESSAGE", env)

recvSCPMessage(st, e, env, ready) ==
  LET st1 == IF env \in st.nd.processed \cup st.nd.fetching THEN st
             ELSE IF ready THEN envelopeReady(st, env)
             ELSE [st EXCEPT !.nd.fetching = @ \cup {env}]
  IN addRecord(st1, e, "SCP_MESSAGE", env)

(* Herder::sendSCPStateToPeer: the envelopes this node has processed, one after another. *)
recvGetSCPState(st, e) ==
  LET envs == SetToSeq(st.nd.processed)
      after[i \in 0 .. Len(envs)] ==
        IF i = 0 THEN st ELSE sendMessage(after[i - 1], e, "SCP_MESSAGE", envs[i])
  IN after[Len(envs)]

recvError(st, e) == drop(st, e, "IGNORE_WRITE_QUEUE")

recvMessage(st, e, msg, ipLost, ready) ==
  CASE ~isAuthenticated(st.es[e]) /\ msg.type \notin HandshakeTypes ->
         drop(st, e, "IGNORE_WRITE_QUEUE")
    [] msg.type = "ERROR_MSG" -> recvError(st, e)
    [] msg.type = "HELLO" -> recvHello(st, e, msg.body, ipLost)
    [] msg.type = "AUTH" -> recvAuth(st, e)
    [] isAuthenticated(st.es[e]) /\ msg.type = "PEERS" -> recvPeers(st, e, msg.body)
    [] isAuthenticated(st.es[e]) /\ msg.type = "TRANSACTION" -> recvTransaction(st, e, msg.body)
    [] isAuthenticated(st.es[e]) /\ msg.type = "SCP_MESSAGE" -> recvSCPMessage(st, e, msg.body, ready)
    [] isAuthenticated(st.es[e]) /\ msg.type = "GET_SCP_STATE" -> recvGetSCPState(st, e)

(* recvMessage(AuthenticatedMessage). *)
recvAuthenticated(st, e, msg, ipLost, ready) ==
  LET p == st.es[e]
      counted == [st EXCEPT !.es[e].recvSeq = @ + 1]
  IN IF shouldAbort(st, e) THEN st
     ELSE IF p.state \notin {"GOT_HELLO", "GOT_AUTH"} \/ msg.type = "ERROR_MSG"
     THEN recvMessage(st, e, msg, ipLost, ready)
     ELSE IF msg.seq # p.recvSeq \/ msg.mac # p.recvKey
     THEN dropWith(counted, e, "ERR_AUTH", "IGNORE_WRITE_QUEUE")
     ELSE recvMessage(counted, e, msg, ipLost, ready)

(* The body of a message was read. *)
readBodyHandler(st, e, msg, ipLost, ready, error) ==
  LET st1 == [st EXCEPT !.es[e].reading = "no"]
  IN IF error THEN drop([st EXCEPT !.es[e].reading = "failed"], e, "IGNORE_WRITE_QUEUE")
     ELSE startRead(recvAuthenticated(receivedBytes(st1, e), e, msg, ipLost, ready), e)
=============================================================================
