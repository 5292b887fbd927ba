------------------------- MODULE TrackerCommunicator ------------------------
(***************************************************************************)
(* TorrentManager::announce and the two tracker communicators              *)
(* (src/src/trackers/udp_tracker_communicator.cpp,                         *)
(* http_tracker_communicator.cpp).  start() and stop() of a torrent        *)
(* announce one event after the other in the session's thread.             *)
(*                                                                         *)
(* Datagrams are lost, late, repeated and out of order: a poll yields      *)
(* nothing, or the answer to any request that was sent from the local      *)
(* port, be it by an earlier announce whose socket had the same port.  A   *)
(* datagram is its action, its size and its transaction id; ids are drawn  *)
(* at random and taken to be different.  Replies of a web server are kept  *)
(* apart by what the code does with them.                                  *)
(***************************************************************************)
EXTENDS Naturals, FiniteSets

CONSTANTS
  MAX_RETRANSMISSIONS,
  MaxAddresses,        \* bound on the addresses a host name resolves to
  MaxAnnounces         \* bound on the announces of a torrent

ASSUME BoundsAssumption ==
  MAX_RETRANSMISSIONS \in Nat /\ MaxAddresses \in Nat /\ MaxAnnounces \in Nat

VARIABLES
  protocol,    \* "udp", "http" or "https"
  pc,
  announces,   \* announces made
  addresses,   \* addresses of the tracker
  tried,       \* those that failed
  n,           \* retransmissions of the request under way
  drawn,       \* transaction ids drawn, the last one by this request
  since,       \* those drawn before this announce
  asked,       \* requests sent from the local port
  result       \* "none", "failed" or "peers", and the id of their datagram

announceVars == <<protocol, pc, announces, addresses, tried, n, drawn, since,
                  asked, result>>

NoResult == [is |-> "none", txn |-> 0]

AnnounceInit ==
  /\ protocol \in {"udp", "http", "https"}
  /\ pc = "idle"
  /\ announces = 0 /\ addresses = 0 /\ tried = 0 /\ n = 0
  /\ drawn = 0 /\ since = 0 /\ asked = {}
  /\ result = NoResult

-----------------------------------------------------------------------------
(* TorrentManager::announce and the loop over the addresses.                *)

\* Any number of addresses; if it throws, it is as if there were none.
dns_lookup == 0 .. MaxAddresses

Announce ==
  /\ pc = "idle" /\ announces < MaxAnnounces
  /\ announces' = announces + 1
  /\ addresses' \in dns_lookup
  /\ tried' = 0 /\ since' = drawn
  /\ result' = NoResult
  /\ pc' = "address"
  /\ UNCHANGED <<protocol, n, drawn, asked>>

\* try_announce_to throws, or the iteration over the web server's addresses
\* ends without a body.
AddressFails ==
  /\ pc' = "address"
  /\ tried' = tried + 1

TryAddress ==
  /\ pc = "address" /\ tried < addresses
  /\ IF protocol = "udp"
     THEN /\ pc' = "connect" /\ n' = 0 /\ drawn' = drawn + 1
          /\ asked' \in {asked, {}}      \* the port of an earlier socket, or not
     ELSE /\ pc' = "request" /\ UNCHANGED <<n, drawn, asked>>
  /\ UNCHANGED <<protocol, announces, addresses, tried, since, result>>

Exhausted ==
  /\ pc = "address" /\ tried = addresses
  /\ pc' = "thrown"
  /\ UNCHANGED <<protocol, announces, addresses, tried, n, drawn, since, asked,
                 result>>

\* The handler in TorrentManager::announce: an error is an answer without
\* peers.
Caught ==
  /\ pc = "thrown"
  /\ result' = [is |-> "failed", txn |-> 0]
  /\ pc' = "idle"
  /\ UNCHANGED <<protocol, announces, addresses, tried, n, drawn, since, asked>>

Return(r) == pc' = "idle" /\ result' = r /\ UNCHANGED tried

-----------------------------------------------------------------------------
(* UDP (BEP 15): a request is sent and the socket polled, up to             *)
(* MAX_RETRANSMISSIONS + 1 times.                                           *)

CONNECT == 0
ANNOUNCE == 1
ERROR == 3

MinSize(action) == IF action = CONNECT THEN 16 ELSE 20

\* What may answer a request: the response, an error, a response with another
\* action, or something shorter.
Answers(q) ==
  {[action |-> q.action, size |-> MinSize(q.action), txn |-> q.txn],
   [action |-> ERROR, size |-> 8, txn |-> q.txn],
   [action |-> 2, size |-> 20, txn |-> q.txn],
   [action |-> q.action, size |-> 2, txn |-> q.txn]}

\* Fault: the transaction id of a response is not compared.
VerdictWithoutTxn(m, action) ==
  IF m.size < 4 THEN "again"
  ELSE IF m.action = ERROR THEN "throw"
  ELSE IF m.size < MinSize(action) THEN "again"
  ELSE IF m.action # action THEN "throw" ELSE "accept"

\* The checks of a datagram, in their order; an error is believed whatever its
\* transaction id.
Verdict(m, action) ==
  IF m.size < 4 THEN "again"
  ELSE IF m.action = ERROR THEN "throw"
  ELSE IF m.size < MinSize(action) \/ m.txn # drawn THEN "again"
  ELSE IF m.action # action THEN "throw" ELSE "accept"

Phase(action) == IF action = CONNECT THEN "connect" ELSE "announce"
Polling(action) == IF action = CONNECT THEN "connecting" ELSE "announcing"

\* Fault: only a time-out counts as an attempt.
AgainForFree(action, m) ==
  IF n < MAX_RETRANSMISSIONS \/ m # {}
  THEN /\ n' = IF m # {} THEN n ELSE n + 1
       /\ pc' = Phase(action)
       /\ UNCHANGED tried
  ELSE AddressFails /\ UNCHANGED n

\* The end of an iteration in which the poll found m, none or one datagram.
Again(action, m) ==
  IF n < MAX_RETRANSMISSIONS
  THEN n' = n + 1 /\ pc' = Phase(action) /\ UNCHANGED tried
  ELSE AddressFails /\ UNCHANGED n

SendTo(action) ==
  /\ pc = Phase(action)
  /\ \/ /\ asked' = asked \cup {[action |-> action, txn |-> drawn]}
        /\ pc' = Polling(action) /\ UNCHANGED tried
     \/ AddressFails /\ UNCHANGED asked
  /\ UNCHANGED <<protocol, announces, addresses, since, n, drawn, result>>

Connected(m) ==
  pc' = "announce" /\ n' = 0 /\ drawn' = drawn + 1 /\ UNCHANGED <<tried, result>>

Announced(m) == Return([is |-> "peers", txn |-> m.txn]) /\ UNCHANGED <<n, drawn>>

\* The code after the loop that has found m.
Accepted(action, m) ==
  \/ action = CONNECT /\ Connected(m)
  \/ action = ANNOUNCE /\ Announced(m)

\* poll_readable and recvfrom.
Poll(action) ==
  /\ pc = Polling(action)
  /\ \/ Again(action, {}) /\ UNCHANGED <<drawn, result>>
     \/ \E q \in asked : \E m \in Answers(q) :
          CASE Verdict(m, action) = "again" ->
                 Again(action, {m}) /\ UNCHANGED <<drawn, result>>
            [] Verdict(m, action) = "throw" ->
                 AddressFails /\ UNCHANGED <<n, drawn, result>>
            [] Verdict(m, action) = "accept" -> Accepted(action, m)
  /\ UNCHANGED <<protocol, announces, addresses, since, asked>>

PollConnect == Poll(CONNECT)
PollAnnounce == Poll(ANNOUNCE)

-----------------------------------------------------------------------------
(* HTTP and HTTPS: send_http_tracker_get and parse_tracker_response.        *)

udpVars == <<n, drawn, asked>>

\* A step of the exchange with one address, which may fail.
Exchange(from, to) ==
  /\ pc = from
  /\ AddressFails \/ (pc' = to /\ UNCHANGED tried)
  /\ UNCHANGED <<protocol, announces, addresses, since, udpVars, result>>

connect_with_timeout ==
  Exchange("request", IF protocol = "https" THEN "tls" ELSE "send")

\* The constructor of SSLSocket: SSL_connect blocks.
SSLSocket == Exchange("tls", "send")

send == Exchange("send", IF protocol = "https" THEN "ssl_recv" ELSE "recv")

\* Until the server closes the connection, for RECV_TIMEOUT_MS in all ...
recv_all_with_timeout == Exchange("recv", "response")

\* ... or without a limit.
ssl_recv_all == Exchange("ssl_recv", "response")

\* A response that is empty, malformed or not 200 is that of one address.
parse_http_response == Exchange("response", "parse")

\* The body is the answer of the tracker: peers in either form, none, or a
\* failure reason or another error that is final.
parse_tracker_response ==
  /\ pc = "parse"
  /\ \/ Return([is |-> "peers", txn |-> 0])
     \/ pc' = "thrown" /\ UNCHANGED <<tried, result>>
  /\ UNCHANGED <<protocol, announces, addresses, since, udpVars>>

-----------------------------------------------------------------------------
Step ==
  \/ TryAddress \/ Exhausted \/ Caught
  \/ SendTo(CONNECT) \/ PollConnect \/ SendTo(ANNOUNCE) \/ PollAnnounce
  \/ connect_with_timeout \/ SSLSocket \/ send \/ recv_all_with_timeout
  \/ ssl_recv_all \/ parse_http_response \/ parse_tracker_response

Finished == pc = "idle" /\ announces = MaxAnnounces /\ UNCHANGED announceVars

AnnounceNext == Announce \/ Step \/ Finished

AnnounceSpec == AnnounceInit /\ [][AnnounceNext]_announceVars

\* Every wait has a time-out, save those of an SSLSocket.
FairAnnounceSpec ==
  /\ AnnounceSpec
  /\ WF_announceVars(Step /\ pc \notin {"tls", "ssl_recv"})

-----------------------------------------------------------------------------
(* Properties.                                                              *)

\* Peers come from the tracker's answer to this very announce: no late or
\* repeated datagram, of the connect phase, of another address or of an
\* announce before, is taken for it.
PeersAnswerThisAnnounce ==
  result.is = "peers" /\ protocol = "udp" =>
    result.txn > since /\ [action |-> ANNOUNCE, txn |-> result.txn] \in asked

\* announce() returns, for whatever datagrams keep arriving, so that start()
\* and stop() of a torrent do: only a tracker behind TLS can hold them up.
AnnounceReturns == pc # "idle" /\ protocol # "https" ~> pc = "idle"
=============================================================================
