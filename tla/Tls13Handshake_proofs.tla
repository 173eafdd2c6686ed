------------------------ MODULE Tls13Handshake_proofs ------------------------
(***************************************************************************)
(* What a TLS 1.3 client and server put on the wire is protected, and the  *)
(* generations of their keys are bounded by the calls of tls_key_update,   *)
(* for any number of tickets, KeyUpdates, requests and records of data.    *)
(*                                                                         *)
(* The keys of a side follow from how far its own state machine has come,  *)
(* except that a HelloRetryRequest takes the early key from the client: so *)
(* the invariant has a part for each side (ClientStart, ClientEarly,       *)
(* ClientLate, ServerKeys) and one for what the records say of the retry.  *)
(***************************************************************************)
EXTENDS Tls13Handshake, TLAPS, FiniteSetTheorems, FunctionTheorems

\* The values of early_data_state and of post_handshake_auth.
EarlyDataStates ==
  {"NONE", "CONNECTING", "WRITE_RETRY", "WRITING", "FINISHED_WRITING", "ACCEPTING",
   "READ_RETRY", "FINISHED_READING"}

PhaStates == {"NONE", "EXT_SENT", "EXT_RECEIVED", "REQUEST_PENDING", "REQUESTED"}

\* The connection and the records, without the bound on the generations of keys.
Conn ==
  [hand_state : ClientStates \cup ServerStates,
   flow : {"idle", "reading", "writing", "error"},
   in_init : BOOLEAN, tls13 : BOOLEAN, wkey : Nat, rkey : Nat,
   early_data_state : EarlyDataStates,
   early_data : {"NOT_SENT", "REJECTED", "ACCEPTED"},
   hello_retry_request : {"NONE", "PENDING", "COMPLETE"},
   hit : BOOLEAN, cert_request : BOOLEAN, cert : {"none", "cert", "empty"},
   pha : PhaStates,
   key_update : {"NONE", "NOT_REQUESTED", "REQUESTED"},
   ticket_expected : BOOLEAN, sent_tickets : Nat, fin : SUBSET {"own", "peer"}]

Rec ==
  [type : {"CCS", "DATA", "CLIENT_HELLO", "SERVER_HELLO", "ENCRYPTED_EXTENSIONS",
           "CERTIFICATE_REQUEST", "CERTIFICATE", "CERTIFICATE_VERIFY", "FINISHED",
           "END_OF_EARLY_DATA", "NEWSESSION_TICKET", "KEY_UPDATE"},
   key : Nat,
   arg : {"none", "early", "app", "retry", "hit", "full", "cert", "empty", "REQUESTED",
          "NOT_REQUESTED"}]

(***************************************************************************)
(* The invariant                                                           *)
(***************************************************************************)
\* The early data calls of the client are open, or have been.
Opened == {"WRITE_RETRY", "WRITING", "FINISHED_WRITING"}

\* Until it has the server's version the client has not got far.
ClientStart(c) ==
  ~ c.tls13 =>
    /\ c.cert = "none"
    /\ c.hand_state \in {"BEFORE", "CW_CLNT_HELLO", "CW_CHANGE", "EARLY_DATA", "CR_SRVR_HELLO",
                         "CW_FINISHED"}

\* The early key is there as long as early data may be written, unless a HelloRetryRequest
\* has taken it away.
ClientEarly(f, c) ==
  /\ c.flow # "idle" => c.in_init
  /\ ~ c.in_init => c.hand_state \in {"OK", "EARLY_DATA", "PENDING_EARLY_DATA_END"}
  /\ c.hand_state = "EARLY_DATA" => c.wkey = EarlyKey
  /\ c.hand_state = "CW_CLNT_HELLO" /\ c.early_data_state = "CONNECTING" /\ ~ f.compat[Client]
       => c.wkey = EarlyKey
  /\ c.hand_state = "CW_CHANGE" /\ ~ c.tls13 /\ c.hello_retry_request # "PENDING"
     /\ c.early_data_state = "CONNECTING"
       => c.wkey = EarlyKey
  /\ c.hand_state \in {"CR_SRVR_HELLO", "CR_ENCRYPTED_EXTENSIONS", "CR_CERT_REQ", "CR_CERT",
                       "CR_CERT_VRFY", "CR_FINISHED", "PENDING_EARLY_DATA_END"}
     /\ c.hello_retry_request = "NONE" /\ c.early_data_state \in Opened /\ "own" \notin c.fin
       => c.wkey = EarlyKey
  /\ c.hand_state = "PENDING_EARLY_DATA_END" => c.early_data_state \in Opened /\ "own" \notin c.fin
  /\ c.early_data_state = "WRITING" => f.interleave
  /\ c.hand_state \in {"BEFORE", "CW_CLNT_HELLO"} \/ (c.hand_state = "CW_CHANGE" /\ ~ c.tls13)
     => c.hello_retry_request # "NONE" \/ c.early_data_state \notin Opened
  /\ c.hand_state = "CR_SRVR_HELLO" /\ ~ c.tls13 => c.hello_retry_request # "NONE"
  /\ c.early_data = "ACCEPTED" => ~ f.retry
  /\ ~ f.retry => c.hello_retry_request = "NONE"

\* Once the client has sent its Finished it writes under an application key, and is in a
\* handshake only to answer a request.
ClientLate(c) ==
  /\ c.hand_state \in {"CW_CERT", "CW_CERT_VRFY"} => c.wkey >= HandshakeKey
  /\ c.hand_state \in {"OK", "CR_SESSION_TICKET", "CR_KEY_UPDATE", "CW_KEY_UPDATE", "CW_FINISHED"}
     \/ c.pha = "REQUESTED" => "own" \in c.fin
  /\ "own" \in c.fin =>
       /\ c.wkey >= ApplicationKey /\ (c.tls13 => "peer" \in c.fin)
       /\ c.hand_state \in {"OK", "CR_SESSION_TICKET", "CR_KEY_UPDATE", "CW_KEY_UPDATE",
                            "CR_CERT_REQ", "CW_CERT", "CW_CERT_VRFY", "CW_FINISHED"}
       /\ c.flow = "reading" => c.hand_state = "OK"
       /\ c.hand_state \in {"CR_CERT_REQ", "CW_CERT", "CW_CERT_VRFY"} => c.pha = "REQUESTED"
  /\ c.pha = "REQUESTED" => c.cert # "none"
  /\ c.tls13 /\ c.hand_state \in {"CR_FINISHED", "PENDING_EARLY_DATA_END", "CW_END_OF_EARLY_DATA",
                                  "CW_CHANGE", "CW_CERT", "CW_CERT_VRFY", "CW_FINISHED"}
       => "peer" \in c.fin

ClientOK(f, c) ==
  /\ c \in Conn /\ c.hand_state \in ClientStates
  /\ ClientStart(c) /\ ClientEarly(f, c) /\ ClientLate(c)

\* What the server has installed when it sends what.
ServerKeys(f, v) ==
  /\ v.hand_state \in {"SW_ENCRYPTED_EXTENSIONS", "SW_CERT_REQ", "SW_CERT", "SW_CERT_VRFY"}
     \/ (v.hand_state = "SW_CHANGE" /\ v.hello_retry_request # "PENDING")
     \/ (/\ v.hand_state = "SW_SRVR_HELLO" /\ v.hello_retry_request # "PENDING"
         /\ ~ (f.compat[Server] /\ v.hello_retry_request # "COMPLETE"))
       => v.wkey >= HandshakeKey
  /\ v.hand_state \in {"OK", "SR_END_OF_EARLY_DATA", "SR_CERT", "SR_CERT_VRFY", "SR_FINISHED",
                       "SW_FINISHED", "SW_SESSION_TICKET", "SW_KEY_UPDATE", "SR_KEY_UPDATE"}
     \/ (v.hand_state = "EARLY_DATA" /\ v.hello_retry_request # "PENDING")
     \/ v.pha \in {"REQUEST_PENDING", "REQUESTED"}
       => "own" \in v.fin
  /\ "own" \in v.fin =>
       /\ v.wkey >= ApplicationKey /\ v.hello_retry_request # "PENDING"
       /\ v.hand_state \notin {"BEFORE", "SR_CLNT_HELLO", "SW_SRVR_HELLO", "SW_CHANGE",
                               "SW_ENCRYPTED_EXTENSIONS", "SW_CERT", "SW_CERT_VRFY"}
       /\ v.hand_state = "SW_CERT_REQ" => v.pha = "REQUEST_PENDING"
  /\ v.hand_state \in {"SW_ENCRYPTED_EXTENSIONS", "SW_CERT_REQ", "SW_CERT", "SW_CERT_VRFY"}
       => v.hello_retry_request # "PENDING"
  /\ v.hand_state = "BEFORE" => v.hello_retry_request = "NONE" /\ "own" \notin v.fin
  /\ v.hello_retry_request = "PENDING" => f.retry
  /\ v.early_data = "ACCEPTED" => ~ f.retry
  /\ v.early_data_state \in {"READ_RETRY", "FINISHED_READING"} => "own" \in v.fin \/ f.retry

ServerOK(f, v) == v \in Conn /\ v.hand_state \in ServerStates /\ ServerKeys(f, v)

\* After a HelloRetryRequest the client writes no more early data, and the server no data
\* before its Finished.
NoEarlyAfterRetry == \A f \in Configurations : f.interleave \/ f.hasty => ~ f.retry

\* A record is protected, unless an application may write as early as that after a
\* HelloRetryRequest, and what the server says of a HelloRetryRequest is true.
RecordOK(f, s, r) ==
  /\ r \in Rec
  /\ NoEarlyAfterRetry =>
       /\ r.type = "DATA" => r.key >= ApplicationKey \/ (s = Client /\ r.key = EarlyKey)
       /\ r.key = Plain => r.type \in {"CCS", "CLIENT_HELLO", "SERVER_HELLO"}
  /\ r.type = "CERTIFICATE" => r.arg \in {"cert", "empty"}
  /\ s = Server /\ r.type = "SERVER_HELLO" /\ r.arg = "retry" => f.retry
  /\ s = Server /\ r.type = "ENCRYPTED_EXTENSIONS" /\ r.arg = "early" => ~ f.retry

\* Both sides are as they should be, and so is every record on its way.
ProtectedInv ==
  /\ conf \in Configurations
  /\ tls \in [Sides -> Conn] /\ wire \in [Sides -> Seq(Rec)]
  /\ ClientOK(conf, tls[Client]) /\ ServerOK(conf, tls[Server])
  /\ \A s \in Sides : \A i \in DOMAIN wire[s] : RecordOK(conf, s, wire[s][i])

(***************************************************************************)
(* Steps                                                                   *)
(***************************************************************************)
\* Side s becomes t.
SideBecomes(s, t) ==
  /\ tls' = [tls EXCEPT ![s] = t]
  /\ IF s = Client THEN ClientOK(conf, t) ELSE ServerOK(conf, t)

\* The wire keeps good records: one may be read, one may be sent.
WireOK ==
  \/ wire' = wire
  \/ \E s \in Sides : wire[s] # << >> /\ wire' = [wire EXCEPT ![s] = Tail(@)]
  \/ \E s \in Sides : \E r : RecordOK(conf, s, r) /\ wire' = [wire EXCEPT ![s] = Append(@, r)]

\* The two sides.
LEMMA TwoSides == Client \in Sides /\ Server \in Sides /\ Client # Server
                  /\ \A s \in Sides : s = Client \/ s = Server
BY DEF Client, Server, Sides

\* Reading and sending keep the records good.
LEMMA WireStep ==
  ASSUME ProtectedInv, WireOK, conf' = conf
  PROVE  /\ wire' \in [Sides -> Seq(Rec)]
         /\ \A s \in Sides : \A i \in DOMAIN wire'[s] : RecordOK(conf', s, wire'[s][i])
<1>1. /\ wire \in [Sides -> Seq(Rec)] /\ \A s \in Sides : wire[s] \in Seq(Rec)
      /\ \A s \in Sides : \A i \in DOMAIN wire[s] : RecordOK(conf, s, wire[s][i])
  BY DEF ProtectedInv
<1>2. CASE wire' = wire
  BY <1>1, <1>2
<1>3. CASE \E s \in Sides : wire[s] # << >> /\ wire' = [wire EXCEPT ![s] = Tail(@)]
  <2>1. PICK s \in Sides : wire[s] # << >> /\ wire' = [wire EXCEPT ![s] = Tail(@)]
    BY <1>3
  <2> DEFINE q == wire[s]
  <2>2. q \in Seq(Rec) /\ q # << >> /\ \A i \in DOMAIN q : RecordOK(conf, s, q[i])
    BY <1>1, <2>1
  <2>3. /\ Tail(q) \in Seq(Rec)
        /\ \A i \in DOMAIN Tail(q) : i + 1 \in DOMAIN q /\ Tail(q)[i] = q[i + 1]
    BY <2>2
  <2>4. \A i \in DOMAIN Tail(q) : RecordOK(conf, s, Tail(q)[i])
    BY <2>2, <2>3
  <2>5. wire'[s] = Tail(q) /\ \A p \in Sides : p # s => wire'[p] = wire[p]
    BY <1>1, <2>1
  <2>6. wire' \in [Sides -> Seq(Rec)]
    BY <1>1, <2>1, <2>3
  <2> HIDE DEF q
  <2> QED BY <1>1, <2>4, <2>5, <2>6
<1>4. CASE \E s \in Sides : \E r : RecordOK(conf, s, r) /\ wire' = [wire EXCEPT ![s] = Append(@, r)]
  <2>0. PICK s \in Sides :
          \E r : RecordOK(conf, s, r) /\ wire' = [wire EXCEPT ![s] = Append(@, r)]
    BY <1>4
  <2>1. PICK r : RecordOK(conf, s, r) /\ wire' = [wire EXCEPT ![s] = Append(@, r)]
    BY <2>0
  <2> DEFINE q == wire[s]
  <2>2. q \in Seq(Rec) /\ r \in Rec /\ \A i \in DOMAIN q : RecordOK(conf, s, q[i])
    BY <1>1, <2>1 DEF RecordOK
  <2>3. /\ Append(q, r) \in Seq(Rec)
        /\ \A i \in DOMAIN Append(q, r) :
             (i \in DOMAIN q /\ Append(q, r)[i] = q[i]) \/ Append(q, r)[i] = r
    BY <2>2
  <2>4. \A i \in DOMAIN Append(q, r) : RecordOK(conf, s, Append(q, r)[i])
    BY <2>1, <2>2, <2>3
  <2>5. wire'[s] = Append(q, r) /\ \A p \in Sides : p # s => wire'[p] = wire[p]
    BY <1>1, <2>1
  <2>6. wire' \in [Sides -> Seq(Rec)]
    BY <1>1, <2>1, <2>3
  <2> HIDE DEF q
  <2> QED BY <1>1, <2>4, <2>5, <2>6
<1> QED BY <1>2, <1>3, <1>4 DEF WireOK

\* A step of one side keeps the invariant.
LEMMA SideStep ==
  ASSUME ProtectedInv, NEW s \in Sides, NEW t, SideBecomes(s, t), WireOK, conf' = conf
  PROVE  ProtectedInv'
<1>1. /\ wire' \in [Sides -> Seq(Rec)]
      /\ \A p \in Sides : \A i \in DOMAIN wire'[p] : RecordOK(conf', p, wire'[p][i])
  BY WireStep
<1>2. t \in Conn
  BY TwoSides DEF SideBecomes, ClientOK, ServerOK
<1>3. tls' \in [Sides -> Conn] /\ tls'[s] = t /\ \A p \in Sides : p # s => tls'[p] = tls[p]
  BY <1>2 DEF SideBecomes, ProtectedInv
<1>4. ClientOK(conf', tls'[Client]) /\ ServerOK(conf', tls'[Server])
  <2>1. CASE s = Client
    BY <1>3, <2>1, TwoSides DEF SideBecomes, ProtectedInv
  <2>2. CASE s = Server
    BY <1>3, <2>2, TwoSides DEF SideBecomes, ProtectedInv
  <2> QED BY <2>1, <2>2, TwoSides
<1> QED BY <1>1, <1>3, <1>4 DEF ProtectedInv

\* A step of the wire alone keeps it too.
LEMMA WireOnly ==
  ASSUME ProtectedInv, WireOK, conf' = conf, tls' = tls
  PROVE  ProtectedInv'
BY WireStep DEF ProtectedInv

\* A field of the connection may be given any value of its type.
LEMMA FieldSet ==
  ASSUME NEW z \in Conn
  PROVE  /\ \A x \in ClientStates \cup ServerStates : [z EXCEPT !.hand_state = x] \in Conn
         /\ \A x \in {"idle", "reading", "writing", "error"} : [z EXCEPT !.flow = x] \in Conn
         /\ \A x \in BOOLEAN : [z EXCEPT !.in_init = x] \in Conn
         /\ \A x \in BOOLEAN : [z EXCEPT !.tls13 = x] \in Conn
         /\ \A x \in Nat : [z EXCEPT !.wkey = x] \in Conn
         /\ \A x \in Nat : [z EXCEPT !.rkey = x] \in Conn
         /\ \A x \in EarlyDataStates : [z EXCEPT !.early_data_state = x] \in Conn
         /\ \A x \in {"NOT_SENT", "REJECTED", "ACCEPTED"} : [z EXCEPT !.early_data = x] \in Conn
         /\ \A x \in {"NONE", "PENDING", "COMPLETE"} : [z EXCEPT !.hello_retry_request = x] \in Conn
         /\ \A x \in BOOLEAN : [z EXCEPT !.hit = x] \in Conn
         /\ \A x \in BOOLEAN : [z EXCEPT !.cert_request = x] \in Conn
         /\ \A x \in {"none", "cert", "empty"} : [z EXCEPT !.cert = x] \in Conn
         /\ \A x \in PhaStates : [z EXCEPT !.pha = x] \in Conn
         /\ \A x \in {"NONE", "NOT_REQUESTED", "REQUESTED"} : [z EXCEPT !.key_update = x] \in Conn
         /\ \A x \in BOOLEAN : [z EXCEPT !.ticket_expected = x] \in Conn
         /\ \A x \in Nat : [z EXCEPT !.sent_tickets = x] \in Conn
         /\ \A x \in SUBSET {"own", "peer"} : [z EXCEPT !.fin = x] \in Conn
<1>1. \A x \in ClientStates \cup ServerStates : [z EXCEPT !.hand_state = x] \in Conn
  BY DEF Conn
<1>2. \A x \in {"idle", "reading", "writing", "error"} : [z EXCEPT !.flow = x] \in Conn
  BY DEF Conn
<1>3. \A x \in BOOLEAN : [z EXCEPT !.in_init = x] \in Conn
  BY DEF Conn
<1>4. \A x \in BOOLEAN : [z EXCEPT !.tls13 = x] \in Conn
  BY DEF Conn
<1>5. \A x \in Nat : [z EXCEPT !.wkey = x] \in Conn
  BY DEF Conn
<1>6. \A x \in Nat : [z EXCEPT !.rkey = x] \in Conn
  BY DEF Conn
<1>7. \A x \in EarlyDataStates : [z EXCEPT !.early_data_state = x] \in Conn
  BY DEF Conn
<1>8. \A x \in {"NOT_SENT", "REJECTED", "ACCEPTED"} : [z EXCEPT !.early_data = x] \in Conn
  BY DEF Conn
<1>9. \A x \in {"NONE", "PENDING", "COMPLETE"} : [z EXCEPT !.hello_retry_request = x] \in Conn
  BY DEF Conn
<1>10. \A x \in BOOLEAN : [z EXCEPT !.hit = x] \in Conn
  BY DEF Conn
<1>11. \A x \in BOOLEAN : [z EXCEPT !.cert_request = x] \in Conn
  BY DEF Conn
<1>12. \A x \in {"none", "cert", "empty"} : [z EXCEPT !.cert = x] \in Conn
  BY DEF Conn
<1>13. \A x \in PhaStates : [z EXCEPT !.pha = x] \in Conn
  BY DEF Conn
<1>14. \A x \in {"NONE", "NOT_REQUESTED", "REQUESTED"} : [z EXCEPT !.key_update = x] \in Conn
  BY DEF Conn
<1>15. \A x \in BOOLEAN : [z EXCEPT !.ticket_expected = x] \in Conn
  BY DEF Conn
<1>16. \A x \in Nat : [z EXCEPT !.sent_tickets = x] \in Conn
  BY DEF Conn
<1>17. \A x \in SUBSET {"own", "peer"} : [z EXCEPT !.fin = x] \in Conn
  BY DEF Conn
<1> QED BY <1>1, <1>2, <1>3, <1>4, <1>5, <1>6, <1>7, <1>8, <1>9, <1>10, <1>11, <1>12, <1>13, <1>14,
           <1>15, <1>16, <1>17

\* What tls_finish_handshake leaves alone.
LEMMA FinishedFields ==
  ASSUME NEW s \in Sides, NEW t \in Conn
  PROVE  LET u == Finished(s, t)
         IN  /\ u \in Conn /\ u.hand_state = t.hand_state /\ u.flow = "idle" /\ ~ u.in_init
             /\ u.tls13 = t.tls13 /\ u.wkey = t.wkey /\ u.fin = t.fin /\ u.cert = t.cert
             /\ u.early_data = t.early_data /\ u.hello_retry_request = t.hello_retry_request
             /\ u.pha = RequestClosed(s, t) /\ u.early_data_state = EarlyDataGoesOn(t)
             /\ u.rkey = t.rkey /\ u.key_update = t.key_update /\ u.sent_tickets = t.sent_tickets
<1> DEFINE e == EarlyDataGoesOn(t)
           p == RequestClosed(s, t)
           x == IF FirstHandshake(t) THEN t.ticket_expected ELSE FALSE
           u == [t EXCEPT !.flow = "idle", !.in_init = FALSE, !.pha = p,
                          !.ticket_expected = x, !.early_data_state = e]
<1>1. e \in EarlyDataStates
  BY DEF EarlyDataGoesOn, EarlyDataStates, Conn
<1>2. p \in PhaStates
  BY DEF RequestClosed, PhaStates, Conn
<1>3. x \in BOOLEAN
  BY DEF Conn
<1>4. Finished(s, t) = u
  BY DEF Finished
<1> HIDE DEF e, p, x
<1>5. u \in Conn
  BY <1>1, <1>2, <1>3, FieldSet
<1>6. /\ u.hand_state = t.hand_state /\ u.flow = "idle" /\ ~ u.in_init
      /\ u.tls13 = t.tls13 /\ u.wkey = t.wkey /\ u.fin = t.fin /\ u.cert = t.cert
      /\ u.early_data = t.early_data /\ u.hello_retry_request = t.hello_retry_request
      /\ u.pha = p /\ u.early_data_state = e
      /\ u.rkey = t.rkey /\ u.key_update = t.key_update /\ u.sent_tickets = t.sent_tickets
  BY DEF Conn
<1> QED BY <1>4, <1>5, <1>6 DEF e, p

(***************************************************************************)
(* The client                                                              *)
(***************************************************************************)
\* The states the client moves to of itself.
ClientMove(f, c, h) ==
  LET e == c.early_data_state
  IN \/ /\ ~ c.tls13 /\ h \in {"CW_CLNT_HELLO", "CW_CHANGE"}
        /\ c.hand_state \in {"BEFORE", "CW_CLNT_HELLO", "CR_SRVR_HELLO"}
     \/ /\ ~ c.tls13 /\ h = "CW_CLNT_HELLO"
        /\ c.hand_state = "CW_CHANGE" /\ c.hello_retry_request = "PENDING"
     \/ /\ ~ c.tls13 /\ h = "EARLY_DATA" /\ e = "CONNECTING"
        /\ \/ c.hand_state = "CW_CLNT_HELLO" /\ ~ f.compat[Client]
           \/ c.hand_state = "CW_CHANGE" /\ c.hello_retry_request # "PENDING"
     \/ ~ c.tls13 /\ c.hand_state = "CW_CHANGE" /\ h = "CW_FINISHED"
     \/ /\ c.tls13 /\ h = "CW_CERT" /\ c.cert # "none"
        /\ \/ c.hand_state = "CR_CERT_REQ" /\ c.pha = "REQUESTED"
           \/ c.hand_state \in {"CR_FINISHED", "PENDING_EARLY_DATA_END", "CW_END_OF_EARLY_DATA",
                                "CW_CHANGE"}
     \/ /\ c.tls13 /\ c.hand_state = "CR_FINISHED" /\ h = "PENDING_EARLY_DATA_END"
        /\ e \in {"WRITE_RETRY", "FINISHED_WRITING"}
     \/ c.tls13 /\ c.hand_state = "CR_FINISHED" /\ h = "CW_CHANGE"
     \/ /\ c.tls13 /\ c.hand_state = "PENDING_EARLY_DATA_END"
        /\ c.early_data = "ACCEPTED" /\ h = "CW_END_OF_EARLY_DATA"
     \/ /\ c.tls13 /\ h = "CW_FINISHED" /\ c.cert = "none"
        /\ c.hand_state \in {"CR_FINISHED", "PENDING_EARLY_DATA_END", "CW_END_OF_EARLY_DATA",
                             "CW_CHANGE"}
     \/ c.tls13 /\ c.hand_state = "CW_CERT" /\ h \in {"CW_CERT_VRFY", "CW_FINISHED"}
     \/ c.tls13 /\ c.hand_state = "CW_CERT_VRFY" /\ h = "CW_FINISHED"
     \/ /\ c.tls13 /\ h = "OK"
        /\ c.hand_state \in {"CR_KEY_UPDATE", "CW_KEY_UPDATE", "CR_SESSION_TICKET", "CW_FINISHED"}
     \/ c.tls13 /\ c.hand_state = "OK" /\ h = "CW_KEY_UPDATE" /\ c.key_update # "NONE"

LEMMA ClientMoves ==
  ASSUME ProtectedInv, NEW h, h = WriteTransition(Client), h \notin {ToRead, Wrong}
  PROVE  ClientMove(conf, tls[Client], h)
<1> DEFINE c == tls[Client]
<1>1. c.tls13 \in BOOLEAN /\ ClientOK(conf, c)
  BY DEF ProtectedInv, ClientOK, Conn
<1> HIDE DEF c
<1>2. CASE c.tls13
  <2>1. h = Client13WriteTransition(c)
    BY <1>2, TwoSides DEF WriteTransition, c
  <2>2. c.pha = "REQUESTED" => c.cert # "none"
    BY <1>1 DEF ClientOK, ClientLate
  <2> QED BY <1>2, <2>1, <2>2
             DEF Client13WriteTransition, ClientAnswer, ToRead, Wrong, ClientMove, c
<1>3. CASE ~ c.tls13
  <2>1. h = ClientHelloTransition(c)
    BY <1>3, TwoSides DEF WriteTransition, c
  <2> QED BY <1>3, <2>1 DEF ClientHelloTransition, ToRead, Wrong, ClientMove, c
<1> QED BY <1>1, <1>2, <1>3

\* The call ends where there is nothing to wait for, or early data to be written.
LEMMA ClientStops ==
  ASSUME NEW f, NEW c, ClientOK(f, c), NEW h, ClientMove(f, c, h), c.flow = "writing",
         \/ h \in {"OK", "EARLY_DATA"}
         \/ h = "PENDING_EARLY_DATA_END" /\ c.early_data_state # "FINISHED_WRITING"
  PROVE  ClientOK(f, Finished(Client, [c EXCEPT !.hand_state = h]))
<1> DEFINE u == Finished(Client, [c EXCEPT !.hand_state = h])
<1>1. c \in Conn /\ c.hand_state \in ClientStates
  BY DEF ClientOK
<1>2. h \in ClientStates
  BY DEF ClientMove, ClientStates
<1> DEFINE t == [c EXCEPT !.hand_state = h]
<1>a. t \in Conn /\ t = [c EXCEPT !.hand_state = h]
  BY <1>1, <1>2 DEF Conn
<1>b. /\ t.hand_state = h /\ t.tls13 = c.tls13 /\ t.wkey = c.wkey /\ t.fin = c.fin
      /\ t.cert = c.cert /\ t.early_data = c.early_data
      /\ t.hello_retry_request = c.hello_retry_request
      /\ t.early_data_state = c.early_data_state
  BY <1>1 DEF Conn
<1>c. u = Finished(Client, t)
  OBVIOUS
<1> HIDE DEF t, u
<1>d. /\ u \in Conn /\ u.hand_state = t.hand_state /\ u.flow = "idle" /\ ~ u.in_init
      /\ u.tls13 = t.tls13 /\ u.wkey = t.wkey /\ u.fin = t.fin /\ u.cert = t.cert
      /\ u.early_data = t.early_data /\ u.hello_retry_request = t.hello_retry_request
      /\ u.pha = RequestClosed(Client, t) /\ u.early_data_state = EarlyDataGoesOn(t)
  BY <1>a, <1>c, FinishedFields, TwoSides
<1>3. /\ u \in Conn /\ u.hand_state = h /\ u.flow = "idle" /\ ~ u.in_init
      /\ u.tls13 = c.tls13 /\ u.wkey = c.wkey /\ u.fin = c.fin /\ u.cert = c.cert
      /\ u.early_data = c.early_data /\ u.hello_retry_request = c.hello_retry_request
      /\ u.pha # "REQUESTED"
      /\ u.early_data_state = EarlyDataGoesOn(c)
  BY <1>b, <1>d DEF RequestClosed, EarlyDataGoesOn
<1>4. \/ c.early_data_state = "CONNECTING" /\ u.early_data_state = "WRITE_RETRY"
      \/ /\ c.early_data_state = "ACCEPTING"
         /\ u.early_data_state \in {"READ_RETRY", "FINISHED_READING"}
      \/ c.early_data_state \notin {"CONNECTING", "ACCEPTING"}
           /\ u.early_data_state = c.early_data_state
  BY <1>3 DEF EarlyDataGoesOn
<1>5. ClientStart(u)
  BY <1>1, <1>3 DEF ClientOK, ClientStart, ClientMove
<1>6. ClientEarly(f, u)
  BY <1>1, <1>3, <1>4 DEF ClientOK, ClientEarly, ClientLate, ClientMove, Opened
<1>7. ClientLate(u)
  BY <1>1, <1>3, <1>4 DEF ClientOK, ClientLate, ClientMove
<1> QED BY <1>2, <1>3, <1>5, <1>6, <1>7 DEF ClientOK, u

\* The client goes on from the end of early data.
LEMMA ClientPasses ==
  ASSUME NEW f, NEW c, ClientOK(f, c), ClientMove(f, c, "PENDING_EARLY_DATA_END"),
         c.flow = "writing"
  PROVE  ClientOK(f, [c EXCEPT !.hand_state = "PENDING_EARLY_DATA_END"])
<1> DEFINE t == [c EXCEPT !.hand_state = "PENDING_EARLY_DATA_END"]
<1>1. c \in Conn
  BY DEF ClientOK
<1>a. "PENDING_EARLY_DATA_END" \in ClientStates
  BY DEF ClientStates
<1>b. t \in Conn
  BY <1>1, <1>a, FieldSet
<1>2. t \in Conn /\ t.hand_state \in ClientStates
  BY <1>1, <1>a, <1>b DEF Conn
<1>3. /\ t.hand_state = "PENDING_EARLY_DATA_END" /\ t.flow = c.flow /\ t.in_init = c.in_init
      /\ t.tls13 = c.tls13 /\ t.wkey = c.wkey /\ t.fin = c.fin /\ t.cert = c.cert
      /\ t.early_data = c.early_data /\ t.hello_retry_request = c.hello_retry_request
      /\ t.pha = c.pha /\ t.early_data_state = c.early_data_state
  BY <1>1 DEF Conn
<1> HIDE DEF t
<1>4. ClientStart(t) /\ ClientEarly(f, t) /\ ClientLate(t)
  BY <1>1, <1>3 DEF ClientOK, ClientStart, ClientEarly, ClientLate, ClientMove, Opened
<1> QED BY <1>2, <1>4 DEF ClientOK, t

\* The messages of the client.
ClientWrites == {"CW_CLNT_HELLO", "CW_CHANGE", "CW_END_OF_EARLY_DATA", "CW_CERT", "CW_CERT_VRFY",
                 "CW_FINISHED", "CW_KEY_UPDATE"}

\* They are protected, ...
LEMMA ClientRecord ==
  ASSUME NEW f, NEW c, ClientOK(f, c), NEW h \in ClientWrites, ClientMove(f, c, h),
         c.flow = "writing", NEW t, t = [c EXCEPT !.hand_state = h], NEW r,
         r = [type |-> MessageOf(t)[1], key |-> KeyOfMessage(Client, t), arg |-> MessageOf(t)[2]]
  PROVE  RecordOK(f, Client, r)
<1>1. c \in Conn
  BY DEF ClientOK
<1>2. /\ t.hand_state = h /\ t.wkey = c.wkey /\ t.fin = c.fin /\ t.cert = c.cert
      /\ t.early_data_state = c.early_data_state /\ t.key_update = c.key_update
  BY <1>1 DEF Conn
<1>3. /\ c.wkey \in Nat /\ c.cert \in {"none", "cert", "empty"}
      /\ c.key_update \in {"NONE", "NOT_REQUESTED", "REQUESTED"}
  BY <1>1 DEF Conn
<1>4. KeyOfMessage(Client, t) =
        IF (h = "CW_CERT" /\ FirstHandshake(c)) \/ (h = "CW_FINISHED" /\ c.cert = "none")
        THEN HandshakeKey ELSE c.wkey
  BY <1>2 DEF KeyOfMessage, FirstHandshake
<1>5. h \notin {"CW_CLNT_HELLO", "CW_CHANGE"} => KeyOfMessage(Client, t) # Plain
  BY <1>1, <1>3, <1>4
     DEF ClientOK, ClientStart, ClientEarly, ClientLate, ClientMove, ClientWrites, FirstHandshake,
         Plain, EarlyKey, HandshakeKey, ApplicationKey, Opened
<1>6. KeyOfMessage(Client, t) \in Nat
  BY <1>3, <1>4 DEF HandshakeKey
<1>7. /\ h = "CW_CLNT_HELLO" => r.type = "CLIENT_HELLO" /\ r.arg \in {"early", "none"}
      /\ h = "CW_CHANGE" => r.type = "CCS" /\ r.arg = "none"
      /\ h = "CW_END_OF_EARLY_DATA" => r.type = "END_OF_EARLY_DATA" /\ r.arg = "none"
      /\ h = "CW_CERT" => r.type = "CERTIFICATE" /\ r.arg = c.cert
      /\ h = "CW_CERT_VRFY" => r.type = "CERTIFICATE_VERIFY" /\ r.arg = "none"
      /\ h = "CW_FINISHED" => r.type = "FINISHED" /\ r.arg = "none"
      /\ h = "CW_KEY_UPDATE" => r.type = "KEY_UPDATE" /\ r.arg = c.key_update
  BY <1>2 DEF MessageOf
<1>8. /\ h = "CW_KEY_UPDATE" => c.key_update # "NONE"
      /\ h = "CW_CERT" => c.cert # "none"
  BY DEF ClientMove
<1>9. /\ r.key = KeyOfMessage(Client, t)
      /\ r = [type |-> r.type, key |-> r.key, arg |-> r.arg]
  OBVIOUS
<1>10. /\ r.type \in {"CCS", "CLIENT_HELLO", "CERTIFICATE", "CERTIFICATE_VERIFY", "FINISHED",
                      "END_OF_EARLY_DATA", "KEY_UPDATE"}
       /\ r.arg \in {"none", "early", "cert", "empty", "REQUESTED", "NOT_REQUESTED"}
       /\ r.type \in {"CCS", "CLIENT_HELLO"} => h \in {"CW_CLNT_HELLO", "CW_CHANGE"}
       /\ h \in {"CW_CLNT_HELLO", "CW_CHANGE"} => r.type \in {"CCS", "CLIENT_HELLO"}
       /\ r.type = "CERTIFICATE" => r.arg \in {"cert", "empty"}
  BY <1>3, <1>7, <1>8 DEF ClientWrites
<1>11. r \in Rec
  BY <1>6, <1>9, <1>10 DEF Rec
<1> QED BY <1>5, <1>9, <1>10, <1>11, TwoSides DEF RecordOK

\* ... and leave the client with the keys its state calls for.
LEMMA ClientSends ==
  ASSUME NEW c, ClientOK(conf, c), NEW h \in ClientWrites, ClientMove(conf, c, h),
         c.flow = "writing", NEW t, t = [c EXCEPT !.hand_state = h]
  PROVE  ClientOK(conf, ClientSent(t))
<1> DEFINE u == ClientSent(t)
<1>1. c \in Conn
  BY DEF ClientOK
<1>2. h \in ClientStates /\ t \in Conn
  <2>1. h \in ClientStates
    BY DEF ClientWrites, ClientStates
  <2> QED BY <1>1, <2>1, FieldSet
<1>3. /\ t.hand_state = h /\ t.flow = c.flow /\ t.in_init = c.in_init
      /\ t.tls13 = c.tls13 /\ t.wkey = c.wkey /\ t.fin = c.fin /\ t.cert = c.cert
      /\ t.early_data = c.early_data /\ t.hello_retry_request = c.hello_retry_request
      /\ t.pha = c.pha /\ t.early_data_state = c.early_data_state
  BY <1>1 DEF Conn
<1>4. /\ c.wkey \in Nat /\ c.fin \in SUBSET {"own", "peer"} /\ c.tls13 \in BOOLEAN
      /\ c.pha \in PhaStates /\ c.early_data \in {"NOT_SENT", "REJECTED", "ACCEPTED"}
  BY <1>1 DEF Conn
<1> DEFINE k == KeyOfMessage(Client, t)
<1>5. /\ k \in Nat
      /\ k = IF (h = "CW_CERT" /\ FirstHandshake(c)) \/ (h = "CW_FINISHED" /\ c.cert = "none")
             THEN HandshakeKey ELSE c.wkey
  BY <1>3, <1>4 DEF KeyOfMessage, FirstHandshake, HandshakeKey
<1> HIDE DEF k
<1> DEFINE Same(v) == /\ v.hand_state = h /\ v.flow = c.flow /\ v.in_init = c.in_init
                      /\ v.tls13 = c.tls13 /\ v.cert = c.cert
                      /\ v.hello_retry_request = c.hello_retry_request
<1>6. CASE h = "CW_CLNT_HELLO"
  <2> DEFINE w == IF c.early_data_state = "CONNECTING" /\ ~ conf.compat[Client]
                  THEN EarlyKey ELSE c.wkey
             d == IF c.early_data_state = "CONNECTING" THEN "REJECTED" ELSE c.early_data
             p == IF conf.pha THEN "EXT_SENT" ELSE c.pha
  <2>1. u = [t EXCEPT !.wkey = w, !.early_data = d, !.pha = p]
    BY <1>3, <1>6 DEF ClientSent
  <2>2. w \in Nat /\ d \in {"NOT_SENT", "REJECTED", "ACCEPTED"} /\ p \in PhaStates
    BY <1>4 DEF EarlyKey, PhaStates
  <2> HIDE DEF w, d, p, u
  <2>3. u \in Conn
    BY <1>2, <2>1, <2>2, FieldSet
  <2>4. /\ Same(u) /\ u.wkey = w /\ u.early_data = d /\ u.pha = p
        /\ u.fin = c.fin /\ u.early_data_state = c.early_data_state
    BY <1>2, <1>3, <2>1 DEF Conn
  <2>5. "own" \notin c.fin /\ c.pha # "REQUESTED" /\ c.cert = "none" /\ ~ c.tls13
    BY <1>4, <1>6 DEF ClientOK, ClientLate, ClientMove, ClientStart
  <2>6. ClientStart(u) /\ ClientEarly(conf, u)
    BY <1>6, <2>4, <2>5 DEF ClientOK, ClientStart, ClientEarly, ClientMove, w, d
  <2>7. ClientLate(u)
    BY <1>6, <2>4, <2>5 DEF ClientOK, ClientLate, ClientMove, p
  <2> QED BY <1>2, <2>3, <2>4, <2>6, <2>7 DEF ClientOK, u
<1>7. CASE h = "CW_CHANGE"
  <2> DEFINE w == IF ~ c.tls13 /\ c.hello_retry_request # "PENDING"
                     /\ c.early_data_state = "CONNECTING"
                  THEN EarlyKey ELSE c.wkey
  <2>1. u = [t EXCEPT !.wkey = w]
    BY <1>3, <1>7 DEF ClientSent
  <2>2. w \in Nat
    BY <1>4 DEF EarlyKey
  <2> HIDE DEF w, u
  <2>3. u \in Conn
    BY <1>2, <2>1, <2>2, FieldSet
  <2>4. /\ Same(u) /\ u.wkey = w /\ u.early_data = c.early_data /\ u.pha = c.pha
        /\ u.fin = c.fin /\ u.early_data_state = c.early_data_state
    BY <1>2, <1>3, <2>1 DEF Conn
  <2>5. "own" \notin c.fin /\ c.pha # "REQUESTED"
    BY <1>4, <1>7 DEF ClientOK, ClientLate, ClientMove, ClientStart
  <2>6. ClientStart(u) /\ ClientEarly(conf, u) /\ ClientLate(u)
    BY <1>7, <2>4, <2>5
       DEF ClientOK, ClientStart, ClientEarly, ClientLate, ClientMove, Opened, w
  <2> QED BY <1>2, <2>3, <2>4, <2>6 DEF ClientOK, u
<1>8. CASE h = "CW_END_OF_EARLY_DATA"
  <2>1. u = [t EXCEPT !.wkey = 0, !.early_data_state = "FINISHED_WRITING"]
    BY <1>3, <1>8 DEF ClientSent, Plain
  <2> HIDE DEF u
  <2>2. u \in Conn
    BY <1>2, <2>1, FieldSet DEF EarlyDataStates
  <2>3. /\ Same(u) /\ u.wkey = 0 /\ u.early_data = c.early_data /\ u.pha = c.pha
        /\ u.fin = c.fin /\ u.early_data_state = "FINISHED_WRITING"
    BY <1>2, <1>3, <2>1 DEF Conn
  <2>4. ClientStart(u) /\ ClientEarly(conf, u) /\ ClientLate(u)
    BY <1>8, <2>3
       DEF ClientOK, ClientStart, ClientEarly, ClientLate, ClientMove, Opened
  <2> QED BY <1>2, <2>2, <2>3, <2>4 DEF ClientOK, u
<1>9. CASE h \in {"CW_CERT", "CW_CERT_VRFY"}
  <2>1. u = [t EXCEPT !.wkey = k]
    BY <1>3, <1>9 DEF ClientSent, k
  <2> HIDE DEF u
  <2>2. u \in Conn
    BY <1>2, <1>5, <2>1, FieldSet
  <2>3. /\ Same(u) /\ u.wkey = k /\ u.early_data = c.early_data /\ u.pha = c.pha
        /\ u.fin = c.fin /\ u.early_data_state = c.early_data_state
    BY <1>2, <1>3, <2>1 DEF Conn
  <2>4. ClientStart(u) /\ ClientEarly(conf, u)
    BY <1>9, <2>3 DEF ClientOK, ClientStart, ClientEarly, ClientLate, ClientMove, Opened
  <2>5. ClientLate(u)
    BY <1>4, <1>5, <1>9, <2>3
       DEF ClientOK, ClientLate, ClientMove, FirstHandshake, HandshakeKey, ApplicationKey
  <2> QED BY <1>2, <2>2, <2>3, <2>4, <2>5 DEF ClientOK, u
<1>10. CASE h = "CW_FINISHED"
  <2> DEFINE w == IF c.pha = "REQUESTED" THEN k ELSE ApplicationKey
             g == c.fin \cup {"own"}
  <2>1. u = [t EXCEPT !.wkey = w, !.fin = g]
    BY <1>3, <1>10 DEF ClientSent, k
  <2>2. w \in Nat /\ g \in SUBSET {"own", "peer"} /\ "own" \in g
        /\ ("peer" \in c.fin => "peer" \in g)
    BY <1>4, <1>5 DEF ApplicationKey
  <2> HIDE DEF u, g
  <2>3. u \in Conn
    BY <1>2, <2>1, <2>2, FieldSet
  <2>4. /\ Same(u) /\ u.wkey = w /\ u.early_data = c.early_data /\ u.pha = c.pha
        /\ u.fin = g /\ u.early_data_state = c.early_data_state
    BY <1>2, <1>3, <2>1 DEF Conn
  <2>5. ClientStart(u) /\ ClientEarly(conf, u)
    BY <1>10, <2>4 DEF ClientOK, ClientStart, ClientEarly, ClientLate, ClientMove, Opened
  <2>6. ClientLate(u)
    BY <1>4, <1>5, <1>10, <2>2, <2>4
       DEF ClientOK, ClientStart, ClientLate, ClientMove, HandshakeKey, ApplicationKey
  <2> QED BY <1>2, <2>3, <2>4, <2>5, <2>6 DEF ClientOK, u
<1>11. CASE h = "CW_KEY_UPDATE"
  <2> DEFINE w == c.wkey + 1
  <2>1. u = [t EXCEPT !.key_update = "NONE", !.wkey = w]
    BY <1>2, <1>3, <1>11 DEF ClientSent, Conn
  <2>2. w \in Nat /\ w > c.wkey
    BY <1>4
  <2> HIDE DEF u, w
  <2>3. u \in Conn
    BY <1>2, <2>1, <2>2, FieldSet
  <2>4. /\ Same(u) /\ u.wkey = w /\ u.early_data = c.early_data /\ u.pha = c.pha
        /\ u.fin = c.fin /\ u.early_data_state = c.early_data_state
    BY <1>2, <1>3, <2>1 DEF Conn
  <2>5. ClientStart(u) /\ ClientEarly(conf, u)
    BY <1>11, <2>4 DEF ClientOK, ClientStart, ClientEarly, ClientMove, Opened
  <2>6. ClientLate(u)
    BY <1>4, <1>11, <2>2, <2>4 DEF ClientOK, ClientLate, ClientMove, ApplicationKey
  <2> QED BY <1>2, <2>3, <2>4, <2>5, <2>6 DEF ClientOK, u
<1> QED BY <1>6, <1>7, <1>8, <1>9, <1>10, <1>11 DEF ClientWrites

\* A call that fails leaves everything else as it was.
LEMMA ClientFails ==
  ASSUME NEW f, NEW c, ClientOK(f, c)
  PROVE  ClientOK(f, Fatal(c))
<1> DEFINE u == Fatal(c)
<1>1. c \in Conn /\ u = [c EXCEPT !.flow = "error", !.in_init = TRUE]
  BY DEF ClientOK, Fatal
<1> HIDE DEF u
<1>2. u \in Conn
  BY <1>1, FieldSet
<1>3. /\ u.flow = "error" /\ u.in_init = TRUE /\ u.hand_state = c.hand_state
      /\ u.tls13 = c.tls13 /\ u.wkey = c.wkey /\ u.fin = c.fin /\ u.cert = c.cert
      /\ u.early_data = c.early_data /\ u.hello_retry_request = c.hello_retry_request
      /\ u.pha = c.pha /\ u.early_data_state = c.early_data_state
  BY <1>1 DEF Conn
<1>4. ClientStart(u) /\ ClientEarly(f, u) /\ ClientLate(u)
  BY <1>3 DEF ClientOK, ClientStart, ClientEarly, ClientLate
<1> QED BY <1>2, <1>3, <1>4 DEF ClientOK, u

\* The client writes.
LEMMA ClientWriteStep ==
  ASSUME ProtectedInv, WriteMessage(Client)
  PROVE  ProtectedInv'
<1> DEFINE c == tls[Client]
           h == WriteTransition(Client)
           t == [c EXCEPT !.hand_state = h]
<1>1. ClientOK(conf, c) /\ c \in Conn /\ c.flow = "writing" /\ h \notin {ToRead, Wrong}
      /\ conf' = conf
  BY DEF WriteMessage, ProtectedInv, ClientOK
<1>2. ClientMove(conf, c, h)
  BY <1>1, ClientMoves
<1>3. PhaAfterTransition(c) = c.pha
  BY <1>1 DEF PhaAfterTransition, ClientOK, ClientStates
<1>4. [c EXCEPT !.hand_state = h, !.pha = PhaAfterTransition(c)] = t
  BY <1>1, <1>3 DEF Conn
<1>5. \/ Stops(Client, h) /\ tls' = [tls EXCEPT ![Client] = Finished(Client, t)] /\ wire' = wire
      \/ ~ Stops(Client, h) /\ h \in Dummies /\ tls' = [tls EXCEPT ![Client] = t] /\ wire' = wire
      \/ /\ ~ Stops(Client, h) /\ h \notin Dummies
         /\ Send(Client, MessageOf(t)[1], KeyOfMessage(Client, t), MessageOf(t)[2])
         /\ tls' = [tls EXCEPT ![Client] = ClientSent(t)]
  BY <1>4 DEF WriteMessage
<1>6. Stops(Client, h) <=> \/ h \in {"OK", "EARLY_DATA"}
                           \/ h = "PENDING_EARLY_DATA_END"
                              /\ c.early_data_state \notin {"FINISHED_WRITING", "NONE"}
  BY DEF Stops, Client
<1> HIDE DEF c, h, t
<1>7. CASE Stops(Client, h) /\ tls' = [tls EXCEPT ![Client] = Finished(Client, t)] /\ wire' = wire
  <2>1. ClientOK(conf, Finished(Client, t))
    BY <1>1, <1>2, <1>6, <1>7, ClientStops DEF t
  <2> QED BY <1>1, <1>7, <2>1, SideStep, TwoSides DEF SideBecomes, WireOK
<1>8. CASE ~ Stops(Client, h) /\ h \in Dummies /\ tls' = [tls EXCEPT ![Client] = t] /\ wire' = wire
  <2>1. h = "PENDING_EARLY_DATA_END"
    BY <1>6, <1>8 DEF Dummies
  <2>2. ClientOK(conf, t)
    BY <1>1, <1>2, <2>1, ClientPasses DEF t
  <2> QED BY <1>1, <1>8, <2>2, SideStep, TwoSides DEF SideBecomes, WireOK
<1>9. CASE /\ ~ Stops(Client, h) /\ h \notin Dummies
           /\ Send(Client, MessageOf(t)[1], KeyOfMessage(Client, t), MessageOf(t)[2])
           /\ tls' = [tls EXCEPT ![Client] = ClientSent(t)]
  <2>1. h \in ClientWrites
    BY <1>2, <1>6, <1>9 DEF Dummies, ClientMove, ClientWrites
  <2> DEFINE r == [type |-> MessageOf(t)[1], key |-> KeyOfMessage(Client, t),
                   arg |-> MessageOf(t)[2]]
  <2>2. RecordOK(conf, Client, r)
    BY <1>1, <1>2, <2>1, ClientRecord DEF t
  <2>3. wire' = [wire EXCEPT ![Client] = Append(@, r)]
    BY <1>9 DEF Send
  <2>4. ClientOK(conf, ClientSent(t))
    BY <1>1, <1>2, <2>1, ClientSends DEF t
  <2> HIDE DEF r
  <2> QED BY <1>1, <1>9, <2>2, <2>3, <2>4, SideStep, TwoSides DEF SideBecomes, WireOK
<1> QED BY <1>5, <1>7, <1>8, <1>9

\* The client has nothing to write.
LEMMA ClientStartReading ==
  ASSUME ProtectedInv, StartReading(Client)
  PROVE  ProtectedInv'
<1> DEFINE c == tls[Client]
           h == WriteTransition(Client)
           u == [c EXCEPT !.flow = "reading"]
<1>1. /\ ClientOK(conf, c) /\ c \in Conn /\ c.flow = "writing" /\ h \in {ToRead, Wrong}
      /\ conf' = conf /\ wire' = wire
      /\ tls' = [tls EXCEPT ![Client] = IF h = Wrong THEN Fatal(c) ELSE u]
  BY DEF StartReading, ProtectedInv, ClientOK
<1>2. h = ToRead => \/ c.tls13 /\ c.hand_state = "OK"
                    \/ ~ c.tls13 /\ c.hand_state \in {"CW_CLNT_HELLO", "EARLY_DATA"}
  BY <1>1, TwoSides DEF WriteTransition, ClientHelloTransition, Client13WriteTransition,
                        ClientAnswer, ToRead, Wrong
<1>3. CASE h = Wrong
  BY <1>1, <1>3, ClientFails, SideStep, TwoSides DEF SideBecomes, WireOK
<1>4. CASE h # Wrong
  <2>1. u \in Conn
    BY <1>1, FieldSet
  <2>2. /\ u.flow = "reading" /\ u.in_init = c.in_init /\ u.hand_state = c.hand_state
        /\ u.tls13 = c.tls13 /\ u.wkey = c.wkey /\ u.fin = c.fin /\ u.cert = c.cert
        /\ u.early_data = c.early_data /\ u.hello_retry_request = c.hello_retry_request
        /\ u.pha = c.pha /\ u.early_data_state = c.early_data_state
    BY <1>1 DEF Conn
  <2> HIDE DEF u, c, h
  <2>3. ClientStart(u) /\ ClientEarly(conf, u) /\ ClientLate(u)
    BY <1>1, <1>2, <1>4, <2>2 DEF ClientOK, ClientStart, ClientEarly, ClientLate
  <2>4. ClientOK(conf, u)
    BY <1>1, <2>1, <2>2, <2>3 DEF ClientOK
  <2> QED BY <1>1, <1>4, <2>4, SideStep, TwoSides DEF SideBecomes, WireOK
<1> QED BY <1>3, <1>4

\* What a message of the server makes of the client.
LEMMA ClientReads ==
  ASSUME NEW f, NEW c, ClientOK(f, c), c.flow = "reading", NEW r, RecordOK(f, Server, r),
         NEW h, h = ClientReadTransition(c, r.type), h # Wrong,
         NEW t, t = [c EXCEPT !.hand_state = h,
                              !.pha = IF r.type = "CERTIFICATE_REQUEST" /\ c.hand_state = "OK"
                                      THEN "REQUESTED" ELSE @],
         NEW u \in ClientProcess(t, r)
  PROVE  ClientOK(f, u)
<1>1. c \in Conn /\ c.in_init
  BY DEF ClientOK, ClientEarly
<1>2. /\ c.fin \in SUBSET {"own", "peer"} /\ c.rkey \in Nat /\ c.tls13 \in BOOLEAN
      /\ c.pha \in PhaStates /\ c.early_data \in {"NOT_SENT", "REJECTED", "ACCEPTED"}
      /\ c.key_update \in {"NONE", "NOT_REQUESTED", "REQUESTED"}
      /\ c.wkey \in Nat /\ c.cert \in {"none", "cert", "empty"}
  BY <1>1 DEF Conn
<1> DEFINE p == IF r.type = "CERTIFICATE_REQUEST" /\ c.hand_state = "OK"
                THEN "REQUESTED" ELSE c.pha
<1>3. \/ h = "CR_SRVR_HELLO" /\ r.type = "SERVER_HELLO"
           /\ c.hand_state \in {"CW_CLNT_HELLO", "EARLY_DATA"}
      \/ h = "CR_ENCRYPTED_EXTENSIONS" /\ r.type = "ENCRYPTED_EXTENSIONS"
           /\ c.hand_state = "CR_SRVR_HELLO" /\ c.tls13
      \/ h = "CR_CERT_REQ" /\ r.type = "CERTIFICATE_REQUEST"
           /\ c.hand_state \in {"CR_ENCRYPTED_EXTENSIONS", "OK"}
      \/ h = "CR_CERT" /\ r.type = "CERTIFICATE"
           /\ c.hand_state \in {"CR_ENCRYPTED_EXTENSIONS", "CR_CERT_REQ"}
      \/ h = "CR_CERT_VRFY" /\ r.type = "CERTIFICATE_VERIFY" /\ c.hand_state = "CR_CERT"
      \/ h = "CR_FINISHED" /\ r.type = "FINISHED"
           /\ c.hand_state \in {"CR_ENCRYPTED_EXTENSIONS", "CR_CERT_VRFY"}
      \/ h = "CR_SESSION_TICKET" /\ r.type = "NEWSESSION_TICKET" /\ c.hand_state = "OK"
      \/ h = "CR_KEY_UPDATE" /\ r.type = "KEY_UPDATE" /\ c.hand_state = "OK"
  BY DEF ClientReadTransition
<1>4. h \in ClientStates /\ p \in PhaStates
  BY <1>2, <1>3 DEF ClientStates, PhaStates
<1>5. t = [c EXCEPT !.hand_state = h, !.pha = p]
  OBVIOUS
<1> HIDE DEF p
<1>6. t \in Conn
  <2> DEFINE a == [c EXCEPT !.hand_state = h]
  <2>1. a \in Conn
    BY <1>1, <1>4, FieldSet
  <2>2. t = [a EXCEPT !.pha = p]
    BY <1>5
  <2> HIDE DEF a
  <2> QED BY ONLY <1>4, <2>1, <2>2, FieldSet
<1> DEFINE Same(v) ==
             /\ v.hand_state = h /\ v.in_init = c.in_init
             /\ v.early_data_state = c.early_data_state /\ v.pha = p
<1>7. /\ Same(t) /\ t.flow = c.flow /\ t.tls13 = c.tls13 /\ t.wkey = c.wkey /\ t.fin = c.fin
      /\ t.cert = c.cert /\ t.early_data = c.early_data
      /\ t.hello_retry_request = c.hello_retry_request
      /\ t.rkey = c.rkey /\ t.key_update = c.key_update
  BY <1>1, <1>4, <1>5 DEF Conn
<1>8. CASE h = "CR_SRVR_HELLO"
  <2>1. r.type = "SERVER_HELLO" /\ c.hand_state \in {"CW_CLNT_HELLO", "EARLY_DATA"} /\ p = c.pha
        /\ "own" \notin c.fin
    BY <1>3, <1>8 DEF p, ClientOK, ClientLate
  <2>2. CASE r.arg = "retry"
    <3>1. u = [t EXCEPT !.hello_retry_request = "PENDING", !.wkey = 0, !.flow = "writing"]
      BY <2>1, <2>2 DEF ClientProcess, Plain
    <3>2. u \in Conn
      BY <1>6, <3>1, FieldSet
    <3>3. /\ Same(u) /\ u.hello_retry_request = "PENDING" /\ u.wkey = 0 /\ u.flow = "writing"
          /\ u.tls13 = c.tls13 /\ u.fin = c.fin /\ u.cert = c.cert /\ u.early_data = c.early_data
      BY <1>6, <1>7, <3>1 DEF Conn
    <3>4. f.retry
      BY <2>1, <2>2 DEF RecordOK
    <3>5. ClientStart(u) /\ ClientEarly(f, u) /\ ClientLate(u)
      BY <1>1, <1>8, <2>1, <3>3, <3>4 DEF ClientOK, ClientStart, ClientEarly, ClientLate
    <3> QED BY <1>4, <3>2, <3>3, <3>5 DEF ClientOK
  <2>3. CASE r.arg # "retry"
    <3> DEFINE hit == (r.arg = "hit")
    <3>1. u = [t EXCEPT !.tls13 = TRUE, !.hit = hit, !.rkey = 2]
      BY <2>1, <2>3 DEF ClientProcess, HandshakeKey
    <3>2. hit \in BOOLEAN
      OBVIOUS
    <3> HIDE DEF hit
    <3>3. u \in Conn
      BY ONLY <1>6, <3>1, <3>2, FieldSet
    <3>4. /\ Same(u) /\ u.hello_retry_request = c.hello_retry_request /\ u.wkey = c.wkey
          /\ u.tls13 = TRUE /\ u.fin = c.fin /\ u.cert = c.cert /\ u.early_data = c.early_data
          /\ u.flow = c.flow
      BY <1>6, <1>7, <3>1 DEF Conn
    <3>5. ClientStart(u) /\ ClientEarly(f, u) /\ ClientLate(u)
      BY <1>1, <1>8, <2>1, <3>4 DEF ClientOK, ClientStart, ClientEarly, ClientLate, Opened
    <3> QED BY <1>4, <3>3, <3>4, <3>5 DEF ClientOK
  <2> QED BY <2>2, <2>3
<1>9. CASE h = "CR_ENCRYPTED_EXTENSIONS"
  <2>1. r.type = "ENCRYPTED_EXTENSIONS" /\ c.hand_state = "CR_SRVR_HELLO" /\ c.tls13 /\ p = c.pha
        /\ "own" \notin c.fin
    BY <1>3, <1>9 DEF p, ClientOK, ClientLate
  <2> DEFINE d == IF r.arg = "early" THEN "ACCEPTED" ELSE c.early_data
  <2>2. u = [t EXCEPT !.early_data = d] /\ d \in {"NOT_SENT", "REJECTED", "ACCEPTED"}
    BY <1>2, <1>7, <2>1 DEF ClientProcess
  <2>3. d = "ACCEPTED" => ~ f.retry
    BY <2>1, TwoSides DEF RecordOK, ClientOK, ClientEarly
  <2> HIDE DEF d
  <2>4. u \in Conn
    BY <1>6, <2>2, FieldSet
  <2>5. /\ Same(u) /\ u.hello_retry_request = c.hello_retry_request /\ u.wkey = c.wkey
        /\ u.tls13 = c.tls13 /\ u.fin = c.fin /\ u.cert = c.cert /\ u.early_data = d
        /\ u.flow = c.flow
    BY <1>6, <1>7, <2>2 DEF Conn
  <2>6. ClientStart(u) /\ ClientEarly(f, u) /\ ClientLate(u)
    BY <1>1, <1>9, <2>1, <2>3, <2>5 DEF ClientOK, ClientStart, ClientEarly, ClientLate, Opened
  <2> QED BY <1>4, <2>4, <2>5, <2>6 DEF ClientOK
<1>10. CASE h = "CR_CERT_REQ"
  <2>1. r.type = "CERTIFICATE_REQUEST" /\ c.hand_state \in {"CR_ENCRYPTED_EXTENSIONS", "OK"}
        /\ c.tls13
    BY <1>2, <1>3, <1>10 DEF ClientOK, ClientStart
  <2>2. /\ c.hand_state = "OK" => p = "REQUESTED" /\ "own" \in c.fin
        /\ c.hand_state # "OK" => p = c.pha /\ p # "REQUESTED" /\ "own" \notin c.fin
    BY <2>1 DEF p, ClientOK, ClientLate
  <2>3. \/ /\ c.hand_state = "OK"
           /\ \E x \in {"cert", "empty"} : u = [t EXCEPT !.flow = "writing", !.cert = x]
        \/ c.hand_state # "OK" /\ u = [t EXCEPT !.cert = "cert"]
    BY <1>7, <2>1, <2>2 DEF ClientProcess, CertificatePrepared
  <2>4. CASE c.hand_state = "OK"
    <3>1. PICK x \in {"cert", "empty"} : u = [t EXCEPT !.flow = "writing", !.cert = x]
      BY <2>3, <2>4
    <3>2. u \in Conn
      BY <1>6, <3>1, FieldSet
    <3>3. /\ Same(u) /\ u.hello_retry_request = c.hello_retry_request /\ u.wkey = c.wkey
          /\ u.tls13 = c.tls13 /\ u.fin = c.fin /\ u.cert = x /\ u.early_data = c.early_data
          /\ u.flow = "writing"
      BY <1>6, <1>7, <3>1 DEF Conn
    <3>4. ClientStart(u) /\ ClientEarly(f, u) /\ ClientLate(u)
      BY <1>1, <1>10, <2>1, <2>2, <2>4, <3>3
         DEF ClientOK, ClientStart, ClientEarly, ClientLate, Opened
    <3> QED BY <1>4, <3>2, <3>3, <3>4 DEF ClientOK
  <2>5. CASE c.hand_state # "OK"
    <3>1. u = [t EXCEPT !.cert = "cert"]
      BY <2>3, <2>5
    <3>2. u \in Conn
      BY <1>6, <3>1, FieldSet
    <3>3. /\ Same(u) /\ u.hello_retry_request = c.hello_retry_request /\ u.wkey = c.wkey
          /\ u.tls13 = c.tls13 /\ u.fin = c.fin /\ u.cert = "cert" /\ u.early_data = c.early_data
          /\ u.flow = c.flow
      BY <1>6, <1>7, <3>1 DEF Conn
    <3>4. ClientStart(u) /\ ClientEarly(f, u) /\ ClientLate(u)
      BY <1>1, <1>10, <2>1, <2>2, <2>5, <3>3
         DEF ClientOK, ClientStart, ClientEarly, ClientLate, Opened
    <3> QED BY <1>4, <3>2, <3>3, <3>4 DEF ClientOK
  <2> QED BY <2>4, <2>5
<1>11. CASE h \in {"CR_CERT", "CR_CERT_VRFY"}
  <2>1. /\ r.type \in {"CERTIFICATE", "CERTIFICATE_VERIFY"} /\ p = c.pha
        /\ c.hand_state \in {"CR_ENCRYPTED_EXTENSIONS", "CR_CERT_REQ", "CR_CERT"}
        /\ c.tls13 /\ "own" \notin c.fin
    BY <1>2, <1>3, <1>11 DEF p, ClientOK, ClientStart, ClientLate
  <2>2. \E x \in {"none", "cert", "empty"} : u = [t EXCEPT !.cert = x]
    <3> DEFINE x == t.cert
    <3>1. t = [t EXCEPT !.cert = x] /\ x \in {"none", "cert", "empty"}
      BY ONLY <1>2, <1>6, <1>7 DEF Conn
    <3> HIDE DEF x
    <3>2. CASE r.type = "CERTIFICATE"
      <4>1. u = t
        BY <3>2 DEF ClientProcess
      <4> QED BY <3>1, <4>1
    <3>3. CASE r.type = "CERTIFICATE_VERIFY"
      <4>1. u = t \/ u \in CertificatePrepared(t)
        BY <3>3 DEF ClientProcess
      <4>2. u \in CertificatePrepared(t) => \E y \in {"cert", "empty"} : u = [t EXCEPT !.cert = y]
        BY DEF CertificatePrepared
      <4> QED BY ONLY <3>1, <4>1, <4>2
    <3> QED BY <2>1, <3>2, <3>3
  <2>3. PICK x \in {"none", "cert", "empty"} : u = [t EXCEPT !.cert = x]
    BY <2>2
  <2>4. u \in Conn
    BY <1>6, <2>3, FieldSet
  <2>5. /\ Same(u) /\ u.hello_retry_request = c.hello_retry_request /\ u.wkey = c.wkey
        /\ u.tls13 = c.tls13 /\ u.fin = c.fin /\ u.early_data = c.early_data
        /\ u.flow = c.flow
    BY <1>6, <1>7, <2>3 DEF Conn
  <2>6. ClientStart(u) /\ ClientEarly(f, u) /\ ClientLate(u)
    BY <1>1, <1>11, <2>1, <2>5 DEF ClientOK, ClientStart, ClientEarly, ClientLate, Opened
  <2> QED BY <1>4, <2>4, <2>5, <2>6 DEF ClientOK
<1>12. CASE h = "CR_FINISHED"
  <2>1. /\ r.type = "FINISHED" /\ p = c.pha
        /\ c.hand_state \in {"CR_ENCRYPTED_EXTENSIONS", "CR_CERT_VRFY"}
        /\ c.tls13 /\ "own" \notin c.fin
    BY <1>2, <1>3, <1>12 DEF p, ClientOK, ClientStart, ClientLate
  <2> DEFINE g == c.fin \cup {"peer"}
  <2>2. u = [t EXCEPT !.rkey = 3, !.fin = g, !.flow = "writing"]
    BY <1>7, <2>1 DEF ClientProcess, ApplicationKey
  <2>3. g \in SUBSET {"own", "peer"} /\ "own" \notin g /\ "peer" \in g
    BY <1>2, <2>1
  <2> HIDE DEF g
  <2>4. u \in Conn
    BY <1>6, <2>2, <2>3, FieldSet
  <2>5. /\ Same(u) /\ u.hello_retry_request = c.hello_retry_request /\ u.wkey = c.wkey
        /\ u.tls13 = c.tls13 /\ u.fin = g /\ u.cert = c.cert /\ u.early_data = c.early_data
        /\ u.flow = "writing"
    BY <1>6, <1>7, <2>2 DEF Conn
  <2>6. ClientStart(u) /\ ClientEarly(f, u) /\ ClientLate(u)
    BY <1>1, <1>12, <2>1, <2>3, <2>5 DEF ClientOK, ClientStart, ClientEarly, ClientLate, Opened
  <2> QED BY <1>4, <2>4, <2>5, <2>6 DEF ClientOK
<1>13. CASE h \in {"CR_SESSION_TICKET", "CR_KEY_UPDATE"}
  <2>1. /\ r.type \in {"NEWSESSION_TICKET", "KEY_UPDATE"} /\ p = c.pha /\ c.hand_state = "OK"
        /\ c.tls13 /\ "own" \in c.fin
    BY <1>2, <1>3, <1>13 DEF p, ClientOK, ClientStart, ClientLate
  <2>2. \E x \in {"NONE", "NOT_REQUESTED", "REQUESTED"}, k \in Nat :
          u = [t EXCEPT !.key_update = x, !.rkey = k, !.flow = "writing"]
    <3>1. CASE r.type = "NEWSESSION_TICKET"
      <4>1. u = [t EXCEPT !.flow = "writing"]
        BY <3>1 DEF ClientProcess
      <4>2. u = [t EXCEPT !.key_update = t.key_update, !.rkey = t.rkey, !.flow = "writing"]
        BY ONLY <1>6, <4>1 DEF Conn
      <4> QED BY <1>2, <1>7, <4>2
    <3>2. CASE r.type = "KEY_UPDATE"
      <4> DEFINE x == IF r.arg = "REQUESTED" THEN "NOT_REQUESTED" ELSE t.key_update
                 k == t.rkey + 1
      <4>1. u = [t EXCEPT !.key_update = x, !.rkey = k, !.flow = "writing"]
        BY <3>2 DEF ClientProcess, KeyUpdateRead
      <4>2. x \in {"NONE", "NOT_REQUESTED", "REQUESTED"} /\ k \in Nat
        BY <1>2, <1>7
      <4> QED BY <4>1, <4>2
    <3> QED BY <2>1, <3>1, <3>2
  <2>3. PICK x \in {"NONE", "NOT_REQUESTED", "REQUESTED"}, k \in Nat :
          u = [t EXCEPT !.key_update = x, !.rkey = k, !.flow = "writing"]
    BY <2>2
  <2>4. u \in Conn
    BY <1>6, <2>3, FieldSet
  <2>5. /\ Same(u) /\ u.hello_retry_request = c.hello_retry_request /\ u.wkey = c.wkey
        /\ u.tls13 = c.tls13 /\ u.fin = c.fin /\ u.cert = c.cert /\ u.early_data = c.early_data
        /\ u.flow = "writing"
    BY <1>6, <1>7, <2>3 DEF Conn
  <2>6. ClientStart(u) /\ ClientEarly(f, u) /\ ClientLate(u)
    BY <1>1, <1>13, <2>1, <2>5 DEF ClientOK, ClientStart, ClientEarly, ClientLate, Opened
  <2> QED BY <1>4, <2>4, <2>5, <2>6 DEF ClientOK
<1> QED BY <1>3, <1>8, <1>9, <1>10, <1>11, <1>12, <1>13

(***************************************************************************)
(* The server                                                              *)
(***************************************************************************)
\* The states the server moves to of itself.
ServerMove(f, v, h) ==
  LET flight == IF v.hello_retry_request = "PENDING"
                THEN "EARLY_DATA" ELSE "SW_ENCRYPTED_EXTENSIONS"
      change == f.compat[Server] /\ v.hello_retry_request # "COMPLETE"
  IN \/ v.hand_state = "OK" /\ h = "SW_KEY_UPDATE" /\ v.key_update # "NONE"
     \/ v.hand_state = "OK" /\ h = "SW_CERT_REQ" /\ v.pha = "REQUEST_PENDING"
     \/ v.hand_state = "SR_CLNT_HELLO" /\ h = "SW_SRVR_HELLO"
     \/ v.hand_state = "SW_SRVR_HELLO" /\ change /\ h = "SW_CHANGE"
     \/ v.hand_state = "SW_SRVR_HELLO" /\ ~ change /\ h = flight
     \/ v.hand_state = "SW_CHANGE" /\ h = flight
     \/ v.hand_state = "SW_ENCRYPTED_EXTENSIONS" /\ h \in {"SW_FINISHED", "SW_CERT_REQ", "SW_CERT"}
     \/ v.hand_state = "SW_CERT_REQ" /\ v.pha = "REQUEST_PENDING" /\ h = "OK"
     \/ v.hand_state = "SW_CERT_REQ" /\ v.pha # "REQUEST_PENDING" /\ h = "SW_CERT"
     \/ v.hand_state = "SW_CERT" /\ h = "SW_CERT_VRFY"
     \/ v.hand_state = "SW_CERT_VRFY" /\ h = "SW_FINISHED"
     \/ v.hand_state = "SW_FINISHED" /\ h = "EARLY_DATA"
     \/ v.hand_state \in {"SR_FINISHED", "SW_SESSION_TICKET"} /\ h = "OK"
     \/ /\ v.hand_state \in {"SR_FINISHED", "SW_SESSION_TICKET"} /\ h = "SW_SESSION_TICKET"
        /\ NumTickets > v.sent_tickets
     \/ v.hand_state \in {"SR_KEY_UPDATE", "SW_KEY_UPDATE"} /\ h = "OK"

LEMMA ServerMoves ==
  ASSUME NEW h, h = WriteTransition(Server), h \notin {ToRead, Wrong}
  PROVE  ServerMove(conf, tls[Server], h)
<1> DEFINE v == tls[Server]
<1>1. h = ServerWriteTransition(v)
  BY TwoSides DEF WriteTransition
<1> HIDE DEF v
<1>2. ServerMove(conf, v, h)
  BY <1>1 DEF ServerWriteTransition, ServerMove, ToRead, Wrong
<1> QED BY <1>2 DEF v

\* The server moves on, and its post-handshake authentication with it.
Moved(v, h, t) ==
  /\ t \in Conn /\ h \in ServerStates
  /\ t.hand_state = h /\ t.pha = PhaAfterTransition(v) /\ t.wkey = v.wkey
  /\ t.rkey = v.rkey /\ t.fin = v.fin /\ t.hit = v.hit /\ t.key_update = v.key_update
  /\ t.hello_retry_request = v.hello_retry_request /\ t.early_data = v.early_data
  /\ t.sent_tickets = v.sent_tickets /\ t.ticket_expected = v.ticket_expected
  /\ t.early_data_state = v.early_data_state

LEMMA ServerMoved ==
  ASSUME NEW f, NEW v, ServerOK(f, v), NEW h, ServerMove(f, v, h)
  PROVE  Moved(v, h, [v EXCEPT !.hand_state = h, !.pha = PhaAfterTransition(v)])
<1> DEFINE p == PhaAfterTransition(v)
           a == [v EXCEPT !.hand_state = h]
           t == [v EXCEPT !.hand_state = h, !.pha = p]
<1>1. v \in Conn
  BY DEF ServerOK
<1>2. h \in ServerStates
  BY DEF ServerMove, ServerStates
<1>3. p \in PhaStates
  BY <1>1 DEF PhaAfterTransition, PhaStates, Conn
<1>4. a \in Conn
  BY <1>1, <1>2, FieldSet
<1>5. t = [a EXCEPT !.pha = p]
  OBVIOUS
<1>6. t.hand_state = h /\ t.pha = p /\ t.wkey = v.wkey
         /\ t.rkey = v.rkey /\ t.fin = v.fin /\ t.hit = v.hit /\ t.key_update = v.key_update
         /\ t.hello_retry_request = v.hello_retry_request /\ t.early_data = v.early_data
         /\ t.sent_tickets = v.sent_tickets /\ t.ticket_expected = v.ticket_expected
         /\ t.early_data_state = v.early_data_state
  BY <1>1 DEF Conn
<1> HIDE DEF p, a, t
<1>7. t \in Conn
  BY ONLY <1>3, <1>4, <1>5, FieldSet
<1> QED BY <1>2, <1>6, <1>7 DEF Moved, p, t

\* A state without a message, or one in which the call ends.
LEMMA ServerPasses ==
  ASSUME NEW f, NEW v, ServerOK(f, v), NEW h \in {"OK", "EARLY_DATA"}, ServerMove(f, v, h), NEW t,
         t = [v EXCEPT !.hand_state = h, !.pha = PhaAfterTransition(v)]
  PROVE  ServerOK(f, t) /\ ServerOK(f, Finished(Server, t))
<1>a. Moved(v, h, t)
  BY ServerMoved
<1>1. /\ t \in Conn /\ h \in ServerStates
      /\ t.hand_state = h /\ t.pha = PhaAfterTransition(v) /\ t.wkey = v.wkey /\ t.fin = v.fin
      /\ t.hello_retry_request = v.hello_retry_request /\ t.early_data = v.early_data
  BY <1>a DEF Moved
<1>2. ServerKeys(f, t)
  BY <1>1 DEF ServerOK, ServerKeys, ServerMove, PhaAfterTransition
<1> DEFINE u == Finished(Server, t)
<1>3. /\ u \in Conn /\ u.hand_state = h /\ u.pha = t.pha /\ u.wkey = t.wkey /\ u.fin = t.fin
      /\ u.hello_retry_request = t.hello_retry_request /\ u.early_data = t.early_data
  BY <1>1, FinishedFields, TwoSides DEF RequestClosed
<1> HIDE DEF u
<1>4. ServerKeys(f, u)
  BY <1>1, <1>2, <1>3 DEF ServerKeys
<1> QED BY <1>1, <1>2, <1>3, <1>4 DEF ServerOK, u

\* The messages of the server.
ServerWrites == {"SW_SRVR_HELLO", "SW_CHANGE", "SW_ENCRYPTED_EXTENSIONS", "SW_CERT_REQ", "SW_CERT",
                 "SW_CERT_VRFY", "SW_FINISHED", "SW_SESSION_TICKET", "SW_KEY_UPDATE"}

\* They are protected, ...
LEMMA ServerRecord ==
  ASSUME NEW f, NEW v, ServerOK(f, v), NEW h \in ServerWrites, ServerMove(f, v, h), NEW t,
         t = [v EXCEPT !.hand_state = h, !.pha = PhaAfterTransition(v)], NEW r,
         r = [type |-> MessageOf(t)[1], key |-> KeyOfMessage(Server, t), arg |-> MessageOf(t)[2]]
  PROVE  RecordOK(f, Server, r)
<1>a. Moved(v, h, t)
  BY ServerMoved
<1>1. /\ t.hand_state = h /\ t.wkey = v.wkey /\ t.key_update = v.key_update
      /\ t.hello_retry_request = v.hello_retry_request /\ t.early_data = v.early_data
  BY <1>a DEF Moved
<1>2. v.wkey \in Nat /\ v.key_update \in {"NONE", "NOT_REQUESTED", "REQUESTED"}
  BY DEF ServerOK, Conn
<1>3. r.key = v.wkey /\ r = [type |-> r.type, key |-> r.key, arg |-> r.arg]
  BY <1>1, TwoSides DEF KeyOfMessage
<1>4. h \notin {"SW_SRVR_HELLO", "SW_CHANGE"} => v.wkey # Plain
  BY <1>2 DEF ServerOK, ServerKeys, ServerMove, ServerWrites, Plain, HandshakeKey, ApplicationKey
<1>5. /\ h = "SW_SRVR_HELLO" =>
           /\ r.type = "SERVER_HELLO" /\ r.arg \in {"retry", "hit", "full"}
           /\ r.arg = "retry" => v.hello_retry_request = "PENDING"
      /\ h = "SW_CHANGE" => r.type = "CCS" /\ r.arg = "none"
      /\ h = "SW_ENCRYPTED_EXTENSIONS" =>
           /\ r.type = "ENCRYPTED_EXTENSIONS" /\ r.arg \in {"early", "none"}
           /\ r.arg = "early" => v.early_data = "ACCEPTED"
      /\ h = "SW_CERT_REQ" => r.type = "CERTIFICATE_REQUEST" /\ r.arg = "none"
      /\ h = "SW_CERT" => r.type = "CERTIFICATE" /\ r.arg = "cert"
      /\ h = "SW_CERT_VRFY" => r.type = "CERTIFICATE_VERIFY" /\ r.arg = "none"
      /\ h = "SW_FINISHED" => r.type = "FINISHED" /\ r.arg = "none"
      /\ h = "SW_SESSION_TICKET" => r.type = "NEWSESSION_TICKET" /\ r.arg = "none"
      /\ h = "SW_KEY_UPDATE" => r.type = "KEY_UPDATE" /\ r.arg = v.key_update
  BY <1>1 DEF MessageOf
<1>6. h = "SW_KEY_UPDATE" => v.key_update # "NONE"
  BY DEF ServerMove
<1>7. /\ r.type \in {"CCS", "SERVER_HELLO", "ENCRYPTED_EXTENSIONS", "CERTIFICATE_REQUEST",
                     "CERTIFICATE", "CERTIFICATE_VERIFY", "FINISHED", "NEWSESSION_TICKET",
                     "KEY_UPDATE"}
      /\ r.arg \in {"none", "early", "retry", "hit", "full", "cert", "REQUESTED", "NOT_REQUESTED"}
      /\ h \in {"SW_SRVR_HELLO", "SW_CHANGE"} => r.type \in {"CCS", "SERVER_HELLO"}
      /\ r.type = "CERTIFICATE" => r.arg \in {"cert", "empty"}
      /\ r.type = "SERVER_HELLO" /\ r.arg = "retry" => v.hello_retry_request = "PENDING"
      /\ r.type = "ENCRYPTED_EXTENSIONS" /\ r.arg = "early" => v.early_data = "ACCEPTED"
  BY <1>2, <1>5, <1>6 DEF ServerWrites
<1>8. r \in Rec
  BY <1>2, <1>3, <1>7 DEF Rec
<1>9. /\ v.hello_retry_request = "PENDING" => f.retry
      /\ v.early_data = "ACCEPTED" => ~ f.retry
  BY DEF ServerOK, ServerKeys
<1> QED BY <1>3, <1>4, <1>7, <1>8, <1>9 DEF RecordOK

\* ... and leave the server with the keys its state calls for.
LEMMA ServerSends ==
  ASSUME NEW v, ServerOK(conf, v), NEW h \in ServerWrites, ServerMove(conf, v, h), NEW t,
         t = [v EXCEPT !.hand_state = h, !.pha = PhaAfterTransition(v)]
  PROVE  ServerOK(conf, ServerSent(t))
<1> DEFINE u == ServerSent(t)
           change == conf.compat[Server] /\ v.hello_retry_request # "COMPLETE"
           Same(x) == /\ x.hand_state = h /\ x.pha = t.pha /\ x.early_data = v.early_data
                      /\ x.hello_retry_request = v.hello_retry_request
                      /\ x.early_data_state = v.early_data_state
<1>a. Moved(v, h, t)
  BY ServerMoved
<1>1. /\ t \in Conn /\ h \in ServerStates /\ Same(t) /\ t.pha = PhaAfterTransition(v)
      /\ t.wkey = v.wkey /\ t.fin = v.fin /\ t.rkey = v.rkey
      /\ t.sent_tickets = v.sent_tickets /\ t.ticket_expected = v.ticket_expected
  BY <1>a DEF Moved
<1>2. /\ v.wkey \in Nat /\ v.rkey \in Nat /\ v.fin \in SUBSET {"own", "peer"}
      /\ v.sent_tickets \in Nat /\ v.ticket_expected \in BOOLEAN
  BY DEF ServerOK, Conn
<1> SUFFICES u \in Conn /\ u.hand_state = h /\ ServerKeys(conf, u)
  BY <1>1 DEF ServerOK
<1>3. CASE h \in {"SW_SRVR_HELLO", "SW_CHANGE"}
           /\ (v.hello_retry_request = "PENDING" \/ (h = "SW_SRVR_HELLO" /\ change))
  <2>1. u = t \/ u = [t EXCEPT !.hit = FALSE]
    BY <1>1, <1>3 DEF ServerSent
  <2> HIDE DEF u
  <2>2. u \in Conn
    BY <1>1, <2>1, FieldSet
  <2>3. Same(u) /\ u.wkey = v.wkey /\ u.fin = v.fin
    BY ONLY <1>1, <2>1 DEF Conn
  <2>4. ServerKeys(conf, u)
    BY <1>1, <1>3, <2>3 DEF ServerOK, ServerKeys, ServerMove, PhaAfterTransition
  <2> QED BY <2>2, <2>3, <2>4
<1>4. CASE h \in {"SW_SRVR_HELLO", "SW_CHANGE"}
           /\ ~ (v.hello_retry_request = "PENDING" \/ (h = "SW_SRVR_HELLO" /\ change))
  <2> DEFINE k == IF t.early_data = "ACCEPTED" THEN v.rkey ELSE 2
  <2>1. u = [t EXCEPT !.wkey = 2, !.rkey = k] /\ k \in Nat
    BY <1>1, <1>2, <1>4 DEF ServerSent, HandshakeKeysInstalled, HandshakeKey
  <2> HIDE DEF u, k
  <2>2. u \in Conn
    BY <1>1, <2>1, FieldSet
  <2>3. Same(u) /\ u.wkey = 2 /\ u.fin = v.fin
    BY <1>1, <2>1 DEF Conn
  <2>4. ServerKeys(conf, u)
    BY <1>1, <1>4, <2>3 DEF ServerOK, ServerKeys, ServerMove, PhaAfterTransition, HandshakeKey
  <2> QED BY <2>2, <2>3, <2>4
<1>5. CASE h \in {"SW_ENCRYPTED_EXTENSIONS", "SW_CERT_REQ", "SW_CERT", "SW_CERT_VRFY"}
  <2>1. u = t \/ u = [t EXCEPT !.cert_request = TRUE]
    BY <1>1, <1>5 DEF ServerSent
  <2> HIDE DEF u
  <2>2. u \in Conn
    BY <1>1, <2>1, FieldSet
  <2>3. Same(u) /\ u.wkey = v.wkey /\ u.fin = v.fin
    BY ONLY <1>1, <2>1 DEF Conn
  <2>4. ServerKeys(conf, u)
    BY <1>1, <1>2, <1>5, <2>3
       DEF ServerOK, ServerKeys, ServerMove, PhaAfterTransition, HandshakeKey, ApplicationKey
  <2> QED BY <2>2, <2>3, <2>4
<1>6. CASE h = "SW_FINISHED"
  <2> DEFINE g == v.fin \cup {"own"}
  <2>1. u = [t EXCEPT !.wkey = 3, !.fin = g] /\ g \in SUBSET {"own", "peer"} /\ "own" \in g
    BY <1>1, <1>2, <1>6 DEF ServerSent, ApplicationKey
  <2> HIDE DEF u, g
  <2>2. u \in Conn
    BY <1>1, <2>1, FieldSet
  <2>3. Same(u) /\ u.wkey = 3 /\ u.fin = g
    BY <1>1, <2>1 DEF Conn
  <2>4. ServerKeys(conf, u)
    BY <1>1, <1>6, <2>1, <2>3
       DEF ServerOK, ServerKeys, ServerMove, PhaAfterTransition, ApplicationKey
  <2> QED BY <2>2, <2>3, <2>4
<1>7. CASE h = "SW_SESSION_TICKET"
  <2> DEFINE n == v.sent_tickets + 1
             x == IF v.sent_tickets = 0 THEN FALSE ELSE v.ticket_expected
  <2>1. u = [t EXCEPT !.sent_tickets = n, !.ticket_expected = x]
    BY <1>1, <1>7 DEF ServerSent
  <2>a. n \in Nat
    BY <1>2
  <2>2. n \in Nat /\ x \in BOOLEAN
    <3>1. x \in BOOLEAN
      BY <1>2, Zenon
    <3> QED BY <2>a, <3>1
  <2> HIDE DEF u, n, x
  <2>3. u \in Conn
    BY <1>1, <2>1, <2>2, FieldSet
  <2>4. Same(u) /\ u.wkey = v.wkey /\ u.fin = v.fin
    BY <1>1, <2>1 DEF Conn
  <2>5. ServerKeys(conf, u)
    BY <1>1, <1>7, <2>4 DEF ServerOK, ServerKeys, ServerMove, PhaAfterTransition
  <2> QED BY <2>3, <2>4, <2>5
<1>8. CASE h = "SW_KEY_UPDATE"
  <2> DEFINE k == v.wkey + 1
  <2>1. u = [t EXCEPT !.key_update = "NONE", !.wkey = k]
    BY <1>1, <1>8 DEF ServerSent, Conn
  <2>2. k \in Nat /\ k > v.wkey
    BY <1>2
  <2> HIDE DEF u, k
  <2>3. u \in Conn
    BY <1>1, <2>1, <2>2, FieldSet
  <2>4. Same(u) /\ u.wkey = k /\ u.fin = v.fin
    BY <1>1, <2>1 DEF Conn
  <2>5. ServerKeys(conf, u)
    BY <1>1, <1>2, <1>8, <2>2, <2>4
       DEF ServerOK, ServerKeys, ServerMove, PhaAfterTransition, ApplicationKey
  <2> QED BY <2>3, <2>4, <2>5
<1> QED BY <1>3, <1>4, <1>5, <1>6, <1>7, <1>8 DEF ServerWrites

\* Only flow and in_init are changed.
LEMMA ServerFlow ==
  ASSUME NEW f, NEW v, ServerOK(f, v), NEW x \in {"idle", "reading", "writing", "error"},
         NEW b \in BOOLEAN
  PROVE  ServerOK(f, [v EXCEPT !.flow = x, !.in_init = b])
<1> DEFINE u == [v EXCEPT !.flow = x, !.in_init = b]
<1>1. v \in Conn
  BY DEF ServerOK
<1>2. u \in Conn
  BY <1>1, FieldSet
<1>3. /\ u.hand_state = v.hand_state /\ u.wkey = v.wkey /\ u.fin = v.fin /\ u.pha = v.pha
      /\ u.hello_retry_request = v.hello_retry_request /\ u.early_data = v.early_data
      /\ u.early_data_state = v.early_data_state
  BY <1>1 DEF Conn
<1> HIDE DEF u
<1>4. ServerKeys(f, u)
  BY <1>3 DEF ServerOK, ServerKeys
<1> QED BY <1>2, <1>3, <1>4 DEF ServerOK, u

\* The server writes.
LEMMA ServerWriteStep ==
  ASSUME ProtectedInv, WriteMessage(Server)
  PROVE  ProtectedInv'
<1> DEFINE v == tls[Server]
           h == WriteTransition(Server)
           t == [v EXCEPT !.hand_state = h, !.pha = PhaAfterTransition(v)]
<1>1. ServerOK(conf, v) /\ h \notin {ToRead, Wrong} /\ conf' = conf
  BY DEF WriteMessage, ProtectedInv
<1>2. ServerMove(conf, v, h)
  BY <1>1, ServerMoves
<1>3. \/ Stops(Server, h) /\ tls' = [tls EXCEPT ![Server] = Finished(Server, t)] /\ wire' = wire
      \/ ~ Stops(Server, h) /\ h \in Dummies /\ tls' = [tls EXCEPT ![Server] = t] /\ wire' = wire
      \/ /\ ~ Stops(Server, h) /\ h \notin Dummies
         /\ Send(Server, MessageOf(t)[1], KeyOfMessage(Server, t), MessageOf(t)[2])
         /\ tls' = [tls EXCEPT ![Server] = ServerSent(t)]
  BY TwoSides DEF WriteMessage
<1>4. /\ h # "PENDING_EARLY_DATA_END"
      /\ h = "OK" => Stops(Server, h)
      /\ Stops(Server, h) => h \in {"OK", "EARLY_DATA"}
  BY <1>2 DEF Stops, ServerMove
<1> HIDE DEF v, h, t
<1>5. h \in {"OK", "EARLY_DATA"} => ServerOK(conf, t) /\ ServerOK(conf, Finished(Server, t))
  BY <1>1, <1>2, ServerPasses DEF t
<1>6. CASE Stops(Server, h) /\ tls' = [tls EXCEPT ![Server] = Finished(Server, t)] /\ wire' = wire
  BY <1>1, <1>4, <1>5, <1>6, SideStep, TwoSides DEF SideBecomes, WireOK
<1>7. CASE ~ Stops(Server, h) /\ h \in Dummies /\ tls' = [tls EXCEPT ![Server] = t] /\ wire' = wire
  <2>1. ServerOK(conf, t)
    BY <1>4, <1>5, <1>7 DEF Dummies
  <2> QED BY <1>1, <1>7, <2>1, SideStep, TwoSides DEF SideBecomes, WireOK
<1>8. CASE /\ ~ Stops(Server, h) /\ h \notin Dummies
           /\ Send(Server, MessageOf(t)[1], KeyOfMessage(Server, t), MessageOf(t)[2])
           /\ tls' = [tls EXCEPT ![Server] = ServerSent(t)]
  <2>1. h \in ServerWrites
    BY <1>2, <1>4, <1>8 DEF Dummies, ServerMove, ServerWrites
  <2> DEFINE r == [type |-> MessageOf(t)[1], key |-> KeyOfMessage(Server, t),
                   arg |-> MessageOf(t)[2]]
  <2>2. RecordOK(conf, Server, r)
    BY <1>1, <1>2, <2>1, ServerRecord DEF t
  <2>3. wire' = [wire EXCEPT ![Server] = Append(@, r)]
    BY <1>8 DEF Send
  <2>4. ServerOK(conf, ServerSent(t))
    BY <1>1, <1>2, <2>1, ServerSends DEF t
  <2> HIDE DEF r
  <2> QED BY <1>1, <1>8, <2>2, <2>3, <2>4, SideStep, TwoSides DEF SideBecomes, WireOK
<1> QED BY <1>3, <1>6, <1>7, <1>8

\* The server has nothing to write.
LEMMA ServerStartReading ==
  ASSUME ProtectedInv, StartReading(Server)
  PROVE  ProtectedInv'
<1> DEFINE v == tls[Server]
           u == IF WriteTransition(Server) = Wrong THEN Fatal(v) ELSE [v EXCEPT !.flow = "reading"]
<1>1. /\ ServerOK(conf, v) /\ v \in Conn /\ conf' = conf /\ wire' = wire
      /\ tls' = [tls EXCEPT ![Server] = u]
  BY DEF StartReading, ProtectedInv, ServerOK
<1>2. ServerOK(conf, Fatal(v))
  BY <1>1, ServerFlow DEF Fatal
<1>3. [v EXCEPT !.flow = "reading"] = [v EXCEPT !.flow = "reading", !.in_init = v.in_init]
      /\ v.in_init \in BOOLEAN
  BY <1>1 DEF Conn
<1>4. ServerOK(conf, [v EXCEPT !.flow = "reading"])
  BY <1>1, <1>3, ServerFlow
<1>5. ServerOK(conf, u)
  BY <1>2, <1>4
<1> HIDE DEF u
<1> QED BY <1>1, <1>5, SideStep, TwoSides DEF SideBecomes, WireOK

\* What a message of the client makes of the server.
LEMMA ServerReads ==
  ASSUME conf \in Configurations, NEW v, ServerOK(conf, v), NEW r, RecordOK(conf, Client, r),
         NEW h, h = ServerReadTransition(v, r.type), h # Wrong,
         NEW t, t = [v EXCEPT !.hand_state = h]
  PROVE  ServerOK(conf, ServerProcess(t, r))
<1> DEFINE u == ServerProcess(t, r)
<1>1. v \in Conn
  BY DEF ServerOK
<1>2. /\ v.fin \in SUBSET {"own", "peer"} /\ v.rkey \in Nat
      /\ v.early_data_state \in EarlyDataStates
      /\ v.pha \in PhaStates /\ v.early_data \in {"NOT_SENT", "REJECTED", "ACCEPTED"}
      /\ v.key_update \in {"NONE", "NOT_REQUESTED", "REQUESTED"}
      /\ v.hello_retry_request \in {"NONE", "PENDING", "COMPLETE"}
  BY <1>1 DEF Conn
<1>3. \/ h = "SR_CLNT_HELLO" /\ r.type = "CLIENT_HELLO"
           /\ (v.hand_state = "BEFORE"
               \/ (v.hand_state = "EARLY_DATA" /\ v.hello_retry_request = "PENDING"))
      \/ h = "SR_END_OF_EARLY_DATA" /\ r.type = "END_OF_EARLY_DATA" /\ "own" \in v.fin
      \/ h = "SR_CERT" /\ r.type = "CERTIFICATE" /\ "own" \in v.fin
      \/ h = "SR_CERT_VRFY" /\ r.type = "CERTIFICATE_VERIFY" /\ "own" \in v.fin
      \/ h = "SR_FINISHED" /\ r.type = "FINISHED" /\ "own" \in v.fin
      \/ h = "SR_KEY_UPDATE" /\ r.type = "KEY_UPDATE" /\ "own" \in v.fin
  BY DEF ServerReadTransition, ServerOK, ServerKeys
<1>4. h \in ServerStates
  BY <1>3 DEF ServerStates
<1>5. t \in Conn
  BY <1>1, <1>4, FieldSet
<1>6. /\ t.hand_state = h /\ t.pha = v.pha /\ t.early_data = v.early_data /\ t.wkey = v.wkey
      /\ t.hello_retry_request = v.hello_retry_request /\ t.rkey = v.rkey /\ t.fin = v.fin
      /\ t.early_data_state = v.early_data_state /\ t.key_update = v.key_update
  BY <1>1 DEF Conn
<1> DEFINE Same(x) == /\ x.hand_state = h /\ x.pha = v.pha /\ x.early_data = v.early_data
                      /\ x.wkey = v.wkey /\ x.hello_retry_request = v.hello_retry_request
<1> SUFFICES u \in Conn /\ u.hand_state = h /\ ServerKeys(conf, u)
  BY <1>4 DEF ServerOK
<1>7. CASE h = "SR_CLNT_HELLO"
  <2> DEFINE q == IF v.hello_retry_request = "NONE"
                  THEN (IF conf.retry THEN "PENDING" ELSE "NONE") ELSE "COMPLETE"
             p == IF conf.pha THEN "EXT_RECEIVED" ELSE v.pha
             hello == [t EXCEPT !.tls13 = TRUE, !.hit = conf.psk, !.hello_retry_request = q,
                                !.pha = p, !.ticket_expected = conf.ticket, !.flow = "writing"]
  <2>1. /\ r.type = "CLIENT_HELLO" /\ "own" \notin v.fin
        /\ v.hello_retry_request \in {"NONE", "PENDING"}
        /\ v.pha \notin {"REQUEST_PENDING", "REQUESTED"}
    BY <1>3, <1>7 DEF ServerOK, ServerKeys
  <2>2. u = FinalEarlyData(hello, r)
    <3>1. (CASE t.hello_retry_request = "NONE" ->
                  IF conf.retry THEN "PENDING" ELSE t.hello_retry_request
             [] t.hello_retry_request = "PENDING" -> "COMPLETE") = q
      BY <1>6, <2>1
    <3> HIDE DEF q
    <3> QED BY <1>6, <2>1, <3>1 DEF ServerProcess, ClientHelloProcessed
  <2>3. /\ q \in {"NONE", "PENDING", "COMPLETE"} /\ p \in PhaStates
        /\ q = "NONE" => ~ conf.retry
        /\ q = "PENDING" => conf.retry
        /\ p \notin {"REQUEST_PENDING", "REQUESTED"}
    BY <1>2, <2>1 DEF PhaStates
  <2>4. conf.psk \in BOOLEAN /\ conf.ticket \in BOOLEAN
    BY Tls13Assumption DEF AllConfigurations
  <2> HIDE DEF q, p
  <2>5. hello \in Conn
    BY ONLY <1>5, <2>3, <2>4, FieldSet
  <2>6. /\ hello.hand_state = h /\ hello.pha = p /\ hello.early_data = v.early_data
        /\ hello.wkey = v.wkey /\ hello.hello_retry_request = q /\ hello.fin = v.fin
        /\ hello.early_data_state = v.early_data_state
    BY <1>5, <1>6 DEF Conn
  <2> HIDE DEF hello, u
  <2>7. \/ u = hello
        \/ u = [hello EXCEPT !.early_data = "REJECTED"]
        \/ u = [hello EXCEPT !.early_data = "ACCEPTED", !.rkey = 1] /\ q = "NONE"
    BY <2>2, <2>6 DEF FinalEarlyData, EarlyDataAccepted, EarlyKey
  <2>8. u \in Conn
    <3>1. [hello EXCEPT !.early_data = "REJECTED"] \in Conn
      BY ONLY <2>5, FieldSet
    <3>2. [hello EXCEPT !.early_data = "ACCEPTED", !.rkey = 1] \in Conn
      BY ONLY <2>5, FieldSet
    <3> QED BY ONLY <2>5, <2>7, <3>1, <3>2
  <2>9. /\ u.hand_state = h /\ u.pha = p /\ u.wkey = v.wkey /\ u.hello_retry_request = q
        /\ u.fin = v.fin /\ u.early_data_state = v.early_data_state
        /\ u.early_data = "ACCEPTED" => v.early_data = "ACCEPTED" \/ q = "NONE"
    BY <2>5, <2>6, <2>7 DEF Conn
  <2>10. ServerKeys(conf, u)
    BY <1>7, <2>1, <2>3, <2>9 DEF ServerOK, ServerKeys
  <2> QED BY <2>8, <2>9, <2>10
<1>8. CASE h # "SR_CLNT_HELLO"
  <2>1. "own" \in v.fin /\ r.type # "CLIENT_HELLO"
    BY <1>3, <1>8
  <2>2. u \in Conn /\ Same(u) /\ "own" \in u.fin
    <3>1. CASE h = "SR_END_OF_EARLY_DATA"
      <4>1. \/ u = [t EXCEPT !.flow = "error"]
            \/ u = [t EXCEPT !.early_data_state = "FINISHED_READING", !.rkey = 2]
        BY <1>3, <3>1 DEF ServerProcess, HandshakeKey
      <4> HIDE DEF u
      <4>2. "FINISHED_READING" \in EarlyDataStates
        BY DEF EarlyDataStates
      <4>a. [t EXCEPT !.flow = "error"] \in Conn
        BY <1>5, FieldSet
      <4>b. [t EXCEPT !.early_data_state = "FINISHED_READING", !.rkey = 2] \in Conn
        BY <1>5, <4>2, FieldSet
      <4>3. u \in Conn
        BY ONLY <4>1, <4>a, <4>b
      <4>4. Same(u) /\ u.fin = v.fin
        BY ONLY <1>5, <1>6, <4>1 DEF Conn
      <4> QED BY <2>1, <4>3, <4>4
    <3>2. CASE h = "SR_CERT"
      <4> DEFINE x == r.arg
      <4>1. u = [t EXCEPT !.cert = x, !.sent_tickets = 0]
        BY <1>3, <3>2 DEF ServerProcess
      <4>2. x \in {"none", "cert", "empty"} /\ 0 \in Nat
        BY <1>3, <3>2 DEF RecordOK
      <4> HIDE DEF u, x
      <4>3. u \in Conn
        BY <1>5, <4>1, <4>2, FieldSet
      <4>4. Same(u) /\ u.fin = v.fin
        BY <1>5, <1>6, <4>1 DEF Conn
      <4> QED BY <2>1, <4>3, <4>4
    <3>3. CASE h = "SR_CERT_VRFY"
      <4>1. u = t
        BY <1>3, <3>3 DEF ServerProcess
      <4> QED BY <1>5, <1>6, <2>1, <4>1
    <3>4. CASE h = "SR_FINISHED"
      <4> DEFINE k == IF t.pha = "REQUESTED" THEN v.rkey ELSE 3
                 g == v.fin \cup {"peer"}
      <4>1. u = [t EXCEPT !.rkey = k, !.fin = g, !.flow = "writing"]
        BY <1>3, <1>6, <3>4 DEF ServerProcess, ApplicationKey
      <4>2. k \in Nat /\ g \in SUBSET {"own", "peer"} /\ "own" \in g
        BY <1>2, <2>1
      <4> HIDE DEF u, k, g
      <4>3. u \in Conn
        BY <1>5, <4>1, <4>2, FieldSet
      <4>4. Same(u) /\ u.fin = g
        BY <1>5, <1>6, <4>1 DEF Conn
      <4> QED BY <4>2, <4>3, <4>4
    <3>5. CASE h = "SR_KEY_UPDATE"
      <4> DEFINE x == IF r.arg = "REQUESTED" THEN "NOT_REQUESTED" ELSE v.key_update
                 k == v.rkey + 1
      <4>1. u = [t EXCEPT !.key_update = x, !.rkey = k, !.flow = "writing"]
        BY <1>3, <1>6, <3>5 DEF ServerProcess, KeyUpdateRead
      <4>2. x \in {"NONE", "NOT_REQUESTED", "REQUESTED"} /\ k \in Nat
        BY <1>2
      <4> HIDE DEF u, x, k
      <4>3. u \in Conn
        BY <1>5, <4>1, <4>2, FieldSet
      <4>4. Same(u) /\ u.fin = v.fin
        BY <1>5, <1>6, <4>1 DEF Conn
      <4> QED BY <2>1, <4>3, <4>4
    <3> QED BY <1>3, <1>8, <3>1, <3>2, <3>3, <3>4, <3>5
  <2>3. h \in {"SR_END_OF_EARLY_DATA", "SR_CERT", "SR_CERT_VRFY", "SR_FINISHED", "SR_KEY_UPDATE"}
    BY <1>3, <1>8
  <2> HIDE DEF u
  <2>4. ServerKeys(conf, u)
    BY <2>1, <2>2, <2>3 DEF ServerOK, ServerKeys
  <2> QED BY <2>2, <2>4
<1> QED BY <1>7, <1>8

(***************************************************************************)
(* Reading                                                                 *)
(***************************************************************************)
\* A record that is on its way is a good one, and reading it leaves good ones.
LEMMA RecordRead ==
  ASSUME ProtectedInv, NEW s \in Sides, wire[Peer(s)] # << >>
  PROVE  RecordOK(conf, Peer(s), NextRecord(s)) /\ Peer(s) \in Sides /\ (Consume(s) => WireOK)
<1>1. Peer(s) \in Sides
  BY DEF Peer, Sides
<1>2. wire[Peer(s)] \in Seq(Rec)
  BY <1>1 DEF ProtectedInv
<1>3. 1 \in DOMAIN wire[Peer(s)] /\ Head(wire[Peer(s)]) = wire[Peer(s)][1]
  BY <1>2
<1> QED BY <1>1, <1>3 DEF ProtectedInv, NextRecord, Consume, WireOK

\* The state machine reads a message, or refuses a record.
LEMMA ReadStep ==
  ASSUME ProtectedInv, NEW s \in Sides, ReadMessage(s)
  PROVE  ProtectedInv'
<1> DEFINE c == tls[s]
           r == NextRecord(s)
<1>1. PICK u \in Processed(s) : tls' = [tls EXCEPT ![s] = u]
  BY DEF ReadMessage
<1>2. /\ conf' = conf /\ conf \in Configurations /\ wire[Peer(s)] # << >>
      /\ ~ Refused(s) => c.flow = "reading" /\ ReadTransition(s, r.type) # Wrong
  BY DEF ReadMessage, Refused, ProtectedInv
<1>3. RecordOK(conf, Peer(s), r) /\ WireOK
  BY <1>2, RecordRead DEF ReadMessage
<1>4. CASE s = Client
  <2> DEFINE h == ReadTransition(s, r.type)
             t == [c EXCEPT !.hand_state = h,
                            !.pha = IF r.type = "CERTIFICATE_REQUEST" /\ c.hand_state = "OK"
                                    THEN "REQUESTED" ELSE @]
  <2>1. ClientOK(conf, c) /\ RecordOK(conf, Server, r)
    BY <1>3, <1>4 DEF ProtectedInv, Peer
  <2>2. Refused(s) => u = Fatal(c)
    BY <1>1, <1>4, TwoSides DEF Processed
  <2>3. ~ Refused(s) => u \in ClientProcess(t, r) /\ h = ClientReadTransition(c, r.type)
    BY <1>1, <1>4, TwoSides DEF Processed, ReadTransition
  <2> HIDE DEF c, r, h, t
  <2>4. Refused(s) => ClientOK(conf, u)
    BY <2>1, <2>2, ClientFails
  <2>5. ~ Refused(s) => ClientOK(conf, u)
    <3> SUFFICES ASSUME ~ Refused(s) PROVE ClientOK(conf, u)
      OBVIOUS
    <3>1. h # Wrong /\ c.flow = "reading"
      BY <1>2 DEF h, c, r
    <3> QED BY <2>1, <2>3, <3>1, ClientReads DEF t
  <2> QED BY <1>1, <1>2, <1>3, <1>4, <2>4, <2>5, SideStep, TwoSides DEF SideBecomes
<1>5. CASE s = Server
  <2> DEFINE h == ReadTransition(s, r.type)
             t == [c EXCEPT !.hand_state = h]
             w == [c EXCEPT !.hand_state = h,
                            !.pha = IF r.type = "CERTIFICATE_REQUEST" /\ c.hand_state = "OK"
                                    THEN "REQUESTED" ELSE @]
  <2>1. ServerOK(conf, c) /\ RecordOK(conf, Client, r) /\ c \in Conn
    BY <1>3, <1>5, TwoSides DEF ProtectedInv, Peer, ServerOK
  <2>2. Refused(s) => u = Fatal(c)
    BY <1>1, <1>5, TwoSides DEF Processed
  <2>3. ~ Refused(s) => u = ServerProcess(w, r) /\ h = ServerReadTransition(c, r.type)
    BY <1>1, <1>5, TwoSides DEF Processed, ReadTransition
  <2>4. ~ Refused(s) => r.type # "CERTIFICATE_REQUEST"
    BY <1>2, <2>3 DEF ServerReadTransition
  <2>5. ~ Refused(s) => w = t
    BY <2>1, <2>4 DEF Conn
  <2> HIDE DEF c, r, h, t, w
  <2>a. ServerOK(conf, [c EXCEPT !.flow = "error", !.in_init = TRUE])
    BY <2>1, ServerFlow
  <2>6. Refused(s) => ServerOK(conf, u)
    BY <2>2, <2>a DEF Fatal
  <2>7. ~ Refused(s) => ServerOK(conf, u)
    <3> SUFFICES ASSUME ~ Refused(s) PROVE ServerOK(conf, u)
      OBVIOUS
    <3>1. h # Wrong
      BY <1>2 DEF h, c, r
    <3>2. ServerOK(conf, ServerProcess(t, r))
      BY <1>2, <2>1, <2>3, <3>1, ServerReads DEF t
    <3> QED BY <2>3, <2>5, <3>2
  <2> QED BY <1>1, <1>2, <1>3, <1>5, <2>6, <2>7, SideStep, TwoSides DEF SideBecomes
<1> QED BY <1>4, <1>5, TwoSides

(***************************************************************************)
(* The calls                                                               *)
(***************************************************************************)
\* What a call may do to the connection before a message is sent or read.
Called(t, b, x, e, k) ==
  [t EXCEPT !.in_init = b, !.flow = x, !.early_data_state = e, !.key_update = k]

CallMay(f, s, t, b, x, e, k) ==
  /\ b \in {TRUE, t.in_init} /\ x \in {t.flow, "writing"}
  /\ x # "idle" => b = TRUE
  /\ e \in EarlyDataStates /\ k \in {"NONE", "NOT_REQUESTED", "REQUESTED"}
  /\ s = Client => \/ e = t.early_data_state
                   \/ e = "CONNECTING" /\ t.hand_state = "BEFORE"
                   \/ {e, t.early_data_state} \subseteq Opened /\ (e = "WRITING" => f.interleave)
  /\ s = Server => e \in {t.early_data_state, "ACCEPTING"}

LEMMA CallStep ==
  ASSUME ProtectedInv, NEW s \in Sides, NEW b, NEW x, NEW e, NEW k,
         CallMay(conf, s, tls[s], b, x, e, k),
         tls' = [tls EXCEPT ![s] = Called(tls[s], b, x, e, k)], WireOK, conf' = conf
  PROVE  ProtectedInv'
<1> DEFINE t == tls[s]
           u == Called(t, b, x, e, k)
<1>1. t \in Conn
  BY DEF ProtectedInv
<1>2. /\ b \in BOOLEAN /\ x \in {"idle", "reading", "writing", "error"}
      /\ e \in EarlyDataStates /\ k \in {"NONE", "NOT_REQUESTED", "REQUESTED"}
  BY <1>1 DEF CallMay, Conn
<1>3. u = [t EXCEPT !.in_init = b, !.flow = x, !.early_data_state = e, !.key_update = k]
  BY DEF Called
<1> HIDE DEF t, u
<1>4. u \in Conn
  BY ONLY <1>1, <1>2, <1>3, FieldSet
<1>5. /\ u.in_init = b /\ u.flow = x /\ u.early_data_state = e
      /\ u.hand_state = t.hand_state /\ u.tls13 = t.tls13 /\ u.wkey = t.wkey /\ u.fin = t.fin
      /\ u.cert = t.cert /\ u.early_data = t.early_data /\ u.pha = t.pha
      /\ u.hello_retry_request = t.hello_retry_request
  BY <1>1, <1>3 DEF Conn
<1>6. CASE s = Client
  <2>1. ClientOK(conf, t) /\ CallMay(conf, s, t, b, x, e, k)
    BY <1>6 DEF ProtectedInv, t
  <2>2. ClientStart(u)
    BY <1>5, <2>1 DEF ClientOK, ClientStart
  <2>3. ClientEarly(conf, u)
    <3>1. /\ ClientEarly(conf, t) /\ ClientLate(t) /\ b \in {TRUE, t.in_init} /\ x \in {t.flow, "writing"}
          /\ x # "idle" => b = TRUE
      BY <2>1 DEF ClientOK, CallMay
    <3>2. CASE e = t.early_data_state
      BY ONLY <1>5, <3>1, <3>2 DEF ClientEarly
    <3>3. CASE e = "CONNECTING" /\ t.hand_state = "BEFORE"
      BY ONLY <1>5, <3>1, <3>3 DEF ClientEarly, Opened
    <3>4. CASE {e, t.early_data_state} \subseteq Opened /\ (e = "WRITING" => conf.interleave)
      BY ONLY <1>5, <3>1, <3>4 DEF ClientEarly, ClientLate, Opened
    <3> QED BY <1>6, <2>1, <3>2, <3>3, <3>4 DEF CallMay
  <2>4. ClientLate(u)
    BY <1>5, <1>6, <2>1 DEF ClientOK, ClientLate, CallMay
  <2>5. ClientOK(conf, u)
    BY <1>4, <1>5, <2>1, <2>2, <2>3, <2>4 DEF ClientOK
  <2> QED BY <1>6, <2>5, SideStep DEF SideBecomes, t, u
<1>7. CASE s = Server
  <2>1. ServerOK(conf, t)
    BY <1>7 DEF ProtectedInv, t
  <2>a. e \in {t.early_data_state, "ACCEPTING"}
    BY <1>7 DEF CallMay, t
  <2>2. ServerKeys(conf, u)
    BY ONLY <1>5, <2>1, <2>a DEF ServerOK, ServerKeys
  <2>3. ServerOK(conf, u)
    BY <1>4, <1>5, <2>1, <2>2 DEF ServerOK
  <2> QED BY <1>7, <2>3, SideStep, TwoSides DEF SideBecomes, t, u
<1> QED BY <1>6, <1>7, TwoSides

\* A record of data that is sent is a good one.
LEMMA DataSent ==
  ASSUME NEW s \in Sides, NEW k \in Nat, NEW a \in {"early", "app"},
         NoEarlyAfterRetry => k >= ApplicationKey \/ (s = Client /\ k = EarlyKey),
         Send(s, "DATA", k, a)
  PROVE  WireOK
<1> DEFINE r == [type |-> "DATA", key |-> k, arg |-> a]
<1>1. RecordOK(conf, s, r)
  BY DEF RecordOK, Rec, Plain, EarlyKey, ApplicationKey
<1>2. wire' = [wire EXCEPT ![s] = Append(@, r)]
  BY DEF Send
<1> HIDE DEF r
<1> QED BY <1>1, <1>2 DEF WireOK

\* The application starts a handshake, takes one up again or ends early data.
LEMMA EnterStep ==
  ASSUME ProtectedInv, NEW s \in Sides, wire' = wire, conf' = conf, NEW e \in EarlyDataStates,
         \/ e = tls[s].early_data_state
         \/ s = Client /\ e = "CONNECTING" /\ tls[s].hand_state = "BEFORE"
         \/ s = Client /\ e = "FINISHED_WRITING" /\ tls[s].early_data_state = "WRITE_RETRY"
         \/ s = Server /\ e = "ACCEPTING",
         tls' = [tls EXCEPT ![s] = [Entered(@) EXCEPT !.early_data_state = e]]
  PROVE  ProtectedInv'
<1> DEFINE t == tls[s]
           x == IF t.flow = "idle" THEN "writing" ELSE t.flow
           k == t.key_update
           b == TRUE
<1>1. t \in Conn
  BY DEF ProtectedInv
<1>2. [Entered(t) EXCEPT !.early_data_state = e] = Called(t, b, x, e, k)
  BY <1>1 DEF Entered, Called, Conn
<1>3. CallMay(conf, s, t, b, x, e, k)
  BY <1>1, TwoSides DEF CallMay, Conn, Opened
<1> HIDE DEF t, x, k, b
<1>4. tls' = [tls EXCEPT ![s] = Called(t, b, x, e, k)]
  BY <1>2 DEF t
<1> QED BY <1>3, <1>4, CallStep DEF t, WireOK

LEMMA EnterOnly ==
  ASSUME ProtectedInv, NEW s \in Sides, wire' = wire, conf' = conf,
         tls' = [tls EXCEPT ![s] = Entered(@)]
  PROVE  ProtectedInv'
<1> DEFINE t == tls[s]
           e == t.early_data_state
<1>1. t \in Conn
  BY DEF ProtectedInv
<1>2. e \in EarlyDataStates
  BY <1>1 DEF Conn
<1>3. Entered(t) = [Entered(t) EXCEPT !.early_data_state = e]
  BY <1>1 DEF Entered, Conn
<1>4. tls' = [tls EXCEPT ![s] = [Entered(@) EXCEPT !.early_data_state = e]]
  BY <1>3
<1> HIDE DEF e, t
<1> QED BY <1>2, <1>4, EnterStep DEF e, t

LEMMA CallsStep ==
  ASSUME ProtectedInv, NEW s \in Sides, Call(s)
  PROVE  ProtectedInv'
<1> DEFINE t == tls[s]
<1>1. t \in Conn /\ conf' = conf
  BY DEF ProtectedInv, Call, Begin, CompleteHandshake, WriteData, KeyUpdate, Resume
<1>2. CASE Begin(s)
  <2> DEFINE e == CASE s = Client /\ conf.early -> "CONNECTING"
                    [] s = Server /\ conf.read_early -> "ACCEPTING"
                    [] OTHER -> t.early_data_state
  <2>1. /\ t.hand_state = "BEFORE" /\ wire' = wire
        /\ tls' = [tls EXCEPT ![s] = [Entered(@) EXCEPT !.early_data_state = e]]
    BY <1>2 DEF Begin
  <2>2. /\ e \in EarlyDataStates
        /\ e = t.early_data_state \/ (s = Client /\ e = "CONNECTING")
           \/ (s = Server /\ e = "ACCEPTING")
    BY <1>1 DEF Conn, EarlyDataStates
  <2> HIDE DEF e
  <2> QED BY <1>1, <2>1, <2>2, EnterStep
<1>3. CASE CompleteHandshake(s)
  <2> DEFINE e == IF s = Client THEN "FINISHED_WRITING" ELSE t.early_data_state
  <2>1. /\ wire' = wire
        /\ s = Client => t.early_data_state = "WRITE_RETRY"
        /\ tls' = [tls EXCEPT ![s] = [Entered(@) EXCEPT !.early_data_state = e]]
    BY <1>3, TwoSides DEF CompleteHandshake
  <2>2. /\ e \in EarlyDataStates
        /\ s = Client => e = "FINISHED_WRITING"
        /\ s # Client => e = t.early_data_state
    BY <1>1 DEF Conn, EarlyDataStates
  <2> HIDE DEF e
  <2> QED BY <1>1, <2>1, <2>2, EnterStep, TwoSides
<1>4. CASE WriteData(s)
  <2>1. CASE tls' = [tls EXCEPT ![s] = Entered(@)] /\ wire' = wire
    BY <1>1, <2>1, EnterOnly
  <2>2. CASE Send(s, "DATA", t.wkey, "app") /\ tls' = tls
    <3>1. t.hand_state = "OK"
      BY <1>4 DEF WriteData, InitFinished
    <3>2. t.wkey \in Nat /\ t.wkey >= ApplicationKey
      <4>1. t.wkey \in Nat
        BY <1>1 DEF Conn
      <4>2. CASE s = Client
        BY <1>1, <3>1, <4>1, <4>2 DEF ProtectedInv, ClientOK, ClientLate
      <4>3. CASE s = Server
        BY <1>1, <3>1, <4>1, <4>3 DEF ProtectedInv, ServerOK, ServerKeys
      <4> QED BY <4>1, <4>2, <4>3, TwoSides
    <3>3. WireOK
      BY <2>2, <3>2, DataSent
    <3> QED BY <1>1, <2>2, <3>3, WireOnly
  <2> QED BY <1>4, <2>1, <2>2 DEF WriteData
<1>5. CASE KeyUpdate(s)
  <2>1. PICK k \in {"NOT_REQUESTED", "REQUESTED"} :
          tls' = [tls EXCEPT ![s].in_init = TRUE, ![s].key_update = k]
    BY <1>5 DEF KeyUpdate
  <2> DEFINE b == TRUE
             x == t.flow
             e == t.early_data_state
  <2>2. Called(t, b, x, e, k) = [t EXCEPT !.in_init = TRUE, !.key_update = k]
    BY <1>1 DEF Called, Conn
  <2>3. tls' = [tls EXCEPT ![s] = [t EXCEPT !.in_init = TRUE, !.key_update = k]]
    BY <2>1 DEF ProtectedInv
  <2>4. tls' = [tls EXCEPT ![s] = Called(t, b, x, e, k)]
    BY <2>2, <2>3
  <2>5. CallMay(conf, s, t, b, x, e, k) /\ wire' = wire
    BY <1>1, <1>5 DEF CallMay, Conn, KeyUpdate
  <2> HIDE DEF b, x, e
  <2> QED BY <1>1, <2>4, <2>5, CallStep DEF WireOK
<1>6. CASE Resume(s)
  BY <1>1, <1>6, EnterOnly DEF Resume
<1> QED BY <1>2, <1>3, <1>4, <1>5, <1>6 DEF Call

\* The early data of the client goes out under the early key, however late.
LEMMA EarlyDataKey ==
  ASSUME ProtectedInv, ~ tls[Client].in_init,
         \/ conf.interleave
         \/ tls[Client].hand_state = "EARLY_DATA",
         tls[Client].early_data_state \in Opened
  PROVE  /\ tls[Client].wkey \in Nat
         /\ NoEarlyAfterRetry => tls[Client].wkey >= ApplicationKey \/ tls[Client].wkey = EarlyKey
<1> DEFINE c == tls[Client]
<1>1. ClientOK(conf, c) /\ conf \in Configurations
  BY DEF ProtectedInv
<1> HIDE DEF c
<1>2. NoEarlyAfterRetry /\ conf.interleave => c.hello_retry_request = "NONE"
  BY <1>1 DEF NoEarlyAfterRetry, ClientOK, ClientEarly
<1>3. c.wkey \in Nat
  BY <1>1 DEF ClientOK, Conn
<1>4. /\ ~ c.in_init /\ c.early_data_state \in Opened
      /\ conf.interleave \/ c.hand_state = "EARLY_DATA"
  BY DEF c
<1>5. NoEarlyAfterRetry => c.wkey >= ApplicationKey \/ c.wkey = EarlyKey
  BY <1>1, <1>2, <1>4 DEF ClientOK, ClientEarly, ClientLate
<1> QED BY <1>3, <1>5 DEF c

LEMMA WriteEarlyStep ==
  ASSUME ProtectedInv, WriteEarlyData \/ WriteEarlyDataReturns
  PROVE  ProtectedInv'
<1> DEFINE c == tls[Client]
           e == IF WriteEarlyData THEN "WRITING" ELSE "WRITE_RETRY"
           b == c.in_init
           x == c.flow
           k == c.key_update
<1>1. c \in Conn /\ ClientOK(conf, c) /\ conf' = conf
  BY DEF ProtectedInv, ClientOK, WriteEarlyData, WriteEarlyDataReturns
<1>2. c.early_data_state \in Opened
  BY DEF WriteEarlyData, WriteEarlyDataReturns, Opened
<1>3. conf.interleave \/ (c.hand_state = "EARLY_DATA" /\ ~ c.in_init)
  BY <1>1 DEF WriteEarlyData, WriteEarlyDataReturns, ClientOK, ClientEarly
<1>4. WireOK
  <2>1. wire' = wire \/ (~ c.in_init /\ Send(Client, "DATA", c.wkey, "early"))
    BY DEF WriteEarlyData, WriteEarlyDataReturns
  <2>2. CASE ~ c.in_init /\ Send(Client, "DATA", c.wkey, "early")
    <3>1. c.wkey \in Nat /\ (NoEarlyAfterRetry => c.wkey >= ApplicationKey \/ c.wkey = EarlyKey)
      BY <1>2, <1>3, <2>2, EarlyDataKey
    <3> HIDE DEF c
    <3> QED BY <2>2, <3>1, DataSent, TwoSides
  <2> QED BY <2>1, <2>2 DEF WireOK
<1>5. CASE tls' = tls
  BY <1>1, <1>4, <1>5, WireOnly
<1>6. CASE tls' = [tls EXCEPT ![Client].early_data_state = e]
           /\ (e = "WRITING" => conf.interleave)
  <2>1. e \in EarlyDataStates /\ e \in Opened
    BY DEF EarlyDataStates, Opened
  <2> HIDE DEF e
  <2>2. [c EXCEPT !.early_data_state = e] = Called(c, b, x, e, k)
    BY <1>1 DEF Called, Conn
  <2>3. tls' = [tls EXCEPT ![Client] = Called(c, b, x, e, k)]
    BY <1>6, <2>2
  <2>4. CallMay(conf, Client, c, b, x, e, k)
    BY <1>1, <1>2, <1>6, <2>1, TwoSides DEF CallMay, Conn, ClientOK, ClientEarly
  <2> HIDE DEF b, x, k
  <2> QED BY <1>1, <1>4, <2>3, <2>4, CallStep, TwoSides
<1>7. tls' = tls \/ (/\ tls' = [tls EXCEPT ![Client].early_data_state = e]
                     /\ e = "WRITING" => conf.interleave)
  BY <1>3 DEF WriteEarlyData, WriteEarlyDataReturns
<1> QED BY <1>5, <1>6, <1>7

LEMMA UnauthenticatedStep ==
  ASSUME ProtectedInv, WriteUnauthenticated
  PROVE  ProtectedInv'
<1> DEFINE v == tls[Server]
<1>1. /\ ServerOK(conf, v) /\ conf \in Configurations
      /\ v.early_data_state \in {"READ_RETRY", "FINISHED_READING"}
      /\ conf.hasty \/ "own" \in v.fin
      /\ Send(Server, "DATA", v.wkey, "app") /\ tls' = tls /\ conf' = conf
  BY DEF ProtectedInv, WriteUnauthenticated
<1> HIDE DEF v
<1>a. NoEarlyAfterRetry => "own" \in v.fin
  BY <1>1 DEF NoEarlyAfterRetry, ServerOK, ServerKeys
<1>2. v.wkey \in Nat /\ (NoEarlyAfterRetry => v.wkey >= ApplicationKey)
  BY <1>1, <1>a DEF ServerOK, ServerKeys, Conn
<1>3. WireOK
  BY <1>1, <1>2, DataSent, TwoSides
<1> QED BY <1>1, <1>3, WireOnly

LEMMA VerifyStep ==
  ASSUME ProtectedInv, VerifyClientPostHandshake
  PROVE  ProtectedInv'
<1> DEFINE v == tls[Server]
           u == [v EXCEPT !.pha = "REQUEST_PENDING", !.in_init = TRUE]
<1>1. /\ ServerOK(conf, v) /\ v.hand_state = "OK" /\ tls' = [tls EXCEPT ![Server] = u]
      /\ wire' = wire /\ conf' = conf /\ v \in Conn
  BY DEF ProtectedInv, VerifyClientPostHandshake, InitFinished, ServerOK
<1>2. "REQUEST_PENDING" \in PhaStates
  BY DEF PhaStates
<1> HIDE DEF v
<1>3. u \in Conn
  BY <1>1, <1>2, FieldSet
<1>4. /\ u.hand_state = v.hand_state /\ u.wkey = v.wkey /\ u.fin = v.fin
      /\ u.hello_retry_request = v.hello_retry_request /\ u.early_data = v.early_data
  BY <1>1 DEF Conn
<1> HIDE DEF u
<1>5. ServerKeys(conf, u)
  BY <1>1, <1>4 DEF ServerOK, ServerKeys
<1>6. ServerOK(conf, u)
  BY <1>1, <1>3, <1>4, <1>5 DEF ServerOK
<1> QED BY <1>1, <1>6, SideStep, TwoSides DEF SideBecomes, WireOK

\* Reading data, or finding a message in its place.
LEMMA DataStep ==
  ASSUME ProtectedInv, NEW s \in Sides, PassOver(s) \/ ReadData(s) \/ ReadFindsMessage(s)
  PROVE  ProtectedInv'
<1>1. CASE PassOver(s) \/ ReadData(s)
  <2>1. wire[Peer(s)] # << >> /\ Consume(s) /\ tls' = tls /\ conf' = conf
    BY <1>1 DEF PassOver, ReadData
  <2> QED BY <2>1, RecordRead, WireOnly
<1>2. CASE ReadFindsMessage(s)
  <2> DEFINE t == tls[s]
             b == TRUE
             x == "writing"
             e == t.early_data_state
             k == t.key_update
  <2>1. /\ tls' = [tls EXCEPT ![s].in_init = TRUE, ![s].flow = "writing"]
        /\ wire' = wire /\ conf' = conf /\ t \in Conn
    BY <1>2 DEF ReadFindsMessage, ProtectedInv
  <2>2. [t EXCEPT !.in_init = TRUE, !.flow = "writing"] = Called(t, b, x, e, k)
    BY <2>1 DEF Called, Conn
  <2>3. tls' = [tls EXCEPT ![s] = [t EXCEPT !.in_init = TRUE, !.flow = "writing"]]
    BY <2>1 DEF ProtectedInv
  <2>4. tls' = [tls EXCEPT ![s] = Called(t, b, x, e, k)]
    BY <2>2, <2>3
  <2>5. CallMay(conf, s, t, b, x, e, k)
    BY <2>1 DEF CallMay, Conn
  <2> HIDE DEF b, x, e, k
  <2> QED BY <2>1, <2>4, <2>5, CallStep DEF WireOK
<1> QED BY <1>1, <1>2

(***************************************************************************)
(* The theorem                                                             *)
(***************************************************************************)
LEMMA ProtectedStart == Init => ProtectedInv
<1> SUFFICES ASSUME Init PROVE ProtectedInv
  OBVIOUS
<1>1. NewConnection \in Conn
  <2>1. "BEFORE" \in ClientStates
    BY DEF ClientStates
  <2> QED BY <2>1 DEF NewConnection, Conn, EarlyDataStates, PhaStates, Plain
<1>2. ClientOK(conf, NewConnection)
  BY <1>1 DEF ClientOK, ClientStart, ClientEarly, ClientLate, NewConnection, ClientStates, Opened
<1>3. ServerOK(conf, NewConnection)
  BY <1>1 DEF ServerOK, ServerKeys, NewConnection, ServerStates
<1>4. /\ tls = [s \in Sides |-> NewConnection] /\ wire = [s \in Sides |-> << >>]
      /\ conf \in Configurations
  BY DEF Init
<1>5. wire \in [Sides -> Seq(Rec)] /\ \A s \in Sides : DOMAIN wire[s] = {}
  BY <1>4
<1>6. tls \in [Sides -> Conn] /\ tls[Client] = NewConnection /\ tls[Server] = NewConnection
  BY <1>1, <1>4, TwoSides
<1> QED BY <1>2, <1>3, <1>4, <1>5, <1>6 DEF ProtectedInv

LEMMA ProtectedStep ==
  ASSUME ProtectedInv, [Next]_vars
  PROVE  ProtectedInv'
<1>1. CASE UNCHANGED vars
  BY <1>1 DEF vars, ProtectedInv
<1>2. ASSUME NEW s \in Sides, Write(s)
      PROVE  ProtectedInv'
  BY <1>2, TwoSides, ClientWriteStep, ClientStartReading, ServerWriteStep, ServerStartReading
     DEF Write
<1>3. ASSUME NEW s \in Sides, Read(s)
      PROVE  ProtectedInv'
  BY <1>3, DataStep, ReadStep DEF Read
<1>4. ASSUME NEW s \in Sides, Call(s)
      PROVE  ProtectedInv'
  BY <1>4, CallsStep
<1>5. CASE ReadDuringEarlyData
  BY <1>5, EnterOnly, TwoSides DEF ReadDuringEarlyData
<1>6. CASE WriteEarlyData \/ WriteEarlyDataReturns
  BY <1>6, WriteEarlyStep
<1>7. CASE WriteUnauthenticated
  BY <1>7, UnauthenticatedStep
<1>8. CASE VerifyClientPostHandshake
  BY <1>8, VerifyStep
<1> QED BY <1>1, <1>2, <1>3, <1>4, <1>5, <1>6, <1>7, <1>8 DEF Next

\* Application data is on the wire only under an application key, or, as early data of the
\* client, under the early key, and no message but the Hellos and the ChangeCipherSpec goes in
\* the clear: for every set of configurations in which, after a HelloRetryRequest, the client
\* does not go on with early data and the server writes nothing before its Finished.
\* SSL_read_early_data.pod allows both, and with either of them data does go in the clear: the
\* run tls13_retry.
THEOREM RecordsAreProtected ==
  ASSUME NoEarlyAfterRetry
  PROVE  Spec => []Protected
<1>1. Init => ProtectedInv
  BY ProtectedStart
<1>2. ProtectedInv /\ [Next]_vars => ProtectedInv'
  BY ProtectedStep
<1>3. ProtectedInv => Protected
  BY DEF ProtectedInv, Protected, RecordOK
<1> QED BY <1>1, <1>2, <1>3, PTL DEF Spec

(***************************************************************************)
(* The generations of keys                                                 *)
(*                                                                         *)
(* A KeyUpdate is owed once for each call of tls_key_update, and once more *)
(* for each one that asks the peer for its own.  So what a side has used   *)
(* up (the generation of its write key) and what it still owes (its own    *)
(* pending KeyUpdate, the requests on their way to it, a request its peer  *)
(* is about to send) are together within the calls of both sides; and a    *)
(* side reads under the generation its peer had when it wrote.             *)
(***************************************************************************)
\* The number of records in q that belong to S.
HowMany(q, S) == Cardinality({i \in DOMAIN q : q[i] \in S})

\* The KeyUpdates, and those that ask for another.
Updates == {r \in Rec : r.type = "KEY_UPDATE"}
Requests == {r \in Rec : r.type = "KEY_UPDATE" /\ r.arg = "REQUESTED"}

\* Before the application keys all generations count as the first.
Generation(k) == IF k > ApplicationKey THEN k ELSE ApplicationKey

\* A side t with peer p, the records w on their way to it and v on their way to p, after n
\* calls of tls_key_update: before its Finished it has no later key than the first one of the
\* application; what it has used up and what it owes is within the calls; it reads no further
\* than p writes, the KeyUpdates on their way included; what it has sent is under a key it has
\* or had; and it has sent no more tickets than it may.
KeysOf(t, p, w, v, n) ==
  /\ "own" \notin t.fin => t.wkey <= ApplicationKey
  /\ Generation(t.wkey) + One(t.key_update # "NONE") + HowMany(w, Requests)
       + One(p.key_update = "REQUESTED") <= ApplicationKey + n
  /\ Generation(t.rkey) + HowMany(w, Updates) <= Generation(p.wkey)
  /\ \A i \in DOMAIN v : v[i].key <= Generation(t.wkey)
  /\ t.sent_tickets <= NumTickets

KeysInv ==
  \A s \in Sides : KeysOf(tls[s], tls[Peer(s)], wire[Peer(s)], wire[s],
                         calls[s].updates + calls[Peer(s)].updates)

\* The calls are counted within their bounds, one that still waits to write early data among
\* them.
CallsInv ==
  /\ calls \in [Sides -> [early : 0..MaxEarly, data : 0..MaxData,
                          updates : 0..MaxUpdates, requests : 0..MaxRequests]]
  /\ got \in [Sides -> [early : Nat, data : Nat]]
  /\ tls[Client].early_data_state = "WRITING" => calls[Client].early > 0

\* Counting along a sequence.
LEMMA HowManyNat ==
  ASSUME NEW q \in Seq(Rec), NEW S
  PROVE  IsFiniteSet({i \in DOMAIN q : q[i] \in S}) /\ HowMany(q, S) \in Nat
<1>1. {i \in DOMAIN q : q[i] \in S} \in SUBSET (1 .. Len(q)) /\ Len(q) \in Nat
  OBVIOUS
<1>2. IsFiniteSet(1 .. Len(q))
  BY <1>1, FS_Interval
<1> QED BY <1>1, <1>2, FS_Subset, FS_CardinalityType DEF HowMany

LEMMA HowManyAppend ==
  ASSUME NEW q \in Seq(Rec), NEW r \in Rec, NEW S
  PROVE  HowMany(Append(q, r), S) = HowMany(q, S) + One(r \in S)
<1> DEFINE A == {i \in DOMAIN q : q[i] \in S}
           p == Append(q, r)
           B == {i \in DOMAIN p : p[i] \in S}
           n == Len(q) + 1
<1>1. IsFiniteSet(A) /\ Cardinality(A) \in Nat /\ n \in Nat /\ n \notin A
  <2>1. IsFiniteSet(A) /\ Cardinality(A) \in Nat
    BY HowManyNat DEF HowMany
  <2>2. n \in Nat /\ n \notin DOMAIN q
    OBVIOUS
  <2> QED BY <2>1, <2>2
<1>2. /\ p \in Seq(Rec) /\ DOMAIN p = DOMAIN q \cup {n} /\ p[n] = r
      /\ \A i \in DOMAIN q : p[i] = q[i]
  OBVIOUS
<1> HIDE DEF p, n
<1>3. CASE r \in S
  <2>1. B = A \cup {n}
    BY <1>2, <1>3
  <2>2. Cardinality(A \cup {n}) = Cardinality(A) + 1
    BY <1>1, FS_AddElement
  <2>3. HowMany(p, S) = Cardinality(B) /\ HowMany(q, S) = Cardinality(A) /\ One(r \in S) = 1
    BY <1>3 DEF HowMany, One
  <2> HIDE DEF A, B
  <2> QED BY <2>1, <2>2, <2>3 DEF p
<1>4. CASE r \notin S
  <2>1. B = A
    BY <1>2, <1>4
  <2>2. HowMany(p, S) = Cardinality(B) /\ HowMany(q, S) = Cardinality(A) /\ One(r \in S) = 0
    BY <1>4 DEF HowMany, One
  <2> HIDE DEF A, B
  <2> QED BY <1>1, <2>1, <2>2 DEF p
<1> QED BY <1>3, <1>4

LEMMA HowManyTail ==
  ASSUME NEW q \in Seq(Rec), q # << >>, NEW S
  PROVE  HowMany(q, S) = HowMany(Tail(q), S) + One(Head(q) \in S)
<1> DEFINE p == Tail(q)
           A == {i \in DOMAIN p : p[i] \in S}
           B == {i \in DOMAIN q : q[i] \in S}
           f == [i \in A |-> i + 1]
<1>1. /\ p \in Seq(Rec) /\ Len(q) \in Nat /\ DOMAIN q = 1 .. Len(q) /\ DOMAIN p = 1 .. Len(q) - 1
      /\ \A i \in 1 .. Len(q) - 1 : p[i] = q[i + 1]
      /\ Head(q) = q[1] /\ 1 \in DOMAIN q
  OBVIOUS
<1>2. /\ IsFiniteSet(A) /\ IsFiniteSet(B) /\ Cardinality(A) \in Nat /\ Cardinality(B) \in Nat
  BY <1>1, HowManyNat DEF HowMany
<1>3. Cardinality(B \ {1}) = Cardinality(A)
  <2> HIDE DEF p
  <2>1. f \in [A -> B \ {1}] /\ \A i \in A : f[i] = i + 1 /\ i \in Nat
    BY <1>1
  <2>2. \A i, j \in A : f[i] = f[j] => i = j
    BY <2>1
  <2>3. \A j \in B \ {1} : j - 1 \in A /\ f[j - 1] = j
    BY <1>1
  <2> HIDE DEF A, B, f
  <2>4. f \in Bijection(A, B \ {1})
    BY <2>1, <2>2, <2>3, Fun_IsInj, Fun_IsSurj, Fun_IsBij
  <2>5. ExistsBijection(A, B \ {1})
    BY <2>4 DEF ExistsBijection
  <2> QED BY <1>2, <2>5, FS_Bijection
<1>4. Cardinality(B \ {1}) = IF 1 \in B THEN Cardinality(B) - 1 ELSE Cardinality(B)
  BY <1>2, FS_RemoveElement
<1>5. 1 \in B <=> Head(q) \in S
  BY <1>1
<1>6. /\ HowMany(p, S) = Cardinality(A) /\ HowMany(q, S) = Cardinality(B)
      /\ One(Head(q) \in S) = IF 1 \in B THEN 1 ELSE 0
  BY <1>5 DEF HowMany, One
<1> HIDE DEF A, B
<1> QED BY <1>2, <1>3, <1>4, <1>6

\* A step of a side that has nothing to do with KeyUpdates, or early data that waits.
KeysStay(t, u) ==
  /\ u.key_update = t.key_update
  /\ Generation(u.wkey) = Generation(t.wkey) /\ Generation(u.rkey) <= Generation(t.rkey)
  /\ "own" \notin u.fin => u.wkey <= ApplicationKey
  /\ u.sent_tickets <= NumTickets

Still(t, u) ==
  KeysStay(t, u) /\ (u.early_data_state = "WRITING" => t.early_data_state = "WRITING")

\* The wire with side s: nothing, or a record that is no KeyUpdate, is sent, or one is read.
Plainly(s) ==
  \/ wire' = wire
  \/ \E p \in Sides : wire[p] # << >> /\ wire' = [wire EXCEPT ![p] = Tail(@)]
  \/ \E r \in Rec : /\ r.type # "KEY_UPDATE" /\ r.key <= Generation(tls[s].wkey)
                    /\ wire' = [wire EXCEPT ![s] = Append(@, r)]

\* Generations are numbers that grow with the keys.
LEMMA GenerationNat ==
  ASSUME NEW k \in Nat
  PROVE  /\ Generation(k) \in Nat /\ Generation(k) >= k /\ Generation(k) >= 3
         /\ Generation(k + 1) <= Generation(k) + 1
         /\ k >= 3 => Generation(k) = k
BY DEF Generation, ApplicationKey

\* The peer is the other side.
LEMMA PeerSide == \A s \in Sides : Peer(s) \in Sides /\ Peer(s) # s /\ Peer(Peer(s)) = s
BY DEF Peer, Sides, Client, Server

\* What is on the wire does not become more.
LEMMA WireLighter ==
  ASSUME ProtectedInv, KeysInv, NEW s \in Sides, Plainly(s), NEW p \in Sides
  PROVE  /\ \A X \in {Updates, Requests} :
              /\ HowMany(wire[p], X) \in Nat /\ HowMany(wire'[p], X) \in Nat
              /\ HowMany(wire'[p], X) <= HowMany(wire[p], X)
         /\ \A i \in DOMAIN wire'[p] : wire'[p][i].key <= Generation(tls[p].wkey)
<1>1. /\ wire \in [Sides -> Seq(Rec)] /\ wire[p] \in Seq(Rec)
      /\ \A i \in DOMAIN wire[p] : wire[p][i].key <= Generation(tls[p].wkey)
  BY DEF ProtectedInv, KeysInv, KeysOf
<1>2. \A X : HowMany(wire[p], X) \in Nat
  BY <1>1, HowManyNat
<1>3. CASE wire'[p] = wire[p]
  BY <1>1, <1>2, <1>3
<1>4. CASE wire[p] # << >> /\ wire' = [wire EXCEPT ![p] = Tail(@)]
  <2> DEFINE q == wire[p]
  <2>1. wire'[p] = Tail(q) /\ q \in Seq(Rec) /\ q # << >>
    BY <1>1, <1>4
  <2>2. Tail(q) \in Seq(Rec) /\ \A i \in DOMAIN Tail(q) : i + 1 \in DOMAIN q /\ Tail(q)[i] = q[i + 1]
    BY <2>1
  <2>3. \A X : HowMany(q, X) = HowMany(Tail(q), X) + One(Head(q) \in X)
    BY <2>1, HowManyTail
  <2>4. \A X : HowMany(Tail(q), X) \in Nat
    BY <2>2, HowManyNat
  <2>5. \A X : One(Head(q) \in X) \in {0, 1}
    BY DEF One
  <2>6. \A i \in DOMAIN Tail(q) : Tail(q)[i].key <= Generation(tls[p].wkey)
    BY <1>1, <2>2
  <2>7. \A X : HowMany(Tail(q), X) <= HowMany(q, X)
    BY <2>3, <2>4, <2>5
  <2> QED BY <1>2, <2>1, <2>4, <2>6, <2>7
<1>5. ASSUME NEW r \in Rec, r.type # "KEY_UPDATE", r.key <= Generation(tls[s].wkey), p = s,
             wire' = [wire EXCEPT ![s] = Append(@, r)]
      PROVE  /\ \A X \in {Updates, Requests} :
                  /\ HowMany(wire[p], X) \in Nat /\ HowMany(wire'[p], X) \in Nat
                  /\ HowMany(wire'[p], X) <= HowMany(wire[p], X)
             /\ \A i \in DOMAIN wire'[p] : wire'[p][i].key <= Generation(tls[p].wkey)
  <2> DEFINE q == wire[p]
  <2>1. wire'[p] = Append(q, r) /\ q \in Seq(Rec)
    BY <1>1, <1>5
  <2>2. \A i \in DOMAIN Append(q, r) : (i \in DOMAIN q /\ Append(q, r)[i] = q[i]) \/ Append(q, r)[i] = r
    BY <2>1
  <2>3. \A X : HowMany(Append(q, r), X) = HowMany(q, X) + One(r \in X)
    BY <2>1, HowManyAppend
  <2>4. \A X \in {Updates, Requests} : One(r \in X) = 0
    BY <1>5 DEF One, Updates, Requests
  <2>5. \A i \in DOMAIN Append(q, r) : Append(q, r)[i].key <= Generation(tls[p].wkey)
    BY <1>1, <1>5, <2>2
  <2>6. \A X \in {Updates, Requests} : HowMany(Append(q, r), X) = HowMany(q, X)
    BY <1>2, <2>3, <2>4
  <2> QED BY <1>2, <2>1, <2>5, <2>6
<1>6. \/ wire'[p] = wire[p]
      \/ wire[p] # << >> /\ wire' = [wire EXCEPT ![p] = Tail(@)]
      \/ p = s /\ \E r \in Rec : /\ r.type # "KEY_UPDATE" /\ r.key <= Generation(tls[s].wkey)
                                 /\ wire' = [wire EXCEPT ![s] = Append(@, r)]
  BY <1>1 DEF Plainly
<1> QED BY <1>3, <1>4, <1>5, <1>6

\* The fields of a step, as numbers.
LEMMA SideFields ==
  ASSUME ProtectedInv, NEW s \in Sides
  PROVE  /\ tls[s] \in Conn /\ tls[s].wkey \in Nat /\ tls[s].rkey \in Nat
         /\ tls[s].sent_tickets \in Nat /\ tls[s].key_update \in {"NONE", "NOT_REQUESTED", "REQUESTED"}
         /\ tls[s].fin \subseteq {"own", "peer"} /\ wire[s] \in Seq(Rec)
BY DEF ProtectedInv, Conn

LEMMA TypesKept ==
  ASSUME ProtectedInv, ProtectedInv', CallsInv, NEW x \in Sides
  PROVE  /\ tls[x].wkey \in Nat /\ tls[x].rkey \in Nat /\ tls'[x].wkey \in Nat /\ tls'[x].rkey \in Nat
         /\ tls'[x].sent_tickets \in Nat /\ calls[x].updates \in Nat
<1>1. tls[x] \in Conn /\ tls'[x] \in Conn
  BY DEF ProtectedInv
<1>2. \A t \in Conn : t.wkey \in Nat /\ t.rkey \in Nat /\ t.sent_tickets \in Nat
  BY DEF Conn
<1>3. calls[x].updates \in 0 .. MaxUpdates /\ MaxUpdates \in Nat
  BY Tls13Assumption DEF CallsInv
<1> QED BY <1>1, <1>2, <1>3

\* A step without KeyUpdates leaves the account as it is, or lighter.
LEMMA KeysStill ==
  ASSUME ProtectedInv, ProtectedInv', CallsInv, KeysInv, NEW s \in Sides, NEW u,
         tls' = [tls EXCEPT ![s] = u], KeysStay(tls[s], u), Plainly(s),
         \A p \in Sides : calls'[p].updates = calls[p].updates
  PROVE  KeysInv'
<1> SUFFICES ASSUME NEW x \in Sides
             PROVE  KeysOf(tls'[x], tls'[Peer(x)], wire'[Peer(x)], wire'[x],
                           calls'[x].updates + calls'[Peer(x)].updates)
  BY DEF KeysInv
<1> DEFINE y == Peer(x)
<1>1. y \in Sides /\ y # x /\ s \in {x, y}
  BY PeerSide, TwoSides DEF Peer
<1>2. /\ tls[x].wkey \in Nat /\ tls[x].rkey \in Nat /\ tls[y].wkey \in Nat /\ tls[y].rkey \in Nat
      /\ tls'[x].wkey \in Nat /\ tls'[x].rkey \in Nat /\ tls'[y].wkey \in Nat /\ tls'[y].rkey \in Nat
      /\ calls[x].updates \in Nat /\ calls[y].updates \in Nat
      /\ tls'[x].sent_tickets \in Nat
  BY <1>1, TypesKept
<1>3. /\ tls'[x].key_update = tls[x].key_update /\ tls'[y].key_update = tls[y].key_update
      /\ Generation(tls'[x].wkey) = Generation(tls[x].wkey)
      /\ Generation(tls'[y].wkey) = Generation(tls[y].wkey)
      /\ Generation(tls'[x].rkey) <= Generation(tls[x].rkey)
      /\ "own" \notin tls'[x].fin => tls'[x].wkey <= ApplicationKey
      /\ tls'[x].sent_tickets <= NumTickets
  <2>1. /\ tls'[s] = u /\ \A p \in Sides : p # s => tls'[p] = tls[p]
    BY DEF ProtectedInv
  <2>2. KeysOf(tls[x], tls[y], wire[y], wire[x], calls[x].updates + calls[y].updates)
    BY DEF KeysInv
  <2>3. \A p \in Sides : Generation(tls[p].rkey) <= Generation(tls[p].rkey)
    <3> SUFFICES ASSUME NEW p \in Sides PROVE Generation(tls[p].rkey) <= Generation(tls[p].rkey)
      OBVIOUS
    <3> QED BY SideFields, GenerationNat
  <2> HIDE DEF y
  <2> QED BY <1>1, <2>1, <2>2, <2>3 DEF KeysStay, KeysOf
<1>4. \A p \in Sides :
        /\ HowMany(wire[p], Updates) \in Nat /\ HowMany(wire'[p], Updates) \in Nat
        /\ HowMany(wire'[p], Updates) <= HowMany(wire[p], Updates)
        /\ HowMany(wire[p], Requests) \in Nat /\ HowMany(wire'[p], Requests) \in Nat
        /\ HowMany(wire'[p], Requests) <= HowMany(wire[p], Requests)
        /\ \A i \in DOMAIN wire'[p] : wire'[p][i].key <= Generation(tls[p].wkey)
  BY WireLighter
<1>5. KeysOf(tls[x], tls[y], wire[y], wire[x], calls[x].updates + calls[y].updates)
  BY DEF KeysInv
<1>6. /\ Generation(tls[x].wkey) \in Nat /\ Generation(tls[y].wkey) \in Nat
      /\ Generation(tls[x].rkey) \in Nat /\ Generation(tls'[x].rkey) \in Nat
  BY <1>2, GenerationNat
<1>7. One(tls[x].key_update # "NONE") \in Nat /\ One(tls[y].key_update = "REQUESTED") \in Nat
  BY DEF One
<1>8. Generation(tls'[x].rkey) + HowMany(wire'[y], Updates) <= Generation(tls'[y].wkey)
  BY <1>1, <1>3, <1>4, <1>5, <1>6 DEF KeysOf
<1>9. Generation(tls'[x].wkey) + One(tls'[x].key_update # "NONE") + HowMany(wire'[y], Requests)
       + One(tls'[y].key_update = "REQUESTED") <= ApplicationKey + (calls'[x].updates + calls'[y].updates)
  BY <1>1, <1>2, <1>3, <1>4, <1>5, <1>6, <1>7 DEF KeysOf, ApplicationKey
<1> HIDE DEF y
<1> QED BY <1>1, <1>3, <1>4, <1>8, <1>9 DEF KeysOf, y

\* The two sides and what is between them.
LEMMA Pair ==
  ASSUME ProtectedInv, CallsInv, KeysInv, NEW s \in Sides, NEW p, p = Peer(s),
         NEW n, n = calls[s].updates + calls[p].updates
  PROVE  /\ p \in Sides /\ p # s /\ Peer(p) = s /\ Sides = {s, p}
         /\ tls \in [Sides -> Conn] /\ wire \in [Sides -> Seq(Rec)] /\ n \in Nat
         /\ calls[s].updates \in Nat /\ calls[p].updates \in Nat
         /\ KeysOf(tls[s], tls[p], wire[p], wire[s], n)
         /\ KeysOf(tls[p], tls[s], wire[s], wire[p], n)
         /\ \A x \in Sides : /\ tls[x].wkey \in Nat /\ tls[x].rkey \in Nat
                             /\ Generation(tls[x].wkey) \in Nat /\ Generation(tls[x].rkey) \in Nat
                             /\ \A X : HowMany(wire[x], X) \in Nat
<1>1. p \in Sides /\ p # s /\ Peer(p) = s /\ Sides = {s, p}
  BY PeerSide, TwoSides
<1>2. tls \in [Sides -> Conn] /\ wire \in [Sides -> Seq(Rec)]
  BY DEF ProtectedInv
<1>3. /\ n \in Nat /\ calls[s].updates \in Nat /\ calls[p].updates \in Nat
      /\ n = calls[p].updates + calls[s].updates
  <2>1. \A x \in Sides : calls[x].updates \in 0 .. MaxUpdates /\ MaxUpdates \in Nat
    BY Tls13Assumption DEF CallsInv
  <2>2. calls[s].updates \in Nat /\ calls[p].updates \in Nat
    BY <1>1, <2>1
  <2> QED BY <2>2
<1>4. KeysOf(tls[s], tls[p], wire[p], wire[s], n) /\ KeysOf(tls[p], tls[s], wire[s], wire[p], n)
  BY <1>1, <1>3 DEF KeysInv
<1>5. \A x \in Sides : tls[x].wkey \in Nat /\ tls[x].rkey \in Nat
  BY SideFields
<1>6. \A x \in Sides : Generation(tls[x].wkey) \in Nat /\ Generation(tls[x].rkey) \in Nat
  BY <1>5, GenerationNat
<1>7. \A x \in Sides : \A X : HowMany(wire[x], X) \in Nat
  BY <1>2, HowManyNat
<1> QED BY <1>1, <1>2, <1>3, <1>4, <1>5, <1>6, <1>7

LEMMA PairKept ==
  ASSUME NEW s \in Sides, NEW p, p = Peer(s), NEW n,
         calls'[s].updates \in Nat, calls'[p].updates \in Nat,
         n = calls'[s].updates + calls'[p].updates,
         KeysOf(tls'[s], tls'[p], wire'[p], wire'[s], n),
         KeysOf(tls'[p], tls'[s], wire'[s], wire'[p], n)
  PROVE  KeysInv'
<1>1. p \in Sides /\ p # s /\ Peer(p) = s /\ Sides = {s, p}
  BY PeerSide, TwoSides
<1>2. n = calls'[p].updates + calls'[s].updates
  OBVIOUS
<1> QED BY <1>1, <1>2 DEF KeysInv

\* A KeyUpdate is sent: the side goes on to its next key, and may have asked for another.
LEMMA KeysSent ==
  ASSUME ProtectedInv, CallsInv, KeysInv, NEW s \in Sides, NEW u, NEW r \in Rec,
         tls' = [tls EXCEPT ![s] = u], wire' = [wire EXCEPT ![s] = Append(@, r)], calls' = calls,
         r.type = "KEY_UPDATE", r.arg = tls[s].key_update, r.key = tls[s].wkey,
         tls[s].wkey >= ApplicationKey, tls[s].key_update # "NONE",
         u.key_update = "NONE", u.wkey = tls[s].wkey + 1, u.rkey = tls[s].rkey, u.fin = tls[s].fin,
         u.sent_tickets = tls[s].sent_tickets, "own" \in tls[s].fin
  PROVE  KeysInv'
<1> DEFINE t == tls[s]
           p == Peer(s)
           w == tls[p]
           n == calls[s].updates + calls[p].updates
           q == wire[s]
           x == Append(q, r)
<1>1. /\ p \in Sides /\ p # s /\ Peer(p) = s /\ n \in Nat
      /\ calls[s].updates \in Nat /\ calls[p].updates \in Nat
      /\ KeysOf(t, w, wire[p], q, n) /\ KeysOf(w, t, q, wire[p], n)
      /\ t.wkey \in Nat /\ Generation(t.rkey) \in Nat
      /\ Generation(w.wkey) \in Nat /\ Generation(w.rkey) \in Nat
      /\ \A X : HowMany(q, X) \in Nat /\ HowMany(wire[p], X) \in Nat
      /\ tls \in [Sides -> Conn] /\ wire \in [Sides -> Seq(Rec)]
  BY Pair
<1>2. tls'[s] = u /\ tls'[p] = w /\ wire'[s] = x /\ wire'[p] = wire[p] /\ q \in Seq(Rec)
  BY <1>1
<1>3. /\ HowMany(x, Updates) = HowMany(q, Updates) + 1
      /\ HowMany(x, Requests) = HowMany(q, Requests) + One(t.key_update = "REQUESTED")
  <2>1. r \in Updates /\ (r \in Requests <=> t.key_update = "REQUESTED")
    BY DEF Updates, Requests
  <2>2. One(r \in Updates) = 1 /\ One(r \in Requests) = One(t.key_update = "REQUESTED")
    BY <2>1 DEF One
  <2>3. /\ HowMany(x, Updates) = HowMany(q, Updates) + One(r \in Updates)
        /\ HowMany(x, Requests) = HowMany(q, Requests) + One(r \in Requests)
    BY <1>2, HowManyAppend
  <2> QED BY <2>2, <2>3
<1>4. Generation(t.wkey) = t.wkey /\ Generation(u.wkey) = t.wkey + 1
  <2>1. t.wkey + 1 \in Nat /\ t.wkey + 1 >= 3 /\ t.wkey >= 3
    BY <1>1 DEF ApplicationKey
  <2>2. t.wkey \in Nat
    BY <1>1
  <2>3. Generation(t.wkey) = t.wkey /\ Generation(t.wkey + 1) = t.wkey + 1
    BY ONLY <2>1, <2>2, GenerationNat
  <2> QED BY <2>3
<1>5. /\ One(t.key_update # "NONE") = 1 /\ One(u.key_update # "NONE") = 0
      /\ One(u.key_update = "REQUESTED") = 0 /\ One(t.key_update = "REQUESTED") \in {0, 1}
      /\ One(w.key_update = "REQUESTED") \in {0, 1} /\ One(w.key_update # "NONE") \in {0, 1}
  BY DEF One
<1>6. \A i \in DOMAIN x : x[i].key <= Generation(u.wkey)
  <2>1. \A i \in DOMAIN x : (i \in DOMAIN q /\ x[i] = q[i]) \/ x[i] = r
    BY <1>2
  <2>2. \A i \in DOMAIN q : q[i].key <= t.wkey /\ q[i].key \in Nat
    <3>1. \A i \in DOMAIN q : q[i] \in Rec
      BY <1>2
    <3> QED BY <1>1, <1>4, <3>1 DEF KeysOf, Rec
  <2> HIDE DEF x, q, t
  <2> QED BY <1>1, <1>4, <2>1, <2>2 DEF t
<1>7. KeysOf(u, w, wire[p], x, n)
  <2>1. t.wkey + 1 + HowMany(wire[p], Requests) + One(w.key_update = "REQUESTED") <= ApplicationKey + n
    BY <1>1, <1>4, <1>5 DEF KeysOf
  <2> HIDE DEF x, q, w, n, p
  <2>2. Generation(u.wkey) + One(u.key_update # "NONE") + HowMany(wire[p], Requests)
         + One(w.key_update = "REQUESTED") <= ApplicationKey + n
    BY <1>1, <1>4, <1>5, <2>1 DEF ApplicationKey
  <2>3. Generation(u.rkey) + HowMany(wire[p], Updates) <= Generation(w.wkey)
    BY <1>1 DEF KeysOf
  <2>4. u.sent_tickets <= NumTickets /\ "own" \in u.fin
    BY <1>1 DEF KeysOf
  <2> QED BY <1>6, <2>2, <2>3, <2>4 DEF KeysOf
<1>8. KeysOf(w, u, x, wire[p], n)
  <2>1. /\ Generation(w.wkey) + One(w.key_update # "NONE") + HowMany(q, Requests)
           + One(t.key_update = "REQUESTED") <= ApplicationKey + n
        /\ Generation(w.rkey) + HowMany(q, Updates) <= t.wkey
    BY <1>1, <1>4 DEF KeysOf
  <2> HIDE DEF x, q, w, n, p, t
  <2>2. Generation(w.wkey) + One(w.key_update # "NONE") + HowMany(x, Requests)
           + One(u.key_update = "REQUESTED") <= ApplicationKey + n
    <3>1. Generation(w.wkey) \in Nat /\ HowMany(q, Requests) \in Nat /\ n \in Nat
      BY <1>1
    <3> QED BY ONLY <1>3, <1>5, <2>1, <3>1 DEF ApplicationKey
  <2>3. Generation(w.rkey) + HowMany(x, Updates) <= Generation(u.wkey)
    BY <1>1, <1>3, <1>4, <2>1
  <2> QED BY <1>1, <2>2, <2>3 DEF KeysOf
<1> QED BY <1>1, <1>2, <1>7, <1>8, PairKept

\* A KeyUpdate is read: the side goes on to the peer's next key, and owes an answer if asked.
LEMMA KeysRead ==
  ASSUME ProtectedInv, CallsInv, KeysInv, NEW s \in Sides, NEW u, NEW r,
         tls' = [tls EXCEPT ![s] = u], wire[Peer(s)] # << >>, r = Head(wire[Peer(s)]),
         wire' = [wire EXCEPT ![Peer(s)] = Tail(@)], calls' = calls,
         r.type = "KEY_UPDATE", u.wkey = tls[s].wkey, u.rkey = tls[s].rkey + 1, u.fin = tls[s].fin,
         u.key_update = IF r.arg = "REQUESTED" THEN "NOT_REQUESTED" ELSE tls[s].key_update,
         u.sent_tickets = tls[s].sent_tickets
  PROVE  KeysInv'
<1> DEFINE t == tls[s]
           p == Peer(s)
           w == tls[p]
           n == calls[s].updates + calls[p].updates
           q == wire[p]
           x == Tail(q)
<1>1. /\ p \in Sides /\ p # s /\ Peer(p) = s /\ n \in Nat
      /\ calls[s].updates \in Nat /\ calls[p].updates \in Nat
      /\ KeysOf(t, w, q, wire[s], n) /\ KeysOf(w, t, wire[s], q, n)
      /\ t.wkey \in Nat /\ t.rkey \in Nat /\ Generation(t.wkey) \in Nat /\ Generation(t.rkey) \in Nat
      /\ Generation(w.wkey) \in Nat /\ Generation(w.rkey) \in Nat
      /\ \A X : HowMany(q, X) \in Nat /\ HowMany(wire[s], X) \in Nat
      /\ tls \in [Sides -> Conn] /\ wire \in [Sides -> Seq(Rec)]
  BY Pair
<1>2. tls'[s] = u /\ tls'[p] = w /\ wire'[p] = x /\ wire'[s] = wire[s] /\ q \in Seq(Rec) /\ q # << >>
  BY <1>1
<1>3. /\ x \in Seq(Rec) /\ r \in Rec
      /\ \A i \in DOMAIN x : i + 1 \in DOMAIN q /\ x[i] = q[i + 1]
  BY <1>2
<1>4. /\ HowMany(q, Updates) = HowMany(x, Updates) + 1 /\ HowMany(x, Updates) \in Nat
      /\ HowMany(q, Requests) = HowMany(x, Requests) + One(r.arg = "REQUESTED")
      /\ HowMany(x, Requests) \in Nat
  <2>1. r \in Updates /\ (r \in Requests <=> r.arg = "REQUESTED")
    BY <1>3 DEF Updates, Requests
  <2>2. One(r \in Updates) = 1 /\ One(r \in Requests) = One(r.arg = "REQUESTED")
    BY <2>1 DEF One
  <2>3. /\ HowMany(q, Updates) = HowMany(x, Updates) + One(r \in Updates)
        /\ HowMany(q, Requests) = HowMany(x, Requests) + One(r \in Requests)
    BY <1>2, HowManyTail
  <2>4. HowMany(x, Updates) \in Nat /\ HowMany(x, Requests) \in Nat
    BY <1>3, HowManyNat
  <2> QED BY <2>2, <2>3, <2>4
<1>5. Generation(u.rkey) \in Nat /\ Generation(u.rkey) <= Generation(t.rkey) + 1
  <2>1. t.rkey + 1 \in Nat
    BY <1>1
  <2> QED BY <1>1, <2>1, GenerationNat
<1>6. /\ One(r.arg = "REQUESTED") \in {0, 1} /\ One(t.key_update # "NONE") \in {0, 1}
      /\ One(u.key_update # "NONE") \in {0, 1}
      /\ One(u.key_update # "NONE") <= One(t.key_update # "NONE") + One(r.arg = "REQUESTED")
      /\ One(t.key_update = "REQUESTED") \in {0, 1} /\ One(u.key_update = "REQUESTED") \in {0, 1}
      /\ One(u.key_update = "REQUESTED") <= One(t.key_update = "REQUESTED")
      /\ One(w.key_update = "REQUESTED") \in {0, 1} /\ One(w.key_update # "NONE") \in {0, 1}
  BY DEF One
<1>7. KeysOf(u, w, x, wire[s], n)
  <2>1. /\ Generation(t.wkey) + One(t.key_update # "NONE") + HowMany(q, Requests)
           + One(w.key_update = "REQUESTED") <= ApplicationKey + n
        /\ Generation(t.rkey) + HowMany(q, Updates) <= Generation(w.wkey)
    BY <1>1 DEF KeysOf
  <2> HIDE DEF x, q, w, n, p
  <2>2. Generation(u.wkey) + One(u.key_update # "NONE") + HowMany(x, Requests)
         + One(w.key_update = "REQUESTED") <= ApplicationKey + n
    <3>1. Generation(u.wkey) = Generation(t.wkey) /\ Generation(t.wkey) \in Nat /\ n \in Nat
      BY <1>1
    <3> QED BY ONLY <1>4, <1>6, <2>1, <3>1 DEF ApplicationKey
  <2>3. Generation(u.rkey) + HowMany(x, Updates) <= Generation(w.wkey)
    <3>1. Generation(t.rkey) \in Nat /\ Generation(w.wkey) \in Nat
      BY <1>1
    <3> QED BY ONLY <1>4, <1>5, <2>1, <3>1
  <2> QED BY <1>1, <2>2, <2>3 DEF KeysOf
<1>8. KeysOf(w, u, wire[s], x, n)
  <2>1. /\ Generation(w.wkey) + One(w.key_update # "NONE") + HowMany(wire[s], Requests)
           + One(t.key_update = "REQUESTED") <= ApplicationKey + n
        /\ Generation(w.rkey) + HowMany(wire[s], Updates) <= Generation(t.wkey)
        /\ \A i \in DOMAIN q : q[i].key <= Generation(w.wkey)
    BY <1>1 DEF KeysOf
  <2>2. \A i \in DOMAIN x : x[i].key <= Generation(w.wkey)
    BY <1>3, <2>1
  <2> HIDE DEF x, q, w, n, p
  <2>3. Generation(w.wkey) + One(w.key_update # "NONE") + HowMany(wire[s], Requests)
           + One(u.key_update = "REQUESTED") <= ApplicationKey + n
    BY <1>1, <1>6, <2>1 DEF ApplicationKey
  <2> QED BY <1>1, <2>1, <2>2, <2>3 DEF KeysOf
<1> QED BY <1>1, <1>2, <1>7, <1>8, PairKept

\* tls_key_update is called: one more KeyUpdate is owed, and perhaps asked for.
LEMMA KeysAsked ==
  ASSUME ProtectedInv, CallsInv, KeysInv, NEW s \in Sides, NEW u,
         tls' = [tls EXCEPT ![s] = u], wire' = wire,
         calls' = [calls EXCEPT ![s].updates = @ + 1],
         u.wkey = tls[s].wkey, u.rkey = tls[s].rkey, u.fin = tls[s].fin,
         u.sent_tickets = tls[s].sent_tickets
  PROVE  KeysInv'
<1> DEFINE t == tls[s]
           p == Peer(s)
           w == tls[p]
           n == calls[s].updates + calls[p].updates
<1>1. /\ p \in Sides /\ p # s /\ Peer(p) = s /\ n \in Nat
      /\ calls[s].updates \in Nat /\ calls[p].updates \in Nat
      /\ KeysOf(t, w, wire[p], wire[s], n) /\ KeysOf(w, t, wire[s], wire[p], n)
      /\ Generation(t.wkey) \in Nat /\ Generation(w.wkey) \in Nat
      /\ \A X : HowMany(wire[p], X) \in Nat /\ HowMany(wire[s], X) \in Nat
      /\ tls \in [Sides -> Conn]
  BY Pair
<1>2. /\ tls'[s] = u /\ tls'[p] = w
      /\ calls'[s].updates = calls[s].updates + 1 /\ calls'[p].updates = calls[p].updates
  BY <1>1 DEF CallsInv
<1>3. /\ calls'[s].updates \in Nat /\ calls'[p].updates \in Nat
      /\ n + 1 = calls'[s].updates + calls'[p].updates
  BY <1>1, <1>2
<1>4. /\ One(t.key_update # "NONE") \in {0, 1} /\ One(u.key_update # "NONE") \in {0, 1}
      /\ One(t.key_update = "REQUESTED") \in {0, 1} /\ One(u.key_update = "REQUESTED") \in {0, 1}
      /\ One(w.key_update = "REQUESTED") \in {0, 1} /\ One(w.key_update # "NONE") \in {0, 1}
  BY DEF One
<1>5. KeysOf(u, w, wire[p], wire[s], n + 1)
  <2>1. Generation(t.wkey) + One(t.key_update # "NONE") + HowMany(wire[p], Requests)
           + One(w.key_update = "REQUESTED") <= ApplicationKey + n
    BY <1>1 DEF KeysOf
  <2> HIDE DEF w, n, p
  <2>2. Generation(u.wkey) + One(u.key_update # "NONE") + HowMany(wire[p], Requests)
          + One(w.key_update = "REQUESTED") <= ApplicationKey + (n + 1)
    BY <1>1, <1>4, <2>1 DEF ApplicationKey
  <2> QED BY <1>1, <2>2 DEF KeysOf
<1>6. KeysOf(w, u, wire[s], wire[p], n + 1)
  <2>1. Generation(w.wkey) + One(w.key_update # "NONE") + HowMany(wire[s], Requests)
           + One(t.key_update = "REQUESTED") <= ApplicationKey + n
    BY <1>1 DEF KeysOf
  <2> HIDE DEF w, n, p
  <2>2. Generation(w.wkey) + One(w.key_update # "NONE") + HowMany(wire[s], Requests)
          + One(u.key_update = "REQUESTED") <= ApplicationKey + (n + 1)
    BY <1>1, <1>4, <2>1 DEF ApplicationKey
  <2> QED BY <1>1, <2>2 DEF KeysOf
<1> HIDE DEF t, w, n
<1> QED BY <1>2, <1>3, <1>5, <1>6, PairKept

\* A step is of that kind if the keys stay, or are keys of the handshake.
LEMMA StillKept ==
  ASSUME NEW c, NEW u, c.wkey \in Nat, u.wkey \in Nat, c.rkey \in Nat, u.rkey \in Nat,
         "own" \in c.fin => "own" \in u.fin /\ u.wkey = c.wkey,
         "own" \notin c.fin => c.wkey <= ApplicationKey /\ u.wkey <= ApplicationKey,
         u.rkey = c.rkey \/ u.rkey <= ApplicationKey,
         u.key_update = c.key_update, u.sent_tickets <= NumTickets,
         u.early_data_state = "WRITING" => c.early_data_state = "WRITING"
  PROVE  Still(c, u)
BY DEF Still, KeysStay, Generation, ApplicationKey

\* What the client sends besides KeyUpdates.
LEMMA ClientTurn ==
  ASSUME NEW c, ClientOK(conf, c), "own" \notin c.fin => c.wkey <= ApplicationKey,
         c.sent_tickets <= NumTickets, NEW h \in ClientWrites, h # "CW_KEY_UPDATE",
         ClientMove(conf, c, h), c.flow = "writing", NEW t, t = [c EXCEPT !.hand_state = h]
  PROVE  /\ Still(c, ClientSent(t))
         /\ KeyOfMessage(Client, t) <= Generation(c.wkey) /\ MessageOf(t)[1] # "KEY_UPDATE"
<1> DEFINE u == ClientSent(t)
           k == KeyOfMessage(Client, t)
           Kept(x) == x.rkey = c.rkey /\ x.key_update = c.key_update /\ x.sent_tickets = c.sent_tickets
<1>1. c \in Conn /\ u \in Conn
  BY ClientSends DEF ClientOK
<1>2. /\ t \in Conn /\ t.hand_state = h
      /\ t.tls13 = c.tls13 /\ t.wkey = c.wkey /\ t.fin = c.fin /\ t.cert = c.cert
      /\ t.hello_retry_request = c.hello_retry_request /\ Kept(t)
      /\ t.pha = c.pha /\ t.early_data_state = c.early_data_state
  <2>1. h \in ClientStates
    BY DEF ClientWrites, ClientStates
  <2>2. t \in Conn
    BY <1>1, <2>1, FieldSet
  <2> QED BY <1>1, <2>2 DEF Conn
<1>3. /\ c.wkey \in Nat /\ u.wkey \in Nat /\ c.rkey \in Nat /\ u.rkey \in Nat
      /\ c.fin \subseteq {"own", "peer"} /\ c.tls13 \in BOOLEAN
  BY <1>1 DEF Conn
<1>4. k = IF (h = "CW_CERT" /\ FirstHandshake(c)) \/ (h = "CW_FINISHED" /\ c.cert = "none")
          THEN HandshakeKey ELSE c.wkey
  BY <1>2 DEF KeyOfMessage, FirstHandshake
<1> HIDE DEF k
<1>5. k <= Generation(c.wkey) /\ k \in Nat
  BY <1>3, <1>4 DEF Generation, ApplicationKey, HandshakeKey
<1>6. MessageOf(t)[1] # "KEY_UPDATE"
  BY <1>2 DEF MessageOf, ClientWrites
<1>7. CASE h \in {"CW_CLNT_HELLO", "CW_CHANGE", "CW_END_OF_EARLY_DATA"}
  <2>1. "own" \notin c.fin
    BY <1>3, <1>7 DEF ClientOK, ClientLate, ClientMove, ClientStart, ClientEarly
  <2>3. /\ Kept(u) /\ u.wkey \in {c.wkey, EarlyKey, Plain} /\ u.fin = c.fin
        /\ u.early_data_state \in {c.early_data_state, "FINISHED_WRITING"}
    <3>1. CASE h = "CW_CLNT_HELLO"
      <4> DEFINE w == IF c.early_data_state = "CONNECTING" /\ ~ conf.compat[Client]
                      THEN EarlyKey ELSE c.wkey
                 d == IF c.early_data_state = "CONNECTING" THEN "REJECTED" ELSE t.early_data
                 p == IF conf.pha THEN "EXT_SENT" ELSE c.pha
      <4>1. u = [t EXCEPT !.wkey = w, !.early_data = d, !.pha = p]
        BY <1>2, <3>1 DEF ClientSent
      <4>2. w \in {c.wkey, EarlyKey, Plain}
        OBVIOUS
      <4> HIDE DEF w, d, p, u
      <4> QED BY <1>2, <4>1, <4>2 DEF Conn
    <3>2. CASE h = "CW_CHANGE"
      <4> DEFINE w == IF ~ c.tls13 /\ c.hello_retry_request # "PENDING"
                         /\ c.early_data_state = "CONNECTING"
                      THEN EarlyKey ELSE c.wkey
      <4>1. u = [t EXCEPT !.wkey = w]
        BY <1>2, <3>2 DEF ClientSent
      <4>2. w \in {c.wkey, EarlyKey, Plain}
        OBVIOUS
      <4> HIDE DEF w, u
      <4> QED BY <1>2, <4>1, <4>2 DEF Conn
    <3>3. CASE h = "CW_END_OF_EARLY_DATA"
      <4>1. u = [t EXCEPT !.wkey = Plain, !.early_data_state = "FINISHED_WRITING"]
        BY <1>2, <3>3 DEF ClientSent
      <4> HIDE DEF u
      <4> QED BY <1>2, <4>1 DEF Conn
    <3> QED BY <1>7, <3>1, <3>2, <3>3
  <2> HIDE DEF u
  <2> QED BY <1>3, <1>5, <1>6, <2>1, <2>3, StillKept DEF u, k, EarlyKey, Plain, ApplicationKey
<1>8. CASE h \in {"CW_CERT", "CW_CERT_VRFY"}
  <2>1. u = [t EXCEPT !.wkey = k]
    BY <1>2, <1>8 DEF ClientSent, k
  <2> HIDE DEF u
  <2>2. Kept(u) /\ u.wkey = k /\ u.fin = c.fin /\ u.early_data_state = c.early_data_state
    BY <1>2, <2>1 DEF Conn
  <2>3. "own" \in c.fin => k = c.wkey
    BY <1>3, <1>4, <1>8 DEF ClientOK, ClientLate, ClientMove, FirstHandshake
  <2>4. "own" \notin c.fin => k <= ApplicationKey
    BY <1>3, <1>4 DEF ApplicationKey, HandshakeKey
  <2> QED BY <1>3, <1>5, <1>6, <2>2, <2>3, <2>4, StillKept DEF u, k
<1>9. CASE h = "CW_FINISHED"
  <2> DEFINE w == IF c.pha = "REQUESTED" THEN k ELSE ApplicationKey
             g == c.fin \cup {"own"}
  <2>1. u = [t EXCEPT !.wkey = w, !.fin = g]
    BY <1>2, <1>9 DEF ClientSent, k
  <2>2. "own" \in g
    OBVIOUS
  <2>3. "own" \in c.fin => w = c.wkey
    BY <1>3, <1>4, <1>9 DEF ClientOK, ClientLate, ClientMove, ClientStart
  <2>4. "own" \notin c.fin => w <= ApplicationKey
    BY <1>3, <1>4 DEF ApplicationKey, HandshakeKey
  <2> HIDE DEF u, w, g
  <2>5. Kept(u) /\ u.wkey = w /\ u.fin = g /\ u.early_data_state = c.early_data_state
    BY <1>2, <2>1 DEF Conn
  <2> QED BY <1>3, <1>5, <1>6, <2>2, <2>3, <2>4, <2>5, StillKept DEF u, k
<1> QED BY <1>7, <1>8, <1>9 DEF ClientWrites

\* The same for the server.
LEMMA ServerTurn ==
  ASSUME NEW v, ServerOK(conf, v), "own" \notin v.fin => v.wkey <= ApplicationKey,
         v.sent_tickets <= NumTickets, NEW h \in ServerWrites, h # "SW_KEY_UPDATE",
         ServerMove(conf, v, h), NEW t,
         t = [v EXCEPT !.hand_state = h, !.pha = PhaAfterTransition(v)]
  PROVE  /\ Still(v, ServerSent(t))
         /\ KeyOfMessage(Server, t) <= Generation(v.wkey) /\ MessageOf(t)[1] # "KEY_UPDATE"
<1> DEFINE u == ServerSent(t)
<1>1. v \in Conn /\ u \in Conn /\ Moved(v, h, t)
  BY ServerSends, ServerMoved DEF ServerOK
<1>2. /\ t \in Conn /\ t.hand_state = h /\ t.wkey = v.wkey /\ t.fin = v.fin /\ t.rkey = v.rkey
      /\ t.key_update = v.key_update /\ t.sent_tickets = v.sent_tickets
      /\ t.hello_retry_request = v.hello_retry_request
  BY <1>1 DEF Moved
<1>a. t.early_data_state = v.early_data_state
  BY <1>1 DEF Conn
<1>3. /\ v.wkey \in Nat /\ u.wkey \in Nat /\ v.rkey \in Nat /\ u.rkey \in Nat
      /\ v.fin \subseteq {"own", "peer"} /\ v.sent_tickets \in Nat /\ NumTickets \in Nat
  BY <1>1, Tls13Assumption DEF Conn
<1>4. KeyOfMessage(Server, t) <= Generation(v.wkey)
  BY <1>2, <1>3, TwoSides DEF KeyOfMessage, Generation, ApplicationKey
<1>5. MessageOf(t)[1] # "KEY_UPDATE"
  BY <1>2 DEF MessageOf, ServerWrites
<1>6. CASE h \in {"SW_SRVR_HELLO", "SW_CHANGE"}
  <2>1. "own" \notin v.fin
    BY <1>3, <1>6 DEF ServerOK, ServerKeys, ServerMove
  <2>2. /\ u.wkey \in {v.wkey, HandshakeKey} /\ u.rkey \in {v.rkey, HandshakeKey} /\ u.fin = v.fin
        /\ u.key_update = v.key_update /\ u.sent_tickets = v.sent_tickets
        /\ u.early_data_state = v.early_data_state
    <3> DEFINE k == IF t.early_data = "ACCEPTED" THEN v.rkey ELSE HandshakeKey
    <3>1. \/ u = t \/ u = [t EXCEPT !.hit = FALSE]
          \/ u = [t EXCEPT !.wkey = HandshakeKey, !.rkey = k]
      BY <1>2, <1>6 DEF ServerSent, HandshakeKeysInstalled
    <3>2. k \in {v.rkey, HandshakeKey}
      OBVIOUS
    <3> HIDE DEF u, k
    <3>3. CASE u = t
      BY <1>2, <1>a, <3>3
    <3>4. CASE u = [t EXCEPT !.hit = FALSE]
      BY <1>2, <1>a, <3>4 DEF Conn
    <3>5. CASE u = [t EXCEPT !.wkey = HandshakeKey, !.rkey = k]
      BY <1>2, <1>a, <3>2, <3>5 DEF Conn
    <3> QED BY <3>1, <3>3, <3>4, <3>5
  <2> HIDE DEF u
  <2> QED BY <1>3, <1>4, <1>5, <2>1, <2>2, StillKept DEF u, HandshakeKey, ApplicationKey
<1>7. CASE h \in {"SW_ENCRYPTED_EXTENSIONS", "SW_CERT_REQ", "SW_CERT", "SW_CERT_VRFY"}
  <2>1. u = t \/ u = [t EXCEPT !.cert_request = TRUE]
    BY <1>2, <1>7 DEF ServerSent
  <2> HIDE DEF u
  <2>2. /\ u.wkey = v.wkey /\ u.rkey = v.rkey /\ u.fin = v.fin
        /\ u.key_update = v.key_update /\ u.sent_tickets = v.sent_tickets
        /\ u.early_data_state = v.early_data_state
    BY ONLY <1>2, <1>a, <2>1 DEF Conn
  <2> QED BY <1>3, <1>4, <1>5, <2>2, StillKept DEF u
<1>8. CASE h = "SW_FINISHED"
  <2> DEFINE g == v.fin \cup {"own"}
  <2>1. u = [t EXCEPT !.wkey = ApplicationKey, !.fin = g]
    BY <1>2, <1>8 DEF ServerSent
  <2>2. "own" \notin v.fin /\ "own" \in g
    BY <1>3, <1>8 DEF ServerOK, ServerKeys, ServerMove
  <2> HIDE DEF u, g
  <2>3. /\ u.wkey = ApplicationKey /\ u.rkey = v.rkey /\ u.fin = g
        /\ u.key_update = v.key_update /\ u.sent_tickets = v.sent_tickets
        /\ u.early_data_state = v.early_data_state
    BY <1>2, <1>a, <2>1 DEF Conn
  <2> QED BY <1>3, <1>4, <1>5, <2>2, <2>3, StillKept DEF u, ApplicationKey
<1>9. CASE h = "SW_SESSION_TICKET"
  <2> DEFINE n == v.sent_tickets + 1
             x == IF v.sent_tickets = 0 THEN FALSE ELSE t.ticket_expected
  <2>1. u = [t EXCEPT !.sent_tickets = n, !.ticket_expected = x]
    BY <1>2, <1>9 DEF ServerSent
  <2>2. n <= NumTickets
    BY <1>3, <1>9 DEF ServerMove
  <2> HIDE DEF u, n, x
  <2>3. /\ u.wkey = v.wkey /\ u.rkey = v.rkey /\ u.fin = v.fin
        /\ u.key_update = v.key_update /\ u.sent_tickets = n
        /\ u.early_data_state = v.early_data_state
    BY <1>2, <1>a, <2>1 DEF Conn
  <2> QED BY <1>3, <1>4, <1>5, <2>2, <2>3, StillKept DEF u
<1> QED BY <1>6, <1>7, <1>8, <1>9 DEF ServerWrites

\* A KeyUpdate read, by either side.
UpdateRead(t, u, r) ==
  /\ u.wkey = t.wkey /\ u.rkey = t.rkey + 1 /\ u.fin = t.fin /\ u.sent_tickets = t.sent_tickets
  /\ u.key_update = IF r.arg = "REQUESTED" THEN "NOT_REQUESTED" ELSE t.key_update
  /\ u.early_data_state = t.early_data_state

\* What the client reads.
LEMMA ClientTaken ==
  ASSUME NEW f, NEW c, ClientOK(f, c), "own" \notin c.fin => c.wkey <= ApplicationKey,
         c.sent_tickets <= NumTickets, c.flow = "reading", NEW r, RecordOK(f, Server, r),
         NEW h, h = ClientReadTransition(c, r.type), h # Wrong,
         NEW t, t = [c EXCEPT !.hand_state = h,
                              !.pha = IF r.type = "CERTIFICATE_REQUEST" /\ c.hand_state = "OK"
                                      THEN "REQUESTED" ELSE @],
         NEW u \in ClientProcess(t, r)
  PROVE  IF r.type = "KEY_UPDATE" THEN UpdateRead(c, u, r) ELSE Still(c, u)
<1>1. c \in Conn /\ u \in Conn
  BY ClientReads DEF ClientOK
<1> DEFINE Kept(x) == /\ x.key_update = c.key_update /\ x.sent_tickets = c.sent_tickets
                      /\ x.early_data_state = c.early_data_state
           p == IF r.type = "CERTIFICATE_REQUEST" /\ c.hand_state = "OK"
                THEN "REQUESTED" ELSE c.pha
           a == [c EXCEPT !.hand_state = h]
<1>2. h \in ClientStates /\ p \in PhaStates
  <2>1. c.pha \in PhaStates
    BY <1>1 DEF Conn
  <2> QED BY <2>1 DEF ClientReadTransition, ClientStates, PhaStates
<1>3. t = [a EXCEPT !.pha = p]
  OBVIOUS
<1>4. a \in Conn
  BY <1>1, <1>2, FieldSet
<1>5. Kept(t) /\ t.wkey = c.wkey /\ t.rkey = c.rkey /\ t.fin = c.fin
  BY <1>1 DEF Conn
<1> HIDE DEF a, p
<1>6. t \in Conn
  BY ONLY <1>2, <1>3, <1>4, FieldSet
<1>7. /\ c.wkey \in Nat /\ u.wkey \in Nat /\ c.rkey \in Nat /\ u.rkey \in Nat
      /\ c.fin \subseteq {"own", "peer"}
  BY <1>1 DEF Conn
<1>8. CASE r.type = "SERVER_HELLO"
  <2>1. "own" \notin c.fin
    BY <1>7, <1>8 DEF ClientOK, ClientLate, ClientReadTransition
  <2> DEFINE x == r.arg = "hit"
  <2>2. \/ u = [t EXCEPT !.hello_retry_request = "PENDING", !.wkey = Plain, !.flow = "writing"]
        \/ u = [t EXCEPT !.tls13 = TRUE, !.hit = x, !.rkey = HandshakeKey]
    BY <1>8 DEF ClientProcess
  <2> HIDE DEF x
  <2>3. /\ Kept(u) /\ u.fin = c.fin /\ u.wkey \in {c.wkey, Plain} /\ u.rkey \in {c.rkey, HandshakeKey}
    <3>1. CASE u = [t EXCEPT !.hello_retry_request = "PENDING", !.wkey = Plain, !.flow = "writing"]
      BY <1>5, <1>6, <3>1 DEF Conn
    <3>2. CASE u = [t EXCEPT !.tls13 = TRUE, !.hit = x, !.rkey = HandshakeKey]
      BY <1>5, <1>6, <3>2 DEF Conn
    <3> QED BY <2>2, <3>1, <3>2
  <2> QED BY <1>7, <1>8, <2>1, <2>3, StillKept DEF Plain, HandshakeKey, ApplicationKey
<1>9. CASE r.type = "FINISHED"
  <2> DEFINE g == c.fin \cup {"peer"}
  <2>1. u = [t EXCEPT !.rkey = ApplicationKey, !.fin = g, !.flow = "writing"]
    BY <1>5, <1>9 DEF ClientProcess
  <2>2. "own" \in c.fin <=> "own" \in g
    OBVIOUS
  <2> HIDE DEF g
  <2>3. Kept(u) /\ u.fin = g /\ u.wkey = c.wkey /\ u.rkey = ApplicationKey
    BY <1>5, <1>6, <2>1 DEF Conn
  <2> QED BY <1>7, <1>9, <2>2, <2>3, StillKept DEF ApplicationKey
<1>10. CASE r.type = "KEY_UPDATE"
  <2> DEFINE x == IF r.arg = "REQUESTED" THEN "NOT_REQUESTED" ELSE c.key_update
             k == c.rkey + 1
  <2>1. u = [t EXCEPT !.key_update = x, !.rkey = k, !.flow = "writing"]
    BY <1>5, <1>10 DEF ClientProcess, KeyUpdateRead
  <2> HIDE DEF x, k
  <2>2. /\ u.wkey = c.wkey /\ u.rkey = k /\ u.fin = c.fin /\ u.sent_tickets = c.sent_tickets
        /\ u.key_update = x /\ u.early_data_state = c.early_data_state
    BY <1>5, <1>6, <2>1 DEF Conn
  <2> QED BY <1>10, <2>2 DEF UpdateRead, x, k
<1>11. CASE r.type \notin {"SERVER_HELLO", "FINISHED", "KEY_UPDATE"}
  <2>1. \/ u = t
        \/ \E x : u = [t EXCEPT !.early_data = x]
        \/ \E x : u = [t EXCEPT !.cert = x]
        \/ \E x : u = [t EXCEPT !.flow = "writing", !.cert = x]
        \/ u = [t EXCEPT !.flow = "writing"]
    <3> DEFINE d == IF r.arg = "early" THEN "ACCEPTED" ELSE t.early_data
    <3>1. CASE r.type = "ENCRYPTED_EXTENSIONS"
      <4>1. u = [t EXCEPT !.early_data = d]
        BY <3>1 DEF ClientProcess
      <4> HIDE DEF d
      <4> QED BY <4>1
    <3>2. CASE r.type = "CERTIFICATE_REQUEST"
      <4>1. \/ u \in CertificatePrepared([t EXCEPT !.flow = "writing"])
            \/ u = [t EXCEPT !.cert = "cert"]
        BY <3>2 DEF ClientProcess
      <4>2. CASE u \in CertificatePrepared([t EXCEPT !.flow = "writing"])
        <5>1. PICK x : u = [[t EXCEPT !.flow = "writing"] EXCEPT !.cert = x]
          BY <4>2 DEF CertificatePrepared
        <5>2. u = [t EXCEPT !.flow = "writing", !.cert = x]
          BY <5>1
        <5> QED BY <5>2
      <4> QED BY <4>1, <4>2
    <3>3. CASE r.type = "CERTIFICATE_VERIFY"
      <4>1. u = t \/ u \in CertificatePrepared(t)
        BY <3>3 DEF ClientProcess
      <4> QED BY <4>1 DEF CertificatePrepared
    <3>4. CASE r.type \notin {"ENCRYPTED_EXTENSIONS", "CERTIFICATE_REQUEST", "CERTIFICATE_VERIFY"}
      BY <1>11, <3>4 DEF ClientProcess
    <3> QED BY <3>1, <3>2, <3>3, <3>4
  <2> DEFINE Quiet(z) == Kept(z) /\ z.fin = c.fin /\ z.wkey = c.wkey /\ z.rkey = c.rkey
  <2>2. Quiet(u)
    <3>3. CASE u = t
      BY <1>5, <3>3
    <3>4. CASE u = [t EXCEPT !.flow = "writing"]
      BY <1>5, <1>6, <3>4 DEF Conn
    <3>5. ASSUME NEW x, u = [t EXCEPT !.early_data = x] PROVE Quiet(u)
      BY <1>5, <1>6, <3>5 DEF Conn
    <3>6. ASSUME NEW x, u = [t EXCEPT !.cert = x] PROVE Quiet(u)
      BY <1>5, <1>6, <3>6 DEF Conn
    <3>7. ASSUME NEW x, u = [t EXCEPT !.flow = "writing", !.cert = x] PROVE Quiet(u)
      BY <1>5, <1>6, <3>7 DEF Conn
    <3> HIDE DEF Quiet
    <3> QED BY <2>1, <3>3, <3>4, <3>5, <3>6, <3>7
  <2> QED BY <1>7, <1>11, <2>2, StillKept
<1> QED BY <1>8, <1>9, <1>10, <1>11

\* What the server reads.
LEMMA ServerTaken ==
  ASSUME conf \in Configurations, NEW v, ServerOK(conf, v),
         "own" \notin v.fin => v.wkey <= ApplicationKey,
         v.sent_tickets <= NumTickets, NEW r, RecordOK(conf, Client, r),
         NEW h, h = ServerReadTransition(v, r.type), h # Wrong,
         NEW t, t = [v EXCEPT !.hand_state = h], NEW u, u = ServerProcess(t, r)
  PROVE  IF r.type = "KEY_UPDATE" THEN UpdateRead(v, u, r) ELSE Still(v, u)
<1>1. v \in Conn /\ u \in Conn
  BY ServerReads DEF ServerOK
<1> DEFINE Kept(x) == x.key_update = v.key_update /\ x.wkey = v.wkey
<1>2. h \in ServerStates
  BY DEF ServerReadTransition, ServerStates
<1>3. t \in Conn
  BY <1>1, <1>2, FieldSet
<1>4. /\ Kept(t) /\ t.rkey = v.rkey /\ t.fin = v.fin /\ t.sent_tickets = v.sent_tickets
      /\ t.early_data_state = v.early_data_state /\ t.pha = v.pha
  BY <1>1 DEF Conn
<1>5. /\ v.wkey \in Nat /\ u.wkey \in Nat /\ v.rkey \in Nat /\ u.rkey \in Nat
      /\ v.fin \subseteq {"own", "peer"} /\ NumTickets \in Nat
  BY <1>1, Tls13Assumption DEF Conn
<1>6. CASE r.type = "CLIENT_HELLO"
  <2> DEFINE q == CASE t.hello_retry_request = "NONE" ->
                         IF conf.retry THEN "PENDING" ELSE t.hello_retry_request
                    [] t.hello_retry_request = "PENDING" -> "COMPLETE"
             p == IF conf.pha THEN "EXT_RECEIVED" ELSE v.pha
             hello == [t EXCEPT !.tls13 = TRUE, !.hit = conf.psk, !.hello_retry_request = q,
                                !.pha = p, !.ticket_expected = conf.ticket, !.flow = "writing"]
  <2>1. u = FinalEarlyData(hello, r)
    BY <1>4, <1>6 DEF ServerProcess, ClientHelloProcessed
  <2>a. q \in {"NONE", "PENDING", "COMPLETE"} /\ p \in PhaStates
    <3>1. /\ v.pha \in PhaStates /\ t.hello_retry_request = v.hello_retry_request
          /\ v.hello_retry_request \in {"NONE", "PENDING", "COMPLETE"}
      BY <1>1 DEF Conn
    <3>2. v.hello_retry_request \in {"NONE", "PENDING"}
      BY <1>6, <3>1 DEF ServerReadTransition, ServerOK, ServerKeys
    <3> QED BY <3>1, <3>2 DEF PhaStates
  <2>b. conf.psk \in BOOLEAN /\ conf.ticket \in BOOLEAN
    BY Tls13Assumption DEF AllConfigurations
  <2> HIDE DEF q, p
  <2>c. hello \in Conn
    BY ONLY <1>3, <2>a, <2>b, FieldSet
  <2>2. /\ Kept(hello) /\ hello.rkey = v.rkey /\ hello.fin = v.fin
        /\ hello.sent_tickets = v.sent_tickets /\ hello.early_data_state = v.early_data_state
    BY <1>3, <1>4 DEF Conn
  <2> HIDE DEF hello
  <2>3. \/ u = hello
        \/ u = [hello EXCEPT !.early_data = "REJECTED"]
        \/ u = [hello EXCEPT !.early_data = "ACCEPTED", !.rkey = EarlyKey]
    BY <2>1 DEF FinalEarlyData
  <2>4. /\ Kept(u) /\ u.rkey \in {v.rkey, EarlyKey} /\ u.fin = v.fin
        /\ u.sent_tickets = v.sent_tickets /\ u.early_data_state = v.early_data_state
    <3>1. CASE u = hello
      BY <2>2, <3>1
    <3>2. CASE u = [hello EXCEPT !.early_data = "REJECTED"]
      BY <2>c, <2>2, <3>2 DEF Conn
    <3>3. CASE u = [hello EXCEPT !.early_data = "ACCEPTED", !.rkey = EarlyKey]
      BY <2>c, <2>2, <3>3 DEF Conn
    <3> QED BY <2>3, <3>1, <3>2, <3>3
  <2> QED BY <1>5, <1>6, <2>4, StillKept DEF EarlyKey, ApplicationKey
<1>7. CASE r.type = "END_OF_EARLY_DATA"
  <2>1. \/ u = [t EXCEPT !.flow = "error"]
        \/ u = [t EXCEPT !.early_data_state = "FINISHED_READING", !.rkey = HandshakeKey]
    BY <1>7 DEF ServerProcess
  <2>2. /\ Kept(u) /\ u.rkey \in {v.rkey, HandshakeKey} /\ u.fin = v.fin
        /\ u.sent_tickets = v.sent_tickets
        /\ u.early_data_state \in {v.early_data_state, "FINISHED_READING"}
    BY ONLY <1>3, <1>4, <2>1 DEF Conn
  <2> QED BY <1>5, <1>7, <2>2, StillKept DEF HandshakeKey, ApplicationKey
<1>8. CASE r.type = "CERTIFICATE"
  <2> DEFINE x == r.arg
  <2>1. u = [t EXCEPT !.cert = x, !.sent_tickets = 0]
    BY <1>8 DEF ServerProcess
  <2> HIDE DEF x
  <2>2. /\ Kept(u) /\ u.rkey = v.rkey /\ u.fin = v.fin /\ u.sent_tickets = 0
        /\ u.early_data_state = v.early_data_state
    BY ONLY <1>3, <1>4, <2>1 DEF Conn
  <2> QED BY <1>5, <1>8, <2>2, StillKept
<1>9. CASE r.type = "FINISHED"
  <2> DEFINE k == IF v.pha = "REQUESTED" THEN v.rkey ELSE ApplicationKey
             g == v.fin \cup {"peer"}
  <2>1. u = [t EXCEPT !.rkey = k, !.fin = g, !.flow = "writing"]
    BY <1>4, <1>9 DEF ServerProcess
  <2>2. k \in {v.rkey, ApplicationKey} /\ ("own" \in v.fin <=> "own" \in g)
    OBVIOUS
  <2> HIDE DEF k, g
  <2>3. /\ Kept(u) /\ u.rkey = k /\ u.fin = g /\ u.sent_tickets = v.sent_tickets
        /\ u.early_data_state = v.early_data_state
    BY ONLY <1>3, <1>4, <2>1 DEF Conn
  <2> QED BY <1>5, <1>9, <2>2, <2>3, StillKept DEF ApplicationKey
<1>10. CASE r.type = "KEY_UPDATE"
  <2> DEFINE x == IF r.arg = "REQUESTED" THEN "NOT_REQUESTED" ELSE v.key_update
             k == v.rkey + 1
  <2>1. u = [t EXCEPT !.key_update = x, !.rkey = k, !.flow = "writing"]
    BY <1>4, <1>10 DEF ServerProcess, KeyUpdateRead
  <2> HIDE DEF x, k
  <2>2. /\ u.wkey = v.wkey /\ u.rkey = k /\ u.fin = v.fin /\ u.sent_tickets = v.sent_tickets
        /\ u.key_update = x /\ u.early_data_state = v.early_data_state
    BY ONLY <1>3, <1>4, <2>1 DEF Conn
  <2> QED BY <1>10, <2>2 DEF UpdateRead, x, k
<1>11. CASE r.type \notin {"CLIENT_HELLO", "END_OF_EARLY_DATA", "CERTIFICATE", "FINISHED", "KEY_UPDATE"}
  <2>1. u = t
    BY <1>11 DEF ServerProcess
  <2>2. /\ Kept(u) /\ u.rkey = v.rkey /\ u.fin = v.fin /\ u.sent_tickets = v.sent_tickets
        /\ u.early_data_state = v.early_data_state
    BY <1>4, <2>1
  <2>3. Still(v, u)
    BY <1>5, <2>2, StillKept
  <2> QED BY <1>11, <2>3
<1> QED BY <1>6, <1>7, <1>8, <1>9, <1>10, <1>11

\* The calls that are counted.
Counted ==
  [early : 0 .. MaxEarly, data : 0 .. MaxData, updates : 0 .. MaxUpdates,
   requests : 0 .. MaxRequests]

\* A side whose keys are left alone.
LEMMA SameKeys ==
  ASSUME ProtectedInv, KeysInv, NEW s \in Sides, NEW u,
         u.wkey = tls[s].wkey, u.rkey = tls[s].rkey, u.fin = tls[s].fin,
         u.key_update = tls[s].key_update, u.sent_tickets = tls[s].sent_tickets
  PROVE  KeysStay(tls[s], u)
<1>1. /\ "own" \notin tls[s].fin => tls[s].wkey <= ApplicationKey
      /\ tls[s].sent_tickets <= NumTickets
  BY DEF KeysInv, KeysOf
<1>2. tls[s].rkey \in Nat
  BY SideFields
<1>3. Generation(tls[s].rkey) \in Nat
  BY <1>2, GenerationNat
<1> QED BY <1>1, <1>3 DEF KeysStay

\* One count more, or less.
LEMMA CallCounted ==
  ASSUME CallsInv, NEW s \in Sides
  PROVE  /\ \A n \in 0 .. MaxEarly : LET d == [calls EXCEPT ![s].early = n] IN
              d \in [Sides -> Counted] /\ d[s].early = n
              /\ \A p \in Sides : d[p].updates = calls[p].updates
         /\ \A n \in 0 .. MaxData : LET d == [calls EXCEPT ![s].data = n] IN
              d \in [Sides -> Counted]
              /\ \A p \in Sides : d[p].updates = calls[p].updates /\ d[p].early = calls[p].early
         /\ \A n \in 0 .. MaxUpdates : LET d == [calls EXCEPT ![s].updates = n] IN
              d \in [Sides -> Counted] /\ \A p \in Sides : d[p].early = calls[p].early
         /\ \A n \in 0 .. MaxRequests : LET d == [calls EXCEPT ![s].requests = n] IN
              d \in [Sides -> Counted]
              /\ \A p \in Sides : d[p].updates = calls[p].updates /\ d[p].early = calls[p].early
<1>1. calls \in [Sides -> Counted]
  BY DEF CallsInv, Counted
<1> QED BY <1>1 DEF Counted

\* Nothing is counted, and no call waits that did not.
LEMMA CallsSame ==
  ASSUME ProtectedInv, CallsInv, NEW s \in Sides, NEW u, tls' = [tls EXCEPT ![s] = u],
         u.early_data_state = "WRITING" => tls[s].early_data_state = "WRITING",
         \A p \in Sides : calls'[p].early = calls[p].early,
         calls' \in [Sides -> Counted], got' \in [Sides -> [early : Nat, data : Nat]]
  PROVE  CallsInv'
<1>1. tls \in [Sides -> Conn] /\ Client \in Sides
  BY TwoSides DEF ProtectedInv
<1>2. tls'[Client].early_data_state = "WRITING" => tls[Client].early_data_state = "WRITING"
  BY <1>1
<1>3. tls'[Client].early_data_state = "WRITING" => calls'[Client].early > 0
  BY <1>1, <1>2 DEF CallsInv
<1> QED BY <1>3 DEF CallsInv, Counted

\* A step without KeyUpdates.
LEMMA StillStep ==
  ASSUME ProtectedInv, ProtectedInv', CallsInv, KeysInv, NEW s \in Sides, NEW u,
         tls' = [tls EXCEPT ![s] = u], Still(tls[s], u), Plainly(s), calls' = calls,
         got' \in [Sides -> [early : Nat, data : Nat]]
  PROVE  KeysInv' /\ CallsInv'
<1>1. KeysInv'
  BY KeysStill DEF Still
<1>2. calls \in [Sides -> Counted]
  BY DEF CallsInv, Counted
<1>3. CallsInv'
  BY <1>2, CallsSame DEF Still
<1> QED BY <1>1, <1>3

\* The data that was given to the applications stays.
LEMMA GotSame ==
  ASSUME CallsInv, got' = got
  PROVE  got' \in [Sides -> [early : Nat, data : Nat]]
BY DEF CallsInv

\* Other fields than the keys are set.
LEMMA CalledStep ==
  ASSUME ProtectedInv, ProtectedInv', CallsInv, KeysInv, NEW s \in Sides, NEW u,
         tls' = [tls EXCEPT ![s] = u],
         u.wkey = tls[s].wkey, u.rkey = tls[s].rkey, u.fin = tls[s].fin,
         u.key_update = tls[s].key_update, u.sent_tickets = tls[s].sent_tickets,
         u.early_data_state = "WRITING" => tls[s].early_data_state = "WRITING",
         wire' = wire, calls' = calls, got' = got
  PROVE  KeysInv' /\ CallsInv'
<1>1. Still(tls[s], u) /\ Plainly(s)
  BY SameKeys DEF Still, Plainly
<1> QED BY <1>1, StillStep, GotSame

\* The wire alone.
LEMMA WireStill ==
  ASSUME ProtectedInv, ProtectedInv', CallsInv, KeysInv, NEW s \in Sides, Plainly(s), tls' = tls,
         \A p \in Sides : calls'[p].updates = calls[p].updates
  PROVE  KeysInv'
<1> DEFINE u == tls[s]
<1>1. KeysStay(tls[s], u)
  BY SameKeys
<1>2. tls' = [tls EXCEPT ![s] = u]
  BY DEF ProtectedInv
<1> HIDE DEF u
<1> QED BY <1>1, <1>2, KeysStill

\* A record of data.
LEMMA DataPlainly ==
  ASSUME ProtectedInv, NEW s \in Sides, NEW a \in {"early", "app"}, Send(s, "DATA", tls[s].wkey, a)
  PROVE  Plainly(s)
<1> DEFINE r == [type |-> "DATA", key |-> tls[s].wkey, arg |-> a]
<1>1. tls[s].wkey \in Nat
  BY SideFields
<1>2. r \in Rec /\ r.type # "KEY_UPDATE" /\ r.key = tls[s].wkey
  BY <1>1 DEF Rec
<1>3. r.key <= Generation(tls[s].wkey)
  BY <1>1, <1>2, GenerationNat
<1>4. wire' = [wire EXCEPT ![s] = Append(@, r)]
  BY DEF Send
<1> HIDE DEF r
<1> QED BY <1>2, <1>3, <1>4 DEF Plainly

\* A message is sent that is no KeyUpdate.
LEMMA KeysWritten ==
  ASSUME ProtectedInv, ProtectedInv', CallsInv, KeysInv, NEW s \in Sides, NEW u, NEW r \in Rec,
         tls' = [tls EXCEPT ![s] = u], wire' = [wire EXCEPT ![s] = Append(@, r)],
         Still(tls[s], u), r.type # "KEY_UPDATE", r.key <= Generation(tls[s].wkey),
         calls' = calls, got' = got
  PROVE  KeysInv' /\ CallsInv'
<1>1. Plainly(s)
  BY DEF Plainly
<1> QED BY <1>1, StillStep, GotSame

\* A KeyUpdate is sent.
LEMMA UpdateSent ==
  ASSUME ProtectedInv, CallsInv, KeysInv, NEW s \in Sides, NEW t \in Conn, NEW u, NEW r \in Rec,
         t.wkey = tls[s].wkey, t.rkey = tls[s].rkey, t.fin = tls[s].fin,
         t.sent_tickets = tls[s].sent_tickets, t.early_data_state = tls[s].early_data_state,
         u = [t EXCEPT !.key_update = "NONE", !.wkey = tls[s].wkey + 1],
         tls' = [tls EXCEPT ![s] = u], wire' = [wire EXCEPT ![s] = Append(@, r)],
         r.type = "KEY_UPDATE", r.arg = tls[s].key_update, r.key = tls[s].wkey,
         tls[s].key_update # "NONE", "own" \in tls[s].fin, calls' = calls, got' = got
  PROVE  KeysInv' /\ CallsInv'
<1> DEFINE n == tls[s].wkey + 1
<1>1. tls[s].wkey >= ApplicationKey
  BY TwoSides DEF ProtectedInv, ClientOK, ClientLate, ServerOK, ServerKeys
<1>2. u = [t EXCEPT !.key_update = "NONE", !.wkey = n]
  OBVIOUS
<1> HIDE DEF n
<1>3. /\ u.key_update = "NONE" /\ u.wkey = n /\ u.rkey = tls[s].rkey
      /\ u.fin = tls[s].fin /\ u.sent_tickets = tls[s].sent_tickets
      /\ u.early_data_state = tls[s].early_data_state
  BY <1>2 DEF Conn
<1>4. KeysInv'
  BY <1>1, <1>3, KeysSent DEF n
<1>5. calls \in [Sides -> Counted]
  BY DEF CallsInv, Counted
<1>6. CallsInv'
  BY <1>3, <1>5, CallsSame, GotSame
<1> QED BY <1>4, <1>6

\* The call ends, or goes on to the next state.
LEMMA PassedOn ==
  ASSUME ProtectedInv, ProtectedInv', CallsInv, KeysInv, NEW s \in Sides, NEW t \in Conn,
         t.wkey = tls[s].wkey, t.rkey = tls[s].rkey, t.fin = tls[s].fin,
         t.key_update = tls[s].key_update,
         t.sent_tickets = tls[s].sent_tickets, t.early_data_state = tls[s].early_data_state,
         NEW u \in {t, Finished(s, t)}, tls' = [tls EXCEPT ![s] = u],
         wire' = wire, calls' = calls, got' = got
  PROVE  KeysInv' /\ CallsInv'
<1> DEFINE z == Finished(s, t)
<1>1. /\ z.wkey = t.wkey /\ z.fin = t.fin /\ z.early_data_state = EarlyDataGoesOn(t)
      /\ z.rkey = t.rkey /\ z.key_update = t.key_update /\ z.sent_tickets = t.sent_tickets
  BY FinishedFields
<1> HIDE DEF z
<1>2. /\ u.wkey = tls[s].wkey /\ u.rkey = tls[s].rkey /\ u.fin = tls[s].fin
      /\ u.key_update = tls[s].key_update /\ u.sent_tickets = tls[s].sent_tickets
      /\ u.early_data_state \in {t.early_data_state, EarlyDataGoesOn(t)}
  BY <1>1 DEF z
<1>3. u.early_data_state = "WRITING" => tls[s].early_data_state = "WRITING"
  BY <1>2 DEF EarlyDataGoesOn
<1>4. Still(tls[s], u) /\ Plainly(s)
  BY <1>2, <1>3, SameKeys DEF Still, Plainly
<1> QED BY <1>4, StillStep, GotSame

\* write_state_machine of the client, ...
LEMMA ClientWriteKeys ==
  ASSUME ProtectedInv, ProtectedInv', CallsInv, KeysInv, WriteMessage(Client)
  PROVE  KeysInv' /\ CallsInv'
<1> DEFINE c == tls[Client]
           h == WriteTransition(Client)
           t == [c EXCEPT !.hand_state = h]
<1>1. /\ ClientOK(conf, c) /\ c \in Conn /\ c.flow = "writing" /\ h \notin {ToRead, Wrong}
      /\ calls' = calls /\ got' = got
  BY DEF WriteMessage, ProtectedInv, ClientOK
<1>2. ClientMove(conf, c, h)
  BY <1>1, ClientMoves
<1>3. PhaAfterTransition(c) = c.pha
  BY <1>1 DEF PhaAfterTransition, ClientOK, ClientStates
<1>4. [c EXCEPT !.hand_state = h, !.pha = PhaAfterTransition(c)] = t
  BY <1>1, <1>3 DEF Conn
<1>5. \/ tls' = [tls EXCEPT ![Client] = Finished(Client, t)] /\ wire' = wire
      \/ tls' = [tls EXCEPT ![Client] = t] /\ wire' = wire
      \/ /\ ~ Stops(Client, h) /\ h \notin Dummies
         /\ Send(Client, MessageOf(t)[1], KeyOfMessage(Client, t), MessageOf(t)[2])
         /\ tls' = [tls EXCEPT ![Client] = ClientSent(t)]
  BY <1>4 DEF WriteMessage
<1>6. h \in ClientStates
  BY <1>2 DEF ClientMove, ClientStates
<1>7. t \in Conn
  BY <1>1, <1>6, FieldSet
<1>8. /\ t.hand_state = h /\ t.wkey = c.wkey /\ t.rkey = c.rkey /\ t.fin = c.fin
      /\ t.key_update = c.key_update /\ t.cert = c.cert
      /\ t.sent_tickets = c.sent_tickets /\ t.early_data_state = c.early_data_state
  BY <1>1 DEF Conn
<1>9. ("own" \notin c.fin => c.wkey <= ApplicationKey) /\ c.sent_tickets <= NumTickets
  BY TwoSides DEF KeysInv, KeysOf
<1>10. Stops(Client, h) <=> \/ h \in {"OK", "EARLY_DATA"}
                            \/ h = "PENDING_EARLY_DATA_END"
                               /\ c.early_data_state \notin {"FINISHED_WRITING", "NONE"}
  BY DEF Stops, Client
<1> HIDE DEF c, h, t
<1>11. CASE wire' = wire /\ (\/ tls' = [tls EXCEPT ![Client] = Finished(Client, t)]
                             \/ tls' = [tls EXCEPT ![Client] = t])
  <2>1. PICK u \in {t, Finished(Client, t)} : tls' = [tls EXCEPT ![Client] = u]
    BY <1>11
  <2> QED BY <1>1, <1>7, <1>8, <1>11, <2>1, PassedOn, TwoSides DEF c
<1>12. CASE /\ ~ Stops(Client, h) /\ h \notin Dummies
            /\ Send(Client, MessageOf(t)[1], KeyOfMessage(Client, t), MessageOf(t)[2])
            /\ tls' = [tls EXCEPT ![Client] = ClientSent(t)]
  <2>1. h \in ClientWrites
    BY <1>2, <1>10, <1>12 DEF Dummies, ClientMove, ClientWrites
  <2> DEFINE r == [type |-> MessageOf(t)[1], key |-> KeyOfMessage(Client, t),
                   arg |-> MessageOf(t)[2]]
             u == ClientSent(t)
  <2>2. RecordOK(conf, Client, r)
    BY <1>1, <1>2, <2>1, ClientRecord DEF t
  <2>3. /\ wire' = [wire EXCEPT ![Client] = Append(@, r)] /\ tls' = [tls EXCEPT ![Client] = u]
        /\ r.type = MessageOf(t)[1] /\ r.key = KeyOfMessage(Client, t) /\ r.arg = MessageOf(t)[2]
    BY <1>12 DEF Send
  <2>4. r \in Rec
    BY <2>2 DEF RecordOK
  <2> HIDE DEF r, u
  <2>5. CASE h = "CW_KEY_UPDATE"
    <3>1. c.key_update # "NONE" /\ "own" \in c.fin
      BY <1>1, <1>2, <2>5 DEF ClientMove, ClientOK, ClientLate
    <3>2. r.type = "KEY_UPDATE" /\ r.arg = c.key_update /\ r.key = c.wkey
      BY <1>8, <2>3, <2>5 DEF MessageOf, KeyOfMessage
    <3>3. u = [t EXCEPT !.key_update = "NONE", !.wkey = c.wkey + 1]
      BY <1>8, <2>5 DEF ClientSent, u
    <3> QED BY <1>1, <1>7, <1>8, <2>3, <2>4, <3>1, <3>2, <3>3, UpdateSent, TwoSides DEF c
  <2>6. CASE h # "CW_KEY_UPDATE"
    <3>1. Still(c, u) /\ r.key <= Generation(c.wkey) /\ r.type # "KEY_UPDATE"
      BY <1>1, <1>2, <1>9, <2>1, <2>3, <2>6, ClientTurn DEF t, u
    <3> QED BY <1>1, <2>3, <2>4, <3>1, KeysWritten, TwoSides DEF c
  <2> QED BY <2>5, <2>6
<1> QED BY <1>5, <1>11, <1>12

\* ... and of the server.
LEMMA ServerWriteKeys ==
  ASSUME ProtectedInv, ProtectedInv', CallsInv, KeysInv, WriteMessage(Server)
  PROVE  KeysInv' /\ CallsInv'
<1> DEFINE v == tls[Server]
           h == WriteTransition(Server)
           t == [v EXCEPT !.hand_state = h, !.pha = PhaAfterTransition(v)]
<1>1. ServerOK(conf, v) /\ v \in Conn /\ h \notin {ToRead, Wrong} /\ calls' = calls /\ got' = got
  BY DEF WriteMessage, ProtectedInv, ServerOK
<1>2. ServerMove(conf, v, h)
  BY <1>1, ServerMoves
<1>3. \/ tls' = [tls EXCEPT ![Server] = Finished(Server, t)] /\ wire' = wire
      \/ tls' = [tls EXCEPT ![Server] = t] /\ wire' = wire
      \/ /\ ~ Stops(Server, h) /\ h \notin Dummies
         /\ Send(Server, MessageOf(t)[1], KeyOfMessage(Server, t), MessageOf(t)[2])
         /\ tls' = [tls EXCEPT ![Server] = ServerSent(t)]
  BY TwoSides DEF WriteMessage
<1>4. h # "PENDING_EARLY_DATA_END" /\ (h = "OK" => Stops(Server, h))
  BY <1>2 DEF Stops, ServerMove
<1>5. /\ t \in Conn /\ t.hand_state = h /\ t.wkey = v.wkey /\ t.rkey = v.rkey /\ t.fin = v.fin
      /\ t.key_update = v.key_update /\ t.sent_tickets = v.sent_tickets
  <2>1. Moved(v, h, t)
    BY <1>1, <1>2, ServerMoved
  <2> HIDE DEF t
  <2> QED BY <2>1 DEF Moved
<1>6. t.early_data_state = v.early_data_state
  BY <1>1 DEF Conn
<1>7. ("own" \notin v.fin => v.wkey <= ApplicationKey) /\ v.sent_tickets <= NumTickets
  BY TwoSides DEF KeysInv, KeysOf
<1> HIDE DEF v, h, t
<1>8. CASE wire' = wire /\ (\/ tls' = [tls EXCEPT ![Server] = Finished(Server, t)]
                            \/ tls' = [tls EXCEPT ![Server] = t])
  <2>1. PICK u \in {t, Finished(Server, t)} : tls' = [tls EXCEPT ![Server] = u]
    BY <1>8
  <2> QED BY <1>1, <1>5, <1>6, <1>8, <2>1, PassedOn, TwoSides DEF v
<1>9. CASE /\ ~ Stops(Server, h) /\ h \notin Dummies
           /\ Send(Server, MessageOf(t)[1], KeyOfMessage(Server, t), MessageOf(t)[2])
           /\ tls' = [tls EXCEPT ![Server] = ServerSent(t)]
  <2>1. h \in ServerWrites
    BY <1>2, <1>4, <1>9 DEF Dummies, ServerMove, ServerWrites
  <2> DEFINE r == [type |-> MessageOf(t)[1], key |-> KeyOfMessage(Server, t),
                   arg |-> MessageOf(t)[2]]
             u == ServerSent(t)
  <2>2. RecordOK(conf, Server, r)
    BY <1>1, <1>2, <2>1, ServerRecord DEF t
  <2>3. /\ wire' = [wire EXCEPT ![Server] = Append(@, r)] /\ tls' = [tls EXCEPT ![Server] = u]
        /\ r.type = MessageOf(t)[1] /\ r.key = KeyOfMessage(Server, t) /\ r.arg = MessageOf(t)[2]
    BY <1>9 DEF Send
  <2>4. r \in Rec
    BY <2>2 DEF RecordOK
  <2> HIDE DEF r, u
  <2>5. CASE h = "SW_KEY_UPDATE"
    <3>1. v.key_update # "NONE" /\ "own" \in v.fin
      BY <1>1, <1>2, <2>5 DEF ServerMove, ServerOK, ServerKeys
    <3>2. r.type = "KEY_UPDATE" /\ r.arg = v.key_update /\ r.key = v.wkey
      BY <1>5, <2>3, <2>5, TwoSides DEF MessageOf, KeyOfMessage
    <3>3. u = [t EXCEPT !.key_update = "NONE", !.wkey = v.wkey + 1]
      BY <1>5, <2>5 DEF ServerSent, u
    <3> QED BY <1>1, <1>5, <1>6, <2>3, <2>4, <3>1, <3>2, <3>3, UpdateSent, TwoSides DEF v
  <2>6. CASE h # "SW_KEY_UPDATE"
    <3>1. Still(v, u) /\ r.key <= Generation(v.wkey) /\ r.type # "KEY_UPDATE"
      BY <1>1, <1>2, <1>7, <2>1, <2>3, <2>6, ServerTurn DEF t, u
    <3> QED BY <1>1, <2>3, <2>4, <3>1, KeysWritten, TwoSides DEF v
  <2> QED BY <2>5, <2>6
<1> QED BY <1>3, <1>8, <1>9

\* write_state_machine has nothing to write.
LEMMA StartReadingKeys ==
  ASSUME ProtectedInv, ProtectedInv', CallsInv, KeysInv, NEW s \in Sides, StartReading(s)
  PROVE  KeysInv' /\ CallsInv'
<1> DEFINE t == tls[s]
           u == IF WriteTransition(s) = Wrong THEN Fatal(t) ELSE [t EXCEPT !.flow = "reading"]
<1>1. /\ t \in Conn /\ wire' = wire /\ calls' = calls /\ got' = got
      /\ tls' = [tls EXCEPT ![s] = u]
  BY SideFields DEF StartReading
<1>2. /\ u.wkey = t.wkey /\ u.rkey = t.rkey /\ u.fin = t.fin /\ u.key_update = t.key_update
      /\ u.sent_tickets = t.sent_tickets /\ u.early_data_state = t.early_data_state
  BY <1>1 DEF Fatal, Conn
<1> HIDE DEF u
<1> QED BY <1>1, <1>2, CalledStep

\* A message is read.
LEMMA UpdateTaken ==
  ASSUME ProtectedInv, ProtectedInv', CallsInv, KeysInv, NEW s \in Sides, NEW u, NEW r,
         wire[Peer(s)] # << >>, r = Head(wire[Peer(s)]), tls' = [tls EXCEPT ![s] = u],
         wire' = [wire EXCEPT ![Peer(s)] = Tail(@)], calls' = calls, got' = got,
         IF r.type = "KEY_UPDATE" THEN UpdateRead(tls[s], u, r) ELSE Still(tls[s], u)
  PROVE  KeysInv' /\ CallsInv'
<1>1. CASE r.type = "KEY_UPDATE"
  <2>1. UpdateRead(tls[s], u, r)
    BY <1>1
  <2>2. KeysInv'
    BY <1>1, <2>1, KeysRead DEF UpdateRead
  <2>3. calls \in [Sides -> Counted] /\ u.early_data_state = tls[s].early_data_state
    BY <2>1 DEF CallsInv, Counted, UpdateRead
  <2>4. CallsInv'
    BY <2>3, CallsSame, GotSame
  <2> QED BY <2>2, <2>4
<1>2. CASE r.type # "KEY_UPDATE"
  <2>1. Still(tls[s], u)
    BY <1>2
  <2>2. Plainly(s)
    BY PeerSide DEF Plainly
  <2> QED BY <2>1, <2>2, StillStep, GotSame
<1> QED BY <1>1, <1>2

\* A record is refused.
LEMMA FatalKeys ==
  ASSUME ProtectedInv, KeysInv, NEW s \in Sides
  PROVE  Still(tls[s], Fatal(tls[s]))
<1> DEFINE t == tls[s]
           u == Fatal(t)
<1>1. t \in Conn
  BY SideFields
<1>2. /\ u.wkey = t.wkey /\ u.rkey = t.rkey /\ u.fin = t.fin /\ u.key_update = t.key_update
      /\ u.sent_tickets = t.sent_tickets /\ u.early_data_state = t.early_data_state
  BY <1>1 DEF Fatal, Conn
<1> HIDE DEF u
<1> QED BY <1>2, SameKeys DEF Still, u

\* read_state_machine
LEMMA ReadKeys ==
  ASSUME ProtectedInv, ProtectedInv', CallsInv, KeysInv, NEW s \in Sides, ReadMessage(s)
  PROVE  KeysInv' /\ CallsInv'
<1> DEFINE c == tls[s]
           r == NextRecord(s)
           h == ReadTransition(s, r.type)
           t == [c EXCEPT !.hand_state = h,
                          !.pha = IF r.type = "CERTIFICATE_REQUEST" /\ c.hand_state = "OK"
                                  THEN "REQUESTED" ELSE @]
<1>1. PICK u \in Processed(s) : tls' = [tls EXCEPT ![s] = u]
  BY DEF ReadMessage
<1>2. /\ conf \in Configurations /\ wire[Peer(s)] # << >> /\ calls' = calls /\ got' = got
      /\ r = Head(wire[Peer(s)]) /\ wire' = [wire EXCEPT ![Peer(s)] = Tail(@)]
      /\ ~ Refused(s) => c.flow = "reading" /\ h # Wrong
  BY DEF ReadMessage, Refused, ProtectedInv, NextRecord, Consume
<1>3. RecordOK(conf, Peer(s), r)
  BY <1>2, RecordRead
<1>4. ("own" \notin c.fin => c.wkey <= ApplicationKey) /\ c.sent_tickets <= NumTickets
  BY DEF KeysInv, KeysOf
<1>5. /\ Refused(s) => u = Fatal(c)
      /\ ~ Refused(s) /\ s = Client => u \in ClientProcess(t, r)
      /\ ~ Refused(s) /\ s = Server => u = ServerProcess(t, r)
  BY <1>1, TwoSides DEF Processed
<1>6. CASE Refused(s)
  <2>1. Still(c, u)
    BY <1>5, <1>6, FatalKeys
  <2>2. Plainly(s)
    BY <1>2, PeerSide DEF Plainly
  <2> HIDE DEF r, h, t
  <2> QED BY <1>1, <1>2, <2>1, <2>2, StillStep, GotSame
<1>7. CASE ~ Refused(s) /\ s = Client
  <2>1. ClientOK(conf, c) /\ RecordOK(conf, Server, r) /\ h = ClientReadTransition(c, r.type)
    BY <1>3, <1>7 DEF ProtectedInv, Peer, ReadTransition
  <2>2. u \in ClientProcess(t, r) /\ c.flow = "reading" /\ h # Wrong
    BY <1>2, <1>5, <1>7
  <2> HIDE DEF c, r, h, t
  <2>3. IF r.type = "KEY_UPDATE" THEN UpdateRead(c, u, r) ELSE Still(c, u)
    BY <1>4, <2>1, <2>2, ClientTaken DEF t
  <2> QED BY <1>1, <1>2, <2>3, UpdateTaken DEF c
<1>8. CASE ~ Refused(s) /\ s = Server
  <2> DEFINE w == [c EXCEPT !.hand_state = h]
  <2>1. /\ ServerOK(conf, c) /\ RecordOK(conf, Client, r) /\ c \in Conn
        /\ h = ServerReadTransition(c, r.type)
    BY <1>3, <1>8, TwoSides DEF ProtectedInv, Peer, ServerOK, ReadTransition
  <2>2. u = ServerProcess(t, r) /\ h # Wrong
    BY <1>2, <1>5, <1>8
  <2>3. r.type # "CERTIFICATE_REQUEST"
    BY <2>1, <2>2 DEF ServerReadTransition
  <2>4. t = w
    BY <2>1, <2>3 DEF Conn
  <2> HIDE DEF c, r, h, t, w
  <2>5. u = ServerProcess(w, r)
    BY <2>2, <2>4
  <2>6. IF r.type = "KEY_UPDATE" THEN UpdateRead(c, u, r) ELSE Still(c, u)
    BY <1>2, <1>4, <2>1, <2>2, <2>5, ServerTaken DEF w
  <2> QED BY <1>1, <1>2, <2>6, UpdateTaken DEF c
<1> QED BY <1>6, <1>7, <1>8, TwoSides

\* Reading data, or finding a message in its place.
LEMMA DataKeys ==
  ASSUME ProtectedInv, ProtectedInv', CallsInv, KeysInv, NEW s \in Sides,
         PassOver(s) \/ ReadData(s) \/ ReadFindsMessage(s)
  PROVE  KeysInv' /\ CallsInv'
<1>1. CASE PassOver(s) \/ ReadData(s)
  <2> DEFINE u == tls[s]
  <2>1. wire[Peer(s)] # << >> /\ Consume(s) /\ tls' = tls /\ calls' = calls
    BY <1>1 DEF PassOver, ReadData
  <2>2. Plainly(s)
    BY <2>1, PeerSide DEF Plainly, Consume
  <2>3. got' \in [Sides -> [early : Nat, data : Nat]]
    <3>1. \/ got' = got \/ got' = [got EXCEPT ![s].early = @ + 1]
          \/ got' = [got EXCEPT ![s].data = @ + 1]
      BY <1>1 DEF PassOver, ReadData
    <3>2. got \in [Sides -> [early : Nat, data : Nat]]
      BY DEF CallsInv
    <3>3. [got EXCEPT ![s].early = @ + 1] \in [Sides -> [early : Nat, data : Nat]]
      BY <3>2
    <3>4. [got EXCEPT ![s].data = @ + 1] \in [Sides -> [early : Nat, data : Nat]]
      BY <3>2
    <3> QED BY <3>1, <3>2, <3>3, <3>4
  <2>4. Still(tls[s], u) /\ tls' = [tls EXCEPT ![s] = u]
    BY <2>1, SameKeys DEF Still, ProtectedInv
  <2> HIDE DEF u
  <2> QED BY <2>1, <2>2, <2>3, <2>4, StillStep
<1>2. CASE ReadFindsMessage(s)
  <2> DEFINE t == tls[s]
             u == [t EXCEPT !.in_init = TRUE, !.flow = "writing"]
  <2>1. /\ tls' = [tls EXCEPT ![s].in_init = TRUE, ![s].flow = "writing"]
        /\ wire' = wire /\ calls' = calls /\ got' = got /\ t \in Conn
    BY <1>2, SideFields DEF ReadFindsMessage
  <2>2. tls' = [tls EXCEPT ![s] = u]
    BY <2>1 DEF ProtectedInv
  <2>3. /\ u.wkey = t.wkey /\ u.rkey = t.rkey /\ u.fin = t.fin /\ u.key_update = t.key_update
        /\ u.sent_tickets = t.sent_tickets /\ u.early_data_state = t.early_data_state
    BY <2>1 DEF Conn
  <2> HIDE DEF u
  <2> QED BY <2>1, <2>2, <2>3, CalledStep
<1> QED BY <1>1, <1>2

\* The state machine is entered.
LEMMA EnteredKeys ==
  ASSUME ProtectedInv, ProtectedInv', CallsInv, KeysInv, NEW s \in Sides, NEW e, NEW u,
         e = "WRITING" => tls[s].early_data_state = "WRITING",
         \/ u = Entered(tls[s]) /\ e = tls[s].early_data_state
         \/ u = [Entered(tls[s]) EXCEPT !.early_data_state = e],
         tls' = [tls EXCEPT ![s] = u], wire' = wire, calls' = calls, got' = got
  PROVE  KeysInv' /\ CallsInv'
<1> DEFINE t == tls[s]
           y == IF t.flow = "idle" THEN "writing" ELSE t.flow
<1>1. t \in Conn
  BY SideFields
<1>2. \/ u = [t EXCEPT !.in_init = TRUE, !.flow = y] /\ e = t.early_data_state
      \/ u = [t EXCEPT !.in_init = TRUE, !.flow = y, !.early_data_state = e]
  BY <1>1 DEF Entered, Conn
<1> HIDE DEF t, y
<1>3. /\ u.wkey = t.wkey /\ u.rkey = t.rkey /\ u.fin = t.fin /\ u.key_update = t.key_update
      /\ u.sent_tickets = t.sent_tickets /\ u.early_data_state = e
  BY <1>1, <1>2 DEF Conn
<1> QED BY <1>3, CalledStep DEF t

LEMMA EnteredOnly ==
  ASSUME ProtectedInv, ProtectedInv', CallsInv, KeysInv, NEW s \in Sides,
         tls' = [tls EXCEPT ![s] = Entered(@)], wire' = wire, calls' = calls, got' = got
  PROVE  KeysInv' /\ CallsInv'
BY EnteredKeys

\* Data is written.
LEMMA DataWritten ==
  ASSUME ProtectedInv, ProtectedInv', CallsInv, KeysInv, NEW s \in Sides, tls' = tls, got' = got,
         calls[s].data < MaxData, calls' = [calls EXCEPT ![s].data = @ + 1],
         Send(s, "DATA", tls[s].wkey, "app")
  PROVE  KeysInv' /\ CallsInv'
<1> DEFINE n == calls[s].data + 1
<1>1. calls[s].data \in 0 .. MaxData /\ MaxData \in Nat
  BY Tls13Assumption DEF CallsInv
<1>2. n \in 0 .. MaxData /\ calls' = [calls EXCEPT ![s].data = n]
  BY <1>1
<1> HIDE DEF n
<1>3. /\ calls' \in [Sides -> Counted]
      /\ \A p \in Sides : calls'[p].updates = calls[p].updates /\ calls'[p].early = calls[p].early
  BY ONLY CallsInv, s \in Sides, <1>2, CallCounted
<1>4. KeysInv'
  BY <1>3, DataPlainly, WireStill
<1>5. CallsInv'
  BY <1>3, GotSame, TwoSides DEF CallsInv, Counted
<1> QED BY <1>4, <1>5

\* The calls of either application.
LEMMA CallsKeys ==
  ASSUME ProtectedInv, ProtectedInv', CallsInv, KeysInv, NEW s \in Sides, Call(s)
  PROVE  KeysInv' /\ CallsInv'
<1> DEFINE t == tls[s]
<1>1. t \in Conn
  BY SideFields
<1>2. CASE Begin(s)
  <2> DEFINE e == CASE s = Client /\ conf.early -> "CONNECTING"
                    [] s = Server /\ conf.read_early -> "ACCEPTING"
                    [] OTHER -> t.early_data_state
             u == [Entered(t) EXCEPT !.early_data_state = e]
  <2>1. /\ wire' = wire /\ calls' = calls /\ got' = got
        /\ tls' = [tls EXCEPT ![s] = u]
    BY <1>2 DEF Begin
  <2>2. e = "WRITING" => t.early_data_state = "WRITING"
    OBVIOUS
  <2> HIDE DEF e, u
  <2> QED BY <2>1, <2>2, EnteredKeys DEF u
<1>3. CASE CompleteHandshake(s)
  <2> DEFINE e == IF s = Client THEN "FINISHED_WRITING" ELSE t.early_data_state
             u == [Entered(t) EXCEPT !.early_data_state = e]
  <2>1. /\ wire' = wire /\ calls' = calls /\ got' = got
        /\ tls' = [tls EXCEPT ![s] = u]
    BY <1>3 DEF CompleteHandshake
  <2>2. e = "WRITING" => t.early_data_state = "WRITING"
    OBVIOUS
  <2> HIDE DEF e, u
  <2> QED BY <2>1, <2>2, EnteredKeys DEF u
<1>4. CASE WriteData(s)
  BY <1>4, EnteredOnly, DataWritten DEF WriteData
<1>5. CASE KeyUpdate(s)
  <2>1. PICK k \in {"NOT_REQUESTED", "REQUESTED"} :
          tls' = [tls EXCEPT ![s].in_init = TRUE, ![s].key_update = k]
    BY <1>5 DEF KeyUpdate
  <2> DEFINE u == [t EXCEPT !.in_init = TRUE, !.key_update = k]
             n == calls[s].updates + 1
  <2>2. tls' = [tls EXCEPT ![s] = u]
    BY <2>1 DEF ProtectedInv
  <2>3. /\ u.wkey = t.wkey /\ u.rkey = t.rkey /\ u.fin = t.fin
        /\ u.sent_tickets = t.sent_tickets /\ u.early_data_state = t.early_data_state
    BY <1>1 DEF Conn
  <2>4. /\ wire' = wire /\ got' = got /\ calls' = [calls EXCEPT ![s].updates = @ + 1]
        /\ calls[s].updates < MaxUpdates
    BY <1>5 DEF KeyUpdate
  <2> HIDE DEF u
  <2>5. KeysInv'
    BY <2>2, <2>3, <2>4, KeysAsked
  <2>6. calls[s].updates \in 0 .. MaxUpdates /\ MaxUpdates \in Nat
    BY Tls13Assumption DEF CallsInv
  <2>7. n \in 0 .. MaxUpdates /\ calls' = [calls EXCEPT ![s].updates = n]
    BY <2>4, <2>6
  <2> HIDE DEF n
  <2>8. calls' \in [Sides -> Counted] /\ \A p \in Sides : calls'[p].early = calls[p].early
    BY <2>7, CallCounted
  <2>9. CallsInv'
    BY <2>2, <2>3, <2>4, <2>8, CallsSame, GotSame
  <2> QED BY <2>5, <2>9
<1>6. CASE Resume(s)
  BY <1>6, EnteredOnly DEF Resume
<1> QED BY <1>2, <1>3, <1>4, <1>5, <1>6 DEF Call

\* Early data: a call that waits has been counted, and is not counted if it waited in vain.
LEMMA WriteEarlyKeys ==
  ASSUME ProtectedInv, ProtectedInv', CallsInv, KeysInv, WriteEarlyData \/ WriteEarlyDataReturns
  PROVE  KeysInv' /\ CallsInv'
<1> DEFINE c == tls[Client]
           a == calls[Client].early
           n == IF WriteEarlyData THEN a + 1 ELSE IF c.in_init THEN a - 1 ELSE a
           e == IF WriteEarlyData THEN (IF c.in_init THEN "WRITING" ELSE c.early_data_state)
                ELSE "WRITE_RETRY"
           u == [c EXCEPT !.early_data_state = e]
<1>1. c \in Conn /\ got' = got /\ a \in 0 .. MaxEarly /\ MaxEarly \in Nat
      /\ calls \in [Sides -> Counted] /\ Client \in Sides /\ tls \in [Sides -> Conn]
  BY SideFields, TwoSides, Tls13Assumption
     DEF WriteEarlyData, WriteEarlyDataReturns, CallsInv, Counted, ProtectedInv
<1>2. ~ WriteEarlyData => c.early_data_state = "WRITING" /\ a > 0
  BY DEF WriteEarlyDataReturns, CallsInv
<1>3. n \in 0 .. MaxEarly /\ (WriteEarlyData => n > 0)
  BY <1>1, <1>2 DEF WriteEarlyData
<1>4. calls' = [calls EXCEPT ![Client].early = n]
  <2>1. calls = [calls EXCEPT ![Client].early = a]
    BY <1>1 DEF Counted
  <2>2. CASE WriteEarlyData
    BY <2>2 DEF WriteEarlyData
  <2>3. CASE ~ WriteEarlyData
    BY <2>1, <2>3 DEF WriteEarlyDataReturns
  <2> QED BY <2>2, <2>3
<1>5. tls' = [tls EXCEPT ![Client] = u]
  <2>1. WriteEarlyData /\ ~ c.in_init => u = c /\ tls' = tls
    BY <1>1 DEF WriteEarlyData, Conn
  <2>2. ~ (WriteEarlyData /\ ~ c.in_init) => tls' = [tls EXCEPT ![Client].early_data_state = e]
    BY DEF WriteEarlyData, WriteEarlyDataReturns
  <2>3. tls = [tls EXCEPT ![Client] = c]
    BY <1>1
  <2> QED BY <2>1, <2>2, <2>3
<1>6. /\ u.wkey = c.wkey /\ u.rkey = c.rkey /\ u.fin = c.fin /\ u.key_update = c.key_update
      /\ u.sent_tickets = c.sent_tickets /\ u.early_data_state = e
  BY <1>1 DEF Conn
<1>7. e = "WRITING" => WriteEarlyData
  OBVIOUS
<1>8. Plainly(Client)
  <2>1. wire' = wire \/ Send(Client, "DATA", c.wkey, "early")
    BY DEF WriteEarlyData, WriteEarlyDataReturns
  <2> QED BY <1>1, <2>1, DataPlainly DEF Plainly
<1> HIDE DEF u, e, n
<1>9. /\ calls' \in [Sides -> Counted] /\ calls'[Client].early = n
      /\ \A p \in Sides : calls'[p].updates = calls[p].updates
  BY <1>1, <1>3, <1>4, CallCounted
<1>10. KeysInv'
  BY <1>1, <1>5, <1>6, <1>8, <1>9, SameKeys, KeysStill
<1>11. tls'[Client].early_data_state = "WRITING" => calls'[Client].early > 0
  BY <1>1, <1>3, <1>5, <1>6, <1>7, <1>9
<1>12. CallsInv'
  BY <1>9, <1>11, GotSame, <1>1 DEF CallsInv, Counted
<1> QED BY <1>10, <1>12

LEMMA VerifyKeys ==
  ASSUME ProtectedInv, ProtectedInv', CallsInv, KeysInv, VerifyClientPostHandshake
  PROVE  KeysInv' /\ CallsInv'
<1> DEFINE v == tls[Server]
           u == [v EXCEPT !.pha = "REQUEST_PENDING", !.in_init = TRUE]
           n == calls[Server].requests + 1
<1>1. /\ v \in Conn /\ tls' = [tls EXCEPT ![Server] = u] /\ wire' = wire /\ got' = got
      /\ calls' = [calls EXCEPT ![Server].requests = n] /\ calls[Server].requests < MaxRequests
      /\ Server \in Sides
  BY SideFields, TwoSides DEF VerifyClientPostHandshake
<1>2. calls[Server].requests \in 0 .. MaxRequests /\ MaxRequests \in Nat
  BY <1>1, Tls13Assumption DEF CallsInv
<1>3. n \in 0 .. MaxRequests
  BY <1>1, <1>2
<1> HIDE DEF n
<1>4. /\ calls' \in [Sides -> Counted]
      /\ \A p \in Sides : calls'[p].updates = calls[p].updates /\ calls'[p].early = calls[p].early
  BY <1>1, <1>3, CallCounted
<1>5. /\ u.wkey = v.wkey /\ u.rkey = v.rkey /\ u.fin = v.fin /\ u.key_update = v.key_update
      /\ u.sent_tickets = v.sent_tickets /\ u.early_data_state = v.early_data_state
  BY <1>1 DEF Conn
<1> HIDE DEF u
<1>6. KeysInv'
  BY <1>1, <1>4, <1>5, SameKeys, KeysStill DEF Plainly
<1>7. CallsInv'
  BY <1>1, <1>4, <1>5, CallsSame, GotSame
<1> QED BY <1>6, <1>7

LEMMA KeysStart == Init => KeysInv /\ CallsInv
<1> SUFFICES ASSUME Init PROVE KeysInv /\ CallsInv
  OBVIOUS
<1>1. /\ tls = [s \in Sides |-> NewConnection] /\ wire = [s \in Sides |-> << >>]
      /\ calls = [s \in Sides |-> [early |-> 0, data |-> 0, updates |-> 0, requests |-> 0]]
      /\ got = [s \in Sides |-> [early |-> 0, data |-> 0]]
  BY DEF Init
<1>2. /\ NumTickets \in Nat /\ MaxEarly \in Nat /\ MaxData \in Nat /\ MaxUpdates \in Nat
      /\ MaxRequests \in Nat
  BY Tls13Assumption
<1>3. \A X : HowMany(<< >>, X) = 0
  <2> SUFFICES ASSUME NEW X PROVE HowMany(<< >>, X) = 0
    OBVIOUS
  <2> DEFINE e == << >>
  <2>1. {i \in DOMAIN e : e[i] \in X} = {}
    OBVIOUS
  <2> QED BY <2>1, FS_EmptySet DEF HowMany
<1>4. /\ NewConnection.fin = {} /\ NewConnection.wkey = 0 /\ NewConnection.rkey = 0
      /\ NewConnection.key_update = "NONE" /\ NewConnection.sent_tickets = 0
      /\ NewConnection.early_data_state = "NONE"
  BY DEF NewConnection, Plain
<1>5. KeysOf(NewConnection, NewConnection, << >>, << >>, 0)
  BY <1>2, <1>3, <1>4 DEF KeysOf, Generation, One, ApplicationKey
<1>6. KeysInv
  <2> SUFFICES ASSUME NEW s \in Sides
               PROVE  KeysOf(tls[s], tls[Peer(s)], wire[Peer(s)], wire[s],
                             calls[s].updates + calls[Peer(s)].updates)
    BY DEF KeysInv
  <2>1. Peer(s) \in Sides
    BY PeerSide
  <2>2. /\ tls[s] = NewConnection /\ tls[Peer(s)] = NewConnection
        /\ wire[s] = << >> /\ wire[Peer(s)] = << >>
        /\ calls[s].updates + calls[Peer(s)].updates = 0
    BY <1>1, <2>1
  <2> QED BY <1>5, <2>2
<1>7. CallsInv
  BY <1>1, <1>2, <1>4, TwoSides DEF CallsInv
<1> QED BY <1>6, <1>7

LEMMA KeysStep ==
  ASSUME ProtectedInv, ProtectedInv', KeysInv, CallsInv, [Next]_vars
  PROVE  KeysInv' /\ CallsInv'
<1>1. CASE UNCHANGED vars
  BY <1>1 DEF vars, KeysInv, CallsInv
<1>2. ASSUME NEW s \in Sides, Write(s)
      PROVE  KeysInv' /\ CallsInv'
  BY <1>2, TwoSides, ClientWriteKeys, ServerWriteKeys, StartReadingKeys DEF Write
<1>3. ASSUME NEW s \in Sides, Read(s)
      PROVE  KeysInv' /\ CallsInv'
  BY <1>3, DataKeys, ReadKeys DEF Read
<1>4. ASSUME NEW s \in Sides, Call(s)
      PROVE  KeysInv' /\ CallsInv'
  BY <1>4, CallsKeys
<1>5. CASE ReadDuringEarlyData
  BY <1>5, EnteredOnly, TwoSides DEF ReadDuringEarlyData
<1>6. CASE WriteEarlyData \/ WriteEarlyDataReturns
  BY <1>6, WriteEarlyKeys
<1>7. CASE WriteUnauthenticated
  BY <1>7, DataWritten, TwoSides DEF WriteUnauthenticated
<1>8. CASE VerifyClientPostHandshake
  BY <1>8, VerifyKeys
<1> QED BY <1>1, <1>2, <1>3, <1>4, <1>5, <1>6, <1>7, <1>8 DEF Next

\* The invariants bound every key by twice the calls of tls_key_update.
LEMMA KeysBounded ==
  ASSUME ProtectedInv, KeysInv, CallsInv
  PROVE  TypeOK
<1> DEFINE top == ApplicationKey + 2 * MaxUpdates
<1>1. top \in Nat /\ NumTickets \in Nat /\ MaxUpdates \in Nat
  BY Tls13Assumption DEF ApplicationKey
<1>2. \A s \in Sides : Generation(tls[s].wkey) <= top
  <2> SUFFICES ASSUME NEW s \in Sides PROVE Generation(tls[s].wkey) <= top
    OBVIOUS
  <2> DEFINE p == Peer(s)
             n == calls[s].updates + calls[p].updates
  <2>1. /\ p \in Sides /\ n \in Nat /\ KeysOf(tls[s], tls[p], wire[p], wire[s], n)
        /\ Generation(tls[s].wkey) \in Nat /\ HowMany(wire[p], Requests) \in Nat
    BY Pair
  <2>2. n <= 2 * MaxUpdates
    <3>1. calls[s].updates \in 0 .. MaxUpdates /\ calls[p].updates \in 0 .. MaxUpdates
      BY <2>1 DEF CallsInv
    <3> QED BY <1>1, <3>1
  <2>3. One(tls[s].key_update # "NONE") \in {0, 1} /\ One(tls[p].key_update = "REQUESTED") \in {0, 1}
    BY DEF One
  <2>4. Generation(tls[s].wkey) + One(tls[s].key_update # "NONE") + HowMany(wire[p], Requests)
          + One(tls[p].key_update = "REQUESTED") <= ApplicationKey + n
    BY <2>1 DEF KeysOf
  <2> HIDE DEF n, p
  <2> QED BY <1>1, <2>1, <2>2, <2>3, <2>4 DEF ApplicationKey
<1>3. \A s \in Sides : /\ tls[s].wkey \in Nat /\ tls[s].rkey \in Nat
                       /\ tls[s].wkey <= top /\ tls[s].rkey <= top
                       /\ tls[s].sent_tickets <= NumTickets
                       /\ \A i \in DOMAIN wire[s] : wire[s][i].key <= top
  <2> SUFFICES ASSUME NEW s \in Sides
               PROVE  /\ tls[s].wkey \in Nat /\ tls[s].rkey \in Nat
                      /\ tls[s].wkey <= top /\ tls[s].rkey <= top
                      /\ tls[s].sent_tickets <= NumTickets
                      /\ \A i \in DOMAIN wire[s] : wire[s][i].key <= top
    OBVIOUS
  <2> DEFINE p == Peer(s)
             n == calls[s].updates + calls[p].updates
  <2>1. /\ p \in Sides /\ KeysOf(tls[s], tls[p], wire[p], wire[s], n)
        /\ tls[s].wkey \in Nat /\ tls[s].rkey \in Nat
        /\ Generation(tls[s].wkey) \in Nat /\ Generation(tls[s].rkey) \in Nat
        /\ Generation(tls[p].wkey) \in Nat /\ HowMany(wire[p], Updates) \in Nat
        /\ wire \in [Sides -> Seq(Rec)]
    BY Pair
  <2>2. Generation(tls[s].wkey) <= top /\ Generation(tls[p].wkey) <= top
    BY <1>2, <2>1
  <2>3. Generation(tls[s].wkey) >= tls[s].wkey /\ Generation(tls[s].rkey) >= tls[s].rkey
    BY <2>1, GenerationNat
  <2>4. /\ Generation(tls[s].rkey) + HowMany(wire[p], Updates) <= Generation(tls[p].wkey)
        /\ \A i \in DOMAIN wire[s] : wire[s][i].key <= Generation(tls[s].wkey)
        /\ tls[s].sent_tickets <= NumTickets
    BY <2>1 DEF KeysOf
  <2> HIDE DEF p, n, top
  <2>5. tls[s].wkey <= top /\ tls[s].rkey <= top
    BY <1>1, <2>1, <2>2, <2>3, <2>4
  <2>6. \A i \in DOMAIN wire[s] : wire[s][i].key <= top
    <3>0. \A i \in DOMAIN wire[s] : wire[s][i] \in Rec
      BY <2>1
    <3>1. \A i \in DOMAIN wire[s] : wire[s][i].key \in Nat
      BY <3>0 DEF Rec
    <3> QED BY <1>1, <2>1, <2>2, <2>4, <3>1
  <2> QED BY <2>1, <2>4, <2>5, <2>6
<1>4. tls \in [Sides -> Connection]
  <2> SUFFICES ASSUME NEW s \in Sides PROVE tls[s] \in Connection
    BY DEF ProtectedInv
  <2>1. tls[s] \in Conn
    BY SideFields
  <2>2. tls[s].wkey \in Keys /\ tls[s].rkey \in Keys
    BY <1>1, <1>3 DEF Keys
  <2>3. tls[s].sent_tickets \in 0 .. NumTickets
    <3>1. tls[s].sent_tickets \in Nat
      BY SideFields
    <3> QED BY <1>1, <1>3, <3>1
  <2> QED BY <2>1, <2>2, <2>3 DEF Conn, Connection, EarlyDataStates, PhaStates
<1>5. wire \in [Sides -> Seq(Records)]
  <2> SUFFICES ASSUME NEW s \in Sides PROVE wire[s] \in Seq(Records)
    BY DEF ProtectedInv
  <2>1. wire[s] \in Seq(Rec)
    BY SideFields
  <2>2. \A i \in 1 .. Len(wire[s]) : wire[s][i] \in Records
    <3> SUFFICES ASSUME NEW i \in 1 .. Len(wire[s]) PROVE wire[s][i] \in Records
      OBVIOUS
    <3>1. wire[s][i] \in Rec /\ i \in DOMAIN wire[s]
      BY <2>1
    <3>2. wire[s][i].key \in Nat
      BY <3>1 DEF Rec
    <3>3. wire[s][i].key \in Keys
      BY <1>1, <1>3, <3>1, <3>2 DEF Keys
    <3> QED BY <3>1, <3>3 DEF Rec, Records
  <2> QED BY <2>1, <2>2
<1> QED BY <1>4, <1>5 DEF TypeOK, ProtectedInv, CallsInv

\* The types hold for every set of configurations and all bounds: in particular a KeyUpdate is
\* answered at most once, so that neither side, nor any record on its way, is ever at a later
\* generation of keys than the calls of tls_key_update of both sides together allow; and the
\* server sends no more than num_tickets tickets for a handshake.
THEOREM KeysAreBounded == Spec => []TypeOK
<1> DEFINE Inv == ProtectedInv /\ KeysInv /\ CallsInv
<1>1. Init => Inv
  BY ProtectedStart, KeysStart
<1>2. Inv /\ [Next]_vars => Inv'
  BY ProtectedStep, KeysStep
<1>3. Inv => TypeOK
  BY KeysBounded
<1> QED BY <1>1, <1>2, <1>3, PTL DEF Spec

=============================================================================
