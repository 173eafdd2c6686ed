--------------------------- MODULE Tls13Handshake ---------------------------
(***************************************************************************)
(* A TLS 1.3 client and a TLS 1.3 server of this library, joined by a      *)
(* reliable byte stream: the handshake state machines (statem.c,           *)
(* statem_clnt.c, statem_srvr.c), the moments at which each side changes   *)
(* the keys it writes and reads with, and the calls an application makes   *)
(* on each side (ssl_lib.c).                                               *)
(*                                                                         *)
(* A record carries the key it was written under, and reading it needs the *)
(* same key.  One step sends or reads one message: either call may return  *)
(* between two messages for want of the socket, and the application is     *)
(* then free to make another call.                                         *)
(***************************************************************************)
EXTENDS Naturals, Sequences, FiniteSets

CONSTANTS
  Configurations,    \* the configurations of the two sides that are looked at
  NumTickets,        \* num_tickets of the server
  MaxEarly,          \* bound: records of early data
  MaxData,           \* bound: records of application data of each side
  MaxUpdates,        \* bound: calls of tls_key_update of each side
  MaxRequests        \* bound: calls of tls_verify_client_post_handshake

Client == "client"
Server == "server"
Sides  == {Client, Server}
Peer(s) == IF s = Client THEN Server ELSE Client

(***************************************************************************)
(* compat: tls_OP_ENABLE_MIDDLEBOX_COMPAT of each side.  retry: the server *)
(* finds no key share it likes in the first ClientHello.  psk: it accepts  *)
(* the session of the client.  early: the application of the client starts *)
(* with tls_write_early_data; read_early: that of the server starts with   *)
(* tls_read_early_data.  verify: verify_mode has tls_VERIFY_PEER, alone    *)
(* ("hand") or with tls_VERIFY_POST_HANDSHAKE ("post").  pha: the client   *)
(* sends the post_handshake_auth extension.  ticket: ticket_expected.      *)
(* interleave: the client goes on with tls_write_early_data once it has    *)
(* begun to read.  hasty: the server calls tls_write_early_data as soon as *)
(* tls_read_early_data has returned, and need not have sent its Finished.  *)
(* update: the applications call tls_key_update.  data: which of them      *)
(* write data.                                                             *)
(***************************************************************************)
AllConfigurations ==
  [compat : [Sides -> BOOLEAN], retry : BOOLEAN, psk : BOOLEAN,
   early : BOOLEAN, read_early : BOOLEAN, verify : {"none", "hand", "post"},
   pha : BOOLEAN, ticket : BOOLEAN, interleave : BOOLEAN,
   hasty : BOOLEAN, update : BOOLEAN, data : SUBSET Sides]

ASSUME Tls13Assumption ==
  /\ Configurations \subseteq AllConfigurations
  /\ NumTickets \in Nat /\ MaxEarly \in Nat /\ MaxData \in Nat
  /\ MaxUpdates \in Nat /\ MaxRequests \in Nat

VARIABLES
  conf,    \* the configuration, fixed from the start
  tls,     \* the connection object of each side
  wire,    \* the records each side has sent that the other has not read
  calls,   \* the calls the bounds count
  got      \* history: the data each side's application was given

vars == <<conf, tls, wire, calls, got>>

\* The traffic secrets, in the order of the key schedule: application keys
\* of later generations are larger still.
Plain == 0
EarlyKey == 1
HandshakeKey == 2
ApplicationKey == 3
Keys == 0 .. (ApplicationKey + 2 * MaxUpdates)

ClientStates ==
  {"BEFORE", "OK", "EARLY_DATA", "PENDING_EARLY_DATA_END", "CW_CLNT_HELLO",
   "CW_CHANGE", "CW_END_OF_EARLY_DATA", "CW_CERT", "CW_CERT_VRFY",
   "CW_FINISHED", "CW_KEY_UPDATE", "CR_SRVR_HELLO",
   "CR_ENCRYPTED_EXTENSIONS", "CR_CERT_REQ", "CR_CERT", "CR_CERT_VRFY",
   "CR_FINISHED", "CR_SESSION_TICKET", "CR_KEY_UPDATE"}

ServerStates ==
  {"BEFORE", "OK", "EARLY_DATA", "SR_CLNT_HELLO", "SR_END_OF_EARLY_DATA",
   "SR_CERT", "SR_CERT_VRFY", "SR_FINISHED", "SR_KEY_UPDATE",
   "SW_SRVR_HELLO", "SW_CHANGE", "SW_ENCRYPTED_EXTENSIONS", "SW_CERT_REQ",
   "SW_CERT", "SW_CERT_VRFY", "SW_FINISHED", "SW_SESSION_TICKET",
   "SW_KEY_UPDATE"}

(***************************************************************************)
(* The part of the tls structure that the handshake turns on.  flow is     *)
(* statem.state, "idle" standing for MSG_FLOW_UNINITED and                 *)
(* MSG_FLOW_FINISHED.  fin: whose Finished is computed (finish_md_len,     *)
(* peer_finish_md_len).  cert: for the client cert_req with 1 = "cert" and *)
(* 2 = "empty"; for the server what session->peer holds.                   *)
(* early_data_state leaves out the *_RETRY values that hold only between   *)
(* two calls of one function: CONNECT_RETRY, ACCEPT_RETRY, READING.        *)
(***************************************************************************)
Connection ==
  [hand_state : ClientStates \cup ServerStates,
   flow : {"idle", "reading", "writing", "error"},
   in_init : BOOLEAN, tls13 : BOOLEAN,
   wkey : Keys, rkey : Keys,
   early_data_state : {"NONE", "CONNECTING", "WRITE_RETRY", "WRITING",
                       "FINISHED_WRITING", "ACCEPTING", "READ_RETRY",
                       "FINISHED_READING"},
   early_data : {"NOT_SENT", "REJECTED", "ACCEPTED"},
   hello_retry_request : {"NONE", "PENDING", "COMPLETE"},
   hit : BOOLEAN, cert_request : BOOLEAN, cert : {"none", "cert", "empty"},
   pha : {"NONE", "EXT_SENT", "EXT_RECEIVED", "REQUEST_PENDING", "REQUESTED"},
   key_update : {"NONE", "NOT_REQUESTED", "REQUESTED"},
   ticket_expected : BOOLEAN, sent_tickets : 0..NumTickets,
   fin : SUBSET {"own", "peer"}]

Records ==
  [type : {"CCS", "DATA", "CLIENT_HELLO", "SERVER_HELLO",
           "ENCRYPTED_EXTENSIONS", "CERTIFICATE_REQUEST", "CERTIFICATE",
           "CERTIFICATE_VERIFY", "FINISHED", "END_OF_EARLY_DATA",
           "NEWSESSION_TICKET", "KEY_UPDATE"},
   key : Keys,
   arg : {"none", "early", "app", "retry", "hit", "full", "cert", "empty",
          "REQUESTED", "NOT_REQUESTED"}]

FirstHandshake(t) == t.fin # {"own", "peer"}    \* tls_IS_FIRST_HANDSHAKE
InitFinished(t) == ~t.in_init /\ t.hand_state = "OK"

NewConnection ==
  [hand_state |-> "BEFORE", flow |-> "idle", in_init |-> TRUE, tls13 |-> FALSE,
   wkey |-> Plain, rkey |-> Plain, early_data_state |-> "NONE",
   early_data |-> "NOT_SENT", hello_retry_request |-> "NONE",
   hit |-> FALSE, cert_request |-> FALSE, cert |-> "none", pha |-> "NONE",
   key_update |-> "NONE", ticket_expected |-> FALSE, sent_tickets |-> 0,
   fin |-> {}]

Init ==
  /\ conf \in Configurations
  /\ tls = [s \in Sides |-> NewConnection]
  /\ wire = [s \in Sides |-> <<>>]
  /\ calls = [s \in Sides |-> [early |-> 0, data |-> 0, updates |-> 0, requests |-> 0]]
  /\ got = [s \in Sides |-> [early |-> 0, data |-> 0]]

-----------------------------------------------------------------------------
(***************************************************************************)
(* The write half of the state machines.  A transition is the hand_state   *)
(* to move to, ToRead (WRITE_TRAN_FINISHED) or Wrong (WRITE_TRAN_ERROR).   *)
(***************************************************************************)
ToRead == "READ"
Wrong == "ERROR"

SendCertificateRequest(t) ==
  \/ conf.verify = "hand"
  \/ conf.verify = "post" /\ t.pha = "REQUEST_PENDING"

ClientAnswer(t) == IF t.cert # "none" THEN "CW_CERT" ELSE "CW_FINISHED"

\* The version is not known yet: otls_statem_client_write_transition.
ClientHelloTransition(t) ==
  CASE t.hand_state = "BEFORE" -> "CW_CLNT_HELLO"
    [] t.hand_state = "CW_CLNT_HELLO" ->
         IF t.early_data_state # "CONNECTING" THEN ToRead
         ELSE IF conf.compat[Client] THEN "CW_CHANGE" ELSE "EARLY_DATA"
    [] t.hand_state = "CR_SRVR_HELLO" ->
         IF conf.compat[Client] /\ t.early_data_state # "FINISHED_WRITING"
         THEN "CW_CHANGE" ELSE "CW_CLNT_HELLO"
    [] t.hand_state = "CW_CHANGE" ->
         IF t.hello_retry_request = "PENDING" THEN "CW_CLNT_HELLO"
         ELSE IF t.early_data_state = "CONNECTING" THEN "EARLY_DATA" ELSE "CW_FINISHED"
    [] t.hand_state = "EARLY_DATA" -> ToRead
    [] OTHER -> Wrong

Client13WriteTransition(t) ==
  CASE t.hand_state = "CR_CERT_REQ" -> IF t.pha = "REQUESTED" THEN "CW_CERT" ELSE Wrong
    [] t.hand_state = "CR_FINISHED" ->
         IF t.early_data_state \in {"WRITE_RETRY", "FINISHED_WRITING"}
         THEN "PENDING_EARLY_DATA_END"
         ELSE IF conf.compat[Client] /\ t.hello_retry_request = "NONE"
         THEN "CW_CHANGE"
         ELSE ClientAnswer(t)
    [] t.hand_state = "PENDING_EARLY_DATA_END" ->
         IF t.early_data = "ACCEPTED" THEN "CW_END_OF_EARLY_DATA" ELSE ClientAnswer(t)
    [] t.hand_state \in {"CW_END_OF_EARLY_DATA", "CW_CHANGE"} -> ClientAnswer(t)
    [] t.hand_state = "CW_CERT" -> IF t.cert = "cert" THEN "CW_CERT_VRFY" ELSE "CW_FINISHED"
    [] t.hand_state = "CW_CERT_VRFY" -> "CW_FINISHED"
    [] t.hand_state \in {"CR_KEY_UPDATE", "CW_KEY_UPDATE", "CR_SESSION_TICKET", "CW_FINISHED"} -> "OK"
    [] t.hand_state = "OK" -> IF t.key_update # "NONE" THEN "CW_KEY_UPDATE" ELSE ToRead
    [] OTHER -> Wrong

ServerWriteTransition(t) ==
  LET flight == IF t.hello_retry_request = "PENDING"
                THEN "EARLY_DATA" ELSE "SW_ENCRYPTED_EXTENSIONS"
      ticket == IF NumTickets > t.sent_tickets THEN "SW_SESSION_TICKET" ELSE "OK"
  IN CASE t.hand_state \in {"BEFORE", "EARLY_DATA"} -> ToRead
       [] t.hand_state = "OK" ->
            IF t.key_update # "NONE" THEN "SW_KEY_UPDATE"
            ELSE IF t.pha = "REQUEST_PENDING" THEN "SW_CERT_REQ" ELSE ToRead
       [] t.hand_state = "SR_CLNT_HELLO" -> "SW_SRVR_HELLO"
       [] t.hand_state = "SW_SRVR_HELLO" ->
            IF conf.compat[Server] /\ t.hello_retry_request # "COMPLETE"
            THEN "SW_CHANGE" ELSE flight
       [] t.hand_state = "SW_CHANGE" -> flight
       [] t.hand_state = "SW_ENCRYPTED_EXTENSIONS" ->
            IF t.hit THEN "SW_FINISHED"
            ELSE IF SendCertificateRequest(t) THEN "SW_CERT_REQ" ELSE "SW_CERT"
       [] t.hand_state = "SW_CERT_REQ" -> IF t.pha = "REQUEST_PENDING" THEN "OK" ELSE "SW_CERT"
       [] t.hand_state = "SW_CERT" -> "SW_CERT_VRFY"
       [] t.hand_state = "SW_CERT_VRFY" -> "SW_FINISHED"
       [] t.hand_state = "SW_FINISHED" -> "EARLY_DATA"
       [] t.hand_state = "SR_FINISHED" ->
            IF t.pha # "REQUESTED" /\ ~t.ticket_expected THEN "OK" ELSE ticket
       [] t.hand_state = "SW_SESSION_TICKET" -> IF t.hit THEN "OK" ELSE ticket
       [] t.hand_state \in {"SR_KEY_UPDATE", "SW_KEY_UPDATE"} -> "OK"
       [] OTHER -> Wrong

WriteTransition(s) ==
  CASE s = Server -> ServerWriteTransition(tls[s])
    [] s = Client -> IF tls[s].tls13 THEN Client13WriteTransition(tls[s])
                                     ELSE ClientHelloTransition(tls[s])

\* Mutant: the answer to a request leaves the request open.
RequestStaysOpen(t) ==
  IF t.hand_state = "SW_CERT_REQ" /\ t.pha = "REQUEST_PENDING" THEN "REQUESTED" ELSE t.pha

\* The server's transitions also move its post-handshake authentication on.
PhaAfterTransition(t) ==
  CASE t.hand_state = "SW_CERT_REQ" /\ t.pha = "REQUEST_PENDING" -> "REQUESTED"
    [] t.hand_state = "SR_FINISHED" /\ t.pha = "REQUESTED" -> "EXT_RECEIVED"
    [] OTHER -> t.pha

\* Mutant: the client waits for the end of early data even when it has come.
WaitsForever(s, h) ==
  \/ h \in {"OK", "PENDING_EARLY_DATA_END"}
  \/ h = "EARLY_DATA" /\ (s = Client \/ tls[s].early_data_state = "ACCEPTING")

\* The states in which pre_work ends the call with tls_finish_handshake.
Stops(s, h) ==
  LET e == tls[s].early_data_state
  IN \/ h = "OK"
     \/ h = "EARLY_DATA" /\ (s = Client \/ e = "ACCEPTING")
     \/ h = "PENDING_EARLY_DATA_END" /\ e \notin {"FINISHED_WRITING", "NONE"}

\* tls3_MT_DUMMY: states without a message.
Dummies == {"EARLY_DATA", "PENDING_EARLY_DATA_END"}

\* Mutant: the first handshake is not told from a later one.
HandshakeKeyAgain(s, t) ==
  IF s = Client /\ t.hand_state \in {"CW_CERT", "CW_FINISHED"} THEN HandshakeKey ELSE t.wkey

\* The key that is installed while the message is constructed, or the old one.
KeyOfMessage(s, t) ==
  IF /\ s = Client
     /\ \/ t.hand_state = "CW_CERT" /\ FirstHandshake(t)
        \/ t.hand_state = "CW_FINISHED" /\ t.cert = "none"
  THEN HandshakeKey ELSE t.wkey

\* What the construct function puts into the message.
MessageOf(t) ==
  CASE t.hand_state = "CW_CLNT_HELLO" ->
         <<"CLIENT_HELLO", IF t.early_data_state = "CONNECTING" THEN "early" ELSE "none">>
    [] t.hand_state = "SW_SRVR_HELLO" ->
         <<"SERVER_HELLO", IF t.hello_retry_request = "PENDING" THEN "retry"
                           ELSE IF t.hit THEN "hit" ELSE "full">>
    [] t.hand_state = "SW_ENCRYPTED_EXTENSIONS" ->
         <<"ENCRYPTED_EXTENSIONS", IF t.early_data = "ACCEPTED" THEN "early" ELSE "none">>
    [] t.hand_state \in {"CW_CHANGE", "SW_CHANGE"} -> <<"CCS", "none">>
    [] t.hand_state = "CW_END_OF_EARLY_DATA" -> <<"END_OF_EARLY_DATA", "none">>
    [] t.hand_state = "SW_CERT_REQ" -> <<"CERTIFICATE_REQUEST", "none">>
    [] t.hand_state = "CW_CERT" -> <<"CERTIFICATE", t.cert>>
    [] t.hand_state = "SW_CERT" -> <<"CERTIFICATE", "cert">>
    [] t.hand_state \in {"CW_CERT_VRFY", "SW_CERT_VRFY"} -> <<"CERTIFICATE_VERIFY", "none">>
    [] t.hand_state \in {"CW_FINISHED", "SW_FINISHED"} -> <<"FINISHED", "none">>
    [] t.hand_state = "SW_SESSION_TICKET" -> <<"NEWSESSION_TICKET", "none">>
    [] t.hand_state \in {"CW_KEY_UPDATE", "SW_KEY_UPDATE"} -> <<"KEY_UPDATE", t.key_update>>

\* Construction and post_work of the client, the message being sent.
ClientSent(t) ==
  LET early == t.early_data_state = "CONNECTING"
  IN CASE t.hand_state = "CW_CLNT_HELLO" ->
            [t EXCEPT !.wkey = IF early /\ ~conf.compat[Client] THEN EarlyKey ELSE @,
                      !.early_data = IF early THEN "REJECTED" ELSE @,
                      !.pha = IF conf.pha THEN "EXT_SENT" ELSE @]
       [] t.hand_state = "CW_CHANGE" ->
            [t EXCEPT !.wkey = IF ~t.tls13 /\ t.hello_retry_request # "PENDING" /\ early
                               THEN EarlyKey ELSE @]
       [] t.hand_state = "CW_END_OF_EARLY_DATA" ->
            [t EXCEPT !.wkey = Plain, !.early_data_state = "FINISHED_WRITING"]
       [] t.hand_state = "CW_FINISHED" ->
            [t EXCEPT !.wkey = IF t.pha = "REQUESTED" THEN KeyOfMessage(Client, t)
                                                      ELSE ApplicationKey,
                      !.fin = @ \cup {"own"}]
       [] t.hand_state = "CW_KEY_UPDATE" ->
            [t EXCEPT !.key_update = "NONE", !.wkey = @ + 1]
       [] OTHER -> [t EXCEPT !.wkey = KeyOfMessage(Client, t)]

\* Mutant: only the read key is changed.
ReadKeyInstalled(t) == [t EXCEPT !.rkey = IF t.early_data = "ACCEPTED" THEN @ ELSE HandshakeKey]

\* Both handshake keys of the server, but it goes on reading early data.
HandshakeKeysInstalled(t) ==
  [t EXCEPT !.wkey = HandshakeKey,
            !.rkey = IF t.early_data = "ACCEPTED" THEN @ ELSE HandshakeKey]

\* The same for the server: it gives up its session with a HelloRetryRequest.
ServerSent(t) ==
  LET retry == t.hello_retry_request = "PENDING"
  IN CASE t.hand_state = "SW_SRVR_HELLO" ->
            IF retry THEN [t EXCEPT !.hit = FALSE]
            ELSE IF conf.compat[Server] /\ t.hello_retry_request # "COMPLETE" THEN t
            ELSE HandshakeKeysInstalled(t)
       [] t.hand_state = "SW_CHANGE" -> IF retry THEN t ELSE HandshakeKeysInstalled(t)
       [] t.hand_state = "SW_CERT_REQ" -> [t EXCEPT !.cert_request = TRUE]
       [] t.hand_state = "SW_FINISHED" ->
            [t EXCEPT !.wkey = ApplicationKey, !.fin = @ \cup {"own"}]
       [] t.hand_state = "SW_SESSION_TICKET" ->
            [t EXCEPT !.sent_tickets = @ + 1,
                      !.ticket_expected = IF t.sent_tickets = 0 THEN FALSE ELSE @]
       [] t.hand_state = "SW_KEY_UPDATE" ->
            [t EXCEPT !.key_update = "NONE", !.wkey = @ + 1]
       [] OTHER -> t

\* Mutant: the server's application is told at once that early data is over.
EarlyDataOver(t) ==
  CASE t.early_data_state = "CONNECTING" -> "WRITE_RETRY"
    [] t.early_data_state = "ACCEPTING" -> "FINISHED_READING"
    [] OTHER -> t.early_data_state

\* What the interrupted tls_write_early_data or tls_read_early_data does next.
EarlyDataGoesOn(t) ==
  CASE t.early_data_state = "CONNECTING" -> "WRITE_RETRY"
    [] t.early_data_state = "ACCEPTING" ->
         IF t.early_data = "ACCEPTED" THEN "READ_RETRY" ELSE "FINISHED_READING"
    [] OTHER -> t.early_data_state

\* Mutant: the client goes on waiting for what it has answered.
RequestNotClosed(s, t) == t.pha

\* The client is ready for another request.
RequestClosed(s, t) == IF s = Client /\ t.pha = "REQUESTED" THEN "EXT_SENT" ELSE t.pha

\* tls_finish_handshake
Finished(s, t) ==
  [t EXCEPT !.flow = "idle", !.in_init = FALSE, !.pha = RequestClosed(s, t),
            !.ticket_expected = IF FirstHandshake(t) THEN @ ELSE FALSE,
            !.early_data_state = EarlyDataGoesOn(t)]

Send(s, type, key, arg) ==
  wire' = [wire EXCEPT ![s] = Append(@, [type |-> type, key |-> key, arg |-> arg])]

\* otls_statem_fatal
Fatal(t) == [t EXCEPT !.flow = "error", !.in_init = TRUE]

\* write_state_machine has nothing to write in this state, so it reads; or
\* the transition is one the code takes for impossible.
StartReading(s) ==
  /\ tls[s].flow = "writing"
  /\ WriteTransition(s) \in {ToRead, Wrong}
  /\ tls' = [tls EXCEPT ![s] = IF WriteTransition(s) = Wrong THEN Fatal(@)
                               ELSE [@ EXCEPT !.flow = "reading"]]
  /\ UNCHANGED <<conf, wire, calls, got>>

\* write_state_machine moves to a state: it ends the call there, goes on to
\* the next state, or constructs and sends the message of that state.
WriteMessage(s) ==
  /\ tls[s].flow = "writing"
  /\ LET h == WriteTransition(s)
         t == [tls[s] EXCEPT !.hand_state = h, !.pha = PhaAfterTransition(tls[s])]
     IN /\ h \notin {ToRead, Wrong}
        /\ \/ /\ Stops(s, h)
              /\ tls' = [tls EXCEPT ![s] = Finished(s, t)]
              /\ UNCHANGED wire
           \/ /\ ~Stops(s, h)
              /\ h \in Dummies
              /\ tls' = [tls EXCEPT ![s] = t]
              /\ UNCHANGED wire
           \/ /\ ~Stops(s, h)
              /\ h \notin Dummies
              /\ Send(s, MessageOf(t)[1], KeyOfMessage(s, t), MessageOf(t)[2])
              /\ tls' = [tls EXCEPT ![s] = IF s = Client THEN ClientSent(t) ELSE ServerSent(t)]
  /\ UNCHANGED <<conf, calls, got>>

-----------------------------------------------------------------------------
(***************************************************************************)
(* The read half: the state a message moves to, or Wrong.                  *)
(***************************************************************************)
ClientReadTransition(t, type) ==
  CASE type = "SERVER_HELLO" /\ t.hand_state \in {"CW_CLNT_HELLO", "EARLY_DATA"} -> "CR_SRVR_HELLO"
    [] type = "ENCRYPTED_EXTENSIONS" /\ t.hand_state = "CR_SRVR_HELLO" /\ t.tls13 ->
         "CR_ENCRYPTED_EXTENSIONS"
    [] type = "CERTIFICATE_REQUEST" /\ \/ t.hand_state = "CR_ENCRYPTED_EXTENSIONS" /\ ~t.hit
                                       \/ t.hand_state = "OK" /\ t.pha = "EXT_SENT" -> "CR_CERT_REQ"
    [] type = "CERTIFICATE" /\ \/ t.hand_state = "CR_ENCRYPTED_EXTENSIONS" /\ ~t.hit
                               \/ t.hand_state = "CR_CERT_REQ" -> "CR_CERT"
    [] type = "CERTIFICATE_VERIFY" /\ t.hand_state = "CR_CERT" -> "CR_CERT_VRFY"
    [] type = "FINISHED" /\ \/ t.hand_state = "CR_ENCRYPTED_EXTENSIONS" /\ t.hit
                            \/ t.hand_state = "CR_CERT_VRFY" -> "CR_FINISHED"
    [] type = "NEWSESSION_TICKET" /\ t.hand_state = "OK" -> "CR_SESSION_TICKET"
    [] type = "KEY_UPDATE" /\ t.hand_state = "OK" -> "CR_KEY_UPDATE"
    [] OTHER -> Wrong

ServerReadTransition(t, type) ==
  LET answer == \/ t.hand_state = "EARLY_DATA" /\ t.hello_retry_request # "PENDING"
                                               /\ t.early_data # "ACCEPTED"
                \/ t.hand_state \in {"SR_END_OF_EARLY_DATA", "SW_FINISHED"}
  IN CASE type = "CLIENT_HELLO" /\ \/ t.hand_state = "BEFORE"
                                   \/ t.hand_state = "EARLY_DATA" /\ t.hello_retry_request = "PENDING" ->
            "SR_CLNT_HELLO"
       [] type = "END_OF_EARLY_DATA" /\ t.hand_state = "EARLY_DATA"
                                     /\ t.hello_retry_request # "PENDING"
                                     /\ t.early_data = "ACCEPTED" -> "SR_END_OF_EARLY_DATA"
       [] type = "CERTIFICATE" /\ \/ answer /\ t.cert_request
                                  \/ t.hand_state = "OK" /\ t.pha = "REQUESTED" -> "SR_CERT"
       [] type = "CERTIFICATE_VERIFY" /\ t.hand_state = "SR_CERT" /\ t.cert = "cert" -> "SR_CERT_VRFY"
       [] type = "FINISHED" /\ \/ answer /\ ~t.cert_request
                               \/ t.hand_state = "SR_CERT" /\ t.cert = "empty"
                               \/ t.hand_state = "SR_CERT_VRFY" -> "SR_FINISHED"
       [] type = "KEY_UPDATE" /\ t.hand_state = "OK" -> "SR_KEY_UPDATE"
       [] OTHER -> Wrong

\* Mutant: a request is answered with a request.
AnswerInKind(t, r) ==
  [t EXCEPT !.key_update = IF r.arg = "REQUESTED" THEN "REQUESTED" ELSE @,
            !.rkey = @ + 1, !.flow = "writing"]

\* Mutant: a request is not answered.
NoAnswer(t, r) == [t EXCEPT !.rkey = @ + 1, !.flow = "writing"]

\* tls_process_key_update
KeyUpdateRead(t, r) ==
  [t EXCEPT !.key_update = IF r.arg = "REQUESTED" THEN "NOT_REQUESTED" ELSE @,
            !.rkey = @ + 1, !.flow = "writing"]

\* The application has a certificate for the server, or it has none.
CertificatePrepared(t) == {[t EXCEPT !.cert = c] : c \in {"cert", "empty"}}

\* What processing the message may make of the client, hand_state being moved.
ClientProcess(t, r) ==
  CASE r.type = "SERVER_HELLO" /\ r.arg = "retry" ->
         {[t EXCEPT !.hello_retry_request = "PENDING", !.wkey = Plain, !.flow = "writing"]}
    [] r.type = "SERVER_HELLO" /\ r.arg # "retry" ->
         {[t EXCEPT !.tls13 = TRUE, !.hit = (r.arg = "hit"), !.rkey = HandshakeKey]}
    [] r.type = "ENCRYPTED_EXTENSIONS" ->
         {[t EXCEPT !.early_data = IF r.arg = "early" THEN "ACCEPTED" ELSE @]}
    [] r.type = "CERTIFICATE_REQUEST" ->
         IF t.pha = "REQUESTED" THEN CertificatePrepared([t EXCEPT !.flow = "writing"])
         ELSE {[t EXCEPT !.cert = "cert"]}
    [] r.type = "CERTIFICATE_VERIFY" ->
         IF t.cert = "cert" THEN CertificatePrepared(t) ELSE {t}
    [] r.type = "FINISHED" ->
         {[t EXCEPT !.rkey = ApplicationKey, !.fin = @ \cup {"peer"}, !.flow = "writing"]}
    [] r.type = "NEWSESSION_TICKET" -> {[t EXCEPT !.flow = "writing"]}
    [] r.type = "KEY_UPDATE" -> {KeyUpdateRead(t, r)}
    [] OTHER -> {t}

\* final_early_data: whether the early data of the client is accepted.
EarlyDataAccepted(t) ==
  t.hit /\ t.early_data_state = "ACCEPTING" /\ t.hello_retry_request = "NONE"

\* Mutant: a second ClientHello, without early data, wipes out the first.
ForgetEarlyData(hello, r) ==
  IF r.arg # "early" THEN [hello EXCEPT !.early_data = "NOT_SENT"]
  ELSE IF EarlyDataAccepted(hello)
  THEN [hello EXCEPT !.early_data = "ACCEPTED", !.rkey = EarlyKey]
  ELSE [hello EXCEPT !.early_data = "REJECTED"]

FinalEarlyData(hello, r) ==
  IF r.arg # "early" THEN hello
  ELSE IF EarlyDataAccepted(hello)
  THEN [hello EXCEPT !.early_data = "ACCEPTED", !.rkey = EarlyKey]
  ELSE [hello EXCEPT !.early_data = "REJECTED"]

\* The ClientHello: resumption and the extensions that matter here.
ClientHelloProcessed(t, r) ==
  LET hello == [t EXCEPT !.tls13 = TRUE, !.hit = conf.psk,
                         !.hello_retry_request =
                            CASE @ = "NONE" -> IF conf.retry THEN "PENDING" ELSE @
                              [] @ = "PENDING" -> "COMPLETE",
                         !.pha = IF conf.pha THEN "EXT_RECEIVED" ELSE @,
                         !.ticket_expected = conf.ticket, !.flow = "writing"]
  IN FinalEarlyData(hello, r)

ServerProcess(t, r) ==
  CASE r.type = "CLIENT_HELLO" -> ClientHelloProcessed(t, r)
    [] r.type = "END_OF_EARLY_DATA" ->
         IF t.early_data_state # "READ_RETRY" THEN [t EXCEPT !.flow = "error"]
         ELSE [t EXCEPT !.early_data_state = "FINISHED_READING", !.rkey = HandshakeKey]
    [] r.type = "CERTIFICATE" -> [t EXCEPT !.cert = r.arg, !.sent_tickets = 0]
    [] r.type = "FINISHED" ->
         [t EXCEPT !.rkey = IF t.pha = "REQUESTED" THEN @ ELSE ApplicationKey,
                   !.fin = @ \cup {"peer"}, !.flow = "writing"]
    [] r.type = "KEY_UPDATE" -> KeyUpdateRead(t, r)
    [] OTHER -> t

\* otls_statem_skip_early_data
SkipEarlyData(s, t) ==
  /\ s = Server /\ t.early_data = "REJECTED"
  /\ t.hand_state = "EARLY_DATA" /\ t.hello_retry_request # "COMPLETE"

\* A call that reads application data is under way, outside the handshake.
ReadsData(s) ==
  LET t == tls[s]
  IN /\ t.flow = "idle" /\ ~t.in_init
     /\ \/ t.hand_state \in {"OK", "PENDING_EARLY_DATA_END"}
        \/ t.hand_state = "EARLY_DATA" /\ t.early_data_state = "READ_RETRY"

Reads(s) == tls[s].flow = "reading" \/ ReadsData(s)

NextRecord(s) == Head(wire[Peer(s)])
Consume(s) == wire' = [wire EXCEPT ![Peer(s)] = Tail(@)]

DropsCCS(s) ==
  LET t == tls[s]
  IN /\ NextRecord(s).type = "CCS" /\ NextRecord(s).key = Plain
     /\ t.tls13 \/ t.hello_retry_request # "NONE"
     /\ FirstHandshake(t)

Undecipherable(s) == NextRecord(s).key # tls[s].rkey

\* tls3_get_record: a record that is passed over, a ChangeCipherSpec of the
\* compatibility mode or early data that was rejected.
PassOver(s) ==
  /\ Reads(s) /\ wire[Peer(s)] # <<>>
  /\ \/ DropsCCS(s)
     \/ Undecipherable(s) /\ SkipEarlyData(s, tls[s])
  /\ Consume(s)
  /\ UNCHANGED <<conf, tls, calls, got>>

ReadTransition(s, type) ==
  IF s = Client THEN ClientReadTransition(tls[s], type) ELSE ServerReadTransition(tls[s], type)

\* What ends the connection: a record that cannot be deciphered, a message
\* or data that is not expected, a stray ChangeCipherSpec.
Refused(s) ==
  \/ Undecipherable(s)
  \/ NextRecord(s).type = "CCS"
  \/ tls[s].flow = "reading" /\ ReadTransition(s, NextRecord(s).type) = Wrong

\* tls3_read_bytes: application data for a call that reads it.
ReadData(s) ==
  /\ ReadsData(s) /\ wire[Peer(s)] # <<>>
  /\ NextRecord(s).type = "DATA" /\ ~Undecipherable(s)
  /\ got' = IF tls[s].early_data_state = "READ_RETRY"
            THEN [got EXCEPT ![s].early = @ + 1] ELSE [got EXCEPT ![s].data = @ + 1]
  /\ Consume(s)
  /\ UNCHANGED <<conf, tls, calls>>

\* tls3_read_bytes: a handshake message where data was to be read.  It stays
\* where it is, and the state machine is entered, which writes first.
ReadFindsMessage(s) ==
  /\ ReadsData(s) /\ wire[Peer(s)] # <<>>
  /\ NextRecord(s).type # "DATA" /\ ~Refused(s)
  /\ tls' = [tls EXCEPT ![s].in_init = TRUE, ![s].flow = "writing"]
  /\ UNCHANGED <<conf, wire, calls, got>>

\* What may become of the connection when the next record is processed.
Processed(s) ==
  LET r == NextRecord(s)
      t == [tls[s] EXCEPT !.hand_state = ReadTransition(s, r.type),
                          !.pha = IF r.type = "CERTIFICATE_REQUEST" /\ tls[s].hand_state = "OK"
                                  THEN "REQUESTED" ELSE @]
  IN CASE Refused(s) -> {Fatal(tls[s])}
       [] s = Client /\ ~Refused(s) -> ClientProcess(t, r)
       [] s = Server /\ ~Refused(s) -> {ServerProcess(t, r)}

\* read_state_machine, and tls3_read_bytes where the record is refused.
ReadMessage(s) ==
  /\ wire[Peer(s)] # <<>>
  /\ tls[s].flow = "reading" \/ (ReadsData(s) /\ Refused(s))
  /\ ~DropsCCS(s) /\ ~(Undecipherable(s) /\ SkipEarlyData(s, tls[s]))
  /\ \E t \in Processed(s) : tls' = [tls EXCEPT ![s] = t]
  /\ Consume(s)
  /\ UNCHANGED <<conf, calls, got>>

-----------------------------------------------------------------------------
(***************************************************************************)
(* The calls of the applications.                                          *)
(***************************************************************************)
Entered(t) == [t EXCEPT !.in_init = TRUE, !.flow = IF @ = "idle" THEN "writing" ELSE @]

\* tls_connect, tls_accept, or the early data calls that come before them.
Begin(s) ==
  /\ tls[s].hand_state = "BEFORE" /\ tls[s].flow = "idle"
  /\ tls' = [tls EXCEPT ![s] =
       [Entered(@) EXCEPT !.early_data_state =
          CASE s = Client /\ conf.early -> "CONNECTING"
            [] s = Server /\ conf.read_early -> "ACCEPTING"
            [] OTHER -> tls[s].early_data_state]]
  /\ UNCHANGED <<conf, wire, calls, got>>

\* tls_do_handshake (or tls_write) in the middle of early data: the client
\* has no more of it, or the server has been told that it has read all.
CompleteHandshake(s) ==
  LET t == tls[s]
  IN /\ \/ s = Client /\ t.hand_state \in {"EARLY_DATA", "PENDING_EARLY_DATA_END"}
                      /\ t.early_data_state = "WRITE_RETRY"
        \/ s = Server /\ t.hand_state = "EARLY_DATA" /\ t.flow = "idle"
                      /\ t.early_data_state = "FINISHED_READING"
     /\ t.flow # "error"
     /\ tls' = [tls EXCEPT ![s] =
          [Entered(@) EXCEPT !.early_data_state =
             IF s = Client THEN "FINISHED_WRITING" ELSE t.early_data_state]]
     /\ UNCHANGED <<conf, wire, calls, got>>

\* tls_read of the client, before the answer of the server.
ReadDuringEarlyData ==
  /\ tls[Client].hand_state = "EARLY_DATA" /\ tls[Client].flow = "idle"
  /\ tls' = [tls EXCEPT ![Client] = Entered(@)]
  /\ UNCHANGED <<conf, wire, calls, got>>

\* tls_write_early_data of the client.  In the handshake the data has to
\* wait, with early_data_state at WRITING as long as the call lasts.
WriteEarlyData ==
  LET t == tls[Client]
  IN /\ t.early_data_state = "WRITE_RETRY" /\ t.flow # "error"
     /\ calls[Client].early < MaxEarly
     /\ conf.interleave \/ (t.hand_state = "EARLY_DATA" /\ ~t.in_init)
     /\ calls' = [calls EXCEPT ![Client].early = @ + 1]
     /\ IF t.in_init
        THEN tls' = [tls EXCEPT ![Client].early_data_state = "WRITING"] /\ UNCHANGED wire
        ELSE Send(Client, "DATA", t.wkey, "early") /\ UNCHANGED tls
     /\ UNCHANGED <<conf, got>>

\* The call returns, having waited in vain or at last writing the data.
WriteEarlyDataReturns ==
  LET t == tls[Client]
  IN /\ t.early_data_state = "WRITING" /\ t.flow # "error"
     /\ tls' = [tls EXCEPT ![Client].early_data_state = "WRITE_RETRY"]
     /\ IF t.in_init
        THEN calls' = [calls EXCEPT ![Client].early = @ - 1] /\ UNCHANGED wire
        ELSE Send(Client, "DATA", t.wkey, "early") /\ UNCHANGED calls
     /\ UNCHANGED <<conf, got>>

\* tls_write_early_data of the server: data for a client that is not yet
\* authenticated, past the handshake that is under way, with the key there is.
WriteUnauthenticated ==
  LET t == tls[Server]
  IN /\ t.early_data_state \in {"READ_RETRY", "FINISHED_READING"}
     /\ ~InitFinished(t) /\ t.flow # "error"
     /\ conf.hasty \/ "own" \in t.fin
     /\ Server \in conf.data /\ calls[Server].data < MaxData
     /\ calls' = [calls EXCEPT ![Server].data = @ + 1]
     /\ Send(Server, "DATA", t.wkey, "app")
     /\ UNCHANGED <<conf, tls, got>>

\* tls_write once the handshake is over; a KeyUpdate that is due goes first.
WriteData(s) ==
  LET t == tls[s]
  IN /\ InitFinished(t) /\ t.flow = "idle"
     /\ \/ /\ t.key_update # "NONE"
           /\ tls' = [tls EXCEPT ![s] = Entered(@)]
           /\ UNCHANGED <<wire, calls>>
        \/ /\ t.key_update = "NONE" /\ s \in conf.data /\ calls[s].data < MaxData
           /\ calls' = [calls EXCEPT ![s].data = @ + 1]
           /\ Send(s, "DATA", t.wkey, "app")
           /\ UNCHANGED tls
     /\ UNCHANGED <<conf, got>>

\* tls_key_update
KeyUpdate(s) ==
  /\ conf.update /\ InitFinished(tls[s]) /\ tls[s].flow = "idle"
  /\ calls[s].updates < MaxUpdates
  /\ calls' = [calls EXCEPT ![s].updates = @ + 1]
  /\ \E updatetype \in {"NOT_REQUESTED", "REQUESTED"} :
       tls' = [tls EXCEPT ![s].in_init = TRUE, ![s].key_update = updatetype]
  /\ UNCHANGED <<conf, wire, got>>

\* tls_verify_client_post_handshake
VerifyClientPostHandshake ==
  LET t == [tls[Server] EXCEPT !.pha = "REQUEST_PENDING", !.in_init = TRUE]
  IN /\ InitFinished(tls[Server]) /\ tls[Server].flow = "idle"
     /\ tls[Server].pha = "EXT_RECEIVED"
     /\ SendCertificateRequest(t)
     /\ calls[Server].requests < MaxRequests
     /\ calls' = [calls EXCEPT ![Server].requests = @ + 1]
     /\ tls' = [tls EXCEPT ![Server] = t]
     /\ UNCHANGED <<conf, wire, got>>

\* Any call that finds in_init set after one of the two above.
Resume(s) ==
  /\ tls[s].hand_state = "OK" /\ tls[s].in_init /\ tls[s].flow = "idle"
  /\ tls' = [tls EXCEPT ![s] = Entered(@)]
  /\ UNCHANGED <<conf, wire, calls, got>>

Write(s) == StartReading(s) \/ WriteMessage(s)
Read(s) == PassOver(s) \/ ReadData(s) \/ ReadFindsMessage(s) \/ ReadMessage(s)
Call(s) == Begin(s) \/ CompleteHandshake(s) \/ WriteData(s) \/ KeyUpdate(s) \/ Resume(s)

Next ==
  \/ \E s \in Sides : Write(s) \/ Read(s) \/ Call(s)
  \/ ReadDuringEarlyData \/ WriteEarlyData \/ WriteEarlyDataReturns
  \/ WriteUnauthenticated \/ VerifyClientPostHandshake

\* Each application goes on calling: as long as its side can take a step, it
\* takes one in the end.  No call is owed that asks for something new.
Progress(s) ==
  Write(s) \/ Read(s) \/ Begin(s) \/ CompleteHandshake(s) \/ WriteData(s) \/ Resume(s)

Fairness == \A s \in Sides : WF_vars(Progress(s))

Spec == Init /\ [][Next]_vars /\ Fairness

-----------------------------------------------------------------------------
\* The types: the generations of keys stay within twice the calls of
\* tls_key_update, that is, a KeyUpdate is answered at most once.
TypeOK ==
  /\ conf \in Configurations
  /\ tls \in [Sides -> Connection]
  /\ wire \in [Sides -> Seq(Records)]
  /\ calls \in [Sides -> [early : 0..MaxEarly, data : 0..MaxData,
                          updates : 0..MaxUpdates, requests : 0..MaxRequests]]
  /\ got \in [Sides -> [early : Nat, data : Nat]]

\* Two sides of this library never break off a handshake with each other:
\* neither meets a record it cannot decipher, nor a message or data where it
\* expects another, nor a transition its state machine takes for impossible,
\* with HelloRetryRequest, early data, crossing KeyUpdates and
\* CertificateRequests after the handshake.  It fails where the client goes on
\* with early data that the server accepts, and where either application
\* writes data after a HelloRetryRequest with no key for it.
NeverFails == \A s \in Sides : tls[s].flow # "error"

\* Application data is on the wire only under an application key, or, being
\* the client's early data, under the early key; and no message but the two
\* Hellos (and the CCS) is ever sent in the clear.  It fails where either
\* application writes data after a HelloRetryRequest with no key for it.
Protected ==
  \A s \in Sides : \A i \in DOMAIN wire[s] :
    LET r == wire[s][i]
    IN /\ r.type = "DATA" => \/ r.key >= ApplicationKey
                             \/ s = Client /\ r.key = EarlyKey
       /\ r.key = Plain => r.type \in {"CCS", "CLIENT_HELLO", "SERVER_HELLO"}

\* When the server has come to the end of early data it has been given each
\* record of it the client wrote, if it accepted, and none if it did not.
EarlyDataExact ==
  tls[Server].early_data_state = "FINISHED_READING" =>
    got[Server].early = IF tls[Server].early_data = "ACCEPTED" THEN calls[Client].early ELSE 0

Count(s, type) == Cardinality({i \in DOMAIN wire[s] : wire[s][i].type = type})
One(b) == IF b THEN 1 ELSE 0

\* After the handshake at most one CertificateRequest is outstanding, and as
\* long as the server waits for the answer there is exactly one of: the
\* request on its way, the client at work on it, its Finished on its way.
OneRequest ==
  LET c == tls[Client]
      v == tls[Server]
  IN "peer" \in v.fin /\ v.flow # "error" /\ c.flow # "error" =>
       Count(Server, "CERTIFICATE_REQUEST")
         + One(c.pha = "REQUESTED" /\ c.hand_state # "CW_FINISHED")
         + Count(Client, "FINISHED")
         + One(v.hand_state = "SR_FINISHED" /\ v.pha = "REQUESTED")
       = One(v.pha = "REQUESTED" \/ v.hand_state = "SW_CERT_REQ")

\* When both sides have finished and nothing is on its way, they agree on
\* the resumption, on what became of early data, on whether the client has
\* shown a certificate and on the keys, and all data has been delivered (to
\* the server also what the client wrote as early data, but too late).
Agreement ==
  LET c == tls[Client]
      v == tls[Server]
  IN (\A s \in Sides : InitFinished(tls[s]) /\ wire[s] = <<>>) =>
       /\ c.hit = v.hit /\ c.early_data = v.early_data
       /\ c.cert = v.cert
       /\ c.wkey = v.rkey /\ c.rkey = v.wkey
       /\ got[Client].data = calls[Server].data /\ got[Server].data >= calls[Client].data

\* The handshake comes to an end on both sides.
HandshakeEnds == <>(\A s \in Sides : tls[s].hand_state = "OK" /\ ~FirstHandshake(tls[s]))

\* A KeyUpdate that asks for another makes the side that reads it change the
\* key it writes with, whatever else it is about to send.
UpdateAnswered ==
  \A s \in Sides : \A k \in ApplicationKey .. ApplicationKey + 2 * MaxUpdates - 1 :
    (/\ wire[s] # <<>> /\ tls[Peer(s)].wkey = k
     /\ Head(wire[s]).type = "KEY_UPDATE" /\ Head(wire[s]).arg = "REQUESTED")
      ~> tls[Peer(s)].wkey > k

\* A request for a certificate after the handshake is answered.
RequestAnswered ==
  tls[Server].pha = "REQUESTED" ~> tls[Server].pha = "EXT_RECEIVED"

=============================================================================
