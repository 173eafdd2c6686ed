------------------------ MODULE Tls13Agreement_proofs ------------------------
(***************************************************************************)
(* That two sides of this library never fail with each other, and agree:   *)
(* NeverFails, EarlyDataExact, OneRequest and Agreement of Tls13Handshake, *)
(* for every set of configurations and all bounds.                         *)
(*                                                                         *)
(* All four follow from one invariant of both sides and of what is on its  *)
(* way between them.  Each side's state says where it is as a reader, and  *)
(* where what it has sent will have taken its peer: a place, which is what *)
(* was read last, the key that is read with and, for the server, the       *)
(* certificate it was shown.  The records on their way are a path: one     *)
(* after the other, they lead the reader from where it is to where the     *)
(* writer has taken it.  Writing makes the path longer at its end, reading *)
(* makes it shorter at its start, and the calls leave it alone; so the     *)
(* next record is always one the reader expects where it is, under the key *)
(* it reads with.                                                          *)
(***************************************************************************)
EXTENDS Tls13Handshake_proofs

\* The server accepts the early data of the client.
Accepts(f) == f.early /\ f.psk /\ f.read_early /\ ~ f.retry

\* It asks for a certificate in the handshake.
Asks(f) == f.verify = "hand" /\ ~ f.psk

\* What becomes of early data.
Fate(f) == IF Accepts(f) THEN "ACCEPTED" ELSE IF f.early THEN "REJECTED" ELSE "NOT_SENT"

\* Where a reader is: what it has read last, the key it reads with and the certificate it
\* has been shown.
Places ==
  [at : {"HELLO", "AGAIN", "CR_SRVR_HELLO", "CR_ENCRYPTED_EXTENSIONS", "CR_CERT_REQ", "CR_CERT",
         "CR_CERT_VRFY", "APP", "EARLY", "ANSWER", "SR_CERT", "SR_CERT_VRFY"},
   key : Nat, cert : {"none", "cert", "empty"}]

Place(a, k, x) == [at |-> a, key |-> k, cert |-> x]

\* The record r of the server takes the client from place a to place b.
ServerSays(f, a, r, b) ==
  LET goes(from, k, to, j) == a.at \in from /\ r.key = k /\ b = Place(to, j, "none")
      H == HandshakeKey
  IN CASE r.type = "SERVER_HELLO" ->
            \/ r.arg = "retry" /\ f.retry /\ goes({"HELLO"}, Plain, "AGAIN", Plain)
            \/ /\ r.arg = IF f.psk THEN "hit" ELSE "full"
               /\ goes({IF f.retry THEN "AGAIN" ELSE "HELLO"}, Plain, "CR_SRVR_HELLO", H)
       [] r.type = "CCS" -> a.at \in {"AGAIN", "CR_SRVR_HELLO"} /\ r.key = Plain /\ b = a
       [] r.type = "ENCRYPTED_EXTENSIONS" ->
            /\ r.arg = IF Accepts(f) THEN "early" ELSE "none"
            /\ goes({"CR_SRVR_HELLO"}, H, "CR_ENCRYPTED_EXTENSIONS", H)
       [] r.type = "CERTIFICATE_REQUEST" ->
            \/ Asks(f) /\ goes({"CR_ENCRYPTED_EXTENSIONS"}, H, "CR_CERT_REQ", H)
            \/ f.pha /\ goes({"APP"}, a.key, "APP", a.key)
       [] r.type = "CERTIFICATE" ->
            /\ ~ f.psk
            /\ goes({IF Asks(f) THEN "CR_CERT_REQ" ELSE "CR_ENCRYPTED_EXTENSIONS"}, H, "CR_CERT", H)
       [] r.type = "CERTIFICATE_VERIFY" -> goes({"CR_CERT"}, H, "CR_CERT_VRFY", H)
       [] r.type = "FINISHED" ->
            goes({IF f.psk THEN "CR_ENCRYPTED_EXTENSIONS" ELSE "CR_CERT_VRFY"}, H,
                 "APP", ApplicationKey)
       [] r.type \in {"DATA", "NEWSESSION_TICKET"} -> goes({"APP"}, a.key, "APP", a.key)
       [] r.type = "KEY_UPDATE" -> goes({"APP"}, a.key, "APP", a.key + 1)
       [] OTHER -> FALSE

\* The record r of the client takes the server from place a to place b.
ClientSays(f, a, r, b) ==
  LET after == IF Accepts(f) THEN Place("EARLY", EarlyKey, "none")
               ELSE Place("ANSWER", HandshakeKey, "none")
  IN CASE r.type = "CLIENT_HELLO" ->
            /\ r.key = Plain
            /\ \/ /\ a.at = "HELLO" /\ r.arg = IF f.early THEN "early" ELSE "none"
                  /\ b = IF f.retry THEN Place("AGAIN", Plain, "none") ELSE after
               \/ a.at = "AGAIN" /\ r.arg = "none" /\ b = after
       [] r.type = "CCS" ->
            /\ b = a
            /\ \/ r.key = Plain /\ a.at \in {"AGAIN", "EARLY", "ANSWER"}
               \/ r.key = EarlyKey /\ a.at = "ANSWER" /\ Fate(f) = "REJECTED" /\ ~ f.retry
       [] r.type = "DATA" ->
            /\ b = a
            /\ \/ r.key = EarlyKey /\ r.arg = "early"
                  /\ \/ a.at = "AGAIN" /\ a.key = Plain /\ f.early
                     \/ a.at = "EARLY" /\ a.key = EarlyKey
                     \/ a.at = "ANSWER" /\ Fate(f) = "REJECTED" /\ ~ f.retry
               \/ a.at = "APP" /\ r.key = a.key
       [] r.type = "END_OF_EARLY_DATA" ->
            r.key = EarlyKey /\ a.at = "EARLY" /\ b = Place("ANSWER", HandshakeKey, "none")
       [] r.type = "CERTIFICATE" ->
            /\ r.key = a.key /\ r.arg \in {"cert", "empty"}
            /\ \/ a.at = "ANSWER" /\ Asks(f)
               \/ a.at = "APP" /\ f.pha
            /\ b = Place("SR_CERT", a.key, r.arg)
       [] r.type = "CERTIFICATE_VERIFY" ->
            r.key = a.key /\ a.at = "SR_CERT" /\ a.cert = "cert"
              /\ b = Place("SR_CERT_VRFY", a.key, a.cert)
       [] r.type = "FINISHED" ->
            /\ r.key = a.key
            /\ \/ a.at = "ANSWER" /\ ~ Asks(f)
               \/ a.at = "SR_CERT" /\ a.cert = "empty"
               \/ a.at = "SR_CERT_VRFY"
            /\ b = Place("APP", IF a.key = HandshakeKey THEN ApplicationKey ELSE a.key, a.cert)
       [] r.type = "KEY_UPDATE" ->
            a.at = "APP" /\ r.key = a.key /\ b = Place("APP", a.key + 1, a.cert)
       [] OTHER -> FALSE

Says(f, s, a, r, b) == IF s = Server THEN ServerSays(f, a, r, b) ELSE ClientSays(f, a, r, b)

\* Reading the records q of side s takes its peer from place a to place b.
Path(f, s, q, a, b) ==
  \E g \in [1 .. Len(q) + 1 -> Places] :
    /\ g[1] = a /\ g[Len(q) + 1] = b
    /\ \A i \in 1 .. Len(q) : Says(f, s, g[i], q[i], g[i + 1])
    /\ \A i, j \in 1 .. Len(q) + 1 : i <= j => g[i].key <= g[j].key

\* Where the client is as a reader.
ClientPlace(c) ==
  Place(IF "peer" \in c.fin THEN "APP"
        ELSE IF c.tls13 THEN c.hand_state
        ELSE IF c.hello_retry_request = "NONE" THEN "HELLO" ELSE "AGAIN",
        c.rkey, "none")

\* Where what the server has sent takes the client.
ServerSaid(v) ==
  LET h == v.hand_state
      retry == v.hello_retry_request = "PENDING"
  IN IF "own" \in v.fin THEN Place("APP", v.wkey, "none")
     ELSE IF h \in {"SW_SRVR_HELLO", "SW_CHANGE"} /\ ~ retry
     THEN Place("CR_SRVR_HELLO", HandshakeKey, "none")
     ELSE IF h = "SW_ENCRYPTED_EXTENSIONS" THEN Place("CR_ENCRYPTED_EXTENSIONS", HandshakeKey, "none")
     ELSE IF h = "SW_CERT_REQ" THEN Place("CR_CERT_REQ", HandshakeKey, "none")
     ELSE IF h = "SW_CERT" THEN Place("CR_CERT", HandshakeKey, "none")
     ELSE IF h = "SW_CERT_VRFY" THEN Place("CR_CERT_VRFY", HandshakeKey, "none")
     ELSE IF (h # "SR_CLNT_HELLO" /\ retry) \/ v.hello_retry_request = "COMPLETE"
     THEN Place("AGAIN", Plain, "none")
     ELSE Place("HELLO", Plain, "none")

\* Where the server is as a reader.
ServerPlace(f, v) ==
  LET h == v.hand_state
  IN IF h = "BEFORE" THEN Place("HELLO", Plain, v.cert)
     ELSE IF h \in {"SR_CERT", "SR_CERT_VRFY"} THEN Place(h, v.rkey, v.cert)
     ELSE IF "peer" \in v.fin THEN Place("APP", v.rkey, v.cert)
     ELSE IF v.hello_retry_request = "PENDING" THEN Place("AGAIN", Plain, v.cert)
     ELSE IF Accepts(f) /\ h # "SR_END_OF_EARLY_DATA" THEN Place("EARLY", EarlyKey, v.cert)
     ELSE Place("ANSWER", HandshakeKey, v.cert)

\* The client has not sent the ClientHello that answers a HelloRetryRequest.
Awaited(f, c) ==
  f.retry /\ ~ c.tls13 /\ ~ (c.hand_state = "CW_CLNT_HELLO" /\ c.hello_retry_request = "PENDING")

\* Where what the client has sent takes the server; x is the certificate it has shown.
ClientSaid(f, c, x) ==
  LET h == c.hand_state
  IN IF h = "BEFORE" THEN Place("HELLO", Plain, x)
     ELSE IF h = "CW_CERT" THEN Place("SR_CERT", c.wkey, x)
     ELSE IF h = "CW_CERT_VRFY" THEN Place("SR_CERT_VRFY", c.wkey, x)
     ELSE IF "own" \in c.fin THEN Place("APP", c.wkey, x)
     ELSE IF Awaited(f, c) THEN Place("AGAIN", Plain, x)
     ELSE IF Accepts(f) /\ h # "CW_END_OF_EARLY_DATA" THEN Place("EARLY", EarlyKey, x)
     ELSE Place("ANSWER", HandshakeKey, x)

\* The certificate the client has shown.
Shown(c, x) ==
  /\ x \in {"none", "cert", "empty"}
  /\ IF c.hand_state \in {"CW_CERT", "CW_CERT_VRFY"} \/ "own" \in c.fin
     THEN x = c.cert \/ c.hand_state = "CR_CERT_REQ" ELSE x = "none"

-----------------------------------------------------------------------------
\* The client by itself: the states in which it reads the handshake of the server.
ServerFlight ==
  {"CR_SRVR_HELLO", "CR_ENCRYPTED_EXTENSIONS", "CR_CERT_REQ", "CR_CERT", "CR_CERT_VRFY"}

\* The call that is under way.
ClientCall(c) ==
  LET h == c.hand_state
      fl == c.flow
  IN /\ fl # "error"
     /\ fl = "idle" => h \in {"BEFORE", "OK", "EARLY_DATA", "PENDING_EARLY_DATA_END"}
     /\ fl = "idle" /\ c.in_init => h \in {"BEFORE", "OK"}
     /\ fl = "reading" => \/ h \in {"CW_CLNT_HELLO", "EARLY_DATA"}
                          \/ h \in ServerFlight /\ c.tls13 /\ "peer" \notin c.fin
                          \/ h = "OK"
     /\ fl = "writing" => \/ h \notin ServerFlight
                          \/ h = "CR_SRVR_HELLO" /\ ~ c.tls13
                          \/ h = "CR_CERT_REQ" /\ c.pha = "REQUESTED"

\* How far it has come.
ClientFar(c) ==
  LET h == c.hand_state
      hello == {"BEFORE", "CW_CLNT_HELLO", "EARLY_DATA"}
  IN /\ c.tls13 => h \notin hello
     /\ ~ c.tls13 => /\ h \in hello \cup {"CW_CHANGE", "CR_SRVR_HELLO"}
                     /\ c.fin = {} /\ c.rkey = Plain /\ c.cert = "none"
     /\ c.tls13 /\ "peer" \notin c.fin =>
          h \in ServerFlight /\ c.rkey = HandshakeKey /\ "own" \notin c.fin
     /\ "peer" \in c.fin => (h \notin ServerFlight \/ c.pha = "REQUESTED") /\ c.rkey >= ApplicationKey
     /\ c.pha = "REQUESTED" => h \in {"CR_CERT_REQ", "CW_CERT", "CW_CERT_VRFY", "CW_FINISHED"}

\* What the Hellos have settled.
ClientKnows(f, c) ==
  LET h == c.hand_state
      retried == c.hello_retry_request = "PENDING"
  IN /\ c.tls13 => c.hit = f.psk
     /\ c.hello_retry_request \in {"NONE", "PENDING"}
     /\ retried => f.retry
     /\ c.tls13 /\ f.retry => retried
     /\ h \in {"BEFORE", "EARLY_DATA"} => ~ retried
     /\ h = "CR_SRVR_HELLO" /\ ~ c.tls13 => retried
     /\ h = "CW_CHANGE" /\ ~ c.tls13 => retried \/ c.early_data_state = "CONNECTING"
     /\ c.pha \in IF h # "BEFORE" /\ f.pha THEN {"EXT_SENT", "REQUESTED"} ELSE {"NONE"}

\* Early data.
ClientData(f, c) ==
  LET h == c.hand_state
      e == c.early_data_state
      retried == c.hello_retry_request = "PENDING"
  IN /\ e \in {"NONE", "CONNECTING"} \cup Opened
     /\ e # "NONE" => f.early
     /\ f.early /\ e = "NONE" => h = "BEFORE" /\ c.flow = "idle"
     /\ e = "CONNECTING" => /\ h \in {"BEFORE", "CW_CLNT_HELLO", "CW_CHANGE"} /\ c.flow = "writing"
                            /\ ~ retried /\ ~ c.tls13
     /\ e \in Opened /\ ~ retried =>
          /\ h \notin {"BEFORE", "CW_CLNT_HELLO"}
          /\ h = "CW_CHANGE" => c.tls13
     /\ e = "WRITING" => ~ f.retry /\ ~ Accepts(f)
     /\ h = "CW_CHANGE" /\ c.tls13 => ~ Accepts(f)
     /\ c.early_data = IF h = "BEFORE" THEN "NOT_SENT"
                       ELSE IF f.early /\ (~ c.tls13 \/ h = "CR_SRVR_HELLO") THEN "REJECTED"
                       ELSE Fate(f)

\* Its certificate.
ClientCert(f, c) ==
  LET h == c.hand_state
  IN /\ c.tls13 /\ "own" \notin c.fin =>
          (c.cert # "none" <=> Asks(f) /\ h \notin {"CR_SRVR_HELLO", "CR_ENCRYPTED_EXTENSIONS"})
     /\ h \in {"CR_CERT_REQ", "CR_CERT"} /\ "own" \notin c.fin => c.cert \in {"none", "cert"}
     /\ h \in {"CW_CERT", "CW_CERT_VRFY"} => c.cert # "none"
     /\ h = "CW_CERT_VRFY" => c.cert = "cert"

\* The key it writes with until its Finished.
ClientKey(f, c) ==
  LET h == c.hand_state
      retried == c.hello_retry_request = "PENDING"
  IN /\ h \in {"CW_CERT", "CW_CERT_VRFY"} /\ "own" \notin c.fin => c.wkey = HandshakeKey
     /\ h \notin {"CW_CERT", "CW_CERT_VRFY"} /\ "own" \notin c.fin => c.wkey \in {Plain, EarlyKey}
     /\ "own" \notin c.fin /\ c.wkey = EarlyKey => f.early /\ ~ retried
     /\ h = "BEFORE" => c.wkey = Plain
     /\ h = "CW_CLNT_HELLO" /\ f.compat[Client] => c.wkey = Plain

ClientAt(f, c) ==
  /\ ClientCall(c) /\ ClientFar(c) /\ ClientKnows(f, c) /\ ClientData(f, c)
  /\ ClientCert(f, c) /\ ClientKey(f, c)

\* The server by itself.
ServerAnswer == {"SR_CERT", "SR_CERT_VRFY"}
ServerLate == {"OK", "SR_FINISHED", "SW_SESSION_TICKET", "SW_KEY_UPDATE", "SR_KEY_UPDATE"}
ServerHellos == {"SR_CLNT_HELLO", "SW_SRVR_HELLO", "SW_CHANGE"}

ServerCall(v) ==
  LET h == v.hand_state
      fl == v.flow
  IN /\ fl # "error"
     /\ fl # "idle" => v.in_init
     /\ fl = "idle" => h \in {"BEFORE", "OK", "EARLY_DATA"}
     /\ fl = "idle" /\ v.in_init => h \in {"BEFORE", "OK"}
     /\ fl = "reading" => h \in {"BEFORE", "EARLY_DATA", "SR_END_OF_EARLY_DATA", "OK"} \cup ServerAnswer
     /\ fl = "writing" => h \notin {"SR_END_OF_EARLY_DATA"} \cup ServerAnswer
     /\ h = "BEFORE" => v.in_init

ServerKnows(f, v) ==
  LET h == v.hand_state
      retry == v.hello_retry_request = "PENDING"
  IN /\ v.tls13 <=> h # "BEFORE"
     /\ ~ f.retry \/ h = "BEFORE" => v.hello_retry_request = "NONE"
     /\ f.retry /\ h # "BEFORE" => v.hello_retry_request # "NONE"
     /\ retry => h \in ServerHellos \cup {"EARLY_DATA"}
     /\ h = "BEFORE" => v.fin = {} /\ ~ v.cert_request /\ v.pha = "NONE"
     /\ h # "BEFORE" /\ ~ retry => v.hit = f.psk

ServerFar(v) ==
  LET h == v.hand_state
  IN /\ "peer" \in v.fin => h \in ServerLate \cup ServerAnswer \cup {"SW_CERT_REQ"} /\ "own" \in v.fin
     /\ h \in ServerLate => "peer" \in v.fin
     /\ "peer" \in v.fin /\ h \in ServerAnswer \cup {"SW_CERT_REQ"} =>
          v.pha = IF h = "SW_CERT_REQ" THEN "REQUEST_PENDING" ELSE "REQUESTED"
     /\ "own" \in v.fin => h \in {"SW_FINISHED", "EARLY_DATA", "SR_END_OF_EARLY_DATA", "SW_CERT_REQ"}
                                  \cup ServerLate \cup ServerAnswer
     /\ "own" \notin v.fin =>
          h \notin {"SW_FINISHED", "SR_END_OF_EARLY_DATA"} \cup ServerLate \cup ServerAnswer
     /\ h = "EARLY_DATA" /\ "own" \notin v.fin => v.hello_retry_request = "PENDING"

ServerData(f, v) ==
  LET h == v.hand_state
      e == v.early_data_state
  IN /\ v.early_data = IF h = "BEFORE" THEN "NOT_SENT" ELSE Fate(f)
     /\ e \in {"NONE", "ACCEPTING", "READ_RETRY", "FINISHED_READING"}
     /\ e # "NONE" => f.read_early
     /\ h = "BEFORE" => e # "FINISHED_READING"
     /\ f.read_early /\ e = "NONE" => h = "BEFORE" /\ v.flow = "idle"
     /\ f.read_early /\ h = "BEFORE" /\ v.flow # "idle" => e = "ACCEPTING"
     /\ e = "ACCEPTING" =>
          "peer" \notin v.fin /\ h \notin {"EARLY_DATA", "SR_END_OF_EARLY_DATA"} \cup ServerAnswer
     /\ f.read_early /\ ~ f.retry /\ "peer" \notin v.fin =>
          e = "ACCEPTING" \/ h \in {"BEFORE", "EARLY_DATA", "SR_END_OF_EARLY_DATA"} \cup ServerAnswer
     /\ Accepts(f) /\ "peer" \notin v.fin /\ h = "EARLY_DATA" => e = "READ_RETRY"
     /\ e = "READ_RETRY" => Accepts(f) /\ h = "EARLY_DATA"
     /\ h = "SR_END_OF_EARLY_DATA" => Accepts(f)

ServerAsks(f, v) ==
  LET h == v.hand_state
      late == {"OK", "SW_KEY_UPDATE", "SR_KEY_UPDATE"}
  IN /\ h # "BEFORE" => (f.pha <=> v.pha # "NONE")
     /\ v.pha # "EXT_SENT"
     /\ "peer" \notin v.fin => v.pha \in {"NONE", "EXT_RECEIVED"}
     /\ v.pha = "REQUEST_PENDING" => h \in late \cup {"SW_CERT_REQ"}
     /\ v.pha = "REQUESTED" => h \in late \cup {"SR_FINISHED"} \cup ServerAnswer
     /\ "peer" \notin v.fin =>
          (v.cert_request <=>
             /\ Asks(f) /\ h \notin {"BEFORE", "SW_ENCRYPTED_EXTENSIONS"} \cup ServerHellos
             /\ v.hello_retry_request # "PENDING")
     /\ h = "SW_CERT_REQ" /\ "peer" \notin v.fin => Asks(f)
     /\ h \in {"SW_CERT", "SW_CERT_VRFY"} => ~ f.psk
     /\ h = "SR_CERT" => v.cert # "none"
     /\ h = "SR_CERT_VRFY" => v.cert = "cert"
     /\ "peer" \notin v.fin => IF h \in ServerAnswer THEN Asks(f) ELSE v.cert = "none"

ServerKey(f, v) ==
  LET h == v.hand_state
      retry == v.hello_retry_request = "PENDING"
  IN /\ h \in {"BEFORE", "SR_CLNT_HELLO"} \/ retry => v.wkey = Plain
     /\ h = "BEFORE" \/ retry => v.rkey = Plain
     /\ h = "SW_SRVR_HELLO" /\ ~ retry =>
          v.wkey = IF f.compat[Server] /\ v.hello_retry_request = "NONE" THEN Plain ELSE HandshakeKey
     /\ h \in {"SW_CHANGE", "SW_ENCRYPTED_EXTENSIONS", "SW_CERT_REQ", "SW_CERT", "SW_CERT_VRFY"}
        /\ "own" \notin v.fin /\ ~ retry => v.wkey = HandshakeKey
     /\ "peer" \notin v.fin /\ Accepts(f) =>
          v.rkey = EarlyKey \/ h \in {"BEFORE", "SR_END_OF_EARLY_DATA"} \cup ServerAnswer
     /\ "peer" \notin v.fin /\ ~ Accepts(f) /\ ~ retry /\ v.wkey # Plain => v.rkey = HandshakeKey
     /\ "peer" \notin v.fin /\ h \in {"SR_END_OF_EARLY_DATA"} \cup ServerAnswer => v.rkey = HandshakeKey
     /\ "peer" \in v.fin => v.rkey >= ApplicationKey

ServerAt(f, v) ==
  /\ ServerCall(v) /\ ServerKnows(f, v) /\ ServerFar(v) /\ ServerData(f, v)
  /\ ServerAsks(f, v) /\ ServerKey(f, v)

\* A side that has found a message instead of data still finds it.
Message(q) == q # << >> /\ Head(q).type \notin {"DATA", "CCS"}

Finds(t, q) ==
  /\ t.hand_state = "OK" /\ t.flow = "idle" /\ t.in_init
       => t.key_update # "NONE" \/ t.pha = "REQUEST_PENDING"
  /\ t.hand_state = "OK" /\ t.flow = "writing" =>
       t.key_update # "NONE" \/ t.pha = "REQUEST_PENDING" \/ Message(q)
  /\ t.hand_state = "OK" /\ t.flow = "reading" => Message(q)
  /\ t.early_data_state = "READ_RETRY" /\ t.flow # "idle" => Message(q)

\* Requests after the handshake
LateRequests == {r \in Rec : r.type = "CERTIFICATE_REQUEST" /\ r.key >= ApplicationKey}
LateAnswers == {r \in Rec : r.type = "FINISHED" /\ r.key >= ApplicationKey}
Answers(c) == c.pha = "REQUESTED" /\ c.hand_state # "CW_FINISHED"
Waiting(v) == v.pha = "REQUESTED" \/ (v.hand_state = "SW_CERT_REQ" /\ "own" \in v.fin)

Served(v) == v.hand_state = "SR_FINISHED" /\ v.pha = "REQUESTED"

\* What the server waits for, beyond what has come, grows by n.
WaitsFor(v, u, n) == One(Waiting(u)) + One(Served(v)) = One(Waiting(v)) + One(Served(u)) + n

RequestsOf(c, v, cq, vq) ==
  /\ HowMany(vq, LateRequests) + One(Answers(c)) + HowMany(cq, LateAnswers)
       + One(Served(v)) = One(Waiting(v))
  /\ \A i \in DOMAIN cq : cq[i].type = "CERTIFICATE" /\ cq[i].key >= ApplicationKey =>
       Answers(c) \/ \E j \in DOMAIN cq : j > i /\ cq[j] \in LateAnswers

\* Data
Data == {r \in Rec : r.type = "DATA"}
EarlyData == {r \in Rec : r.type = "DATA" /\ r.key = EarlyKey}
AppData == {r \in Rec : r.type = "DATA" /\ r.key # EarlyKey}

DataOf(f) ==
  /\ got[Client].data + HowMany(wire[Server], Data) = calls[Server].data
  /\ got[Server].data + HowMany(wire[Client], AppData) >= calls[Client].data
  /\ Accepts(f) => got[Server].early + HowMany(wire[Client], EarlyData) = calls[Client].early
  /\ ~ Accepts(f) => got[Server].early = 0

\* What the client has said leads from where the server is to where the client is, and the
\* other way round.
ClientPath(f, c, v, q) ==
  \E x : Shown(c, x) /\ Path(f, Client, q, ServerPlace(f, v), ClientSaid(f, c, x))

ServerPath(c, v, q, f) == Path(f, Server, q, ClientPlace(c), ServerSaid(v))

Joint ==
  /\ ClientAt(conf, tls[Client]) /\ ServerAt(conf, tls[Server])
  /\ ClientPath(conf, tls[Client], tls[Server], wire[Client])
  /\ ServerPath(tls[Client], tls[Server], wire[Server], conf)
  /\ Finds(tls[Client], wire[Server]) /\ Finds(tls[Server], wire[Client])
  /\ RequestsOf(tls[Client], tls[Server], wire[Client], wire[Server])
  /\ DataOf(conf)

\* The client says nothing, or the record r, as it becomes u.
ClientSilent(f, c, u) ==
  \A x : Shown(c, x) => Shown(u, x) /\ ClientSaid(f, u, x) = ClientSaid(f, c, x)

ClientSpeaks(f, c, r, u) ==
  \A x : Shown(c, x) =>
    \E y : /\ Shown(u, y) /\ ClientSaid(f, u, y) \in Places
           /\ ClientSays(f, ClientSaid(f, c, x), r, ClientSaid(f, u, y))
           /\ ClientSaid(f, c, x).key <= ClientSaid(f, u, y).key

\* The client, or the server, takes the record r and becomes u.
ClientTakes(f, c, r, u) == \A d : ServerSays(f, ClientPlace(c), r, d) => ClientPlace(u) = d
ServerTakes(f, v, r, u) == \A d : ClientSays(f, ServerPlace(f, v), r, d) => ServerPlace(f, u) = d

ServerSpeaks(f, v, r, u) ==
  /\ ServerSaid(u) \in Places /\ ServerSays(f, ServerSaid(v), r, ServerSaid(u))
  /\ ServerSaid(v).key <= ServerSaid(u).key

(***************************************************************************)
(* Paths                                                                   *)
(***************************************************************************)
\* A path leads from a place to one no earlier.
LEMMA PathTypes ==
  ASSUME NEW f, NEW s, NEW q \in Seq(Rec), NEW a, NEW b, Path(f, s, q, a, b)
  PROVE  a \in Places /\ b \in Places /\ a.key <= b.key
<1>1. PICK g \in [1 .. Len(q) + 1 -> Places] :
        /\ g[1] = a /\ g[Len(q) + 1] = b
        /\ \A i, j \in 1 .. Len(q) + 1 : i <= j => g[i].key <= g[j].key
  BY DEF Path
<1>2. 1 \in 1 .. Len(q) + 1 /\ Len(q) + 1 \in 1 .. Len(q) + 1 /\ 1 <= Len(q) + 1
  OBVIOUS
<1> QED BY <1>1, <1>2

\* Nothing on its way: the reader is where the sender has taken it.
LEMMA PathEmpty ==
  ASSUME NEW f, NEW s, NEW a
  PROVE  /\ a \in Places => Path(f, s, << >>, a, a)
         /\ \A b : Path(f, s, << >>, a, b) => a = b
<1>1. ASSUME a \in Places PROVE Path(f, s, << >>, a, a)
  <2> DEFINE g == [i \in 1 .. 1 |-> a]
  <2>1. g \in [1 .. Len(<< >>) + 1 -> Places] /\ g[1] = a /\ g[Len(<< >>) + 1] = a
    BY <1>1
  <2>2. a.key <= a.key
    BY <1>1 DEF Places
  <2>3. \A i \in 1 .. Len(<< >>) : Says(f, s, g[i], << >>[i], g[i + 1])
    OBVIOUS
  <2>4. \A i, j \in 1 .. Len(<< >>) + 1 : i <= j => g[i].key <= g[j].key
    BY <2>2
  <2> HIDE DEF g
  <2> QED BY <2>1, <2>3, <2>4 DEF Path
<1> QED BY <1>1 DEF Path

\* One more is sent.
LEMMA PathAppend ==
  ASSUME NEW f, NEW s, NEW q \in Seq(Rec), NEW r \in Rec, NEW a, NEW b, NEW d \in Places,
         Path(f, s, q, a, b), Says(f, s, b, r, d), b.key <= d.key
  PROVE  Path(f, s, Append(q, r), a, d)
<1>1. PICK g \in [1 .. Len(q) + 1 -> Places] :
        /\ g[1] = a /\ g[Len(q) + 1] = b
        /\ \A i \in 1 .. Len(q) : Says(f, s, g[i], q[i], g[i + 1])
        /\ \A i, j \in 1 .. Len(q) + 1 : i <= j => g[i].key <= g[j].key
  BY DEF Path
<1> DEFINE n == Len(q)
           p == Append(q, r)
           k == [i \in 1 .. n + 2 |-> IF i = n + 2 THEN d ELSE g[i]]
<1>2. n \in Nat /\ Len(p) = n + 1 /\ p[n + 1] = r /\ \A i \in 1 .. n : p[i] = q[i]
  OBVIOUS
<1> HIDE DEF p, n
<1>3. k \in [1 .. n + 2 -> Places] /\ k[n + 2] = d /\ \A i \in 1 .. n + 1 : k[i] = g[i]
  BY <1>1, <1>2 DEF n
<1>4. k[1] = a /\ k[n + 1] = b
  BY <1>1, <1>2, <1>3 DEF n
<1> HIDE DEF k
<1>5. \A i \in 1 .. n + 1 : Says(f, s, k[i], p[i], k[i + 1])
  <2> SUFFICES ASSUME NEW i \in 1 .. n + 1 PROVE Says(f, s, k[i], p[i], k[i + 1])
    OBVIOUS
  <2>1. CASE i = n + 1
    BY <1>2, <1>3, <1>4, <2>1
  <2>2. CASE i # n + 1
    <3>1. i \in 1 .. n /\ i + 1 \in 1 .. n + 1 /\ i \in 1 .. n + 1
      BY <1>2, <2>2
    <3> QED BY <1>1, <1>2, <1>3, <3>1 DEF n
  <2> QED BY <2>1, <2>2
<1>6. \A i, j \in 1 .. n + 2 : i <= j => k[i].key <= k[j].key
  <2> SUFFICES ASSUME NEW i \in 1 .. n + 2, NEW j \in 1 .. n + 2, i <= j
               PROVE  k[i].key <= k[j].key
    OBVIOUS
  <2>1. \A z \in Places : z.key \in Nat
    BY DEF Places
  <2>2. k[i] \in Places /\ k[j] \in Places /\ b \in Places
    BY <1>2, <1>3, <1>4
  <2>3. CASE j # n + 2
    <3>1. i \in 1 .. n + 1 /\ j \in 1 .. n + 1
      BY <1>2, <2>3
    <3> QED BY <1>1, <1>3, <3>1 DEF n
  <2>4. CASE i = n + 2 /\ j = n + 2
    BY <2>1, <2>2, <2>4
  <2>5. CASE i # n + 2 /\ j = n + 2
    <3>1. i \in 1 .. n + 1 /\ n + 1 \in 1 .. n + 1 /\ i <= n + 1
      BY <1>2, <2>5
    <3>2. k[i].key <= b.key
      BY <1>1, <1>3, <3>1 DEF n
    <3>3. k[j] = d
      BY <1>3, <2>5
    <3> QED BY <2>1, <2>2, <3>2, <3>3
  <2> QED BY <2>3, <2>4, <2>5
<1>7. Len(p) + 1 = n + 2
  BY <1>2
<1> QED BY <1>2, <1>3, <1>4, <1>5, <1>6, <1>7 DEF Path, p

\* The first is read.
LEMMA PathTail ==
  ASSUME NEW f, NEW s, NEW q \in Seq(Rec), q # << >>, NEW a, NEW b, Path(f, s, q, a, b)
  PROVE  \E d \in Places : Says(f, s, a, Head(q), d) /\ Path(f, s, Tail(q), d, b)
                           /\ a.key <= d.key
<1>1. PICK g \in [1 .. Len(q) + 1 -> Places] :
        /\ g[1] = a /\ g[Len(q) + 1] = b
        /\ \A i \in 1 .. Len(q) : Says(f, s, g[i], q[i], g[i + 1])
        /\ \A i, j \in 1 .. Len(q) + 1 : i <= j => g[i].key <= g[j].key
  BY DEF Path
<1> DEFINE n == Len(q)
           p == Tail(q)
           k == [i \in 1 .. n |-> g[i + 1]]
<1>2. /\ n \in Nat /\ n >= 1 /\ Len(p) = n - 1 /\ Head(q) = q[1]
      /\ \A i \in 1 .. n - 1 : p[i] = q[i + 1]
  OBVIOUS
<1> HIDE DEF p, n
<1>3. \A i \in 1 .. n : i + 1 \in 1 .. n + 1 /\ k[i] = g[i + 1]
  BY <1>2
<1>4. k \in [1 .. n -> Places]
  BY <1>1, <1>3 DEF n
<1>5. k[1] = g[2] /\ k[n] = b /\ k[1] \in Places /\ 1 \in 1 .. n
  BY <1>1, <1>2, <1>3, <1>4 DEF n
<1> HIDE DEF k
<1>6. \A i \in 1 .. n - 1 : Says(f, s, k[i], p[i], k[i + 1])
  <2> SUFFICES ASSUME NEW i \in 1 .. n - 1 PROVE Says(f, s, k[i], p[i], k[i + 1])
    OBVIOUS
  <2>1. i \in 1 .. n /\ i + 1 \in 1 .. n
    BY <1>2
  <2> QED BY <1>1, <1>2, <1>3, <2>1 DEF n
<1>7. \A i, j \in 1 .. n : i <= j => k[i].key <= k[j].key
  <2> SUFFICES ASSUME NEW i \in 1 .. n, NEW j \in 1 .. n, i <= j
               PROVE  k[i].key <= k[j].key
    OBVIOUS
  <2>1. i + 1 \in 1 .. n + 1 /\ j + 1 \in 1 .. n + 1 /\ i + 1 <= j + 1
    BY <1>2
  <2> QED BY <1>1, <1>3, <2>1 DEF n
<1>8. Says(f, s, a, Head(q), k[1]) /\ a.key <= k[1].key
  <2>1. 1 \in 1 .. n /\ 1 \in 1 .. n + 1 /\ 2 \in 1 .. n + 1
    BY <1>2
  <2> QED BY <1>1, <1>2, <1>5, <2>1 DEF n
<1>9. Path(f, s, p, k[1], b)
  <2>1. Len(p) + 1 = n
    BY <1>2
  <2> QED BY <1>2, <1>4, <1>5, <1>6, <1>7, <2>1 DEF Path
<1> QED BY <1>5, <1>8, <1>9 DEF p

\* A record on its way is read at a place no earlier than the reader's and no later than the
\* one all of them lead to.
LEMMA PathAlong ==
  ASSUME NEW f, NEW s, NEW q \in Seq(Rec), NEW a, NEW b, Path(f, s, q, a, b), NEW i \in DOMAIN q
  PROVE  \E d, e \in Places :
           Says(f, s, d, q[i], e) /\ a.key <= d.key /\ d.key <= e.key /\ e.key <= b.key
<1>1. PICK g \in [1 .. Len(q) + 1 -> Places] :
        /\ g[1] = a /\ g[Len(q) + 1] = b
        /\ \A j \in 1 .. Len(q) : Says(f, s, g[j], q[j], g[j + 1])
        /\ \A j, k \in 1 .. Len(q) + 1 : j <= k => g[j].key <= g[k].key
  BY DEF Path
<1>2. /\ i \in 1 .. Len(q) /\ i \in 1 .. Len(q) + 1 /\ i + 1 \in 1 .. Len(q) + 1
      /\ 1 \in 1 .. Len(q) + 1 /\ Len(q) + 1 \in 1 .. Len(q) + 1
      /\ 1 <= i /\ i <= i + 1 /\ i + 1 <= Len(q) + 1
  OBVIOUS
<1> QED BY <1>1, <1>2

(***************************************************************************)
(* What one side and its queue do to the invariant                         *)
(***************************************************************************)
\* What a step of one side finds.
LEMMA Both ==
  ASSUME ProtectedInv
  PROVE  /\ tls \in [Sides -> Conn] /\ wire \in [Sides -> Seq(Rec)]
         /\ tls[Client] \in Conn /\ tls[Server] \in Conn
         /\ wire[Client] \in Seq(Rec) /\ wire[Server] \in Seq(Rec)
         /\ \A u : /\ [tls EXCEPT ![Client] = u][Client] = u
                   /\ [tls EXCEPT ![Client] = u][Server] = tls[Server]
                   /\ [tls EXCEPT ![Server] = u][Server] = u
                   /\ [tls EXCEPT ![Server] = u][Client] = tls[Client]
         /\ \A u : /\ [wire EXCEPT ![Client] = u][Client] = u
                   /\ [wire EXCEPT ![Client] = u][Server] = wire[Server]
                   /\ [wire EXCEPT ![Server] = u][Server] = u
                   /\ [wire EXCEPT ![Server] = u][Client] = wire[Client]
BY TwoSides DEF ProtectedInv

\* A message at the head of a queue stays there.
LEMMA FindsMore ==
  ASSUME NEW t, NEW q \in Seq(Rec), NEW r \in Rec, Finds(t, q)
  PROVE  Finds(t, Append(q, r))
<1>1. Message(q) => Message(Append(q, r))
  BY DEF Message
<1> HIDE DEF Message
<1> QED BY <1>1 DEF Finds

\* Requests: what each side does to the account.
LEMMA RequestsQuiet ==
  ASSUME NEW c, NEW u, NEW v, NEW w, NEW cq, NEW vq, RequestsOf(c, v, cq, vq),
         Answers(u) <=> Answers(c), Served(w) <=> Served(v), Waiting(w) <=> Waiting(v)
  PROVE  RequestsOf(u, w, cq, vq)
BY DEF RequestsOf, One

\* The client sends r and becomes u.
LEMMA RequestsSent ==
  ASSUME NEW c, NEW u, NEW v, NEW cq \in Seq(Rec), NEW vq \in Seq(Rec), RequestsOf(c, v, cq, vq),
         NEW r \in Rec, One(Answers(u)) + One(r \in LateAnswers) = One(Answers(c)),
         r.type = "CERTIFICATE" /\ r.key >= ApplicationKey => Answers(u)
  PROVE  RequestsOf(u, v, Append(cq, r), vq)
<1> DEFINE p == Append(cq, r)
<1>1. HowMany(p, LateAnswers) = HowMany(cq, LateAnswers) + One(r \in LateAnswers)
  BY HowManyAppend
<1>2. /\ \A x : One(x) \in Nat
      /\ HowMany(cq, LateAnswers) \in Nat /\ HowMany(vq, LateRequests) \in Nat
  BY HowManyNat DEF One
<1>3. HowMany(vq, LateRequests) + One(Answers(u)) + HowMany(p, LateAnswers) + One(Served(v))
        = One(Waiting(v))
  BY <1>1, <1>2 DEF RequestsOf
<1>4. ASSUME NEW i \in DOMAIN p, p[i].type = "CERTIFICATE" /\ p[i].key >= ApplicationKey
      PROVE  Answers(u) \/ \E j \in DOMAIN p : j > i /\ p[j] \in LateAnswers
  <2>1. /\ Len(cq) \in Nat /\ DOMAIN p = 1 .. Len(cq) + 1 /\ DOMAIN cq = 1 .. Len(cq)
        /\ p[Len(cq) + 1] = r /\ \A j \in DOMAIN cq : p[j] = cq[j]
    OBVIOUS
  <2> HIDE DEF p
  <2>2. CASE i = Len(cq) + 1
    BY <1>4, <2>1, <2>2
  <2>3. CASE i # Len(cq) + 1
    <3>1. i \in DOMAIN cq /\ cq[i].type = "CERTIFICATE" /\ cq[i].key >= ApplicationKey
      BY <1>4, <2>1, <2>3
    <3>2. CASE Answers(c)
      <4>1. Answers(u) \/ r \in LateAnswers
        BY <3>2 DEF One
      <4>2. Len(cq) + 1 > i /\ Len(cq) + 1 \in DOMAIN p
        BY <2>1, <3>1
      <4> QED BY <2>1, <4>1, <4>2
    <3>3. CASE \E j \in DOMAIN cq : j > i /\ cq[j] \in LateAnswers
      <4>1. PICK j \in DOMAIN cq : j > i /\ cq[j] \in LateAnswers
        BY <3>3
      <4>2. j \in DOMAIN p /\ p[j] = cq[j]
        BY <2>1
      <4> QED BY <4>1, <4>2
    <3> QED BY <3>1, <3>2, <3>3 DEF RequestsOf
  <2> QED BY <2>2, <2>3
<1> HIDE DEF p
<1> QED BY <1>3, <1>4 DEF RequestsOf, p

\* The client reads the next record of the server and becomes u.
LEMMA RequestsRead ==
  ASSUME NEW c, NEW u, NEW v, NEW cq \in Seq(Rec), NEW vq \in Seq(Rec), RequestsOf(c, v, cq, vq),
         vq # << >>, One(Answers(u)) = One(Answers(c)) + One(Head(vq) \in LateRequests)
  PROVE  RequestsOf(u, v, cq, Tail(vq))
<1>1. HowMany(vq, LateRequests) = HowMany(Tail(vq), LateRequests) + One(Head(vq) \in LateRequests)
  BY HowManyTail
<1>2. /\ \A x : One(x) \in Nat
      /\ HowMany(cq, LateAnswers) \in Nat /\ HowMany(Tail(vq), LateRequests) \in Nat
  <2>1. Tail(vq) \in Seq(Rec)
    OBVIOUS
  <2> QED BY <2>1, HowManyNat DEF One
<1>3. HowMany(Tail(vq), LateRequests) + One(Answers(u)) + HowMany(cq, LateAnswers) + One(Served(v))
        = One(Waiting(v))
  BY <1>1, <1>2 DEF RequestsOf
<1>4. Answers(c) => Answers(u)
  BY DEF One
<1> QED BY <1>3, <1>4 DEF RequestsOf

\* The server becomes w and sends n requests.
LEMMA RequestsAsked ==
  ASSUME NEW c, NEW v, NEW w, NEW cq \in Seq(Rec), NEW vq \in Seq(Rec), NEW p \in Seq(Rec),
         NEW n \in Nat, HowMany(p, LateRequests) = HowMany(vq, LateRequests) + n,
         WaitsFor(v, w, n), RequestsOf(c, v, cq, vq)
  PROVE  RequestsOf(c, w, cq, p)
<1> DEFINE a == HowMany(vq, LateRequests)
           b == One(Answers(c))
           d == HowMany(cq, LateAnswers)
           s == One(Served(v))
           z == One(Waiting(v))
           s1 == One(Served(w))
           z1 == One(Waiting(w))
           a1 == HowMany(p, LateRequests)
<1>1. a \in Nat /\ d \in Nat
  BY HowManyNat
<1>2. b \in Nat /\ s \in Nat /\ z \in Nat /\ s1 \in Nat /\ z1 \in Nat
  BY DEF One
<1>3. a + b + d + s = z /\ z1 + s = z + s1 + n /\ a1 = a + n
  BY DEF RequestsOf, WaitsFor
<1> HIDE DEF a, b, d, s, z, s1, z1, a1
<1>4. a1 + b + d + s1 = z1
  BY ONLY <1>1, <1>2, <1>3, n \in Nat
<1> QED BY <1>4 DEF RequestsOf, a1, b, d, s1, z1

\* The server reads the next record of the client and becomes w.
LEMMA RequestsAnswered ==
  ASSUME NEW c, NEW v, NEW w, NEW cq \in Seq(Rec), NEW vq \in Seq(Rec), RequestsOf(c, v, cq, vq),
         cq # << >>, One(Served(w)) = One(Served(v)) + One(Head(cq) \in LateAnswers),
         One(Waiting(w)) = One(Waiting(v))
  PROVE  RequestsOf(c, w, Tail(cq), vq)
<1> DEFINE p == Tail(cq)
<1>1. HowMany(cq, LateAnswers) = HowMany(p, LateAnswers) + One(Head(cq) \in LateAnswers)
  BY HowManyTail
<1>2. /\ \A x : One(x) \in Nat
      /\ HowMany(p, LateAnswers) \in Nat /\ HowMany(vq, LateRequests) \in Nat
  <2>1. p \in Seq(Rec)
    OBVIOUS
  <2> QED BY <2>1, HowManyNat DEF One
<1>3. HowMany(vq, LateRequests) + One(Answers(c)) + HowMany(p, LateAnswers) + One(Served(w))
        = One(Waiting(w))
  BY <1>1, <1>2 DEF RequestsOf
<1>4. ASSUME NEW i \in DOMAIN p, p[i].type = "CERTIFICATE" /\ p[i].key >= ApplicationKey
      PROVE  Answers(c) \/ \E j \in DOMAIN p : j > i /\ p[j] \in LateAnswers
  <2>1. /\ Len(cq) \in Nat /\ DOMAIN p = 1 .. Len(cq) - 1 /\ DOMAIN cq = 1 .. Len(cq)
        /\ \A j \in 1 .. Len(cq) - 1 : p[j] = cq[j + 1]
    OBVIOUS
  <2> HIDE DEF p
  <2>2. i + 1 \in DOMAIN cq /\ cq[i + 1] = p[i] /\ i \in Nat
    BY <2>1
  <2>3. CASE ~ Answers(c)
    <3>1. PICK j \in DOMAIN cq : j > i + 1 /\ cq[j] \in LateAnswers
      BY <1>4, <2>2, <2>3 DEF RequestsOf
    <3>2. j - 1 \in DOMAIN p /\ j - 1 > i /\ p[j - 1] = cq[j]
      BY <2>1, <2>2, <3>1
    <3> QED BY <3>1, <3>2
  <2> QED BY <2>3
<1> HIDE DEF p
<1> QED BY <1>3, <1>4 DEF RequestsOf, p

\* The client becomes u, and nothing is sent or read.
LEMMA ClientStays ==
  ASSUME ProtectedInv, Joint, NEW u, tls' = [tls EXCEPT ![Client] = u], wire' = wire,
         conf' = conf,
         ClientAt(conf, u), ClientSilent(conf, tls[Client], u),
         ClientPlace(u) = ClientPlace(tls[Client]), Finds(u, wire[Server]),
         Answers(u) <=> Answers(tls[Client]), DataOf(conf)'
  PROVE  Joint'
<1>1. tls'[Client] = u /\ tls'[Server] = tls[Server]
  BY Both
<1>2. ClientPath(conf, u, tls[Server], wire[Client])
  BY DEF Joint, ClientPath, ClientSilent
<1>3. ServerPath(u, tls[Server], wire[Server], conf)
  BY DEF Joint, ServerPath
<1>4. RequestsOf(u, tls[Server], wire[Client], wire[Server])
  BY RequestsQuiet DEF Joint
<1> QED BY <1>1, <1>2, <1>3, <1>4 DEF Joint

\* The client becomes u and sends r.
LEMMA ClientSaying ==
  ASSUME ProtectedInv, Joint, NEW u, NEW r \in Rec, tls' = [tls EXCEPT ![Client] = u],
         wire' = [wire EXCEPT ![Client] = Append(@, r)], conf' = conf,
         ClientAt(conf, u), ClientSpeaks(conf, tls[Client], r, u),
         ClientPlace(u) = ClientPlace(tls[Client]), Finds(u, wire[Server]),
         One(Answers(u)) + One(r \in LateAnswers) = One(Answers(tls[Client])),
         r.type = "CERTIFICATE" /\ r.key >= ApplicationKey => Answers(u),
         DataOf(conf)'
  PROVE  Joint'
<1> DEFINE q == wire[Client]
<1>1. /\ tls'[Client] = u /\ tls'[Server] = tls[Server] /\ q \in Seq(Rec)
      /\ wire'[Client] = Append(q, r) /\ wire'[Server] = wire[Server] /\ wire[Server] \in Seq(Rec)
  BY Both
<1> HIDE DEF q
<1>2. ClientPath(conf, u, tls[Server], Append(q, r))
  <2>1. PICK x : /\ Shown(tls[Client], x)
                 /\ Path(conf, Client, q, ServerPlace(conf, tls[Server]), ClientSaid(conf,
                        tls[Client], x))
    BY DEF Joint, ClientPath, q
  <2>2. PICK y : /\ Shown(u, y) /\ ClientSaid(conf, u, y) \in Places
                 /\ ClientSays(conf, ClientSaid(conf, tls[Client], x), r, ClientSaid(conf, u, y))
                 /\ ClientSaid(conf, tls[Client], x).key <= ClientSaid(conf, u, y).key
    BY <2>1 DEF ClientSpeaks
  <2>3. Says(conf, Client, ClientSaid(conf, tls[Client], x), r, ClientSaid(conf, u, y))
    BY <2>2, TwoSides DEF Says
  <2>4. Path(conf, Client, Append(q, r), ServerPlace(conf, tls[Server]), ClientSaid(conf, u, y))
    BY <1>1, <2>1, <2>2, <2>3, PathAppend
  <2> QED BY <2>2, <2>4 DEF ClientPath
<1>3. ServerPath(u, tls[Server], wire[Server], conf)
  BY DEF Joint, ServerPath
<1>4. RequestsOf(u, tls[Server], Append(q, r), wire[Server])
  BY <1>1, RequestsSent DEF Joint, q
<1>5. Finds(tls[Server], Append(q, r))
  BY <1>1, FindsMore DEF Joint, q
<1> QED BY <1>1, <1>2, <1>3, <1>4, <1>5 DEF Joint

\* The client reads the next record and becomes u.
LEMMA ClientTaking ==
  ASSUME ProtectedInv, Joint, NEW u, NEW r, wire[Server] # << >>, r = Head(wire[Server]),
         tls' = [tls EXCEPT ![Client] = u],
         wire' = [wire EXCEPT ![Server] = Tail(@)], conf' = conf,
         ClientAt(conf, u), ClientSilent(conf, tls[Client], u),
         ClientTakes(conf, tls[Client], r, u), Finds(u, Tail(wire[Server])),
         One(Answers(u)) = One(Answers(tls[Client])) + One(r \in LateRequests),
         DataOf(conf)'
  PROVE  Joint'
<1> DEFINE q == wire[Server]
<1>1. /\ tls'[Client] = u /\ tls'[Server] = tls[Server] /\ q \in Seq(Rec)
      /\ wire'[Client] = wire[Client] /\ wire'[Server] = Tail(q) /\ wire[Client] \in Seq(Rec)
  BY Both
<1> HIDE DEF q
<1>2. ClientPath(conf, u, tls[Server], wire[Client])
  BY DEF Joint, ClientPath, ClientSilent
<1>3. ServerPath(u, tls[Server], Tail(q), conf)
  <2>1. PICK d \in Places : /\ Says(conf, Server, ClientPlace(tls[Client]), Head(q), d)
                            /\ Path(conf, Server, Tail(q), d, ServerSaid(tls[Server]))
    BY <1>1, PathTail DEF Joint, ServerPath, q
  <2>2. ServerSays(conf, ClientPlace(tls[Client]), r, d)
    BY <2>1 DEF Says, q
  <2>3. ClientPlace(u) = d
    BY <2>2 DEF ClientTakes
  <2> QED BY <2>1, <2>3 DEF ServerPath
<1>4. RequestsOf(u, tls[Server], wire[Client], Tail(q))
  BY <1>1, RequestsRead DEF Joint, q
<1> QED BY <1>1, <1>2, <1>3, <1>4 DEF Joint, q

\* The same three for the server.
LEMMA ServerStays ==
  ASSUME ProtectedInv, Joint, NEW u, tls' = [tls EXCEPT ![Server] = u], wire' = wire,
         conf' = conf,
         ServerAt(conf, u), ServerSaid(u) = ServerSaid(tls[Server]),
         ServerPlace(conf, u) = ServerPlace(conf, tls[Server]), Finds(u, wire[Client]),
         WaitsFor(tls[Server], u, 0), DataOf(conf)'
  PROVE  Joint'
<1>1. tls'[Server] = u /\ tls'[Client] = tls[Client]
  BY Both
<1>2. ClientPath(conf, tls[Client], u, wire[Client])
  BY DEF Joint, ClientPath
<1>3. ServerPath(tls[Client], u, wire[Server], conf)
  BY DEF Joint, ServerPath
<1>4. RequestsOf(tls[Client], u, wire[Client], wire[Server])
  <2>1. wire[Client] \in Seq(Rec) /\ wire[Server] \in Seq(Rec)
    BY Both
  <2>2. HowMany(wire[Server], LateRequests) = HowMany(wire[Server], LateRequests) + 0
    <3>1. HowMany(wire[Server], LateRequests) \in Nat
      BY <2>1, HowManyNat
    <3> QED BY ONLY <3>1
  <2> QED BY <2>1, <2>2, RequestsAsked DEF Joint
<1> QED BY <1>1, <1>2, <1>3, <1>4 DEF Joint

\* The server becomes u and sends r.
LEMMA ServerSaying ==
  ASSUME ProtectedInv, Joint, NEW u, NEW r \in Rec, tls' = [tls EXCEPT ![Server] = u],
         wire' = [wire EXCEPT ![Server] = Append(@, r)], conf' = conf,
         ServerAt(conf, u), ServerSpeaks(conf, tls[Server], r, u),
         ServerPlace(conf, u) = ServerPlace(conf, tls[Server]), Finds(u, wire[Client]),
         WaitsFor(tls[Server], u, One(r \in LateRequests)),
         DataOf(conf)'
  PROVE  Joint'
<1> DEFINE q == wire[Server]
<1>1. /\ tls'[Server] = u /\ tls'[Client] = tls[Client] /\ q \in Seq(Rec)
      /\ wire'[Server] = Append(q, r) /\ wire'[Client] = wire[Client] /\ wire[Client] \in Seq(Rec)
  BY Both
<1> HIDE DEF q
<1>2. ServerPath(tls[Client], u, Append(q, r), conf)
  <2>1. Path(conf, Server, q, ClientPlace(tls[Client]), ServerSaid(tls[Server]))
    BY DEF Joint, ServerPath, q
  <2>2. Says(conf, Server, ServerSaid(tls[Server]), r, ServerSaid(u))
    BY DEF Says, ServerSpeaks
  <2>3. Path(conf, Server, Append(q, r), ClientPlace(tls[Client]), ServerSaid(u))
    BY <1>1, <2>1, <2>2, PathAppend DEF ServerSpeaks
  <2> QED BY <2>3 DEF ServerPath
<1>3. ClientPath(conf, tls[Client], u, wire[Client])
  BY DEF Joint, ClientPath
<1>4. RequestsOf(tls[Client], u, wire[Client], Append(q, r))
  <2>1. HowMany(Append(q, r), LateRequests) = HowMany(q, LateRequests) + One(r \in LateRequests)
    BY <1>1, HowManyAppend
  <2>2. One(r \in LateRequests) \in Nat /\ Append(q, r) \in Seq(Rec)
    BY <1>1 DEF One
  <2> QED BY <1>1, <2>1, <2>2, RequestsAsked DEF Joint, q
<1>5. Finds(tls[Client], Append(q, r))
  BY <1>1, FindsMore DEF Joint, q
<1> QED BY <1>1, <1>2, <1>3, <1>4, <1>5 DEF Joint

\* The server reads the next record and becomes u.
LEMMA ServerTaking ==
  ASSUME ProtectedInv, Joint, NEW u, NEW r, wire[Client] # << >>, r = Head(wire[Client]),
         tls' = [tls EXCEPT ![Server] = u],
         wire' = [wire EXCEPT ![Client] = Tail(@)], conf' = conf,
         ServerAt(conf, u), ServerSaid(u) = ServerSaid(tls[Server]),
         ServerTakes(conf, tls[Server], r, u), Finds(u, Tail(wire[Client])),
         One(Served(u)) = One(Served(tls[Server])) + One(r \in LateAnswers),
         Waiting(u) <=> Waiting(tls[Server]), DataOf(conf)'
  PROVE  Joint'
<1> DEFINE q == wire[Client]
<1>1. /\ tls'[Server] = u /\ tls'[Client] = tls[Client] /\ q \in Seq(Rec)
      /\ wire'[Server] = wire[Server] /\ wire'[Client] = Tail(q) /\ wire[Server] \in Seq(Rec)
  BY Both
<1> HIDE DEF q
<1>2. ServerPath(tls[Client], u, wire[Server], conf)
  BY DEF Joint, ServerPath
<1>3. ClientPath(conf, tls[Client], u, Tail(q))
  <2>1. PICK x : /\ Shown(tls[Client], x)
                 /\ Path(conf, Client, q, ServerPlace(conf, tls[Server]), ClientSaid(conf,
                        tls[Client], x))
    BY DEF Joint, ClientPath, q
  <2>2. PICK d \in Places : /\ Says(conf, Client, ServerPlace(conf, tls[Server]), Head(q), d)
                            /\ Path(conf, Client, Tail(q), d, ClientSaid(conf, tls[Client], x))
    BY <1>1, <2>1, PathTail DEF q
  <2>3. ClientSays(conf, ServerPlace(conf, tls[Server]), r, d)
    BY <2>2, TwoSides DEF Says, q
  <2>4. ServerPlace(conf, u) = d
    BY <2>3 DEF ServerTakes
  <2> QED BY <2>1, <2>2, <2>4 DEF ClientPath
<1>4. RequestsOf(tls[Client], u, Tail(q), wire[Server])
  <2>1. One(Waiting(u)) = One(Waiting(tls[Server]))
    BY DEF One
  <2> QED BY <1>1, <2>1, RequestsAnswered DEF Joint, q
<1> QED BY <1>1, <1>2, <1>3, <1>4 DEF Joint, q

\* Data: nothing of it is sent or read.
LEMMA DataStays ==
  ASSUME Joint, UNCHANGED <<conf, calls, got, wire>>
  PROVE  DataOf(conf)'
BY DEF Joint, DataOf

\* What is sent is not data.
LEMMA DataNotSent ==
  ASSUME ProtectedInv, Joint, UNCHANGED <<conf, calls, got>>, NEW s \in Sides, NEW r \in Rec,
         wire' = [wire EXCEPT ![s] = Append(@, r)], r.type # "DATA"
  PROVE  DataOf(conf)'
<1>1. \A p \in Sides : wire[p] \in Seq(Rec) /\ wire'[p] = IF p = s THEN Append(wire[p], r) ELSE wire[p]
  BY Both
<1>2. One(r \in Data) = 0 /\ One(r \in EarlyData) = 0 /\ One(r \in AppData) = 0
  BY DEF One, Data, EarlyData, AppData
<1>3. ASSUME NEW X \in {Data, EarlyData, AppData}, NEW p \in Sides
      PROVE  HowMany(wire'[p], X) = HowMany(wire[p], X)
  <2>1. HowMany(wire[p], X) \in Nat
          /\ HowMany(Append(wire[p], r), X) = HowMany(wire[p], X) + One(r \in X)
    BY <1>1, HowManyNat, HowManyAppend
  <2> QED BY <1>1, <1>2, <2>1
<1> QED BY <1>3, TwoSides DEF Joint, DataOf

\* What is read is not data.
LEMMA DataNotRead ==
  ASSUME ProtectedInv, Joint, UNCHANGED <<conf, calls, got>>, NEW s \in Sides, wire[s] # << >>,
         wire' = [wire EXCEPT ![s] = Tail(@)], Head(wire[s]).type # "DATA"
  PROVE  DataOf(conf)'
<1>1. \A p \in Sides : wire[p] \in Seq(Rec) /\ wire'[p] = IF p = s THEN Tail(wire[p]) ELSE wire[p]
  BY Both
<1> DEFINE r == Head(wire[s])
<1>2. One(r \in Data) = 0 /\ One(r \in EarlyData) = 0 /\ One(r \in AppData) = 0
  BY DEF One, Data, EarlyData, AppData
<1> HIDE DEF r
<1>3. ASSUME NEW X \in {Data, EarlyData, AppData}, NEW p \in Sides
      PROVE  HowMany(wire'[p], X) = HowMany(wire[p], X)
  <2>1. CASE p = s
    <3>1. HowMany(wire[s], X) = HowMany(Tail(wire[s]), X) + One(r \in X)
      BY <1>1, HowManyTail DEF r
    <3>2. HowMany(Tail(wire[s]), X) \in Nat
      <4>1. Tail(wire[s]) \in Seq(Rec)
        BY <1>1
      <4> QED BY <4>1, HowManyNat
    <3> QED BY <1>1, <1>2, <2>1, <3>1, <3>2
  <2>2. CASE p # s
    BY <1>1, <2>2
  <2> QED BY <2>1, <2>2
<1> QED BY <1>3, TwoSides DEF Joint, DataOf

(***************************************************************************)
(* The client writes                                                       *)
(***************************************************************************)
\* What a step leaves alone: the call that is under way, the keys and what the Finished
\* messages cover, what the Hellos have settled, authentication and early data.
SameCall(c, u) == u.flow = c.flow /\ u.in_init = c.in_init
SameSecrets(c, u) == u.wkey = c.wkey /\ u.rkey = c.rkey /\ u.fin = c.fin /\ u.key_update = c.key_update
SameHello(c, u) ==
  /\ u.tls13 = c.tls13 /\ u.hit = c.hit /\ u.hello_retry_request = c.hello_retry_request
  /\ u.early_data = c.early_data
SameAuth(c, u) == u.pha = c.pha /\ u.cert = c.cert /\ u.cert_request = c.cert_request
SameEarly(c, u) == u.early_data_state = c.early_data_state

\* The state moves on.
LEMMA MovedOn ==
  ASSUME NEW c \in Conn, NEW h \in ClientStates \cup ServerStates, NEW t,
         t = [c EXCEPT !.hand_state = h]
  PROVE  /\ t \in Conn /\ t.hand_state = h
         /\ SameCall(c, t) /\ SameSecrets(c, t) /\ SameHello(c, t) /\ SameAuth(c, t)
         /\ SameEarly(c, t)
         /\ t.sent_tickets = c.sent_tickets /\ t.ticket_expected = c.ticket_expected
<1>1. t \in Conn
  BY FieldSet
<1> QED BY <1>1 DEF Conn, SameCall, SameSecrets, SameHello, SameAuth, SameEarly

\* The types of the fields.
LEMMA Typed ==
  ASSUME NEW c \in Conn
  PROVE  /\ c.in_init \in BOOLEAN /\ c.tls13 \in BOOLEAN /\ c.hit \in BOOLEAN
         /\ c.wkey \in Nat /\ c.rkey \in Nat /\ c.fin \subseteq {"own", "peer"}
         /\ c.flow \in {"idle", "reading", "writing", "error"}
         /\ c.cert \in {"none", "cert", "empty"} /\ c.cert_request \in BOOLEAN
         /\ c.key_update \in {"NONE", "NOT_REQUESTED", "REQUESTED"}
         /\ c.hello_retry_request \in {"NONE", "PENDING", "COMPLETE"}
         /\ c.pha \in PhaStates
BY DEF Conn

\* The types of a configuration.
LEMMA Configured ==
  ASSUME NEW f \in AllConfigurations
  PROVE  /\ f.retry \in BOOLEAN /\ f.psk \in BOOLEAN /\ f.early \in BOOLEAN
         /\ f.read_early \in BOOLEAN
         /\ f.pha \in BOOLEAN /\ f.interleave \in BOOLEAN /\ f.compat[Client] \in BOOLEAN
         /\ f.compat[Server] \in BOOLEAN
BY TwoSides DEF AllConfigurations

\* Where the write half of the client goes.
ClientTurns(t) == IF t.tls13 THEN Client13WriteTransition(t) ELSE ClientHelloTransition(t)

\* The same move by move.
ClientGoes(f, c, h) ==
  LET g == c.hand_state
      e == c.early_data_state
      retried == c.hello_retry_request = "PENDING"
      answer == IF c.cert # "none" THEN "CW_CERT" ELSE "CW_FINISHED"
  IN \/ /\ ~ c.tls13
        /\ \/ g = "BEFORE" /\ h = "CW_CLNT_HELLO"
           \/ g \in {"CR_SRVR_HELLO", "CW_CHANGE"} /\ retried /\ h = "CW_CLNT_HELLO"
           \/ g = "CR_SRVR_HELLO" /\ retried /\ f.compat[Client] /\ h = "CW_CHANGE"
           \/ g = "CW_CLNT_HELLO" /\ e = "CONNECTING" /\ f.compat[Client] /\ h = "CW_CHANGE"
           \/ g = "CW_CLNT_HELLO" /\ e = "CONNECTING" /\ ~ f.compat[Client] /\ h = "EARLY_DATA"
           \/ g = "CW_CHANGE" /\ ~ retried /\ e = "CONNECTING" /\ h = "EARLY_DATA"
           \/ g \in {"CW_CLNT_HELLO", "EARLY_DATA"} /\ e # "CONNECTING" /\ h = ToRead
     \/ /\ c.tls13
        /\ \/ g = "CR_CERT_REQ" /\ c.pha = "REQUESTED" /\ h = "CW_CERT"
           \/ g = "CR_FINISHED" /\ e \in {"WRITE_RETRY", "FINISHED_WRITING"}
                /\ h = "PENDING_EARLY_DATA_END"
           \/ g = "CR_FINISHED" /\ e \notin {"WRITE_RETRY", "FINISHED_WRITING"}
                /\ h \in {"CW_CHANGE", answer}
           \/ g = "PENDING_EARLY_DATA_END" /\ c.early_data = "ACCEPTED" /\ h = "CW_END_OF_EARLY_DATA"
           \/ g = "PENDING_EARLY_DATA_END" /\ c.early_data # "ACCEPTED" /\ h = answer
           \/ g \in {"CW_END_OF_EARLY_DATA", "CW_CHANGE"} /\ h = answer
           \/ g = "CW_CERT" /\ c.cert = "cert" /\ h = "CW_CERT_VRFY"
           \/ g = "CW_CERT" /\ c.cert # "cert" /\ h = "CW_FINISHED"
           \/ g = "CW_CERT_VRFY" /\ h = "CW_FINISHED"
           \/ g \in {"CR_KEY_UPDATE", "CW_KEY_UPDATE", "CR_SESSION_TICKET", "CW_FINISHED"} /\ h = "OK"
           \/ g = "OK" /\ c.key_update # "NONE" /\ h = "CW_KEY_UPDATE"
           \/ g = "OK" /\ c.key_update = "NONE" /\ h = ToRead

\* A client that writes takes one of these moves, and never the one its state machine calls
\* impossible (WRITE_TRAN_ERROR).
LEMMA ClientGoing ==
  ASSUME NEW c, ClientOK(conf, c), ClientAt(conf, c), conf \in AllConfigurations,
         c.flow = "writing"
  PROVE  ClientGoes(conf, c, ClientTurns(c)) /\ ClientTurns(c) # Wrong
<1> DEFINE h == ClientTurns(c)
<1>1. c.tls13 \in BOOLEAN /\ conf.compat[Client] \in BOOLEAN /\ c.hand_state \in ClientStates
  BY Configured DEF ClientOK, Conn
<1>2. CASE c.tls13
  <2>1. h = Client13WriteTransition(c)
    BY <1>2 DEF ClientTurns
  <2>2. /\ c.hand_state \notin {"BEFORE", "CW_CLNT_HELLO", "EARLY_DATA", "CR_SRVR_HELLO",
                                 "CR_ENCRYPTED_EXTENSIONS", "CR_CERT", "CR_CERT_VRFY"}
        /\ c.hand_state = "CR_CERT_REQ" => c.pha = "REQUESTED"
    BY <1>2 DEF ClientAt, ClientCall, ClientFar, ServerFlight
  <2> QED BY <1>1, <1>2, <2>1, <2>2
             DEF Client13WriteTransition, ClientAnswer, ToRead, Wrong, ClientGoes, ClientStates
<1>3. CASE ~ c.tls13
  <2>1. h = ClientHelloTransition(c)
    BY <1>3 DEF ClientTurns
  <2>2. /\ c.hand_state \in {"BEFORE", "CW_CLNT_HELLO", "EARLY_DATA", "CR_SRVR_HELLO", "CW_CHANGE"}
        /\ c.hand_state = "CR_SRVR_HELLO" => c.hello_retry_request = "PENDING"
        /\ c.hand_state = "CW_CHANGE" =>
             c.hello_retry_request = "PENDING" \/ c.early_data_state = "CONNECTING"
        /\ c.hand_state = "EARLY_DATA" => c.early_data_state # "CONNECTING"
    BY <1>3 DEF ClientAt, ClientFar, ClientKnows, ClientData
  <2> QED BY <1>1, <1>3, <2>1, <2>2 DEF ClientHelloTransition, ToRead, Wrong, ClientGoes
<1> QED BY <1>1, <1>2, <1>3

\* The client, having gone to h and sent r, has become u.
ClientSendsAs(c, h, r, u) ==
  /\ ClientOK(conf, c) /\ ClientAt(conf, c) /\ c.flow = "writing" /\ ClientGoes(conf, c, h)
  /\ c \in Conn /\ u \in Conn /\ ClientOK(conf, u) /\ conf \in AllConfigurations
  /\ u.hand_state = h /\ u.flow = c.flow /\ u.in_init = c.in_init /\ u.tls13 = c.tls13
  /\ u.rkey = c.rkey /\ u.hello_retry_request = c.hello_retry_request /\ u.hit = c.hit
  /\ u.cert = c.cert
  /\ u.early_data = IF h = "CW_CLNT_HELLO" /\ c.early_data_state = "CONNECTING"
                    THEN "REJECTED" ELSE c.early_data
  /\ u.pha = IF h = "CW_CLNT_HELLO" /\ conf.pha THEN "EXT_SENT" ELSE c.pha
  /\ u.early_data_state = IF h = "CW_END_OF_EARLY_DATA" THEN "FINISHED_WRITING" ELSE c.early_data_state
  /\ u.fin = IF h = "CW_FINISHED" THEN c.fin \cup {"own"} ELSE c.fin
  /\ r \in Rec
  /\ r.key = IF (h = "CW_CERT" /\ c.fin # {"own", "peer"}) \/ (h = "CW_FINISHED" /\ c.cert = "none")
             THEN HandshakeKey ELSE c.wkey
  /\ u.wkey = IF h = "CW_CLNT_HELLO"
              THEN IF c.early_data_state = "CONNECTING" /\ ~ conf.compat[Client] THEN EarlyKey
                ELSE c.wkey
              ELSE IF h = "CW_CHANGE"
              THEN IF ~ c.tls13 /\ c.hello_retry_request # "PENDING"
                /\ c.early_data_state = "CONNECTING"
                   THEN EarlyKey ELSE c.wkey
              ELSE IF h = "CW_END_OF_EARLY_DATA" THEN Plain
              ELSE IF h = "CW_FINISHED" /\ c.pha # "REQUESTED" THEN ApplicationKey
              ELSE IF h = "CW_KEY_UPDATE" THEN c.wkey + 1 ELSE r.key
  /\ h = "CW_CLNT_HELLO" => /\ r.type = "CLIENT_HELLO"
                            /\ r.arg = IF c.early_data_state = "CONNECTING" THEN "early" ELSE "none"
  /\ h = "CW_CHANGE" => r.type = "CCS"
  /\ h = "CW_END_OF_EARLY_DATA" => r.type = "END_OF_EARLY_DATA"
  /\ h = "CW_CERT" => r.type = "CERTIFICATE" /\ r.arg = c.cert
  /\ h = "CW_CERT_VRFY" => r.type = "CERTIFICATE_VERIFY"
  /\ h = "CW_FINISHED" => r.type = "FINISHED"
  /\ h = "CW_KEY_UPDATE" => r.type = "KEY_UPDATE"

\* That is what WriteMessage makes of the client.
LEMMA ClientSending ==
  ASSUME NEW c, ClientOK(conf, c), ClientAt(conf, c), conf \in AllConfigurations,
         c.flow = "writing",
         NEW h \in ClientWrites, ClientGoes(conf, c, h), ClientMove(conf, c, h),
         NEW t, t = [c EXCEPT !.hand_state = h],
         NEW r,
         r = [type |-> MessageOf(t)[1], key |-> KeyOfMessage(Client, t), arg |-> MessageOf(t)[2]]
  PROVE  ClientSendsAs(c, h, r, ClientSent(t))
<1> DEFINE u == ClientSent(t)
           k == KeyOfMessage(Client, t)
<1>1. c \in Conn /\ h \in ClientStates
  BY DEF ClientOK, ClientWrites, ClientStates
<1>2. t \in Conn /\ t.hand_state = h
      /\ SameCall(c, t) /\ SameSecrets(c, t) /\ SameHello(c, t) /\ SameAuth(c, t)
      /\ SameEarly(c, t)
  BY <1>1, MovedOn
<1>3. k = IF (h = "CW_CERT" /\ c.fin # {"own", "peer"}) \/ (h = "CW_FINISHED" /\ c.cert = "none")
          THEN HandshakeKey ELSE c.wkey
  BY <1>2 DEF KeyOfMessage, FirstHandshake, SameSecrets, SameAuth
<1>4. r \in Rec
  BY ClientRecord DEF RecordOK
<1>5. ClientOK(conf, u)
  BY ClientSends
<1>6. u \in Conn
  BY <1>5 DEF ClientOK
<1>7. r.key = k
  OBVIOUS
<1>8. /\ h = "CW_CLNT_HELLO" => /\ r.type = "CLIENT_HELLO"
                                /\ r.arg = IF c.early_data_state = "CONNECTING" THEN "early" ELSE "none"
      /\ h = "CW_CHANGE" => r.type = "CCS"
      /\ h = "CW_END_OF_EARLY_DATA" => r.type = "END_OF_EARLY_DATA"
      /\ h = "CW_CERT" => r.type = "CERTIFICATE" /\ r.arg = c.cert
      /\ h = "CW_CERT_VRFY" => r.type = "CERTIFICATE_VERIFY"
      /\ h = "CW_FINISHED" => r.type = "FINISHED"
      /\ h = "CW_KEY_UPDATE" => r.type = "KEY_UPDATE"
  BY <1>2 DEF MessageOf, SameEarly, SameAuth
<1> HIDE DEF k
<1>9. u = CASE h = "CW_CLNT_HELLO" ->
                 [t EXCEPT !.wkey = IF t.early_data_state = "CONNECTING" /\ ~ conf.compat[Client]
                                    THEN EarlyKey ELSE t.wkey,
                           !.early_data = IF t.early_data_state = "CONNECTING" THEN "REJECTED"
                             ELSE t.early_data,
                           !.pha = IF conf.pha THEN "EXT_SENT" ELSE t.pha]
            [] h = "CW_CHANGE" ->
                 [t EXCEPT !.wkey = IF ~ t.tls13 /\ t.hello_retry_request # "PENDING"
                                       /\ t.early_data_state = "CONNECTING" THEN EarlyKey ELSE t.wkey]
            [] h = "CW_END_OF_EARLY_DATA" ->
                 [t EXCEPT !.wkey = Plain, !.early_data_state = "FINISHED_WRITING"]
            [] h = "CW_FINISHED" ->
                 [t EXCEPT !.wkey = IF t.pha = "REQUESTED" THEN k ELSE ApplicationKey,
                           !.fin = t.fin \cup {"own"}]
            [] h = "CW_KEY_UPDATE" -> [t EXCEPT !.key_update = "NONE", !.wkey = t.wkey + 1]
            [] OTHER -> [t EXCEPT !.wkey = k]
  BY <1>2 DEF ClientSent, k
<1> HIDE DEF u
<1>10. /\ u.hand_state = h /\ u.flow = t.flow /\ u.in_init = t.in_init /\ u.tls13 = t.tls13
       /\ u.rkey = t.rkey /\ u.hello_retry_request = t.hello_retry_request /\ u.hit = t.hit
       /\ u.cert = t.cert
       /\ u.early_data = IF h = "CW_CLNT_HELLO" /\ t.early_data_state = "CONNECTING"
                         THEN "REJECTED" ELSE t.early_data
       /\ u.pha = IF h = "CW_CLNT_HELLO" /\ conf.pha THEN "EXT_SENT" ELSE t.pha
       /\ u.early_data_state = IF h = "CW_END_OF_EARLY_DATA" THEN "FINISHED_WRITING"
            ELSE t.early_data_state
       /\ u.fin = IF h = "CW_FINISHED" THEN t.fin \cup {"own"} ELSE t.fin
  <2> USE <1>2, <1>9 DEF Conn
  <2>1. CASE h = "CW_CLNT_HELLO" BY <2>1
  <2>2. CASE h = "CW_CHANGE" BY <2>2
  <2>3. CASE h = "CW_END_OF_EARLY_DATA" BY <2>3
  <2>4. CASE h = "CW_FINISHED" BY <2>4
  <2>5. CASE h = "CW_KEY_UPDATE" BY <2>5
  <2>6. CASE h \in {"CW_CERT", "CW_CERT_VRFY"} BY <2>6
  <2> QED BY <2>1, <2>2, <2>3, <2>4, <2>5, <2>6 DEF ClientWrites
<1>11. u.wkey = IF h = "CW_CLNT_HELLO"
              THEN IF t.early_data_state = "CONNECTING" /\ ~ conf.compat[Client] THEN EarlyKey
                ELSE t.wkey
              ELSE IF h = "CW_CHANGE"
              THEN IF ~ t.tls13 /\ t.hello_retry_request # "PENDING"
                /\ t.early_data_state = "CONNECTING"
                   THEN EarlyKey ELSE t.wkey
              ELSE IF h = "CW_END_OF_EARLY_DATA" THEN Plain
              ELSE IF h = "CW_FINISHED" /\ t.pha # "REQUESTED" THEN ApplicationKey
              ELSE IF h = "CW_KEY_UPDATE" THEN t.wkey + 1 ELSE k
  <2> USE <1>2, <1>9 DEF Conn
  <2>1. CASE h = "CW_CLNT_HELLO" BY <2>1
  <2>2. CASE h = "CW_CHANGE" BY <2>2
  <2>3. CASE h = "CW_END_OF_EARLY_DATA" BY <2>3
  <2>4. CASE h = "CW_FINISHED" BY <2>4
  <2>5. CASE h = "CW_KEY_UPDATE" BY <2>5
  <2>6. CASE h \in {"CW_CERT", "CW_CERT_VRFY"} BY <2>6
  <2> QED BY <2>1, <2>2, <2>3, <2>4, <2>5, <2>6 DEF ClientWrites
<1>12. ClientSendsAs(c, h, r, u)
  BY <1>1, <1>2, <1>3, <1>4, <1>5, <1>6, <1>7, <1>8, <1>10, <1>11
     DEF ClientSendsAs, SameCall, SameSecrets, SameHello, SameAuth, SameEarly
<1> QED BY <1>12 DEF u

\* What the client has said leads to a place.
LEMMA SaidPlace ==
  ASSUME NEW f, NEW c \in Conn, NEW x, Shown(c, x)
  PROVE  ClientSaid(f, c, x) \in Places
<1>1. \A a \in {"HELLO", "AGAIN", "APP", "EARLY", "ANSWER", "SR_CERT", "SR_CERT_VRFY"}, k \in Nat :
        Place(a, k, x) \in Places
  BY DEF Place, Places, Shown
<1>2. c.wkey \in Nat /\ Plain \in Nat /\ EarlyKey \in Nat /\ HandshakeKey \in Nat
  BY Typed DEF Plain, EarlyKey, HandshakeKey
<1> QED BY <1>1, <1>2 DEF ClientSaid

\* The fields of a place.
LEMMA PlaceFields ==
  \A a, k, x : Place(a, k, x).at = a /\ Place(a, k, x).key = k /\ Place(a, k, x).cert = x
BY DEF Place

\* What sending r and becoming u leaves of the invariant.
ClientSpoke(c, r, u) ==
  /\ ClientAt(conf, u) /\ ClientPlace(u) = ClientPlace(c) /\ u.hand_state # "OK"
  /\ ClientSpeaks(conf, c, r, u) /\ r.type # "DATA"
  /\ One(Answers(u)) + One(r \in LateAnswers) = One(Answers(c))
  /\ r.type = "CERTIFICATE" /\ r.key >= ApplicationKey => Answers(u)

\* A message that is not part of an answer.
LEMMA NoAnswerYet ==
  ASSUME NEW c, NEW u, NEW r, Answers(u) <=> Answers(c),
         r.type # "FINISHED" \/ r.key < ApplicationKey,
         r \in Rec
  PROVE  One(Answers(u)) + One(r \in LateAnswers) = One(Answers(c))
<1>1. One(r \in LateAnswers) = 0
  <2>1. r.key \in Nat
    BY DEF Rec
  <2> QED BY <2>1 DEF One, LateAnswers, ApplicationKey
<1>2. One(Answers(u)) = One(Answers(c)) /\ One(Answers(c)) \in Nat
  BY DEF One
<1> QED BY <1>1, <1>2

\* The place where the client has taken the server.
LEMMA Speaks ==
  ASSUME NEW c \in Conn, NEW u \in Conn, NEW r, NEW x, NEW y, Shown(c, x), Shown(u, y),
         NEW a, NEW k, NEW b, NEW j,
         ClientSaid(conf, c, x) = Place(a, k, x), ClientSaid(conf, u, y) = Place(b, j, y),
         ClientSays(conf, Place(a, k, x), r, Place(b, j, y)), k <= j
  PROVE  \E z : /\ Shown(u, z) /\ ClientSaid(conf, u, z) \in Places
                /\ ClientSays(conf, ClientSaid(conf, c, x), r, ClientSaid(conf, u, z))
                /\ ClientSaid(conf, c, x).key <= ClientSaid(conf, u, z).key
<1>1. ClientSaid(conf, u, y) \in Places
  BY SaidPlace
<1>2. ClientSaid(conf, c, x).key = k /\ ClientSaid(conf, u, y).key = j
  BY PlaceFields
<1> QED BY <1>1, <1>2

\* The ClientHello.
LEMMA HelloSent ==
  ASSUME NEW c, NEW r, NEW u, ClientSendsAs(c, "CW_CLNT_HELLO", r, u)
  PROVE  ClientSpoke(c, r, u)
<1>1. /\ c \in Conn /\ u \in Conn /\ r \in Rec /\ ClientOK(conf, c) /\ ClientOK(conf, u)
      /\ conf \in AllConfigurations /\ ClientAt(conf, c) /\ c.flow = "writing"
  BY DEF ClientSendsAs
<1>2. /\ ~ c.tls13
      /\ \/ c.hand_state = "BEFORE" /\ c.hello_retry_request = "NONE"
         \/ c.hand_state \in {"CR_SRVR_HELLO", "CW_CHANGE"} /\ c.hello_retry_request = "PENDING"
  BY <1>1 DEF ClientSendsAs, ClientGoes, ToRead, ClientAt, ClientKnows
<1>3. c.wkey = Plain /\ c.fin = {} /\ c.rkey = Plain /\ c.cert = "none"
  BY <1>1, <1>2 DEF ClientAt, ClientFar, ClientKey
<1>4. /\ u.hand_state = "CW_CLNT_HELLO" /\ u.flow = c.flow /\ u.in_init = c.in_init /\ ~ u.tls13
      /\ u.rkey = Plain /\ u.hello_retry_request = c.hello_retry_request
      /\ u.cert = "none" /\ u.fin = {} /\ u.early_data_state = c.early_data_state
      /\ u.early_data = (IF c.early_data_state = "CONNECTING" THEN "REJECTED" ELSE c.early_data)
      /\ u.pha = (IF conf.pha THEN "EXT_SENT" ELSE c.pha)
      /\ u.wkey = (IF c.early_data_state = "CONNECTING" /\ ~ conf.compat[Client] THEN EarlyKey ELSE Plain)
      /\ r.type = "CLIENT_HELLO" /\ r.key = Plain
      /\ r.arg = IF c.early_data_state = "CONNECTING" THEN "early" ELSE "none"
  BY <1>2, <1>3 DEF ClientSendsAs
<1>5. ClientAt(conf, u)
  <2>1. ClientCall(u)
    BY <1>1, <1>4 DEF ClientCall, ServerFlight
  <2>2. ClientFar(u)
    BY <1>1, <1>2, <1>4 DEF ClientFar, ServerFlight, ClientAt
  <2>3. ClientKnows(conf, u)
    BY <1>1, <1>2, <1>4, Configured DEF ClientKnows, ClientAt, ClientFar
  <2>4. ClientData(conf, u)
    <3> DEFINE e == c.early_data_state
               d == c.early_data
    <3>1. CASE c.hand_state = "BEFORE"
      <4>1. /\ (e = "CONNECTING" /\ conf.early) \/ (e = "NONE" /\ ~ conf.early)
            /\ d = "NOT_SENT"
        BY <1>1, <1>2, <3>1, Configured DEF ClientData, ClientAt, Opened
      <4> QED BY <1>1, <1>2, <1>4, <3>1, <4>1 DEF ClientData, Opened, Fate, Accepts
    <3>2. CASE c.hand_state # "BEFORE"
      <4>1. /\ \/ e \in Opened /\ conf.early /\ d = "REJECTED"
               \/ e = "NONE" /\ ~ conf.early /\ d = "NOT_SENT"
            /\ e = "WRITING" => ~ conf.retry /\ ~ Accepts(conf)
        BY <1>1, <1>2, <3>2, Configured DEF ClientData, ClientAt, Opened, Fate, Accepts
      <4> QED BY <1>1, <1>2, <1>4, <3>2, <4>1 DEF ClientData, Opened, Fate, Accepts
    <3> QED BY <3>1, <3>2
  <2>5. ClientCert(conf, u)
    BY <1>4 DEF ClientCert
  <2>6. ClientKey(conf, u)
    BY <1>1, <1>2, <1>4 DEF ClientKey, ClientData, ClientAt, Plain, EarlyKey
  <2> QED BY <2>1, <2>2, <2>3, <2>4, <2>5, <2>6 DEF ClientAt
<1>6. ClientPlace(u) = ClientPlace(c)
  BY <1>2, <1>3, <1>4 DEF ClientPlace
<1>7. ClientSpeaks(conf, c, r, u)
  <2> SUFFICES ASSUME NEW x, Shown(c, x)
               PROVE \E y : /\ Shown(u, y) /\ ClientSaid(conf, u, y) \in Places
                            /\ ClientSays(conf, ClientSaid(conf, c, x), r, ClientSaid(conf, u, y))
                            /\ ClientSaid(conf, c, x).key <= ClientSaid(conf, u, y).key
    BY DEF ClientSpeaks
  <2>1. x = "none" /\ Shown(u, x)
    BY <1>2, <1>3, <1>4 DEF Shown
  <2>2. CASE c.hand_state = "BEFORE"
    <3>1. ClientSaid(conf, c, x) = Place("HELLO", Plain, x)
      BY <2>2 DEF ClientSaid
    <3>2. c.hello_retry_request = "NONE"
      BY <1>2, <2>2
    <3>3. ClientSaid(conf, u, x) = IF conf.retry THEN Place("AGAIN", Plain, x)
             ELSE IF Accepts(conf) THEN Place("EARLY", EarlyKey, x)
               ELSE Place("ANSWER", HandshakeKey, x)
      BY <1>1, <1>4, <3>2, Configured DEF ClientSaid, Awaited, Accepts
    <3>4. c.early_data_state = "CONNECTING" <=> conf.early
      BY <1>1, <2>2, <3>2, Configured DEF ClientAt, ClientData, Opened
    <3>5. CASE conf.retry
      <4>1. ClientSays(conf, Place("HELLO", Plain, x), r, Place("AGAIN", Plain, x))
        BY <1>4, <2>1, <3>4, <3>5, PlaceFields, Configured, <1>1 DEF ClientSays
      <4> QED BY <1>1, <2>1, <3>1, <3>3, <3>5, <4>1, Speaks DEF Plain
    <3>6. CASE ~ conf.retry /\ Accepts(conf)
      <4>1. ClientSays(conf, Place("HELLO", Plain, x), r, Place("EARLY", EarlyKey, x))
        BY <1>4, <2>1, <3>4, <3>6, PlaceFields, Configured, <1>1 DEF ClientSays
      <4> QED BY <1>1, <2>1, <3>1, <3>3, <3>6, <4>1, Speaks DEF Plain, EarlyKey
    <3>7. CASE ~ conf.retry /\ ~ Accepts(conf)
      <4>1. ClientSays(conf, Place("HELLO", Plain, x), r, Place("ANSWER", HandshakeKey, x))
        BY <1>4, <2>1, <3>4, <3>7, PlaceFields, Configured, <1>1 DEF ClientSays
      <4> QED BY <1>1, <2>1, <3>1, <3>3, <3>7, <4>1, Speaks DEF Plain, HandshakeKey
    <3> QED BY <3>5, <3>6, <3>7
  <2>3. CASE c.hand_state # "BEFORE"
    <3>1. c.hand_state \in {"CR_SRVR_HELLO", "CW_CHANGE"} /\ c.hello_retry_request = "PENDING"
            /\ conf.retry
      BY <1>1, <1>2, <2>3 DEF ClientAt, ClientKnows
    <3>2. ~ Accepts(conf)
      BY <3>1 DEF Accepts
    <3>3. ClientSaid(conf, c, x) = Place("AGAIN", Plain, x)
      BY <1>2, <1>3, <3>1 DEF ClientSaid, Awaited
    <3>4. ClientSaid(conf, u, x) = Place("ANSWER", HandshakeKey, x)
      BY <1>4, <3>1, <3>2 DEF ClientSaid, Awaited
    <3>5. c.early_data_state # "CONNECTING"
      BY <1>1, <3>1 DEF ClientAt, ClientData
    <3>6. ClientSays(conf, Place("AGAIN", Plain, x), r, Place("ANSWER", HandshakeKey, x))
      BY <1>4, <2>1, <3>2, <3>5, PlaceFields DEF ClientSays
    <3> QED BY <1>1, <2>1, <3>3, <3>4, <3>6, Speaks DEF Plain, HandshakeKey
  <2> QED BY <2>2, <2>3
<1>8. ~ Answers(u) /\ ~ Answers(c)
  BY <1>1, <1>2, <1>4 DEF Answers, ClientAt, ClientFar
<1>9. One(Answers(u)) + One(r \in LateAnswers) = One(Answers(c))
  BY <1>1, <1>4, <1>8, NoAnswerYet
<1> QED BY <1>4, <1>5, <1>6, <1>7, <1>9 DEF ClientSpoke

\* The ChangeCipherSpec of the compatibility mode.
LEMMA ChangeSent ==
  ASSUME NEW c, NEW r, NEW u, ClientSendsAs(c, "CW_CHANGE", r, u)
  PROVE  ClientSpoke(c, r, u)
<1>1. /\ c \in Conn /\ u \in Conn /\ r \in Rec /\ ClientOK(conf, c) /\ ClientOK(conf, u)
      /\ conf \in AllConfigurations /\ ClientAt(conf, c) /\ c.flow = "writing"
  BY DEF ClientSendsAs
<1> DEFINE e == c.early_data_state
           again == ~ c.tls13 /\ c.hand_state = "CR_SRVR_HELLO" /\ c.hello_retry_request = "PENDING"
           early == ~ c.tls13 /\ c.hand_state = "CW_CLNT_HELLO" /\ e = "CONNECTING"
                      /\ conf.compat[Client]
           late == c.tls13 /\ c.hand_state = "CR_FINISHED" /\ e \in {"NONE", "WRITING"}
<1>2. again \/ early \/ late
  BY <1>1 DEF ClientSendsAs, ClientGoes, ToRead, ClientAt, ClientData, Opened
<1>3. /\ u.hand_state = "CW_CHANGE" /\ u.flow = "writing" /\ u.in_init = c.in_init
      /\ u.tls13 = c.tls13
      /\ u.rkey = c.rkey /\ u.hello_retry_request = c.hello_retry_request /\ u.hit = c.hit
      /\ u.cert = c.cert /\ u.fin = c.fin /\ u.early_data_state = e
      /\ u.early_data = c.early_data /\ u.pha = c.pha
      /\ u.wkey = (IF ~ c.tls13 /\ c.hello_retry_request # "PENDING" /\ e = "CONNECTING"
                   THEN EarlyKey ELSE c.wkey)
      /\ r.type = "CCS" /\ r.key = c.wkey
  BY <1>1 DEF ClientSendsAs
<1>4. "own" \notin c.fin /\ (late => "peer" \in c.fin)
  BY <1>1, <1>2 DEF ClientOK, ClientLate, ClientAt, ClientFar
<1>5. e = "CONNECTING" => c.hello_retry_request = "NONE" /\ ~ c.tls13 /\ conf.early
  BY <1>1 DEF ClientAt, ClientData, ClientKnows
<1>6. late => ~ Accepts(conf)
  BY <1>1, Configured DEF ClientAt, ClientData, Accepts
<1>7. ClientAt(conf, u)
  <2>1. ClientCall(u)
    BY <1>3 DEF ClientCall, ServerFlight
  <2>2. ClientFar(u)
    BY <1>1, <1>2, <1>3 DEF ClientFar, ServerFlight, ClientAt
  <2>3. ClientKnows(conf, u)
    BY <1>1, <1>2, <1>3 DEF ClientKnows, ClientAt, ClientFar
  <2>4. ClientData(conf, u)
    BY <1>1, <1>2, <1>3, <1>5, <1>6 DEF ClientData, ClientAt, Opened
  <2>5. ClientCert(conf, u)
    BY <1>1, <1>2, <1>3 DEF ClientCert, ClientAt
  <2>6. ClientKey(conf, u)
    BY <1>1, <1>2, <1>3, <1>4, <1>5 DEF ClientKey, ClientAt
  <2> QED BY <2>1, <2>2, <2>3, <2>4, <2>5, <2>6 DEF ClientAt
<1>8. ClientPlace(u) = ClientPlace(c)
  <2>1. c.tls13 => late
    BY <1>2
  <2> QED BY <1>3, <1>4, <2>1 DEF ClientPlace
<1>9. ClientSpeaks(conf, c, r, u)
  <2> SUFFICES ASSUME NEW x, Shown(c, x)
               PROVE \E y : /\ Shown(u, y) /\ ClientSaid(conf, u, y) \in Places
                            /\ ClientSays(conf, ClientSaid(conf, c, x), r, ClientSaid(conf, u, y))
                            /\ ClientSaid(conf, c, x).key <= ClientSaid(conf, u, y).key
    BY DEF ClientSpeaks
  <2>1. x = "none" /\ Shown(u, x)
    BY <1>2, <1>3, <1>4 DEF Shown
  <2>2. CASE again
    <3>1. conf.retry /\ r.key = Plain
      BY <1>1, <1>3, <1>4, <2>2 DEF ClientAt, ClientKnows, ClientKey
    <3>2. ClientSaid(conf, c, x) = Place("AGAIN", Plain, x)
            /\ ClientSaid(conf, u, x) = Place("AGAIN", Plain, x)
      BY <1>3, <1>4, <2>2, <3>1 DEF ClientSaid, Awaited
    <3>3. ClientSays(conf, Place("AGAIN", Plain, x), r, Place("AGAIN", Plain, x))
      BY <1>3, <3>1, PlaceFields DEF ClientSays
    <3> QED BY <1>1, <2>1, <3>2, <3>3, Speaks DEF Plain
  <2>3. CASE early
    <3>1. r.key = Plain /\ c.hello_retry_request = "NONE"
      BY <1>1, <1>3, <1>5, <2>3 DEF ClientAt, ClientKey
    <3>2. CASE conf.retry
      <4>1. ClientSaid(conf, c, x) = Place("AGAIN", Plain, x)
              /\ ClientSaid(conf, u, x) = Place("AGAIN", Plain, x)
        BY <1>3, <1>4, <2>3, <3>1, <3>2 DEF ClientSaid, Awaited
      <4>2. ClientSays(conf, Place("AGAIN", Plain, x), r, Place("AGAIN", Plain, x))
        BY <1>3, <3>1, PlaceFields DEF ClientSays
      <4> QED BY <1>1, <2>1, <4>1, <4>2, Speaks DEF Plain
    <3>3. CASE ~ conf.retry /\ Accepts(conf)
      <4>1. ClientSaid(conf, c, x) = Place("EARLY", EarlyKey, x)
              /\ ClientSaid(conf, u, x) = Place("EARLY", EarlyKey, x)
        BY <1>3, <1>4, <2>3, <3>1, <3>3 DEF ClientSaid, Awaited
      <4>2. ClientSays(conf, Place("EARLY", EarlyKey, x), r, Place("EARLY", EarlyKey, x))
        BY <1>3, <3>1, PlaceFields DEF ClientSays
      <4> QED BY <1>1, <2>1, <4>1, <4>2, Speaks DEF EarlyKey
    <3>4. CASE ~ conf.retry /\ ~ Accepts(conf)
      <4>1. ClientSaid(conf, c, x) = Place("ANSWER", HandshakeKey, x)
              /\ ClientSaid(conf, u, x) = Place("ANSWER", HandshakeKey, x)
        BY <1>3, <1>4, <2>3, <3>1, <3>4 DEF ClientSaid, Awaited
      <4>2. ClientSays(conf, Place("ANSWER", HandshakeKey, x), r, Place("ANSWER", HandshakeKey, x))
        BY <1>3, <3>1, PlaceFields DEF ClientSays
      <4> QED BY <1>1, <2>1, <4>1, <4>2, Speaks DEF HandshakeKey
    <3> QED BY <3>2, <3>3, <3>4
  <2>4. CASE late
    <3>1. ClientSaid(conf, c, x) = Place("ANSWER", HandshakeKey, x)
            /\ ClientSaid(conf, u, x) = Place("ANSWER", HandshakeKey, x)
      BY <1>3, <1>4, <1>6, <2>4 DEF ClientSaid, Awaited
    <3>2. r.key = Plain \/ (r.key = EarlyKey /\ conf.early /\ e = "WRITING")
      BY <1>1, <1>3, <1>4, <2>4 DEF ClientAt, ClientKey, ClientData
    <3>3. r.key = Plain \/ (r.key = EarlyKey /\ Fate(conf) = "REJECTED" /\ ~ conf.retry)
      BY <1>1, <1>6, <2>4, <3>2 DEF ClientAt, ClientData, Fate
    <3>4. ClientSays(conf, Place("ANSWER", HandshakeKey, x), r, Place("ANSWER", HandshakeKey, x))
      BY <1>3, <3>3, PlaceFields DEF ClientSays
    <3> QED BY <1>1, <2>1, <3>1, <3>4, Speaks DEF HandshakeKey
  <2> QED BY <1>2, <2>2, <2>3, <2>4
<1>10. ~ Answers(u) /\ ~ Answers(c)
  BY <1>1, <1>2, <1>3 DEF Answers, ClientAt, ClientFar
<1>11. One(Answers(u)) + One(r \in LateAnswers) = One(Answers(c))
  BY <1>1, <1>3, <1>10, NoAnswerYet
<1> QED BY <1>3, <1>7, <1>8, <1>9, <1>11 DEF ClientSpoke

\* The EndOfEarlyData.
LEMMA EndSent ==
  ASSUME NEW c, NEW r, NEW u, ClientSendsAs(c, "CW_END_OF_EARLY_DATA", r, u)
  PROVE  ClientSpoke(c, r, u)
<1>1. /\ c \in Conn /\ u \in Conn /\ r \in Rec /\ ClientOK(conf, c) /\ ClientOK(conf, u)
      /\ conf \in AllConfigurations /\ ClientAt(conf, c) /\ c.flow = "writing"
  BY DEF ClientSendsAs
<1>2. c.tls13 /\ c.hand_state = "PENDING_EARLY_DATA_END" /\ c.early_data = "ACCEPTED"
  BY <1>1 DEF ClientSendsAs, ClientGoes, ToRead
<1>3. /\ u.hand_state = "CW_END_OF_EARLY_DATA" /\ u.flow = "writing" /\ u.in_init = c.in_init
      /\ u.tls13
      /\ u.rkey = c.rkey /\ u.hello_retry_request = c.hello_retry_request /\ u.hit = c.hit
      /\ u.cert = c.cert /\ u.fin = c.fin /\ u.early_data_state = "FINISHED_WRITING"
      /\ u.early_data = c.early_data /\ u.pha = c.pha /\ u.wkey = Plain
      /\ r.type = "END_OF_EARLY_DATA" /\ r.key = c.wkey
  BY <1>1, <1>2 DEF ClientSendsAs
<1>4. "own" \notin c.fin /\ "peer" \in c.fin
  BY <1>1, <1>2 DEF ClientOK, ClientLate
<1>5. Accepts(conf) /\ ~ conf.retry /\ conf.early
  BY <1>1, <1>2 DEF ClientAt, ClientData, Fate, Accepts
<1>6. c.hello_retry_request = "NONE" /\ c.wkey = EarlyKey
  <2>1. c.hello_retry_request = "NONE"
    BY <1>1, <1>5 DEF ClientAt, ClientKnows
  <2> QED BY <1>1, <1>2, <1>4, <2>1 DEF ClientOK, ClientEarly
<1>7. ClientAt(conf, u)
  <2>1. ClientCall(u)
    BY <1>3 DEF ClientCall, ServerFlight
  <2>2. ClientFar(u)
    BY <1>1, <1>2, <1>3 DEF ClientFar, ServerFlight, ClientAt
  <2>3. ClientKnows(conf, u)
    BY <1>1, <1>2, <1>3 DEF ClientKnows, ClientAt, ClientFar
  <2>4. ClientData(conf, u)
    BY <1>1, <1>2, <1>3, <1>5 DEF ClientData, ClientAt, Opened
  <2>5. ClientCert(conf, u)
    BY <1>1, <1>2, <1>3 DEF ClientCert, ClientAt
  <2>6. ClientKey(conf, u)
    BY <1>3 DEF ClientKey, Plain, EarlyKey
  <2> QED BY <2>1, <2>2, <2>3, <2>4, <2>5, <2>6 DEF ClientAt
<1>8. ClientPlace(u) = ClientPlace(c)
  BY <1>3, <1>4 DEF ClientPlace
<1>9. ClientSpeaks(conf, c, r, u)
  <2> SUFFICES ASSUME NEW x, Shown(c, x)
               PROVE \E y : /\ Shown(u, y) /\ ClientSaid(conf, u, y) \in Places
                            /\ ClientSays(conf, ClientSaid(conf, c, x), r, ClientSaid(conf, u, y))
                            /\ ClientSaid(conf, c, x).key <= ClientSaid(conf, u, y).key
    BY DEF ClientSpeaks
  <2>1. x = "none" /\ Shown(u, x)
    BY <1>2, <1>3, <1>4 DEF Shown
  <2>2. ClientSaid(conf, c, x) = Place("EARLY", EarlyKey, x)
    BY <1>2, <1>4, <1>5 DEF ClientSaid, Awaited
  <2>3. ClientSaid(conf, u, x) = Place("ANSWER", HandshakeKey, x)
    BY <1>3, <1>4, <1>5 DEF ClientSaid, Awaited
  <2>4. ClientSays(conf, Place("EARLY", EarlyKey, x), r, Place("ANSWER", HandshakeKey, x))
    BY <1>3, <1>6, <2>1, PlaceFields DEF ClientSays
  <2> QED BY <1>1, <2>1, <2>2, <2>3, <2>4, Speaks DEF EarlyKey, HandshakeKey
<1>10. ~ Answers(u) /\ ~ Answers(c)
  BY <1>1, <1>2, <1>3 DEF Answers, ClientAt, ClientFar
<1>11. One(Answers(u)) + One(r \in LateAnswers) = One(Answers(c))
  BY <1>1, <1>3, <1>10, NoAnswerYet
<1> QED BY <1>3, <1>7, <1>8, <1>9, <1>11 DEF ClientSpoke

\* The client has come to its answer: what it has said leads up to it.
LEMMA BeforeAnswer ==
  ASSUME NEW c, ClientOK(conf, c), ClientAt(conf, c), conf \in AllConfigurations, c.tls13,
         \/ c.hand_state = "CR_FINISHED"
              /\ c.early_data_state \notin {"WRITE_RETRY", "FINISHED_WRITING"}
         \/ c.hand_state = "PENDING_EARLY_DATA_END" /\ c.early_data # "ACCEPTED"
         \/ c.hand_state \in {"CW_END_OF_EARLY_DATA", "CW_CHANGE"}
  PROVE  /\ "own" \notin c.fin /\ "peer" \in c.fin /\ c.pha # "REQUESTED"
         /\ c.cert # "none" <=> Asks(conf)
         /\ \A x : Shown(c, x) => x = "none"
              /\ ClientSaid(conf, c, x) = Place("ANSWER", HandshakeKey, x)
<1>1. "own" \notin c.fin /\ "peer" \in c.fin
  BY DEF ClientOK, ClientLate
<1>2. c.pha # "REQUESTED"
  BY DEF ClientAt, ClientFar
<1>3. c.cert # "none" <=> Asks(conf)
  BY <1>1 DEF ClientAt, ClientCert
<1>4. ~ Accepts(conf) \/ c.hand_state = "CW_END_OF_EARLY_DATA"
  <2>1. CASE c.hand_state = "CR_FINISHED"
    <3>1. c.early_data_state \in {"NONE", "WRITING"}
      BY <2>1 DEF ClientAt, ClientData, Opened
    <3> QED BY <2>1, <3>1, Configured DEF ClientAt, ClientData, Accepts
  <2>2. CASE c.hand_state = "PENDING_EARLY_DATA_END"
    BY <2>2 DEF ClientAt, ClientData, Fate
  <2>3. CASE c.hand_state = "CW_CHANGE"
    BY <2>3 DEF ClientAt, ClientData
  <2> QED BY <2>1, <2>2, <2>3
<1>5. ASSUME NEW x,
             Shown(c, x) PROVE x = "none" /\ ClientSaid(conf, c, x) = Place("ANSWER", HandshakeKey, x)
  BY <1>1, <1>4, <1>5 DEF Shown, ClientSaid, Awaited
<1> QED BY <1>1, <1>2, <1>3, <1>5

\* The Certificate, in the handshake or after it.
LEMMA CertSent ==
  ASSUME NEW c, NEW r, NEW u, ClientSendsAs(c, "CW_CERT", r, u)
  PROVE  ClientSpoke(c, r, u)
<1>1. /\ c \in Conn /\ u \in Conn /\ r \in Rec /\ ClientOK(conf, c) /\ ClientOK(conf, u)
      /\ conf \in AllConfigurations /\ ClientAt(conf, c) /\ c.flow = "writing"
  BY DEF ClientSendsAs
<1> DEFINE post == c.hand_state = "CR_CERT_REQ" /\ c.pha = "REQUESTED"
           first == \/ c.hand_state = "CR_FINISHED" /\ c.early_data_state \notin {"WRITE_RETRY", "FINISHED_WRITING"}
                    \/ c.hand_state = "PENDING_EARLY_DATA_END" /\ c.early_data # "ACCEPTED"
                    \/ c.hand_state \in {"CW_END_OF_EARLY_DATA", "CW_CHANGE"}
<1>2. c.tls13 /\ (post \/ (first /\ c.cert # "none"))
  BY <1>1 DEF ClientSendsAs, ClientGoes, ToRead
<1>3. /\ u.hand_state = "CW_CERT" /\ u.flow = "writing" /\ u.in_init = c.in_init /\ u.tls13
      /\ u.rkey = c.rkey /\ u.hello_retry_request = c.hello_retry_request /\ u.hit = c.hit
      /\ u.cert = c.cert /\ u.fin = c.fin /\ u.early_data_state = c.early_data_state
      /\ u.early_data = c.early_data /\ u.pha = c.pha
      /\ r.key = (IF c.fin # {"own", "peer"} THEN HandshakeKey ELSE c.wkey)
      /\ u.wkey = r.key /\ r.type = "CERTIFICATE" /\ r.arg = c.cert
  BY <1>1, <1>2 DEF ClientSendsAs
<1>4. "peer" \in c.fin /\ c.cert # "none" /\ c.cert \in {"cert", "empty"}
      /\ (post => "own" \in c.fin) /\ ("own" \in c.fin => post)
  <2>1. "own" \in c.fin => c.hand_state \notin {"CR_FINISHED", "PENDING_EARLY_DATA_END",
                                                "CW_END_OF_EARLY_DATA", "CW_CHANGE"}
    BY <1>1 DEF ClientOK, ClientLate
  <2> QED BY <1>1, <1>2, <2>1, BeforeAnswer DEF ClientOK, ClientLate, Conn
<1>5. ClientAt(conf, u)
  <2>1. ClientCall(u)
    BY <1>3 DEF ClientCall, ServerFlight
  <2>2. ClientFar(u)
    BY <1>1, <1>2, <1>3, <1>4 DEF ClientFar, ServerFlight, ClientAt
  <2>3. ClientKnows(conf, u)
    BY <1>1, <1>2, <1>3 DEF ClientKnows, ClientAt, ClientFar
  <2>4. ClientData(conf, u)
    BY <1>1, <1>2, <1>3 DEF ClientData, ClientAt, Opened
  <2>5. ClientCert(conf, u)
    BY <1>1, <1>2, <1>3, <1>4 DEF ClientCert, ClientAt
  <2>6. ClientKey(conf, u)
    BY <1>3 DEF ClientKey, HandshakeKey, EarlyKey
  <2> QED BY <2>1, <2>2, <2>3, <2>4, <2>5, <2>6 DEF ClientAt
<1>6. ClientPlace(u) = ClientPlace(c)
  BY <1>3, <1>4 DEF ClientPlace
<1>7. ClientSpeaks(conf, c, r, u)
  <2> SUFFICES ASSUME NEW x, Shown(c, x)
               PROVE \E y : /\ Shown(u, y) /\ ClientSaid(conf, u, y) \in Places
                            /\ ClientSays(conf, ClientSaid(conf, c, x), r, ClientSaid(conf, u, y))
                            /\ ClientSaid(conf, c, x).key <= ClientSaid(conf, u, y).key
    BY DEF ClientSpeaks
  <2>1. Shown(u, c.cert) /\ ClientSaid(conf, u, c.cert) = Place("SR_CERT", r.key, c.cert)
    BY <1>3, <1>4 DEF Shown, ClientSaid
  <2>2. CASE first /\ ~ post
    <3>1. ClientSaid(conf, c, x) = Place("ANSWER", HandshakeKey, x) /\ r.key = HandshakeKey
            /\ Asks(conf)
      BY <1>1, <1>2, <1>3, <1>4, <2>2, BeforeAnswer
    <3>2. ClientSays(conf, Place("ANSWER", HandshakeKey, x), r, Place("SR_CERT", HandshakeKey, c.cert))
      BY <1>3, <1>4, <3>1, PlaceFields DEF ClientSays
    <3> QED BY <1>1, <2>1, <3>1, <3>2, Speaks DEF HandshakeKey
  <2>3. CASE post
    <3>1. c.fin = {"own", "peer"} /\ r.key = c.wkey
      BY <1>1, <1>3, <1>4, <2>3 DEF Conn
    <3>2. ClientSaid(conf, c, x) = Place("APP", c.wkey, x)
      BY <1>4, <2>3 DEF ClientSaid
    <3>3. conf.pha
      BY <1>1, <2>3 DEF ClientAt, ClientKnows
    <3>4. ClientSays(conf, Place("APP", c.wkey, x), r, Place("SR_CERT", c.wkey, c.cert))
      BY <1>3, <1>4, <3>1, <3>3, PlaceFields DEF ClientSays
    <3>5. c.wkey <= c.wkey
      BY <1>1 DEF Conn
    <3> QED BY <1>1, <2>1, <3>1, <3>2, <3>4, <3>5, Speaks
  <2> QED BY <1>2, <2>2, <2>3
<1>8. Answers(u) <=> Answers(c)
  BY <1>2, <1>3 DEF Answers
<1>9. One(Answers(u)) + One(r \in LateAnswers) = One(Answers(c))
  BY <1>1, <1>3, <1>8, NoAnswerYet
<1>10. r.key >= ApplicationKey => Answers(u)
  <2>1. c.fin # {"own", "peer"} => ~ (r.key >= ApplicationKey)
    BY <1>3 DEF HandshakeKey, ApplicationKey
  <2> QED BY <1>2, <1>3, <1>4, <2>1 DEF Answers
<1> QED BY <1>3, <1>5, <1>6, <1>7, <1>9, <1>10 DEF ClientSpoke

\* The CertificateVerify.
LEMMA VerifySent ==
  ASSUME NEW c, NEW r, NEW u, ClientSendsAs(c, "CW_CERT_VRFY", r, u)
  PROVE  ClientSpoke(c, r, u)
<1>1. /\ c \in Conn /\ u \in Conn /\ r \in Rec /\ ClientOK(conf, c) /\ ClientOK(conf, u)
      /\ conf \in AllConfigurations /\ ClientAt(conf, c) /\ c.flow = "writing"
  BY DEF ClientSendsAs
<1>2. c.tls13 /\ c.hand_state = "CW_CERT" /\ c.cert = "cert"
  BY <1>1 DEF ClientSendsAs, ClientGoes, ToRead
<1>3. /\ u.hand_state = "CW_CERT_VRFY" /\ u.flow = "writing" /\ u.in_init = c.in_init /\ u.tls13
      /\ u.rkey = c.rkey /\ u.hello_retry_request = c.hello_retry_request /\ u.hit = c.hit
      /\ u.cert = c.cert /\ u.fin = c.fin /\ u.early_data_state = c.early_data_state
      /\ u.early_data = c.early_data /\ u.pha = c.pha
      /\ r.key = c.wkey /\ u.wkey = c.wkey /\ r.type = "CERTIFICATE_VERIFY"
  BY <1>1, <1>2 DEF ClientSendsAs
<1>4. "peer" \in c.fin
  BY <1>1, <1>2 DEF ClientOK, ClientLate
<1>5. ClientAt(conf, u)
  <2>1. ClientCall(u)
    BY <1>3 DEF ClientCall, ServerFlight
  <2>2. ClientFar(u)
    BY <1>1, <1>2, <1>3, <1>4 DEF ClientFar, ServerFlight, ClientAt
  <2>3. ClientKnows(conf, u)
    BY <1>1, <1>2, <1>3 DEF ClientKnows, ClientAt, ClientFar
  <2>4. ClientData(conf, u)
    BY <1>1, <1>2, <1>3 DEF ClientData, ClientAt, Opened
  <2>5. ClientCert(conf, u)
    BY <1>1, <1>2, <1>3, <1>4 DEF ClientCert, ClientAt
  <2>6. ClientKey(conf, u)
    BY <1>1, <1>2, <1>3 DEF ClientKey, ClientAt
  <2> QED BY <2>1, <2>2, <2>3, <2>4, <2>5, <2>6 DEF ClientAt
<1>6. ClientPlace(u) = ClientPlace(c)
  BY <1>3, <1>4 DEF ClientPlace
<1>7. ClientSpeaks(conf, c, r, u)
  <2> SUFFICES ASSUME NEW x, Shown(c, x)
               PROVE \E y : /\ Shown(u, y) /\ ClientSaid(conf, u, y) \in Places
                            /\ ClientSays(conf, ClientSaid(conf, c, x), r, ClientSaid(conf, u, y))
                            /\ ClientSaid(conf, c, x).key <= ClientSaid(conf, u, y).key
    BY DEF ClientSpeaks
  <2>1. x = "cert" /\ Shown(u, x)
    BY <1>2, <1>3 DEF Shown
  <2>2. /\ ClientSaid(conf, c, x) = Place("SR_CERT", c.wkey, x)
        /\ ClientSaid(conf, u, x) = Place("SR_CERT_VRFY", c.wkey, x)
    BY <1>2, <1>3 DEF ClientSaid
  <2>3. ClientSays(conf, Place("SR_CERT", c.wkey, x), r, Place("SR_CERT_VRFY", c.wkey, x))
    BY <1>3, <2>1, PlaceFields DEF ClientSays
  <2>4. c.wkey <= c.wkey
    BY <1>1 DEF Conn
  <2> QED BY <1>1, <2>1, <2>2, <2>3, <2>4, Speaks
<1>8. Answers(u) <=> Answers(c)
  BY <1>2, <1>3 DEF Answers
<1>9. One(Answers(u)) + One(r \in LateAnswers) = One(Answers(c))
  BY <1>1, <1>3, <1>8, NoAnswerYet
<1> QED BY <1>3, <1>5, <1>6, <1>7, <1>9 DEF ClientSpoke

\* The Finished.
LEMMA FinishedSent ==
  ASSUME NEW c, NEW r, NEW u, ClientSendsAs(c, "CW_FINISHED", r, u)
  PROVE  ClientSpoke(c, r, u)
<1>1. /\ c \in Conn /\ u \in Conn /\ r \in Rec /\ ClientOK(conf, c) /\ ClientOK(conf, u)
      /\ conf \in AllConfigurations /\ ClientAt(conf, c) /\ c.flow = "writing"
  BY DEF ClientSendsAs
<1> DEFINE first == \/ c.hand_state = "CR_FINISHED" /\ c.early_data_state \notin {"WRITE_RETRY", "FINISHED_WRITING"}
                    \/ c.hand_state = "PENDING_EARLY_DATA_END" /\ c.early_data # "ACCEPTED"
                    \/ c.hand_state \in {"CW_END_OF_EARLY_DATA", "CW_CHANGE"}
           shown == (c.hand_state = "CW_CERT" /\ c.cert = "empty")
                    \/ (c.hand_state = "CW_CERT_VRFY" /\ c.cert = "cert")
<1>2. c.tls13 /\ ((first /\ c.cert = "none") \/ shown)
  BY <1>1 DEF ClientSendsAs, ClientGoes, ToRead, ClientAt, ClientCert, Conn
<1>3. /\ u.hand_state = "CW_FINISHED" /\ u.flow = "writing" /\ u.in_init = c.in_init /\ u.tls13
      /\ u.rkey = c.rkey /\ u.hello_retry_request = c.hello_retry_request /\ u.hit = c.hit
      /\ u.cert = c.cert /\ u.fin = c.fin \cup {"own"} /\ u.early_data_state = c.early_data_state
      /\ u.early_data = c.early_data /\ u.pha = c.pha
      /\ r.key = (IF c.cert = "none" THEN HandshakeKey ELSE c.wkey)
      /\ u.wkey = (IF c.pha # "REQUESTED" THEN ApplicationKey ELSE r.key) /\ r.type = "FINISHED"
  BY <1>1, <1>2 DEF ClientSendsAs
<1>4. "peer" \in c.fin
  BY <1>1, <1>2 DEF ClientOK, ClientLate
<1>5. ClientAt(conf, u)
  <2>1. ClientCall(u)
    BY <1>3 DEF ClientCall, ServerFlight
  <2>2. ClientFar(u)
    BY <1>1, <1>2, <1>3, <1>4 DEF ClientFar, ServerFlight, ClientAt
  <2>3. ClientKnows(conf, u)
    BY <1>1, <1>2, <1>3 DEF ClientKnows, ClientAt, ClientFar
  <2>4. ClientData(conf, u)
    BY <1>1, <1>2, <1>3 DEF ClientData, ClientAt, Opened
  <2>5. ClientCert(conf, u)
    BY <1>3 DEF ClientCert
  <2>6. ClientKey(conf, u)
    BY <1>3 DEF ClientKey
  <2> QED BY <2>1, <2>2, <2>3, <2>4, <2>5, <2>6 DEF ClientAt
<1>6. ClientPlace(u) = ClientPlace(c)
  BY <1>3, <1>4 DEF ClientPlace
<1>7. \A x : Shown(c, x) =>
         /\ x = c.cert /\ Shown(u, x)
         /\ ClientSaid(conf, c, x) = IF c.hand_state = "CW_CERT" THEN Place("SR_CERT", c.wkey, x)
                                     ELSE IF c.hand_state = "CW_CERT_VRFY" THEN Place("SR_CERT_VRFY", c.wkey, x)
                                     ELSE Place("ANSWER", HandshakeKey, x)
         /\ ClientSaid(conf, u, x) = Place("APP", u.wkey, x)
  <2> TAKE x
  <2> HAVE Shown(c, x)
  <2>1. x = c.cert
    <3>1. CASE shown
      BY <3>1 DEF Shown
    <3>2. CASE ~ shown
      BY <1>1, <1>2, <3>2, BeforeAnswer
    <3> QED BY <3>1, <3>2
  <2>2. Shown(u, x)
    BY <1>3, <2>1 DEF Shown
  <2>3. ClientSaid(conf, u, x) = Place("APP", u.wkey, x)
    BY <1>3 DEF ClientSaid
  <2>4. CASE shown
    BY <2>1, <2>2, <2>3, <2>4 DEF ClientSaid
  <2>5. CASE ~ shown
    <3>1. ClientSaid(conf, c, x) = Place("ANSWER", HandshakeKey, x)
      BY <1>1, <1>2, <2>5, BeforeAnswer
    <3> QED BY <1>2, <2>1, <2>2, <2>3, <2>5, <3>1
  <2> QED BY <2>4, <2>5
<1>8. CASE "own" \notin c.fin
  <2>1. c.pha # "REQUESTED"
    BY <1>1, <1>8 DEF ClientOK, ClientLate
  <2>2. r.key = HandshakeKey /\ u.wkey = ApplicationKey /\ (shown => c.wkey = HandshakeKey)
    BY <1>1, <1>2, <1>3, <1>8, <2>1 DEF ClientAt, ClientKey
  <2>3. ~ shown => ~ Asks(conf)
    BY <1>1, <1>2, BeforeAnswer
  <2>4. ClientSpeaks(conf, c, r, u)
    <3> SUFFICES ASSUME NEW x, Shown(c, x)
                 PROVE \E y : /\ Shown(u, y) /\ ClientSaid(conf, u, y) \in Places
                              /\ ClientSays(conf, ClientSaid(conf, c, x), r, ClientSaid(conf, u, y))
                              /\ ClientSaid(conf, c, x).key <= ClientSaid(conf, u, y).key
      BY DEF ClientSpeaks
    <3> DEFINE a == IF c.hand_state = "CW_CERT" THEN "SR_CERT"
                    ELSE IF c.hand_state = "CW_CERT_VRFY" THEN "SR_CERT_VRFY" ELSE "ANSWER"
    <3>1. ClientSaid(conf, c, x) = Place(a, HandshakeKey, x)
            /\ ClientSaid(conf, u, x) = Place("APP", ApplicationKey, x)
          /\ Shown(u, x) /\ x = c.cert
      BY <1>2, <1>7, <2>2
    <3>2. \/ a = "ANSWER" /\ ~ Asks(conf)
          \/ a = "SR_CERT" /\ x = "empty"
          \/ a = "SR_CERT_VRFY"
      BY <1>2, <2>3, <3>1
    <3> HIDE DEF a
    <3>3. ClientSays(conf, Place(a, HandshakeKey, x), r, Place("APP", ApplicationKey, x))
      BY <1>3, <2>2, <3>2, PlaceFields DEF ClientSays
    <3> QED BY <1>1, <3>1, <3>3, Speaks DEF HandshakeKey, ApplicationKey
  <2>5. ~ Answers(u) /\ ~ Answers(c)
    BY <1>3, <2>1 DEF Answers
  <2>6. One(Answers(u)) + One(r \in LateAnswers) = One(Answers(c))
    BY <1>1, <2>2, <2>5, NoAnswerYet DEF HandshakeKey, ApplicationKey
  <2> QED BY <1>3, <1>5, <1>6, <2>4, <2>6 DEF ClientSpoke
<1>9. CASE "own" \in c.fin
  <2>1. c.pha = "REQUESTED" /\ shown /\ c.cert # "none" /\ c.wkey >= ApplicationKey
    BY <1>1, <1>2, <1>9 DEF ClientOK, ClientLate
  <2>2. r.key = c.wkey /\ u.wkey = c.wkey /\ c.wkey # HandshakeKey /\ c.wkey <= c.wkey
    BY <1>1, <1>3, <2>1 DEF Conn, HandshakeKey, ApplicationKey
  <2>3. ClientSpeaks(conf, c, r, u)
    <3> SUFFICES ASSUME NEW x, Shown(c, x)
                 PROVE \E y : /\ Shown(u, y) /\ ClientSaid(conf, u, y) \in Places
                              /\ ClientSays(conf, ClientSaid(conf, c, x), r, ClientSaid(conf, u, y))
                              /\ ClientSaid(conf, c, x).key <= ClientSaid(conf, u, y).key
      BY DEF ClientSpeaks
    <3> DEFINE a == IF c.hand_state = "CW_CERT" THEN "SR_CERT" ELSE "SR_CERT_VRFY"
    <3>1. ClientSaid(conf, c, x) = Place(a, c.wkey, x)
            /\ ClientSaid(conf, u, x) = Place("APP", c.wkey, x)
          /\ Shown(u, x) /\ x = c.cert
      BY <1>7, <2>1, <2>2
    <3>2. \/ a = "SR_CERT" /\ x = "empty"
          \/ a = "SR_CERT_VRFY"
      BY <2>1, <3>1
    <3> HIDE DEF a
    <3>3. ClientSays(conf, Place(a, c.wkey, x), r, Place("APP", c.wkey, x))
      BY <1>3, <2>2, <3>2, PlaceFields DEF ClientSays
    <3> QED BY <1>1, <2>2, <3>1, <3>3, Speaks
  <2>4. ~ Answers(u) /\ Answers(c)
    BY <1>3, <2>1 DEF Answers
  <2>5. r \in LateAnswers
    BY <1>1, <1>3, <2>1, <2>2 DEF LateAnswers
  <2>6. One(Answers(u)) + One(r \in LateAnswers) = One(Answers(c))
    BY <2>4, <2>5 DEF One
  <2> QED BY <1>3, <1>5, <1>6, <2>3, <2>6 DEF ClientSpoke
<1> QED BY <1>8, <1>9

\* The KeyUpdate.
LEMMA KeyUpdateSent ==
  ASSUME NEW c, NEW r, NEW u, ClientSendsAs(c, "CW_KEY_UPDATE", r, u)
  PROVE  ClientSpoke(c, r, u)
<1>1. /\ c \in Conn /\ u \in Conn /\ r \in Rec /\ ClientOK(conf, c) /\ ClientOK(conf, u)
      /\ conf \in AllConfigurations /\ ClientAt(conf, c) /\ c.flow = "writing"
  BY DEF ClientSendsAs
<1>2. c.tls13 /\ c.hand_state = "OK"
  BY <1>1 DEF ClientSendsAs, ClientGoes, ToRead
<1>3. /\ u.hand_state = "CW_KEY_UPDATE" /\ u.flow = "writing" /\ u.in_init = c.in_init /\ u.tls13
      /\ u.rkey = c.rkey /\ u.hello_retry_request = c.hello_retry_request /\ u.hit = c.hit
      /\ u.cert = c.cert /\ u.fin = c.fin /\ u.early_data_state = c.early_data_state
      /\ u.early_data = c.early_data /\ u.pha = c.pha
      /\ r.key = c.wkey /\ u.wkey = c.wkey + 1 /\ r.type = "KEY_UPDATE"
  BY <1>1, <1>2 DEF ClientSendsAs
<1>4. "peer" \in c.fin /\ "own" \in c.fin
  BY <1>1, <1>2 DEF ClientOK, ClientLate
<1>5. ClientAt(conf, u)
  <2>1. ClientCall(u)
    BY <1>3 DEF ClientCall, ServerFlight
  <2>2. ClientFar(u)
    BY <1>1, <1>2, <1>3, <1>4 DEF ClientFar, ServerFlight, ClientAt
  <2>3. ClientKnows(conf, u)
    BY <1>1, <1>2, <1>3 DEF ClientKnows, ClientAt, ClientFar
  <2>4. ClientData(conf, u)
    BY <1>1, <1>2, <1>3 DEF ClientData, ClientAt, Opened
  <2>5. ClientCert(conf, u)
    BY <1>1, <1>2, <1>3, <1>4 DEF ClientCert, ClientAt
  <2>6. ClientKey(conf, u)
    BY <1>1, <1>2, <1>3, <1>4 DEF ClientKey, ClientAt
  <2> QED BY <2>1, <2>2, <2>3, <2>4, <2>5, <2>6 DEF ClientAt
<1>6. ClientPlace(u) = ClientPlace(c)
  BY <1>3, <1>4 DEF ClientPlace
<1>7. ClientSpeaks(conf, c, r, u)
  <2> SUFFICES ASSUME NEW x, Shown(c, x)
               PROVE \E y : /\ Shown(u, y) /\ ClientSaid(conf, u, y) \in Places
                            /\ ClientSays(conf, ClientSaid(conf, c, x), r, ClientSaid(conf, u, y))
                            /\ ClientSaid(conf, c, x).key <= ClientSaid(conf, u, y).key
    BY DEF ClientSpeaks
  <2>1. Shown(u, x)
    BY <1>2, <1>3, <1>4 DEF Shown
  <2>2. /\ ClientSaid(conf, c, x) = Place("APP", c.wkey, x)
        /\ ClientSaid(conf, u, x) = Place("APP", c.wkey + 1, x)
    BY <1>2, <1>3, <1>4 DEF ClientSaid
  <2>3. ClientSays(conf, Place("APP", c.wkey, x), r, Place("APP", c.wkey + 1, x))
    BY <1>3, <2>1, PlaceFields DEF ClientSays
  <2>4. c.wkey <= c.wkey + 1
    BY <1>1 DEF Conn
  <2> QED BY <1>1, <2>1, <2>2, <2>3, <2>4, Speaks
<1>8. Answers(u) <=> Answers(c)
  BY <1>2, <1>3 DEF Answers
<1>9. One(Answers(u)) + One(r \in LateAnswers) = One(Answers(c))
  BY <1>1, <1>3, <1>8, NoAnswerYet
<1> QED BY <1>3, <1>5, <1>6, <1>7, <1>9 DEF ClientSpoke

\* The client goes on to u in silence.
ClientQuiet(c, u) ==
  /\ ClientAt(conf, u) /\ ClientPlace(u) = ClientPlace(c) /\ ClientSilent(conf, c, u)
  /\ Answers(u) <=> Answers(c)

\* What tls_finish_handshake makes of it.
LEMMA FinishedIs ==
  ASSUME NEW c \in Conn, NEW h \in ClientStates, NEW t, t = [c EXCEPT !.hand_state = h],
         NEW u, u = Finished(Client, t)
  PROVE  /\ u \in Conn /\ u.hand_state = h /\ u.flow = "idle" /\ ~ u.in_init /\ u.tls13 = c.tls13
         /\ u.rkey = c.rkey /\ u.wkey = c.wkey /\ u.hello_retry_request = c.hello_retry_request
         /\ u.hit = c.hit /\ u.cert = c.cert /\ u.fin = c.fin /\ u.early_data = c.early_data
         /\ u.pha = (IF c.pha = "REQUESTED" THEN "EXT_SENT" ELSE c.pha)
         /\ u.early_data_state = EarlyDataGoesOn(c)
<1>1. t \in Conn /\ t.hand_state = h
      /\ SameCall(c, t) /\ SameSecrets(c, t) /\ SameHello(c, t) /\ SameAuth(c, t)
      /\ SameEarly(c, t)
  BY MovedOn
<1>2. EarlyDataGoesOn(t) = EarlyDataGoesOn(c)
        /\ RequestClosed(Client, t) = (IF c.pha = "REQUESTED" THEN "EXT_SENT" ELSE c.pha)
  BY <1>1 DEF EarlyDataGoesOn, RequestClosed, SameEarly, SameHello, SameAuth
<1>3. u \in Conn
  BY <1>1, TwoSides, FinishedFields
<1>4. /\ u.hand_state = t.hand_state /\ u.flow = "idle" /\ u.in_init = FALSE /\ u.tls13 = t.tls13
      /\ u.rkey = t.rkey /\ u.wkey = t.wkey /\ u.hello_retry_request = t.hello_retry_request
      /\ u.hit = t.hit /\ u.cert = t.cert /\ u.fin = t.fin /\ u.early_data = t.early_data
      /\ u.pha = RequestClosed(Client, t) /\ u.early_data_state = EarlyDataGoesOn(t)
  BY <1>1 DEF Finished, Conn
<1> QED BY <1>1, <1>2, <1>3, <1>4 DEF SameSecrets, SameHello, SameAuth, SameEarly

\* It stops to write early data.
LEMMA EarlyDataOpened ==
  ASSUME NEW c, ClientOK(conf, c), ClientAt(conf, c), conf \in AllConfigurations,
         c.flow = "writing",
         ClientGoes(conf, c, "EARLY_DATA"), NEW u,
         u = Finished(Client, [c EXCEPT !.hand_state = "EARLY_DATA"])
  PROVE  ClientQuiet(c, u)
<1>1. c \in Conn
  BY DEF ClientOK
<1>2. /\ ~ c.tls13 /\ c.early_data_state = "CONNECTING"
      /\ c.hand_state \in {"CW_CLNT_HELLO", "CW_CHANGE"}
      /\ c.hello_retry_request = "NONE" /\ c.fin = {} /\ c.cert = "none" /\ c.pha # "REQUESTED"
      /\ c.rkey = Plain
  BY DEF ClientGoes, ToRead, ClientAt, ClientData, ClientKnows, ClientFar
<1>3. /\ u.hand_state = "EARLY_DATA" /\ u.flow = "idle" /\ ~ u.in_init /\ ~ u.tls13
      /\ u.rkey = Plain /\ u.wkey = c.wkey /\ u.hello_retry_request = "NONE"
      /\ u.hit = c.hit /\ u.cert = "none" /\ u.fin = {} /\ u.early_data = c.early_data
      /\ u.pha = c.pha /\ u.early_data_state = "WRITE_RETRY"
  <2>1. EarlyDataGoesOn(c) = "WRITE_RETRY"
    BY <1>2 DEF EarlyDataGoesOn
  <2>2. "EARLY_DATA" \in ClientStates
    BY DEF ClientStates
  <2> QED BY <1>1, <1>2, <2>1, <2>2, FinishedIs
<1>4. ClientAt(conf, u)
  <2>1. ClientCall(u)
    BY <1>3 DEF ClientCall, ServerFlight
  <2>2. ClientFar(u)
    BY <1>2, <1>3 DEF ClientFar, ServerFlight
  <2>3. ClientKnows(conf, u)
    BY <1>2, <1>3 DEF ClientKnows, ClientAt
  <2>4. ClientData(conf, u)
    BY <1>2, <1>3 DEF ClientData, ClientAt, Opened
  <2>5. ClientCert(conf, u)
    BY <1>3 DEF ClientCert
  <2>6. ClientKey(conf, u)
    BY <1>2, <1>3 DEF ClientKey, ClientAt
  <2> QED BY <2>1, <2>2, <2>3, <2>4, <2>5, <2>6 DEF ClientAt
<1>5. ClientPlace(u) = ClientPlace(c)
  BY <1>2, <1>3 DEF ClientPlace
<1>6. ClientSilent(conf, c, u)
  BY <1>2, <1>3 DEF ClientSilent, Shown, ClientSaid, Awaited
<1>7. ~ Answers(u) /\ ~ Answers(c)
  BY <1>2, <1>3 DEF Answers
<1> QED BY <1>4, <1>5, <1>6, <1>7 DEF ClientQuiet

\* It stops, or goes on, where early data may end.
LEMMA EarlyDataMayEnd ==
  ASSUME NEW c, ClientOK(conf, c), ClientAt(conf, c), conf \in AllConfigurations,
         c.flow = "writing",
         ClientGoes(conf, c, "PENDING_EARLY_DATA_END"), NEW u,
         u = IF c.early_data_state = "FINISHED_WRITING" THEN [c EXCEPT !.hand_state = "PENDING_EARLY_DATA_END"]
             ELSE Finished(Client, [c EXCEPT !.hand_state = "PENDING_EARLY_DATA_END"])
  PROVE  ClientQuiet(c, u)
<1>1. c \in Conn /\ "PENDING_EARLY_DATA_END" \in ClientStates
  BY DEF ClientOK, ClientStates
<1>2. /\ c.tls13 /\ c.early_data_state \in {"WRITE_RETRY", "FINISHED_WRITING"}
      /\ c.hand_state = "CR_FINISHED"
      /\ c.pha # "REQUESTED" /\ "own" \notin c.fin /\ "peer" \in c.fin
  BY DEF ClientGoes, ToRead, ClientAt, ClientFar, ClientOK, ClientLate
<1>3. /\ u.hand_state = "PENDING_EARLY_DATA_END" /\ u.flow \in {"idle", "writing"} /\ u.tls13
      /\ u.flow = "idle" => ~ u.in_init
      /\ u.rkey = c.rkey /\ u.wkey = c.wkey /\ u.hello_retry_request = c.hello_retry_request
      /\ u.hit = c.hit /\ u.cert = c.cert /\ u.fin = c.fin /\ u.early_data = c.early_data
      /\ u.pha = c.pha /\ u.early_data_state = c.early_data_state
  <2>1. CASE c.early_data_state = "FINISHED_WRITING"
    BY <1>1, <1>2, <2>1, MovedOn DEF SameSecrets, SameHello, SameAuth, SameEarly, SameCall
  <2>2. CASE c.early_data_state # "FINISHED_WRITING"
    <3>1. EarlyDataGoesOn(c) = "WRITE_RETRY"
      BY <1>2, <2>2 DEF EarlyDataGoesOn
    <3> QED BY <1>1, <1>2, <2>2, <3>1, FinishedIs
  <2> QED BY <2>1, <2>2
<1>4. ClientAt(conf, u)
  <2>1. ClientCall(u)
    BY <1>3 DEF ClientCall, ServerFlight
  <2>2. ClientFar(u)
    BY <1>2, <1>3 DEF ClientFar, ServerFlight, ClientAt
  <2>3. ClientKnows(conf, u)
    BY <1>2, <1>3 DEF ClientKnows, ClientAt
  <2>4. ClientData(conf, u)
    BY <1>2, <1>3 DEF ClientData, ClientAt, Opened
  <2>5. ClientCert(conf, u)
    BY <1>2, <1>3 DEF ClientCert, ClientAt
  <2>6. ClientKey(conf, u)
    BY <1>2, <1>3 DEF ClientKey, ClientAt
  <2> QED BY <2>1, <2>2, <2>3, <2>4, <2>5, <2>6 DEF ClientAt
<1>5. ClientPlace(u) = ClientPlace(c)
  BY <1>2, <1>3 DEF ClientPlace
<1>6. ClientSilent(conf, c, u)
  BY <1>2, <1>3 DEF ClientSilent, Shown, ClientSaid, Awaited
<1>7. ~ Answers(u) /\ ~ Answers(c)
  BY <1>2, <1>3 DEF Answers
<1> QED BY <1>4, <1>5, <1>6, <1>7 DEF ClientQuiet

\* The handshake, or what came after it, is over.
LEMMA ClientDone ==
  ASSUME NEW c, ClientOK(conf, c), ClientAt(conf, c), conf \in AllConfigurations,
         c.flow = "writing",
         ClientGoes(conf, c, "OK"), NEW u, u = Finished(Client, [c EXCEPT !.hand_state = "OK"])
  PROVE  ClientQuiet(c, u) /\ u.flow = "idle" /\ ~ u.in_init
<1>1. c \in Conn /\ "OK" \in ClientStates
  BY DEF ClientOK, ClientStates
<1>2. /\ c.tls13
      /\ c.hand_state \in {"CR_KEY_UPDATE", "CW_KEY_UPDATE", "CR_SESSION_TICKET", "CW_FINISHED"}
      /\ "own" \in c.fin /\ "peer" \in c.fin
  BY DEF ClientGoes, ToRead, ClientOK, ClientLate
<1>3. c.early_data_state \in {"NONE"} \cup Opened
        /\ (c.pha = "REQUESTED" => c.hand_state = "CW_FINISHED")
  BY <1>2 DEF ClientAt, ClientData, ClientFar
<1>4. /\ u.hand_state = "OK" /\ u.flow = "idle" /\ ~ u.in_init /\ u.tls13
      /\ u.rkey = c.rkey /\ u.wkey = c.wkey /\ u.hello_retry_request = c.hello_retry_request
      /\ u.hit = c.hit /\ u.cert = c.cert /\ u.fin = c.fin /\ u.early_data = c.early_data
      /\ u.pha = (IF c.pha = "REQUESTED" THEN "EXT_SENT" ELSE c.pha)
      /\ u.early_data_state = c.early_data_state
  <2>1. EarlyDataGoesOn(c) = c.early_data_state
    BY <1>3 DEF EarlyDataGoesOn, Opened
  <2> QED BY <1>1, <1>2, <2>1, FinishedIs
<1>5. ClientAt(conf, u)
  <2>1. ClientCall(u)
    BY <1>4 DEF ClientCall, ServerFlight
  <2>2. ClientFar(u)
    BY <1>2, <1>4 DEF ClientFar, ServerFlight, ClientAt
  <2>3. ClientKnows(conf, u)
    BY <1>2, <1>4 DEF ClientKnows, ClientAt
  <2>4. ClientData(conf, u)
    BY <1>2, <1>3, <1>4 DEF ClientData, ClientAt, Opened
  <2>5. ClientCert(conf, u)
    BY <1>2, <1>4 DEF ClientCert, ClientAt
  <2>6. ClientKey(conf, u)
    BY <1>2, <1>4 DEF ClientKey, ClientAt
  <2> QED BY <2>1, <2>2, <2>3, <2>4, <2>5, <2>6 DEF ClientAt
<1>6. ClientPlace(u) = ClientPlace(c)
  BY <1>2, <1>4 DEF ClientPlace
<1>7. ClientSilent(conf, c, u)
  BY <1>2, <1>4 DEF ClientSilent, Shown, ClientSaid, Awaited
<1>8. ~ Answers(u) /\ ~ Answers(c)
  BY <1>3, <1>4 DEF Answers
<1> QED BY <1>4, <1>5, <1>6, <1>7, <1>8 DEF ClientQuiet

\* A client whose state is not OK, or that rests there, has nothing to find.
LEMMA ClientFinds ==
  ASSUME NEW u, ClientAt(conf, u), NEW q, u.hand_state # "OK" \/ (u.flow = "idle" /\ ~ u.in_init)
  PROVE  Finds(u, q)
<1>1. u.early_data_state # "READ_RETRY"
  BY DEF ClientAt, ClientData, Opened
<1> QED BY <1>1 DEF Finds

\* WriteMessage of the client: every message takes the server one place further, and every
\* state without a message leaves it where it is.
LEMMA ClientWriting ==
  ASSUME ProtectedInv, Joint, Tls13Assumption, WriteMessage(Client)
  PROVE  Joint'
<1> DEFINE c == tls[Client]
           h == WriteTransition(Client)
           t == [c EXCEPT !.hand_state = h]
<1>1. /\ ClientOK(conf, c) /\ c \in Conn /\ c.flow = "writing" /\ h \notin {ToRead, Wrong}
      /\ UNCHANGED <<conf, calls, got>> /\ conf \in AllConfigurations /\ ClientAt(conf, c)
  BY DEF WriteMessage, ProtectedInv, ClientOK, Tls13Assumption, Joint
<1>2. ClientMove(conf, c, h)
  BY <1>1, ClientMoves
<1>3. ClientGoes(conf, c, h)
  <2>1. h = ClientTurns(c)
    BY TwoSides DEF WriteTransition, ClientTurns
  <2> QED BY <1>1, <2>1, ClientGoing
<1>4. PhaAfterTransition(c) = c.pha
  BY <1>1 DEF PhaAfterTransition, ClientOK, ClientStates
<1>5. [c EXCEPT !.hand_state = h, !.pha = PhaAfterTransition(c)] = t
  BY <1>1, <1>4 DEF Conn
<1>6. \/ Stops(Client, h) /\ tls' = [tls EXCEPT ![Client] = Finished(Client, t)] /\ wire' = wire
      \/ ~ Stops(Client, h) /\ h \in Dummies /\ tls' = [tls EXCEPT ![Client] = t] /\ wire' = wire
      \/ /\ ~ Stops(Client, h) /\ h \notin Dummies
         /\ Send(Client, MessageOf(t)[1], KeyOfMessage(Client, t), MessageOf(t)[2])
         /\ tls' = [tls EXCEPT ![Client] = ClientSent(t)]
  BY <1>5 DEF WriteMessage
<1>7. Stops(Client, h) <=> \/ h \in {"OK", "EARLY_DATA"}
                           \/ h = "PENDING_EARLY_DATA_END"
                              /\ c.early_data_state \notin {"FINISHED_WRITING", "NONE"}
  BY DEF Stops, Client
<1> HIDE DEF h, t
<1>8. CASE Stops(Client, h) \/ h \in Dummies
  <2> DEFINE u == IF Stops(Client, h) THEN Finished(Client, t) ELSE t
  <2>1. tls' = [tls EXCEPT ![Client] = u] /\ wire' = wire
    BY <1>6, <1>8
  <2>2. h \in {"OK", "EARLY_DATA", "PENDING_EARLY_DATA_END"}
    BY <1>7, <1>8 DEF Dummies
  <2>3. h = "PENDING_EARLY_DATA_END" => (Stops(Client, h) <=> c.early_data_state # "FINISHED_WRITING")
    BY <1>3, <1>7 DEF ClientGoes, ToRead
  <2>4. ClientQuiet(c, u) /\ (h = "OK" => u.flow = "idle" /\ ~ u.in_init)
    <3>1. CASE h = "OK"
      BY <1>1, <1>3, <1>7, <3>1, ClientDone DEF t
    <3>2. CASE h = "EARLY_DATA"
      BY <1>1, <1>3, <1>7, <3>2, EarlyDataOpened DEF t
    <3>3. CASE h = "PENDING_EARLY_DATA_END"
      BY <1>1, <1>3, <2>3, <3>3, EarlyDataMayEnd DEF t
    <3> QED BY <2>2, <3>1, <3>2, <3>3
  <2>5. u.hand_state = h
    <3>1. h \in ClientStates
      BY <2>2 DEF ClientStates
    <3> QED BY <1>1, <3>1, MovedOn, FinishedIs DEF t
  <2>6. Finds(u, wire[Server])
    BY <2>4, <2>5, ClientFinds DEF ClientQuiet
  <2>7. DataOf(conf)'
    BY <1>1, <2>1, DataStays
  <2> HIDE DEF u
  <2> QED BY <1>1, <2>1, <2>4, <2>6, <2>7, ClientStays DEF ClientQuiet
<1>9. CASE ~ Stops(Client, h) /\ h \notin Dummies
  <2> DEFINE r == [type |-> MessageOf(t)[1], key |-> KeyOfMessage(Client, t), arg |-> MessageOf(t)[2]]
             u == ClientSent(t)
  <2>1. h \in ClientWrites
    BY <1>2, <1>7, <1>9 DEF Dummies, ClientMove, ClientWrites
  <2>2. ClientSendsAs(c, h, r, u)
    BY <1>1, <1>2, <1>3, <2>1, ClientSending DEF t
  <2>3. wire' = [wire EXCEPT ![Client] = Append(@, r)] /\ tls' = [tls EXCEPT ![Client] = u]
    BY <1>6, <1>9 DEF Send
  <2> HIDE DEF r, u
  <2>4. ClientSpoke(c, r, u)
    <3> HIDE DEF c
    <3> QED BY <2>1, <2>2, HelloSent, ChangeSent, EndSent, CertSent, VerifySent, FinishedSent,
               KeyUpdateSent
               DEF ClientWrites
  <2>5. r \in Rec
    BY <2>2 DEF ClientSendsAs
  <2>6. Finds(u, wire[Server])
    BY <2>4, ClientFinds DEF ClientSpoke
  <2>7. DataOf(conf)'
    BY <1>1, <2>3, <2>4, <2>5, DataNotSent, TwoSides DEF ClientSpoke
  <2> QED BY <1>1, <2>3, <2>4, <2>5, <2>6, <2>7, ClientSaying DEF ClientSpoke
<1> QED BY <1>8, <1>9

\* The client has nothing to write.
LEMMA ClientTurnsToRead ==
  ASSUME ProtectedInv, Joint, Tls13Assumption, StartReading(Client)
  PROVE  Joint'
<1> DEFINE c == tls[Client]
           h == WriteTransition(Client)
           u == [c EXCEPT !.flow = "reading"]
<1>1. /\ ClientOK(conf, c) /\ c \in Conn /\ c.flow = "writing" /\ h \in {ToRead, Wrong}
      /\ UNCHANGED <<conf, calls, got, wire>> /\ conf \in AllConfigurations /\ ClientAt(conf, c)
  BY DEF StartReading, ProtectedInv, ClientOK, Tls13Assumption, Joint
<1>2. ClientGoes(conf, c, h) /\ h # Wrong
  <2>1. h = ClientTurns(c)
    BY TwoSides DEF WriteTransition, ClientTurns
  <2> QED BY <1>1, <2>1, ClientGoing
<1>3. tls' = [tls EXCEPT ![Client] = u]
  BY <1>2 DEF StartReading
<1>4. \/ c.tls13 /\ c.hand_state = "OK" /\ c.key_update = "NONE"
      \/ ~ c.tls13 /\ c.hand_state \in {"CW_CLNT_HELLO", "EARLY_DATA"}
           /\ c.early_data_state # "CONNECTING"
  BY <1>1, <1>2 DEF ClientGoes, ToRead, Wrong
<1>5. /\ u.hand_state = c.hand_state /\ u.flow = "reading" /\ u.in_init = c.in_init
      /\ u.tls13 = c.tls13
      /\ u.rkey = c.rkey /\ u.wkey = c.wkey /\ u.hello_retry_request = c.hello_retry_request
      /\ u.hit = c.hit /\ u.cert = c.cert /\ u.fin = c.fin /\ u.early_data = c.early_data
      /\ u.pha = c.pha /\ u.early_data_state = c.early_data_state /\ u.key_update = c.key_update
  BY <1>1 DEF Conn
<1> HIDE DEF u, h
<1>6. ClientAt(conf, u)
  <2> HIDE DEF c
  <2>1. ClientCall(u)
    BY <1>4, <1>5 DEF ClientCall, ServerFlight
  <2>2. ClientFar(u)
    BY <1>1, <1>5 DEF ClientFar, ClientAt
  <2>3. ClientKnows(conf, u)
    BY <1>1, <1>5 DEF ClientKnows, ClientAt
  <2>4. ClientData(conf, u)
    BY <1>1, <1>4, <1>5 DEF ClientData, ClientAt, Opened
  <2>5. ClientCert(conf, u)
    BY <1>1, <1>5 DEF ClientCert, ClientAt
  <2>6. ClientKey(conf, u)
    BY <1>1, <1>5 DEF ClientKey, ClientAt
  <2> QED BY <2>1, <2>2, <2>3, <2>4, <2>5, <2>6 DEF ClientAt
<1>7. ClientPlace(u) = ClientPlace(c)
  BY <1>5 DEF ClientPlace
<1>8. ClientSilent(conf, c, u)
  BY <1>5 DEF ClientSilent, Shown, ClientSaid, Awaited
<1>9. Answers(u) <=> Answers(c)
  BY <1>5 DEF Answers
<1>10. Finds(u, wire[Server])
  <2>1. c.pha # "REQUEST_PENDING" \/ c.hand_state # "OK"
    BY <1>1, <1>4, TwoSides DEF ClientAt, ClientKnows
  <2>2. Finds(c, wire[Server])
    BY DEF Joint
  <2>3. u.early_data_state # "READ_RETRY"
    BY <1>6 DEF ClientAt, ClientData, Opened
  <2> HIDE DEF c
  <2> QED BY <1>1, <1>4, <1>5, <2>1, <2>2, <2>3 DEF Finds
<1>11. DataOf(conf)'
  BY <1>1, DataStays
<1> QED BY <1>1, <1>3, <1>6, <1>7, <1>8, <1>9, <1>10, <1>11, ClientStays

(***************************************************************************)
(* The server writes                                                       *)
(***************************************************************************)
\* Where the write half of the server goes, move by move.
ServerGoes(f, v, h) ==
  LET g == v.hand_state
      retry == v.hello_retry_request = "PENDING"
      change == f.compat[Server] /\ v.hello_retry_request # "COMPLETE"
  IN \/ g \in {"BEFORE", "EARLY_DATA"} /\ h = ToRead
     \/ g = "OK" /\ v.key_update # "NONE" /\ h = "SW_KEY_UPDATE"
     \/ g = "OK" /\ v.key_update = "NONE" /\ v.pha = "REQUEST_PENDING" /\ h = "SW_CERT_REQ"
     \/ g = "OK" /\ v.key_update = "NONE" /\ v.pha # "REQUEST_PENDING" /\ h = ToRead
     \/ g = "SR_CLNT_HELLO" /\ h = "SW_SRVR_HELLO"
     \/ g = "SW_SRVR_HELLO" /\ change /\ h = "SW_CHANGE"
     \/ g \in {"SW_SRVR_HELLO", "SW_CHANGE"} /\ (g = "SW_CHANGE" \/ ~ change) /\ retry
          /\ h = "EARLY_DATA"
     \/ /\ g \in {"SW_SRVR_HELLO", "SW_CHANGE"} /\ (g = "SW_CHANGE" \/ ~ change) /\ ~ retry
        /\ h = "SW_ENCRYPTED_EXTENSIONS"
     \/ g = "SW_ENCRYPTED_EXTENSIONS" /\ v.hit /\ h = "SW_FINISHED"
     \/ /\ g = "SW_ENCRYPTED_EXTENSIONS" /\ ~ v.hit
        /\ f.verify = "hand" \/ (f.verify = "post" /\ v.pha = "REQUEST_PENDING")
        /\ h = "SW_CERT_REQ"
     \/ g = "SW_ENCRYPTED_EXTENSIONS" /\ ~ v.hit /\ f.verify # "hand" /\ h = "SW_CERT"
     \/ g = "SW_CERT_REQ" /\ v.pha = "REQUEST_PENDING" /\ h = "OK"
     \/ g = "SW_CERT_REQ" /\ v.pha # "REQUEST_PENDING" /\ h = "SW_CERT"
     \/ g = "SW_CERT" /\ h = "SW_CERT_VRFY"
     \/ g = "SW_CERT_VRFY" /\ h = "SW_FINISHED"
     \/ g = "SW_FINISHED" /\ h = "EARLY_DATA"
     \/ g \in {"SR_FINISHED", "SW_SESSION_TICKET"} /\ h \in {"OK", "SW_SESSION_TICKET"}
     \/ g \in {"SR_KEY_UPDATE", "SW_KEY_UPDATE"} /\ h = "OK"

\* A server that writes takes one of these moves, and never WRITE_TRAN_ERROR.
LEMMA ServerGoing ==
  ASSUME NEW v, ServerOK(conf, v), ServerAt(conf, v), conf \in AllConfigurations,
         v.flow = "writing"
  PROVE  ServerGoes(conf, v, ServerWriteTransition(v)) /\ ServerWriteTransition(v) # Wrong
<1>1. v.hand_state \in ServerStates /\ conf.compat[Server] \in BOOLEAN /\ v.hit \in BOOLEAN
  BY Configured DEF ServerOK, Conn
<1>2. v.hand_state \notin {"SR_END_OF_EARLY_DATA", "SR_CERT", "SR_CERT_VRFY"}
  BY DEF ServerAt, ServerCall, ServerAnswer
<1>3. v.hand_state \in {"BEFORE", "OK", "EARLY_DATA", "SR_CLNT_HELLO", "SR_FINISHED", "SR_KEY_UPDATE",
        "SW_SRVR_HELLO", "SW_CHANGE", "SW_ENCRYPTED_EXTENSIONS", "SW_CERT_REQ",
        "SW_CERT", "SW_CERT_VRFY", "SW_FINISHED", "SW_SESSION_TICKET", "SW_KEY_UPDATE"}
  BY <1>1, <1>2 DEF ServerStates
<1>4. CASE v.hand_state \in {"SW_ENCRYPTED_EXTENSIONS"}
  BY <1>1, <1>4 DEF ServerWriteTransition, SendCertificateRequest, ServerGoes, ToRead, Wrong
<1>5. CASE v.hand_state \in {"SW_SRVR_HELLO", "SW_CHANGE"}
  BY <1>1, <1>5 DEF ServerWriteTransition, ServerGoes, ToRead, Wrong
<1>6. CASE v.hand_state \in {"BEFORE", "OK", "EARLY_DATA", "SR_CLNT_HELLO", "SW_CERT_REQ"}
  BY <1>1, <1>6 DEF ServerWriteTransition, ServerGoes, ToRead, Wrong
<1>7. CASE v.hand_state \in {"SW_CERT", "SW_CERT_VRFY", "SW_FINISHED", "SW_KEY_UPDATE", "SR_KEY_UPDATE"}
  BY <1>1, <1>7 DEF ServerWriteTransition, ServerGoes, ToRead, Wrong
<1>8. CASE v.hand_state \in {"SR_FINISHED", "SW_SESSION_TICKET"}
  BY <1>1, <1>8 DEF ServerWriteTransition, ServerGoes, ToRead, Wrong
<1> QED BY <1>3, <1>4, <1>5, <1>6, <1>7, <1>8

\* The server installs the handshake keys with what it sends in state h.
Installs(v, h) ==
  /\ v.hello_retry_request # "PENDING"
  /\ \/ h = "SW_SRVR_HELLO" /\ ~ (conf.compat[Server] /\ v.hello_retry_request # "COMPLETE")
     \/ h = "SW_CHANGE"

\* The server, having gone to h and sent r, has become u.
ServerSendsAs(v, h, r, u) ==
  /\ ServerOK(conf, v) /\ ServerAt(conf, v) /\ v.flow = "writing" /\ ServerGoes(conf, v, h)
  /\ v \in Conn /\ u \in Conn /\ ServerOK(conf, u) /\ conf \in AllConfigurations
  /\ u.hand_state = h /\ u.flow = v.flow /\ u.in_init = v.in_init /\ u.tls13 = v.tls13
  /\ u.early_data_state = v.early_data_state /\ u.early_data = v.early_data
  /\ u.hello_retry_request = v.hello_retry_request /\ u.cert = v.cert
  /\ u.hit = IF h = "SW_SRVR_HELLO" /\ v.hello_retry_request = "PENDING" THEN FALSE ELSE v.hit
  /\ u.pha = PhaAfterTransition(v)
  /\ u.cert_request = IF h = "SW_CERT_REQ" THEN TRUE ELSE v.cert_request
  /\ u.fin = IF h = "SW_FINISHED" THEN v.fin \cup {"own"} ELSE v.fin
  /\ u.wkey = IF h = "SW_FINISHED" THEN ApplicationKey
              ELSE IF h = "SW_KEY_UPDATE" THEN v.wkey + 1
              ELSE IF Installs(v, h) THEN HandshakeKey ELSE v.wkey
  /\ u.rkey = IF Installs(v, h) /\ v.early_data # "ACCEPTED" THEN HandshakeKey ELSE v.rkey
  /\ r \in Rec /\ r.key = v.wkey
  /\ h = "SW_SRVR_HELLO" =>
       /\ r.type = "SERVER_HELLO"
       /\ r.arg = IF v.hello_retry_request = "PENDING" THEN "retry" ELSE IF v.hit THEN "hit" ELSE "full"
  /\ h = "SW_CHANGE" => r.type = "CCS"
  /\ h = "SW_ENCRYPTED_EXTENSIONS" =>
       /\ r.type = "ENCRYPTED_EXTENSIONS"
       /\ r.arg = IF v.early_data = "ACCEPTED" THEN "early" ELSE "none"
  /\ h = "SW_CERT_REQ" => r.type = "CERTIFICATE_REQUEST"
  /\ h = "SW_CERT" => r.type = "CERTIFICATE"
  /\ h = "SW_CERT_VRFY" => r.type = "CERTIFICATE_VERIFY"
  /\ h = "SW_FINISHED" => r.type = "FINISHED"
  /\ h = "SW_SESSION_TICKET" => r.type = "NEWSESSION_TICKET"
  /\ h = "SW_KEY_UPDATE" => r.type = "KEY_UPDATE"

\* The server moves on.
MovesOn(v, h, t) ==
  /\ t \in Conn /\ t.hand_state = h /\ t.pha = PhaAfterTransition(v)
  /\ SameCall(v, t) /\ SameSecrets(v, t) /\ SameHello(v, t) /\ SameEarly(v, t)
  /\ t.cert = v.cert /\ t.cert_request = v.cert_request
  /\ t.sent_tickets = v.sent_tickets /\ t.ticket_expected = v.ticket_expected

\* That is what the transition makes of the server.
LEMMA ServerMovedOn ==
  ASSUME NEW v, ServerOK(conf, v), NEW h, ServerMove(conf, v, h)
  PROVE  MovesOn(v, h, [v EXCEPT !.hand_state = h, !.pha = PhaAfterTransition(v)])
<1> DEFINE t == [v EXCEPT !.hand_state = h, !.pha = PhaAfterTransition(v)]
<1>1. v \in Conn
  BY DEF ServerOK
<1>2. Moved(v, h, t)
  BY ServerMoved
<1>3. SameCall(v, t) /\ SameSecrets(v, t) /\ SameHello(v, t) /\ SameEarly(v, t)
         /\ t.cert = v.cert /\ t.cert_request = v.cert_request
  BY <1>1 DEF Conn, SameCall, SameSecrets, SameHello, SameEarly
<1> HIDE DEF t
<1>4. MovesOn(v, h, t)
  BY <1>2, <1>3 DEF Moved, MovesOn
<1> QED BY <1>4 DEF t

\* That is what WriteMessage makes of the server.
LEMMA ServerSending ==
  ASSUME NEW v, ServerOK(conf, v), ServerAt(conf, v), conf \in AllConfigurations,
         v.flow = "writing",
         NEW h \in ServerWrites, ServerGoes(conf, v, h), ServerMove(conf, v, h),
         NEW t, t = [v EXCEPT !.hand_state = h, !.pha = PhaAfterTransition(v)],
         NEW r,
         r = [type |-> MessageOf(t)[1], key |-> KeyOfMessage(Server, t), arg |-> MessageOf(t)[2]]
  PROVE  ServerSendsAs(v, h, r, ServerSent(t))
<1> DEFINE u == ServerSent(t)
<1>1. v \in Conn
  BY DEF ServerOK
<1>2. t \in Conn /\ t.hand_state = h /\ t.pha = PhaAfterTransition(v)
      /\ SameCall(v, t) /\ SameSecrets(v, t) /\ SameHello(v, t) /\ SameEarly(v, t)
      /\ t.cert = v.cert /\ t.cert_request = v.cert_request
  <2>1. MovesOn(v, h, t)
    BY ServerMovedOn
  <2> QED BY <2>1 DEF MovesOn
<1>3. r \in Rec
  BY ServerRecord DEF RecordOK
<1>4. ServerOK(conf, u)
  BY ServerSends
<1>5. u \in Conn
  BY <1>4 DEF ServerOK
<1>6. r.key = v.wkey
  BY <1>2, TwoSides DEF KeyOfMessage, SameSecrets
<1>7. /\ h = "SW_SRVR_HELLO" =>
           /\ r.type = "SERVER_HELLO"
           /\ r.arg = IF t.hello_retry_request = "PENDING" THEN "retry" ELSE IF t.hit THEN "hit"
                ELSE "full"
      /\ h = "SW_CHANGE" => r.type = "CCS"
      /\ h = "SW_ENCRYPTED_EXTENSIONS" =>
           /\ r.type = "ENCRYPTED_EXTENSIONS"
           /\ r.arg = IF t.early_data = "ACCEPTED" THEN "early" ELSE "none"
      /\ h = "SW_CERT_REQ" => r.type = "CERTIFICATE_REQUEST"
      /\ h = "SW_CERT" => r.type = "CERTIFICATE"
      /\ h = "SW_CERT_VRFY" => r.type = "CERTIFICATE_VERIFY"
      /\ h = "SW_FINISHED" => r.type = "FINISHED"
      /\ h = "SW_SESSION_TICKET" => r.type = "NEWSESSION_TICKET"
      /\ h = "SW_KEY_UPDATE" => r.type = "KEY_UPDATE"
  BY <1>2 DEF MessageOf
<1>8. Installs(t, h) <=> Installs(v, h)
  BY <1>2 DEF Installs, SameHello
<1> DEFINE Fields(x) ==
      /\ x.hand_state = h /\ x.flow = t.flow /\ x.in_init = t.in_init /\ x.tls13 = t.tls13
      /\ x.early_data_state = t.early_data_state /\ x.early_data = t.early_data
      /\ x.hello_retry_request = t.hello_retry_request /\ x.cert = t.cert
      /\ x.hit = (IF h = "SW_SRVR_HELLO" /\ t.hello_retry_request = "PENDING" THEN FALSE ELSE t.hit)
      /\ x.pha = t.pha
      /\ x.cert_request = (IF h = "SW_CERT_REQ" THEN TRUE ELSE t.cert_request)
      /\ x.fin = (IF h = "SW_FINISHED" THEN t.fin \cup {"own"} ELSE t.fin)
      /\ x.wkey = (IF h = "SW_FINISHED" THEN ApplicationKey
                   ELSE IF h = "SW_KEY_UPDATE" THEN t.wkey + 1
                   ELSE IF Installs(t, h) THEN HandshakeKey ELSE t.wkey)
      /\ x.rkey = (IF Installs(t, h) /\ t.early_data # "ACCEPTED" THEN HandshakeKey ELSE t.rkey)
<1>9. Fields(u)
  <2>1. CASE h = "SW_SRVR_HELLO" /\ t.hello_retry_request = "PENDING"
    <3>1. u = [t EXCEPT !.hit = FALSE]
      BY <1>2, <2>1 DEF ServerSent
    <3> HIDE DEF u
    <3> QED BY <1>2, <2>1, <3>1 DEF Conn, Installs
  <2>2. CASE h \in {"SW_SRVR_HELLO", "SW_CHANGE"} /\ Installs(t, h)
    <3>1. u = [t EXCEPT !.wkey = HandshakeKey,
              !.rkey = IF t.early_data = "ACCEPTED" THEN t.rkey ELSE HandshakeKey]
      BY <1>2, <2>2 DEF ServerSent, HandshakeKeysInstalled, Installs
    <3>2. t.hello_retry_request # "PENDING"
      BY <2>2 DEF Installs
    <3> HIDE DEF u
    <3> QED BY <1>2, <2>2, <3>1, <3>2 DEF Conn
  <2>3. CASE h \in {"SW_SRVR_HELLO", "SW_CHANGE"} /\ ~ Installs(t, h)
             /\ ~ (h = "SW_SRVR_HELLO" /\ t.hello_retry_request = "PENDING")
    <3>1. u = t
      BY <1>2, <2>3 DEF ServerSent, Installs
    <3>2. h # "SW_CERT_REQ" /\ h # "SW_FINISHED" /\ h # "SW_KEY_UPDATE"
      BY <2>3
    <3> HIDE DEF u
    <3> QED BY <1>2, <2>3, <3>1, <3>2 DEF Conn
  <2>4. CASE h \notin {"SW_SRVR_HELLO", "SW_CHANGE"}
    <3>1. ~ Installs(t, h)
      BY <2>4 DEF Installs
    <3>2. CASE h = "SW_CERT_REQ"
      <4>1. u = [t EXCEPT !.cert_request = TRUE]
        BY <1>2, <3>2 DEF ServerSent
      <4> HIDE DEF u
      <4> QED BY <1>2, <3>1, <3>2, <4>1 DEF Conn
    <3>3. CASE h = "SW_FINISHED"
      <4>1. u = [t EXCEPT !.wkey = ApplicationKey, !.fin = t.fin \cup {"own"}]
        BY <1>2, <3>3 DEF ServerSent
      <4> HIDE DEF u
      <4> QED BY <1>2, <3>1, <3>3, <4>1 DEF Conn
    <3>4. CASE h = "SW_SESSION_TICKET"
      <4>1. u = [t EXCEPT !.sent_tickets = t.sent_tickets + 1,
                          !.ticket_expected = IF t.sent_tickets = 0 THEN FALSE ELSE t.ticket_expected]
        BY <1>2, <3>4 DEF ServerSent
      <4> HIDE DEF u
      <4> QED BY <1>2, <3>1, <3>4, <4>1 DEF Conn
    <3>5. CASE h = "SW_KEY_UPDATE"
      <4>1. u = [t EXCEPT !.key_update = "NONE", !.wkey = t.wkey + 1]
        BY <1>2, <3>5 DEF ServerSent
      <4> HIDE DEF u
      <4> QED BY <1>2, <3>1, <3>5, <4>1 DEF Conn
    <3>6. CASE h \in {"SW_ENCRYPTED_EXTENSIONS", "SW_CERT", "SW_CERT_VRFY"}
      <4>1. u = t
        BY <1>2, <3>6 DEF ServerSent
      <4> HIDE DEF u
      <4> QED BY <1>2, <3>1, <3>6, <4>1 DEF Conn
    <3> QED BY <2>4, <3>2, <3>3, <3>4, <3>5, <3>6 DEF ServerWrites
  <2> QED BY <2>1, <2>2, <2>3, <2>4
<1> HIDE DEF u
<1>10. ServerSendsAs(v, h, r, u)
  BY <1>1, <1>2, <1>3, <1>4, <1>5, <1>6, <1>7, <1>8, <1>9
     DEF ServerSendsAs, SameCall, SameSecrets, SameHello, SameEarly
<1> QED BY <1>10 DEF u

\* What sending r and becoming u leaves of the invariant.
ServerSpoke(v, r, u) ==
  /\ ServerAt(conf, u) /\ ServerPlace(conf, u) = ServerPlace(conf, v)
  /\ u.hand_state \notin {"OK", "EARLY_DATA"}
  /\ ServerSpeaks(conf, v, r, u) /\ r.type # "DATA"
  /\ WaitsFor(v, u, One(r \in LateRequests))

\* A message that asks for nothing.
LEMMA NothingAsked ==
  ASSUME NEW v, NEW u, NEW r, Waiting(u) <=> Waiting(v), Served(u) <=> Served(v),
         r \notin LateRequests
  PROVE  WaitsFor(v, u, One(r \in LateRequests))
<1>1. One(r \in LateRequests) = 0
  BY DEF One
<1>2. One(Waiting(u)) = One(Waiting(v)) /\ One(Served(u)) = One(Served(v))
      /\ One(Waiting(v)) \in Nat /\ One(Served(v)) \in Nat
  BY DEF One
<1> QED BY <1>1, <1>2 DEF WaitsFor

\* The place where the server has taken the client.
LEMMA SpeaksTo ==
  ASSUME NEW v, NEW u, NEW r, NEW a, NEW k, NEW j \in Nat,
         NEW b \in {"HELLO", "AGAIN", "CR_SRVR_HELLO", "CR_ENCRYPTED_EXTENSIONS", "CR_CERT_REQ",
             "CR_CERT",
                    "CR_CERT_VRFY", "APP"},
         ServerSaid(v) = Place(a, k, "none"), ServerSaid(u) = Place(b, j, "none"),
         ServerSays(conf, Place(a, k, "none"), r, Place(b, j, "none")), k <= j
  PROVE  ServerSpeaks(conf, v, r, u)
<1>1. Place(b, j, "none") \in Places
  BY DEF Place, Places
<1>2. ServerSaid(v).key = k /\ ServerSaid(u).key = j
  BY PlaceFields
<1> QED BY <1>1, <1>2 DEF ServerSpeaks

\* The ServerHello, or the HelloRetryRequest.
LEMMA ServerHelloSent ==
  ASSUME NEW v, NEW r, NEW u, ServerSendsAs(v, "SW_SRVR_HELLO", r, u)
  PROVE  ServerSpoke(v, r, u)
<1>1. /\ v \in Conn /\ u \in Conn /\ r \in Rec /\ ServerOK(conf, v) /\ ServerOK(conf, u)
      /\ conf \in AllConfigurations /\ ServerAt(conf, v) /\ v.flow = "writing"
  BY DEF ServerSendsAs
<1> DEFINE retry == v.hello_retry_request = "PENDING"
<1>2. v.hand_state = "SR_CLNT_HELLO"
  BY <1>1 DEF ServerSendsAs, ServerGoes, ToRead
<1>3. /\ "own" \notin v.fin /\ "peer" \notin v.fin /\ v.wkey = Plain
      /\ v.pha \notin {"REQUESTED", "REQUEST_PENDING"}
  BY <1>1, <1>2 DEF ServerAt, ServerFar, ServerKey, ServerAnswer, ServerLate, ServerAsks
<1>4. /\ u.hand_state = "SW_SRVR_HELLO" /\ u.flow = "writing" /\ u.in_init = v.in_init
      /\ u.tls13 = v.tls13
      /\ u.early_data_state = v.early_data_state /\ u.early_data = v.early_data
      /\ u.hello_retry_request = v.hello_retry_request /\ u.cert = v.cert
      /\ u.hit = (IF retry THEN FALSE ELSE v.hit) /\ u.pha = v.pha
      /\ u.cert_request = v.cert_request /\ u.fin = v.fin
      /\ u.wkey = (IF Installs(v, "SW_SRVR_HELLO") THEN HandshakeKey ELSE Plain)
      /\ u.rkey = (IF Installs(v,
             "SW_SRVR_HELLO") /\ v.early_data # "ACCEPTED" THEN HandshakeKey ELSE v.rkey)
      /\ r.key = Plain /\ r.type = "SERVER_HELLO"
      /\ r.arg = IF retry THEN "retry" ELSE IF v.hit THEN "hit" ELSE "full"
  BY <1>1, <1>2, <1>3 DEF ServerSendsAs, PhaAfterTransition
<1>5. /\ v.hello_retry_request \in {"NONE", "PENDING", "COMPLETE"}
      /\ conf.retry <=> v.hello_retry_request # "NONE"
      /\ ~ retry => v.hit = conf.psk
      /\ v.early_data = Fate(conf)
  BY <1>1, <1>2 DEF ServerAt, ServerKnows, Conn, ServerData
<1>6. ServerAt(conf, u)
  <2>1. ServerCall(u)
    BY <1>1, <1>4 DEF ServerCall, ServerAnswer, ServerAt
  <2>2. ServerKnows(conf, u)
    BY <1>1, <1>2, <1>4 DEF ServerKnows, ServerAt, ServerHellos
  <2>3. ServerFar(u)
    BY <1>3, <1>4 DEF ServerFar, ServerAnswer, ServerLate
  <2>4. ServerData(conf, u)
    BY <1>1, <1>2, <1>4 DEF ServerData, ServerAt, ServerAnswer
  <2>5. ServerAsks(conf, u)
    BY <1>1, <1>2, <1>3, <1>4 DEF ServerAsks, ServerAt, ServerAnswer, ServerHellos
  <2>6. ServerKey(conf, u)
    <3>1. Installs(v, "SW_SRVR_HELLO") <=> ~ retry
            /\ ~ (conf.compat[Server] /\ v.hello_retry_request = "NONE")
      BY <1>5, Configured, <1>1 DEF Installs
    <3>2. ~ Accepts(conf) => v.early_data # "ACCEPTED"
      BY <1>5 DEF Fate
    <3>3. /\ retry => v.rkey = Plain
          /\ Accepts(conf) => v.rkey = EarlyKey
      BY <1>1, <1>2, <1>3 DEF ServerAt, ServerKey, ServerAnswer
    <3>4. Accepts(conf) => v.early_data = "ACCEPTED"
      BY <1>5 DEF Fate
    <3> QED BY <1>3, <1>4, <3>1, <3>2, <3>3, <3>4 DEF ServerKey, ServerAnswer, Plain, HandshakeKey
  <2> QED BY <2>1, <2>2, <2>3, <2>4, <2>5, <2>6 DEF ServerAt
<1>7. ServerPlace(conf, u) = ServerPlace(conf, v)
  BY <1>2, <1>3, <1>4 DEF ServerPlace
<1>8. ServerSpeaks(conf, v, r, u)
  <2>1. ServerSaid(v) = (IF v.hello_retry_request = "COMPLETE" THEN Place("AGAIN", Plain, "none")
                         ELSE Place("HELLO", Plain, "none"))
    BY <1>2, <1>3 DEF ServerSaid
  <2>2. ServerSaid(u) = IF retry THEN Place("AGAIN", Plain, "none")
                        ELSE Place("CR_SRVR_HELLO", HandshakeKey, "none")
    BY <1>3, <1>4 DEF ServerSaid
  <2>3. CASE retry
    <3>1. ServerSays(conf, Place("HELLO", Plain, "none"), r, Place("AGAIN", Plain, "none"))
      BY <1>4, <1>5, <2>3, PlaceFields DEF ServerSays
    <3> QED BY <2>1, <2>2, <2>3, <3>1, SpeaksTo DEF Plain
  <2>4. CASE ~ retry
    <3> DEFINE a == IF conf.retry THEN "AGAIN" ELSE "HELLO"
    <3>1. ServerSaid(v) = Place(a, Plain, "none")
      BY <1>5, <2>1, <2>4
    <3>2. r.arg = IF conf.psk THEN "hit" ELSE "full"
      BY <1>4, <1>5, <2>4
    <3>3. ServerSays(conf, Place(a, Plain, "none"), r, Place("CR_SRVR_HELLO", HandshakeKey, "none"))
      BY <1>4, <3>2, PlaceFields DEF ServerSays
    <3> QED BY <2>2, <2>4, <3>1, <3>3, SpeaksTo DEF Plain, HandshakeKey
  <2> QED BY <2>3, <2>4
<1>9. WaitsFor(v, u, One(r \in LateRequests))
  <2>1. ~ Waiting(u) /\ ~ Waiting(v) /\ ~ Served(u) /\ ~ Served(v)
    BY <1>2, <1>3, <1>4 DEF Waiting, Served
  <2>2. r \notin LateRequests
    BY <1>4 DEF LateRequests
  <2> QED BY <2>1, <2>2, NothingAsked
<1> QED BY <1>4, <1>6, <1>7, <1>8, <1>9 DEF ServerSpoke

\* The ChangeCipherSpec.
LEMMA ServerChangeSent ==
  ASSUME NEW v, NEW r, NEW u, ServerSendsAs(v, "SW_CHANGE", r, u)
  PROVE  ServerSpoke(v, r, u)
<1>1. /\ v \in Conn /\ u \in Conn /\ r \in Rec /\ ServerOK(conf, v) /\ ServerOK(conf, u)
      /\ conf \in AllConfigurations /\ ServerAt(conf, v) /\ v.flow = "writing"
  BY DEF ServerSendsAs
<1> DEFINE retry == v.hello_retry_request = "PENDING"
<1>2. v.hand_state = "SW_SRVR_HELLO" /\ conf.compat[Server] /\ v.hello_retry_request # "COMPLETE"
  BY <1>1 DEF ServerSendsAs, ServerGoes, ToRead
<1>3. /\ "own" \notin v.fin /\ "peer" \notin v.fin /\ v.wkey = Plain
      /\ v.pha \notin {"REQUESTED", "REQUEST_PENDING"}
      /\ v.hello_retry_request \in {"NONE", "PENDING"}
  BY <1>1, <1>2 DEF ServerAt, ServerFar, ServerKey, ServerAnswer, ServerLate, ServerAsks, Conn
<1>4. /\ u.hand_state = "SW_CHANGE" /\ u.flow = "writing" /\ u.in_init = v.in_init
      /\ u.tls13 = v.tls13
      /\ u.early_data_state = v.early_data_state /\ u.early_data = v.early_data
      /\ u.hello_retry_request = v.hello_retry_request /\ u.cert = v.cert
      /\ u.hit = v.hit /\ u.pha = v.pha
      /\ u.cert_request = v.cert_request /\ u.fin = v.fin
      /\ u.wkey = (IF ~ retry THEN HandshakeKey ELSE Plain)
      /\ u.rkey = (IF ~ retry /\ v.early_data # "ACCEPTED" THEN HandshakeKey ELSE v.rkey)
      /\ r.key = Plain /\ r.type = "CCS"
  BY <1>1, <1>2, <1>3 DEF ServerSendsAs, PhaAfterTransition, Installs
<1>5. v.early_data = Fate(conf)
  BY <1>1, <1>2 DEF ServerAt, ServerData
<1>6. ServerAt(conf, u)
  <2>1. ServerCall(u)
    BY <1>1, <1>4 DEF ServerCall, ServerAnswer, ServerAt
  <2>2. ServerKnows(conf, u)
    BY <1>1, <1>2, <1>4 DEF ServerKnows, ServerAt, ServerHellos
  <2>3. ServerFar(u)
    BY <1>3, <1>4 DEF ServerFar, ServerAnswer, ServerLate
  <2>4. ServerData(conf, u)
    BY <1>1, <1>2, <1>4 DEF ServerData, ServerAt, ServerAnswer
  <2>5. ServerAsks(conf, u)
    BY <1>1, <1>2, <1>3, <1>4 DEF ServerAsks, ServerAt, ServerAnswer, ServerHellos
  <2>6. ServerKey(conf, u)
    <3>1. (Accepts(conf) <=> v.early_data = "ACCEPTED")
      BY <1>5 DEF Fate
    <3>2. /\ retry => v.rkey = Plain
          /\ Accepts(conf) => v.rkey = EarlyKey
      BY <1>1, <1>2, <1>3 DEF ServerAt, ServerKey, ServerAnswer
    <3> QED BY <1>3, <1>4, <3>1, <3>2 DEF ServerKey, ServerAnswer, Plain, HandshakeKey
  <2> QED BY <2>1, <2>2, <2>3, <2>4, <2>5, <2>6 DEF ServerAt
<1>7. ServerPlace(conf, u) = ServerPlace(conf, v)
  BY <1>2, <1>3, <1>4 DEF ServerPlace
<1>8. ServerSpeaks(conf, v, r, u)
  <2> DEFINE a == IF retry THEN "AGAIN" ELSE "CR_SRVR_HELLO"
             k == IF retry THEN Plain ELSE HandshakeKey
  <2>1. ServerSaid(v) = Place(a, k, "none") /\ ServerSaid(u) = Place(a, k, "none")
    BY <1>2, <1>3, <1>4 DEF ServerSaid
  <2>2. ServerSays(conf, Place(a, k, "none"), r, Place(a, k, "none"))
    BY <1>4, PlaceFields DEF ServerSays
  <2>3. k \in Nat /\ k <= k /\ a \in {"AGAIN", "CR_SRVR_HELLO"}
    BY DEF Plain, HandshakeKey
  <2> HIDE DEF a, k
  <2> QED BY <2>1, <2>2, <2>3, SpeaksTo
<1>9. WaitsFor(v, u, One(r \in LateRequests))
  <2>1. ~ Waiting(u) /\ ~ Waiting(v) /\ ~ Served(u) /\ ~ Served(v)
    BY <1>2, <1>3, <1>4 DEF Waiting, Served
  <2>2. r \notin LateRequests
    BY <1>4 DEF LateRequests
  <2> QED BY <2>1, <2>2, NothingAsked
<1> QED BY <1>4, <1>6, <1>7, <1>8, <1>9 DEF ServerSpoke

\* The messages of the first flight that go with the handshake key: the server has gone from
\* state g to h, and its message takes the client from place a to b.
Flight(g, h, a, b) ==
  \/ g \in {"SW_SRVR_HELLO", "SW_CHANGE"} /\ h = "SW_ENCRYPTED_EXTENSIONS"
     /\ a = "CR_SRVR_HELLO" /\ b = "CR_ENCRYPTED_EXTENSIONS"
  \/ g = "SW_ENCRYPTED_EXTENSIONS" /\ h = "SW_CERT_REQ" /\ a = "CR_ENCRYPTED_EXTENSIONS"
       /\ b = "CR_CERT_REQ"
  \/ g = "SW_ENCRYPTED_EXTENSIONS" /\ h = "SW_CERT" /\ a = "CR_ENCRYPTED_EXTENSIONS" /\ b = "CR_CERT"
  \/ g = "SW_CERT_REQ" /\ h = "SW_CERT" /\ a = "CR_CERT_REQ" /\ b = "CR_CERT"
  \/ g = "SW_CERT" /\ h = "SW_CERT_VRFY" /\ a = "CR_CERT" /\ b = "CR_CERT_VRFY"

\* Such a message keeps the invariant.
LEMMA FlightSent ==
  ASSUME NEW v, NEW h, NEW r, NEW u, ServerSendsAs(v, h, r, u), NEW a, NEW b,
         Flight(v.hand_state, h, a, b), "own" \notin v.fin, v.hello_retry_request # "PENDING",
         ServerSays(conf, Place(a, HandshakeKey, "none"), r, Place(b, HandshakeKey, "none")),
         h \in {"SW_CERT", "SW_CERT_VRFY"} => ~ conf.psk,
         h = "SW_CERT_REQ" => Asks(conf),
         Asks(conf) /\ h \in {"SW_CERT", "SW_CERT_VRFY"} => v.cert_request,
         v.wkey = HandshakeKey
  PROVE  ServerSpoke(v, r, u)
<1>1. /\ v \in Conn /\ u \in Conn /\ r \in Rec /\ ServerOK(conf, v) /\ ServerOK(conf, u)
      /\ conf \in AllConfigurations /\ ServerAt(conf, v) /\ v.flow = "writing"
  BY DEF ServerSendsAs
<1>2. /\ v.hand_state \in {"SW_SRVR_HELLO", "SW_CHANGE", "SW_ENCRYPTED_EXTENSIONS", "SW_CERT_REQ",
             "SW_CERT"}
      /\ h \in {"SW_ENCRYPTED_EXTENSIONS", "SW_CERT_REQ", "SW_CERT", "SW_CERT_VRFY"}
  BY DEF Flight
<1>3. /\ "peer" \notin v.fin /\ v.pha \notin {"REQUESTED", "REQUEST_PENDING"}
  BY <1>1, <1>2 DEF ServerAt, ServerFar, ServerAsks
<1>4. /\ u.hand_state = h /\ u.flow = "writing" /\ u.in_init = v.in_init /\ u.tls13 = v.tls13
      /\ u.early_data_state = v.early_data_state /\ u.early_data = v.early_data
      /\ u.hello_retry_request = v.hello_retry_request /\ u.cert = v.cert
      /\ u.hit = v.hit /\ u.pha = v.pha
      /\ u.cert_request = (IF h = "SW_CERT_REQ" THEN TRUE ELSE v.cert_request) /\ u.fin = v.fin
      /\ u.wkey = HandshakeKey /\ u.rkey = v.rkey /\ r.key = HandshakeKey
      /\ r.type # "DATA"
  BY <1>1, <1>2, <1>3 DEF ServerSendsAs, PhaAfterTransition, Installs
<1>5. ServerAt(conf, u)
  <2>1. ServerCall(u)
    BY <1>1, <1>2, <1>4 DEF ServerCall, ServerAnswer, ServerAt
  <2>2. ServerKnows(conf, u)
    BY <1>1, <1>2, <1>4 DEF ServerKnows, ServerAt, ServerHellos
  <2>3. ServerFar(u)
    BY <1>2, <1>3, <1>4 DEF ServerFar, ServerAnswer, ServerLate
  <2>4. ServerData(conf, u)
    BY <1>1, <1>2, <1>4 DEF ServerData, ServerAt, ServerAnswer
  <2>5. ServerAsks(conf, u)
    <3>1. /\ conf.pha <=> v.pha # "NONE"
          /\ v.pha \in {"NONE", "EXT_RECEIVED"} /\ v.cert = "none" /\ v.cert_request \in BOOLEAN
      BY <1>1, <1>2, <1>3 DEF ServerAsks, ServerAt, Conn, ServerAnswer
    <3>2. v.cert_request => Asks(conf)
            /\ v.hand_state \notin {"SW_SRVR_HELLO", "SW_CHANGE", "SW_ENCRYPTED_EXTENSIONS"}
      BY <1>1, <1>3 DEF ServerAsks, ServerAt, ServerHellos
    <3>3. h = "SW_ENCRYPTED_EXTENSIONS" => v.hand_state \in {"SW_SRVR_HELLO", "SW_CHANGE"}
      BY DEF Flight
    <3> QED BY <1>2, <1>3, <1>4, <3>1, <3>2, <3>3 DEF ServerAsks, ServerAnswer, ServerHellos
  <2>6. ServerKey(conf, u)
    <3>1. /\ Accepts(conf) => v.rkey = EarlyKey
          /\ ~ Accepts(conf) => v.rkey = HandshakeKey
      BY <1>1, <1>2, <1>3 DEF ServerAt, ServerKey, ServerAnswer, Plain, HandshakeKey
    <3> QED BY <1>2, <1>3, <1>4, <3>1 DEF ServerKey, ServerAnswer, Plain, HandshakeKey
  <2> QED BY <2>1, <2>2, <2>3, <2>4, <2>5, <2>6 DEF ServerAt
<1>6. ServerPlace(conf, u) = ServerPlace(conf, v)
  BY <1>2, <1>3, <1>4 DEF ServerPlace
<1>7. ServerSpeaks(conf, v, r, u)
  <2>1. ServerSaid(v) = Place(a, HandshakeKey, "none") /\ ServerSaid(u) = Place(b, HandshakeKey, "none")
    BY <1>4 DEF ServerSaid, Flight
  <2>3. HandshakeKey \in Nat /\ HandshakeKey <= HandshakeKey
    BY DEF HandshakeKey
  <2>4. b \in {"CR_ENCRYPTED_EXTENSIONS", "CR_CERT_REQ", "CR_CERT", "CR_CERT_VRFY"}
    BY DEF Flight
  <2> QED BY <2>1, <2>3, <2>4, SpeaksTo
<1>8. WaitsFor(v, u, One(r \in LateRequests))
  <2>1. ~ Waiting(u) /\ ~ Waiting(v) /\ ~ Served(u) /\ ~ Served(v)
    BY <1>2, <1>3, <1>4 DEF Waiting, Served
  <2>2. r \notin LateRequests
    BY <1>4 DEF LateRequests, HandshakeKey, ApplicationKey
  <2> QED BY <2>1, <2>2, NothingAsked
<1> QED BY <1>2, <1>4, <1>5, <1>6, <1>7, <1>8 DEF ServerSpoke

\* The server has installed its handshake keys.
LEMMA FlightKey ==
  ASSUME NEW v, NEW h, NEW r, NEW u, ServerSendsAs(v, h, r, u),
         h = "SW_ENCRYPTED_EXTENSIONS" \/ "own" \notin v.fin,
         h \in {"SW_ENCRYPTED_EXTENSIONS", "SW_CERT_REQ", "SW_CERT", "SW_CERT_VRFY", "SW_FINISHED"}
  PROVE  "own" \notin v.fin /\ v.hello_retry_request # "PENDING" /\ v.wkey = HandshakeKey
           /\ r.key = HandshakeKey
         /\ v.hit = conf.psk /\ "peer" \notin v.fin /\ v.hand_state # "BEFORE"
<1>1. /\ v \in Conn /\ ServerOK(conf, v) /\ ServerAt(conf, v) /\ conf \in AllConfigurations
      /\ ServerGoes(conf, v, h)
      /\ r.key = v.wkey
  BY DEF ServerSendsAs
<1>2. \/ /\ v.hand_state \in {"SW_SRVR_HELLO", "SW_CHANGE"} /\ h = "SW_ENCRYPTED_EXTENSIONS"
         /\ v.hello_retry_request # "PENDING"
         /\ v.hand_state = "SW_CHANGE" \/ ~ (conf.compat[Server] /\ v.hello_retry_request # "COMPLETE")
      \/ /\ v.hand_state \in {"SW_ENCRYPTED_EXTENSIONS", "SW_CERT_REQ", "SW_CERT", "SW_CERT_VRFY"}
         /\ h # "SW_ENCRYPTED_EXTENSIONS"
      \/ v.hand_state = "OK" /\ h = "SW_CERT_REQ"
  BY <1>1 DEF ServerGoes, ToRead
<1>3. "own" \notin v.fin
  BY <1>1, <1>2 DEF ServerAt, ServerFar, ServerAnswer, ServerLate
<1>4. v.hand_state # "OK" /\ "peer" \notin v.fin
  BY <1>1, <1>3 DEF ServerAt, ServerFar, ServerLate
<1>5. v.hello_retry_request # "PENDING"
  BY <1>1, <1>2, <1>4 DEF ServerOK, ServerKeys
<1>6. v.wkey = HandshakeKey
  BY <1>1, <1>2, <1>3, <1>4, <1>5 DEF ServerAt, ServerKey
<1> QED BY <1>1, <1>2, <1>3, <1>4, <1>5, <1>6 DEF ServerAt, ServerKnows

\* The EncryptedExtensions.
LEMMA ExtensionsSent ==
  ASSUME NEW v, NEW r, NEW u, ServerSendsAs(v, "SW_ENCRYPTED_EXTENSIONS", r, u)
  PROVE  ServerSpoke(v, r, u)
<1>1. /\ ServerAt(conf, v) /\ ServerGoes(conf, v, "SW_ENCRYPTED_EXTENSIONS")
      /\ r.type = "ENCRYPTED_EXTENSIONS"
      /\ r.arg = IF v.early_data = "ACCEPTED" THEN "early" ELSE "none"
  BY DEF ServerSendsAs
<1>2. v.hand_state \in {"SW_SRVR_HELLO", "SW_CHANGE"}
  BY <1>1 DEF ServerGoes, ToRead
<1>3. "own" \notin v.fin /\ v.hello_retry_request # "PENDING" /\ v.wkey = HandshakeKey
        /\ r.key = HandshakeKey
  BY FlightKey
<1>4. r.arg = IF Accepts(conf) THEN "early" ELSE "none"
  BY <1>1, <1>2 DEF ServerAt, ServerData, Fate
<1>5. ServerSays(conf, Place("CR_SRVR_HELLO", HandshakeKey, "none"), r,
          Place("CR_ENCRYPTED_EXTENSIONS", HandshakeKey, "none"))
  BY <1>1, <1>3, <1>4, PlaceFields DEF ServerSays
<1>6. Flight(v.hand_state, "SW_ENCRYPTED_EXTENSIONS", "CR_SRVR_HELLO", "CR_ENCRYPTED_EXTENSIONS")
  BY <1>2 DEF Flight
<1> QED BY <1>3, <1>5, <1>6, FlightSent

\* The CertificateRequest of the handshake.
LEMMA RequestSent ==
  ASSUME NEW v, NEW r, NEW u, ServerSendsAs(v, "SW_CERT_REQ", r, u), "own" \notin v.fin
  PROVE  ServerSpoke(v, r, u)
<1>1. /\ ServerAt(conf, v) /\ ServerGoes(conf, v, "SW_CERT_REQ") /\ r.type = "CERTIFICATE_REQUEST"
  BY DEF ServerSendsAs
<1>2. v.hello_retry_request # "PENDING" /\ v.wkey = HandshakeKey /\ r.key = HandshakeKey
        /\ v.hit = conf.psk
      /\ "peer" \notin v.fin
  BY FlightKey
<1>3. v.hand_state = "SW_ENCRYPTED_EXTENSIONS" /\ ~ v.hit /\ conf.verify = "hand"
  BY <1>1, <1>2 DEF ServerGoes, ToRead, ServerAt, ServerFar, ServerLate, ServerAsks
<1>4. Asks(conf)
  BY <1>2, <1>3 DEF Asks
<1>5. ServerSays(conf, Place("CR_ENCRYPTED_EXTENSIONS", HandshakeKey, "none"), r,
          Place("CR_CERT_REQ", HandshakeKey, "none"))
  BY <1>1, <1>2, <1>4, PlaceFields DEF ServerSays
<1>6. Flight(v.hand_state, "SW_CERT_REQ", "CR_ENCRYPTED_EXTENSIONS", "CR_CERT_REQ")
  BY <1>3 DEF Flight
<1> QED BY <1>2, <1>4, <1>5, <1>6, FlightSent

\* The Certificate of the server.
LEMMA ServerCertSent ==
  ASSUME NEW v, NEW r, NEW u, ServerSendsAs(v, "SW_CERT", r, u)
  PROVE  ServerSpoke(v, r, u)
<1>1. /\ ServerAt(conf, v) /\ ServerGoes(conf, v, "SW_CERT") /\ r.type = "CERTIFICATE"
      /\ v \in Conn
      /\ conf \in AllConfigurations
  BY DEF ServerSendsAs
<1>2. \/ v.hand_state = "SW_ENCRYPTED_EXTENSIONS" /\ ~ v.hit /\ conf.verify # "hand"
      \/ v.hand_state = "SW_CERT_REQ" /\ v.pha # "REQUEST_PENDING"
  BY <1>1 DEF ServerGoes, ToRead
<1>3. "own" \notin v.fin
  <2>1. "peer" \notin v.fin
    BY <1>1, <1>2 DEF ServerAt, ServerFar, ServerAnswer, ServerLate
  <2>2. ServerOK(conf, v)
    BY DEF ServerSendsAs
  <2> QED BY <1>2, <2>1, <2>2 DEF ServerOK, ServerKeys
<1>4. v.hello_retry_request # "PENDING" /\ v.wkey = HandshakeKey /\ r.key = HandshakeKey
        /\ v.hit = conf.psk
      /\ "peer" \notin v.fin
  BY <1>3, FlightKey
<1>5. /\ v.hand_state = "SW_CERT_REQ" => Asks(conf)
      /\ v.hand_state # "SW_CERT_REQ" => ~ Asks(conf)
      /\ ~ conf.psk
      /\ Asks(conf) => v.cert_request
  BY <1>1, <1>2, <1>4 DEF ServerAt, ServerAsks, Asks, ServerHellos
<1> DEFINE a == IF Asks(conf) THEN "CR_CERT_REQ" ELSE "CR_ENCRYPTED_EXTENSIONS"
<1>6. ServerSays(conf, Place(a, HandshakeKey, "none"), r, Place("CR_CERT", HandshakeKey, "none"))
  BY <1>1, <1>4, <1>5, PlaceFields DEF ServerSays
<1>7. Flight(v.hand_state, "SW_CERT", a, "CR_CERT")
  BY <1>2, <1>5 DEF Flight
<1> HIDE DEF a
<1> QED BY <1>3, <1>4, <1>5, <1>6, <1>7, FlightSent

\* Its CertificateVerify.
LEMMA ServerVerifySent ==
  ASSUME NEW v, NEW r, NEW u, ServerSendsAs(v, "SW_CERT_VRFY", r, u)
  PROVE  ServerSpoke(v, r, u)
<1>1. /\ ServerAt(conf, v) /\ ServerGoes(conf, v, "SW_CERT_VRFY") /\ r.type = "CERTIFICATE_VERIFY"
      /\ ServerOK(conf, v)
  BY DEF ServerSendsAs
<1>2. v.hand_state = "SW_CERT"
  BY <1>1 DEF ServerGoes, ToRead
<1>3. "own" \notin v.fin
  BY <1>1, <1>2 DEF ServerOK, ServerKeys
<1>4. v.hello_retry_request # "PENDING" /\ v.wkey = HandshakeKey /\ r.key = HandshakeKey
        /\ "peer" \notin v.fin
  BY <1>3, FlightKey
<1>5. ~ conf.psk /\ (Asks(conf) => v.cert_request)
  BY <1>1, <1>2, <1>4 DEF ServerAt, ServerAsks, Asks, ServerHellos
<1>6. ServerSays(conf, Place("CR_CERT", HandshakeKey, "none"), r, Place("CR_CERT_VRFY",
          HandshakeKey, "none"))
  BY <1>1, <1>4, PlaceFields DEF ServerSays
<1>7. Flight(v.hand_state, "SW_CERT_VRFY", "CR_CERT", "CR_CERT_VRFY")
  BY <1>2 DEF Flight
<1> QED BY <1>3, <1>4, <1>5, <1>6, <1>7, FlightSent

\* Its Finished.
LEMMA ServerFinishedSent ==
  ASSUME NEW v, NEW r, NEW u, ServerSendsAs(v, "SW_FINISHED", r, u)
  PROVE  ServerSpoke(v, r, u)
<1>1. /\ v \in Conn /\ u \in Conn /\ r \in Rec /\ ServerOK(conf, v) /\ ServerOK(conf, u)
      /\ conf \in AllConfigurations /\ ServerAt(conf, v) /\ v.flow = "writing"
      /\ ServerGoes(conf, v, "SW_FINISHED")
  BY DEF ServerSendsAs
<1>2. \/ v.hand_state = "SW_ENCRYPTED_EXTENSIONS" /\ v.hit
      \/ v.hand_state = "SW_CERT_VRFY"
  BY <1>1 DEF ServerGoes, ToRead
<1>3. "own" \notin v.fin
  BY <1>1, <1>2 DEF ServerOK, ServerKeys
<1>4. v.hello_retry_request # "PENDING" /\ v.wkey = HandshakeKey /\ r.key = HandshakeKey
        /\ v.hit = conf.psk
      /\ "peer" \notin v.fin
  BY <1>3, FlightKey
<1>5. v.pha \notin {"REQUESTED", "REQUEST_PENDING"}
  BY <1>1, <1>4 DEF ServerAt, ServerAsks
<1>6. /\ u.hand_state = "SW_FINISHED" /\ u.flow = "writing" /\ u.in_init = v.in_init
      /\ u.tls13 = v.tls13
      /\ u.early_data_state = v.early_data_state /\ u.early_data = v.early_data
      /\ u.hello_retry_request = v.hello_retry_request /\ u.cert = v.cert
      /\ u.hit = v.hit /\ u.pha = v.pha
      /\ u.cert_request = v.cert_request /\ u.fin = v.fin \cup {"own"}
      /\ u.wkey = ApplicationKey /\ u.rkey = v.rkey /\ r.type = "FINISHED"
  BY <1>1, <1>2, <1>5 DEF ServerSendsAs, PhaAfterTransition, Installs
<1>7. ServerAt(conf, u)
  <2>1. ServerCall(u)
    BY <1>1, <1>2, <1>6 DEF ServerCall, ServerAnswer, ServerAt
  <2>2. ServerKnows(conf, u)
    BY <1>1, <1>2, <1>6 DEF ServerKnows, ServerAt, ServerHellos
  <2>3. ServerFar(u)
    BY <1>4, <1>6 DEF ServerFar, ServerAnswer, ServerLate
  <2>4. ServerData(conf, u)
    BY <1>1, <1>2, <1>4, <1>6 DEF ServerData, ServerAt, ServerAnswer
  <2>5. ServerAsks(conf, u)
    <3>1. /\ conf.pha <=> v.pha # "NONE"
          /\ v.pha \in {"NONE", "EXT_RECEIVED"} /\ v.cert = "none" /\ v.cert_request \in BOOLEAN
      BY <1>1, <1>2, <1>4 DEF ServerAsks, ServerAt, Conn, ServerAnswer
    <3>2. v.cert_request <=> Asks(conf)
      BY <1>1, <1>2, <1>4 DEF ServerAsks, ServerAt, ServerHellos, Asks
    <3> QED BY <1>4, <1>6, <3>1, <3>2 DEF ServerAsks, ServerAnswer, ServerHellos
  <2>6. ServerKey(conf, u)
    <3>1. /\ Accepts(conf) => v.rkey = EarlyKey
          /\ ~ Accepts(conf) => v.rkey = HandshakeKey
      BY <1>1, <1>2, <1>4 DEF ServerAt, ServerKey, ServerAnswer, Plain, HandshakeKey
    <3> QED BY <1>4, <1>6, <3>1 DEF ServerKey, ServerAnswer, Plain, HandshakeKey
  <2> QED BY <2>1, <2>2, <2>3, <2>4, <2>5, <2>6 DEF ServerAt
<1>8. ServerPlace(conf, u) = ServerPlace(conf, v)
  BY <1>2, <1>4, <1>6 DEF ServerPlace
<1>9. ServerSpeaks(conf, v, r, u)
  <2> DEFINE a == IF conf.psk THEN "CR_ENCRYPTED_EXTENSIONS" ELSE "CR_CERT_VRFY"
  <2>1. conf.psk <=> v.hand_state = "SW_ENCRYPTED_EXTENSIONS"
    BY <1>1, <1>2, <1>4 DEF ServerAt, ServerAsks
  <2>2. ServerSaid(v) = Place(a, HandshakeKey, "none")
          /\ ServerSaid(u) = Place("APP", ApplicationKey, "none")
    BY <1>2, <1>3, <1>6, <2>1 DEF ServerSaid
  <2>3. ServerSays(conf, Place(a, HandshakeKey, "none"), r, Place("APP", ApplicationKey, "none"))
    BY <1>4, <1>6, PlaceFields DEF ServerSays
  <2> HIDE DEF a
  <2> QED BY <2>2, <2>3, SpeaksTo DEF HandshakeKey, ApplicationKey
<1>10. WaitsFor(v, u, One(r \in LateRequests))
  <2>1. ~ Waiting(u) /\ ~ Waiting(v) /\ ~ Served(u) /\ ~ Served(v)
    BY <1>2, <1>5, <1>6 DEF Waiting, Served
  <2>2. r \notin LateRequests
    BY <1>6 DEF LateRequests
  <2> QED BY <2>1, <2>2, NothingAsked
<1> QED BY <1>6, <1>7, <1>8, <1>9, <1>10 DEF ServerSpoke

\* What the server sends after the handshake: it goes on with the same keys, or the next ones.
LEMMA LateSent ==
  ASSUME NEW v, NEW h, NEW r, NEW u, ServerSendsAs(v, h, r, u), "peer" \in v.fin,
         h \in {"SW_CERT_REQ", "SW_SESSION_TICKET", "SW_KEY_UPDATE"}
  PROVE  ServerSpoke(v, r, u)
<1>1. /\ v \in Conn /\ u \in Conn /\ r \in Rec /\ ServerOK(conf, v) /\ ServerOK(conf, u)
      /\ conf \in AllConfigurations /\ ServerAt(conf, v) /\ v.flow = "writing"
      /\ ServerGoes(conf, v, h)
  BY DEF ServerSendsAs
<1>2. /\ v.hand_state # "SW_ENCRYPTED_EXTENSIONS"
      /\ "own" \in v.fin /\ v.hello_retry_request # "PENDING" /\ v.wkey >= ApplicationKey
      /\ v.wkey \in Nat
  BY <1>1 DEF ServerAt, ServerFar, ServerOK, ServerKeys, ServerLate, ServerAnswer, Conn
<1>3. \/ h = "SW_KEY_UPDATE" /\ v.hand_state = "OK"
      \/ h = "SW_CERT_REQ" /\ v.hand_state = "OK" /\ v.pha = "REQUEST_PENDING"
      \/ h = "SW_SESSION_TICKET" /\ v.hand_state \in {"SR_FINISHED", "SW_SESSION_TICKET"}
  BY <1>1, <1>2 DEF ServerGoes, ToRead
<1>4. /\ u.hand_state = h /\ u.flow = "writing" /\ u.in_init = v.in_init /\ u.tls13 = v.tls13
      /\ u.early_data_state = v.early_data_state /\ u.early_data = v.early_data
      /\ u.hello_retry_request = v.hello_retry_request /\ u.cert = v.cert /\ u.hit = v.hit
      /\ u.pha = (IF v.hand_state = "SR_FINISHED" /\ v.pha = "REQUESTED" THEN "EXT_RECEIVED" ELSE v.pha)
      /\ u.fin = v.fin /\ u.rkey = v.rkey /\ r.key = v.wkey
      /\ u.wkey = (IF h = "SW_KEY_UPDATE" THEN v.wkey + 1 ELSE v.wkey)
      /\ h = "SW_CERT_REQ" => r.type = "CERTIFICATE_REQUEST"
      /\ h = "SW_SESSION_TICKET" => r.type = "NEWSESSION_TICKET"
      /\ h = "SW_KEY_UPDATE" => r.type = "KEY_UPDATE"
  BY <1>1, <1>3 DEF ServerSendsAs, PhaAfterTransition, Installs
<1>5. ServerAt(conf, u)
  <2>1. ServerCall(u)
    BY <1>1, <1>3, <1>4 DEF ServerCall, ServerAnswer, ServerAt
  <2>2. ServerKnows(conf, u)
    BY <1>1, <1>2, <1>3, <1>4 DEF ServerKnows, ServerAt, ServerHellos
  <2>3. ServerFar(u)
    BY <1>1, <1>2, <1>3, <1>4 DEF ServerFar, ServerAnswer, ServerLate
  <2>4. ServerData(conf, u)
    BY <1>1, <1>3, <1>4 DEF ServerData, ServerAt, ServerAnswer
  <2>5. ServerAsks(conf, u)
    BY <1>1, <1>3, <1>4 DEF ServerAsks, ServerAt, ServerAnswer
  <2>6. ServerKey(conf, u)
    BY <1>1, <1>2, <1>3, <1>4 DEF ServerKey, ServerAt, ServerAnswer
  <2> QED BY <2>1, <2>2, <2>3, <2>4, <2>5, <2>6 DEF ServerAt
<1>6. ServerPlace(conf, u) = ServerPlace(conf, v)
  BY <1>3, <1>4 DEF ServerPlace
<1>7. ServerSpeaks(conf, v, r, u)
  <2>1. ServerSaid(v) = Place("APP", v.wkey, "none") /\ ServerSaid(u) = Place("APP", u.wkey, "none")
    BY <1>2, <1>4 DEF ServerSaid
  <2>2. conf.pha \/ h # "SW_CERT_REQ"
    BY <1>1, <1>3 DEF ServerAt, ServerAsks
  <2>3. ServerSays(conf, Place("APP", v.wkey, "none"), r, Place("APP", u.wkey, "none"))
    BY <1>3, <1>4, <2>2, PlaceFields DEF ServerSays
  <2>4. u.wkey \in Nat /\ v.wkey <= u.wkey
    BY <1>2, <1>4
  <2> QED BY <2>1, <2>3, <2>4, SpeaksTo
<1>8. WaitsFor(v, u, One(r \in LateRequests))
  <2>1. CASE h = "SW_KEY_UPDATE"
    <3>1. Waiting(u) <=> Waiting(v)
      BY <1>3, <1>4, <2>1 DEF Waiting
    <3>2. ~ Served(u) /\ ~ Served(v) /\ r \notin LateRequests
      BY <1>3, <1>4, <2>1 DEF Served, LateRequests
    <3> QED BY <3>1, <3>2, NothingAsked
  <2>2. CASE h = "SW_CERT_REQ"
    <3>1. Waiting(u) /\ ~ Waiting(v) /\ ~ Served(u) /\ ~ Served(v)
      BY <1>2, <1>3, <1>4, <2>2 DEF Waiting, Served
    <3>2. r \in LateRequests
      BY <1>1, <1>2, <1>4, <2>2 DEF LateRequests
    <3> QED BY <3>1, <3>2 DEF One, WaitsFor
  <2>3. CASE h = "SW_SESSION_TICKET"
    <3>1. v.pha = "REQUESTED" => v.hand_state = "SR_FINISHED"
      BY <1>1, <1>3, <2>3 DEF ServerAt, ServerAsks, ServerAnswer
    <3>2. ~ Waiting(u) /\ ~ Served(u) /\ (Waiting(v) <=> Served(v)) /\ r \notin LateRequests
      BY <1>3, <1>4, <2>3, <3>1 DEF Waiting, Served, LateRequests
    <3> QED BY <3>2 DEF One, WaitsFor
  <2> QED BY <2>1, <2>2, <2>3
<1> QED BY <1>3, <1>4, <1>5, <1>6, <1>7, <1>8 DEF ServerSpoke

\* The server goes on to u in silence.
ServerQuiet(v, u) ==
  /\ ServerAt(conf, u) /\ ServerPlace(conf, u) = ServerPlace(conf, v)
  /\ ServerSaid(u) = ServerSaid(v)
  /\ WaitsFor(v, u, 0)

\* Nothing more is waited for.
LEMMA NothingChanged ==
  ASSUME NEW v, NEW u, Waiting(u) <=> Waiting(v), Served(u) <=> Served(v)
  PROVE  WaitsFor(v, u, 0)
<1>1. One(Waiting(u)) = One(Waiting(v)) /\ One(Served(u)) = One(Served(v))
      /\ One(Waiting(v)) \in Nat /\ One(Served(v)) \in Nat
  BY DEF One
<1> QED BY <1>1 DEF WaitsFor

\* What tls_finish_handshake makes of the server.
Rests(v, h, u) ==
  /\ u \in Conn /\ u.hand_state = h /\ u.flow = "idle" /\ ~ u.in_init /\ u.tls13 = v.tls13
  /\ u.rkey = v.rkey /\ u.wkey = v.wkey /\ u.hello_retry_request = v.hello_retry_request
  /\ u.hit = v.hit /\ u.cert = v.cert /\ u.fin = v.fin /\ u.early_data = v.early_data
  /\ u.pha = PhaAfterTransition(v) /\ u.cert_request = v.cert_request
  /\ u.early_data_state = EarlyDataGoesOn(v)

\* It does that.
LEMMA ServerRests ==
  ASSUME NEW v, ServerOK(conf, v), NEW h, ServerMove(conf, v, h)
  PROVE  Rests(v, h, Finished(Server, [v EXCEPT !.hand_state = h, !.pha = PhaAfterTransition(v)]))
<1> DEFINE t == [v EXCEPT !.hand_state = h, !.pha = PhaAfterTransition(v)]
           u == Finished(Server, t)
<1>1. MovesOn(v, h, t)
  BY ServerMovedOn
<1> HIDE DEF t
<1>2. EarlyDataGoesOn(t) = EarlyDataGoesOn(v) /\ RequestClosed(Server, t) = PhaAfterTransition(v)
  BY <1>1, TwoSides DEF EarlyDataGoesOn, RequestClosed, MovesOn, SameEarly, SameHello
<1>3. u \in Conn
  BY <1>1, TwoSides, FinishedFields DEF MovesOn
<1>4. /\ u.hand_state = t.hand_state /\ u.flow = "idle" /\ u.in_init = FALSE /\ u.tls13 = t.tls13
      /\ u.rkey = t.rkey /\ u.wkey = t.wkey /\ u.hello_retry_request = t.hello_retry_request
      /\ u.hit = t.hit /\ u.cert = t.cert /\ u.fin = t.fin /\ u.early_data = t.early_data
      /\ u.cert_request = t.cert_request
      /\ u.pha = RequestClosed(Server, t) /\ u.early_data_state = EarlyDataGoesOn(t)
  <2>1. t \in Conn
    BY <1>1 DEF MovesOn
  <2> QED BY <2>1 DEF Finished, Conn
<1> HIDE DEF u
<1>5. Rests(v, h, u)
  BY <1>1, <1>2, <1>3, <1>4 DEF Rests, MovesOn, SameSecrets, SameHello, SameEarly
<1> QED BY <1>5 DEF u, t

\* The server stops to read early data, or goes on to read what comes.
LEMMA ServerGoesQuiet ==
  ASSUME NEW v, ServerOK(conf, v), ServerAt(conf, v), conf \in AllConfigurations,
         v.flow = "writing",
         ServerGoes(conf, v, "EARLY_DATA"), ServerMove(conf, v, "EARLY_DATA"),
         NEW t, t = [v EXCEPT !.hand_state = "EARLY_DATA", !.pha = PhaAfterTransition(v)],
         NEW u, u = IF v.early_data_state = "ACCEPTING" THEN Finished(Server, t) ELSE t
  PROVE  ServerQuiet(v, u) /\ u.hand_state = "EARLY_DATA"
           /\ (u.early_data_state = "READ_RETRY" => u.flow = "idle")
<1> DEFINE retry == v.hello_retry_request = "PENDING"
<1>1. \/ v.hand_state \in {"SW_SRVR_HELLO", "SW_CHANGE"} /\ retry
      \/ v.hand_state = "SW_FINISHED"
  BY DEF ServerGoes, ToRead
<1>2. /\ "peer" \notin v.fin /\ v.pha \in {"NONE", "EXT_RECEIVED"}
      /\ retry <=> v.hand_state # "SW_FINISHED"
      /\ "own" \in v.fin <=> v.hand_state = "SW_FINISHED"
      /\ v.early_data = Fate(conf)
  BY <1>1 DEF ServerAt, ServerFar, ServerAsks, ServerLate, ServerAnswer, ServerData, ServerOK,
     ServerKeys
<1>3. PhaAfterTransition(v) = v.pha
  BY <1>2 DEF PhaAfterTransition
<1>4. EarlyDataGoesOn(v) = IF v.early_data_state = "ACCEPTING"
                           THEN IF Accepts(conf) THEN "READ_RETRY" ELSE "FINISHED_READING"
                           ELSE v.early_data_state
  <2>1. v.early_data_state # "CONNECTING"
    BY DEF ServerAt, ServerData
  <2> QED BY <1>2, <2>1 DEF EarlyDataGoesOn, Fate
<1>5. /\ u.hand_state = "EARLY_DATA" /\ u.tls13 = v.tls13
      /\ u.rkey = v.rkey /\ u.wkey = v.wkey /\ u.hello_retry_request = v.hello_retry_request
      /\ u.hit = v.hit /\ u.cert = v.cert /\ u.fin = v.fin /\ u.early_data = v.early_data
      /\ u.pha = v.pha /\ u.cert_request = v.cert_request
      /\ u.early_data_state = EarlyDataGoesOn(v)
      /\ \/ u.flow = "idle" /\ ~ u.in_init /\ v.early_data_state = "ACCEPTING"
         \/ u.flow = "writing" /\ u.in_init = v.in_init /\ v.early_data_state # "ACCEPTING"
  <2>1. CASE v.early_data_state = "ACCEPTING"
    <3>1. Rests(v, "EARLY_DATA", Finished(Server, t))
      BY ServerRests
    <3> QED BY <1>3, <2>1, <3>1 DEF Rests
  <2>2. CASE v.early_data_state # "ACCEPTING"
    <3>1. MovesOn(v, "EARLY_DATA", t)
      BY ServerMovedOn
    <3> QED BY <1>3, <1>4, <2>2, <3>1 DEF MovesOn, SameCall, SameSecrets, SameHello, SameEarly
  <2> QED BY <2>1, <2>2
<1>6. v.early_data_state # "READ_RETRY"
  BY <1>1 DEF ServerAt, ServerData
<1>7. ServerAt(conf, u)
  <2>1. ServerCall(u)
    BY <1>5 DEF ServerCall, ServerAnswer, ServerAt
  <2>2. ServerKnows(conf, u)
    BY <1>1, <1>2, <1>5 DEF ServerKnows, ServerAt
  <2>3. ServerFar(u)
    BY <1>2, <1>5 DEF ServerFar, ServerAnswer, ServerLate
  <2>4. ServerData(conf, u)
    <3>1. Accepts(conf) => v.early_data_state = "ACCEPTING"
      BY <1>1, <1>2 DEF ServerAt, ServerData, ServerAnswer, Accepts
    <3>2. /\ v.early_data_state \in {"NONE", "ACCEPTING", "FINISHED_READING"}
          /\ v.early_data_state # "NONE" <=> conf.read_early
      BY <1>1, <1>6, Configured DEF ServerAt, ServerData
    <3> QED BY <1>2, <1>4, <1>5, <1>6, <3>1, <3>2 DEF ServerData, ServerAnswer
  <2>5. ServerAsks(conf, u)
    BY <1>1, <1>2, <1>5 DEF ServerAsks, ServerAt, ServerAnswer, ServerHellos
  <2>6. ServerKey(conf, u)
    BY <1>1, <1>2, <1>5 DEF ServerKey, ServerAt, ServerAnswer
  <2> QED BY <2>1, <2>2, <2>3, <2>4, <2>5, <2>6 DEF ServerAt
<1>8. ServerPlace(conf, u) = ServerPlace(conf, v)
  BY <1>1, <1>2, <1>5 DEF ServerPlace
<1>9. ServerSaid(u) = ServerSaid(v)
  BY <1>1, <1>2, <1>5 DEF ServerSaid
<1>10. WaitsFor(v, u, 0)
  <2>1. ~ Waiting(u) /\ ~ Waiting(v) /\ ~ Served(u) /\ ~ Served(v)
    BY <1>1, <1>2, <1>5 DEF Waiting, Served
  <2> QED BY <2>1, NothingChanged
<1>11. u.early_data_state = "READ_RETRY" => u.flow = "idle"
  BY <1>4, <1>5, <1>6
<1> QED BY <1>5, <1>7, <1>8, <1>9, <1>10, <1>11 DEF ServerQuiet

\* The handshake, or what came after it, is over.
LEMMA ServerDone ==
  ASSUME NEW v, ServerOK(conf, v), ServerAt(conf, v), conf \in AllConfigurations,
         v.flow = "writing",
         ServerGoes(conf, v, "OK"), ServerMove(conf, v, "OK"),
         NEW t, t = [v EXCEPT !.hand_state = "OK", !.pha = PhaAfterTransition(v)],
         NEW u, u = Finished(Server, t)
  PROVE  ServerQuiet(v, u) /\ u.flow = "idle" /\ ~ u.in_init
<1>1. \/ v.hand_state = "SW_CERT_REQ" /\ v.pha = "REQUEST_PENDING"
      \/ v.hand_state \in {"SR_FINISHED", "SW_SESSION_TICKET", "SR_KEY_UPDATE", "SW_KEY_UPDATE"}
  BY DEF ServerGoes, ToRead
<1>2. /\ "peer" \in v.fin /\ "own" \in v.fin
      /\ v.early_data_state \in {"NONE", "FINISHED_READING"}
      /\ v.hello_retry_request # "PENDING"
  BY <1>1 DEF ServerAt, ServerFar, ServerAsks, ServerLate, ServerAnswer, ServerData, ServerOK,
     ServerKeys
<1>3. EarlyDataGoesOn(v) = v.early_data_state
  BY <1>2 DEF EarlyDataGoesOn
<1> DEFINE p == PhaAfterTransition(v)
<1>4. p = IF v.hand_state = "SW_CERT_REQ" THEN "REQUESTED"
          ELSE IF v.hand_state = "SR_FINISHED" /\ v.pha = "REQUESTED" THEN "EXT_RECEIVED" ELSE v.pha
  BY <1>1 DEF PhaAfterTransition
<1> HIDE DEF p
<1>5. /\ u.hand_state = "OK" /\ u.flow = "idle" /\ ~ u.in_init /\ u.tls13 = v.tls13
      /\ u.rkey = v.rkey /\ u.wkey = v.wkey /\ u.hello_retry_request = v.hello_retry_request
      /\ u.hit = v.hit /\ u.cert = v.cert /\ u.fin = v.fin /\ u.early_data = v.early_data
      /\ u.pha = p /\ u.cert_request = v.cert_request
      /\ u.early_data_state = v.early_data_state
  <2>1. Rests(v, "OK", u)
    BY ServerRests
  <2> QED BY <1>3, <2>1 DEF Rests, p
<1>6. ServerAt(conf, u)
  <2>1. ServerCall(u)
    BY <1>5 DEF ServerCall, ServerAnswer
  <2>2. ServerKnows(conf, u)
    BY <1>1, <1>2, <1>5 DEF ServerKnows, ServerAt
  <2>3. ServerFar(u)
    BY <1>2, <1>5 DEF ServerFar, ServerAnswer, ServerLate
  <2>4. ServerData(conf, u)
    BY <1>1, <1>2, <1>5 DEF ServerData, ServerAt
  <2>5. ServerAsks(conf, u)
    BY <1>1, <1>2, <1>4, <1>5 DEF ServerAsks, ServerAt, ServerAnswer
  <2>6. ServerKey(conf, u)
    BY <1>1, <1>2, <1>5 DEF ServerKey, ServerAt, ServerAnswer
  <2> QED BY <2>1, <2>2, <2>3, <2>4, <2>5, <2>6 DEF ServerAt
<1>7. ServerPlace(conf, u) = ServerPlace(conf, v)
  BY <1>1, <1>2, <1>5 DEF ServerPlace
<1>8. ServerSaid(u) = ServerSaid(v)
  BY <1>2, <1>5 DEF ServerSaid
<1>9. WaitsFor(v, u, 0)
  <2>1. CASE v.hand_state = "SR_FINISHED" /\ v.pha = "REQUESTED"
    <3>1. ~ Waiting(u) /\ Waiting(v) /\ ~ Served(u) /\ Served(v)
      BY <1>4, <1>5, <2>1 DEF Waiting, Served
    <3> QED BY <3>1 DEF One, WaitsFor
  <2>2. CASE ~ (v.hand_state = "SR_FINISHED" /\ v.pha = "REQUESTED")
    <3>1. (Waiting(u) <=> Waiting(v)) /\ ~ Served(u) /\ ~ Served(v)
      BY <1>1, <1>2, <1>4, <1>5, <2>2 DEF Waiting, Served
    <3> QED BY <3>1, NothingChanged
  <2> QED BY <2>1, <2>2
<1> QED BY <1>5, <1>6, <1>7, <1>8, <1>9 DEF ServerQuiet

\* A server whose state is neither OK nor EARLY_DATA, or that rests there, has nothing to find.
LEMMA ServerFinds ==
  ASSUME NEW u, ServerAt(conf, u), NEW q,
         \/ u.hand_state \notin {"OK", "EARLY_DATA"}
         \/ u.hand_state = "EARLY_DATA" /\ (u.early_data_state = "READ_RETRY" => u.flow = "idle")
         \/ u.flow = "idle" /\ ~ u.in_init
  PROVE  Finds(u, q)
<1>1. u.early_data_state = "READ_RETRY" => u.hand_state = "EARLY_DATA"
  BY DEF ServerAt, ServerData
<1> QED BY <1>1 DEF Finds

\* WriteMessage of the server: every message takes the client one place further, and every
\* state without a message leaves it where it is.
LEMMA ServerWriting ==
  ASSUME ProtectedInv, Joint, Tls13Assumption, WriteMessage(Server)
  PROVE  Joint'
<1> DEFINE v == tls[Server]
           h == WriteTransition(Server)
           t == [v EXCEPT !.hand_state = h, !.pha = PhaAfterTransition(v)]
<1>1. /\ ServerOK(conf, v) /\ v \in Conn /\ v.flow = "writing" /\ h \notin {ToRead, Wrong}
      /\ UNCHANGED <<conf, calls, got>> /\ conf \in AllConfigurations /\ ServerAt(conf, v)
  BY DEF WriteMessage, ProtectedInv, ServerOK, Tls13Assumption, Joint
<1>2. ServerMove(conf, v, h)
  BY <1>1, ServerMoves
<1>3. ServerGoes(conf, v, h)
  <2>1. h = ServerWriteTransition(v)
    BY TwoSides DEF WriteTransition
  <2> QED BY <1>1, <2>1, ServerGoing
<1>4. \/ Stops(Server, h) /\ tls' = [tls EXCEPT ![Server] = Finished(Server, t)] /\ wire' = wire
      \/ ~ Stops(Server, h) /\ h \in Dummies /\ tls' = [tls EXCEPT ![Server] = t] /\ wire' = wire
      \/ /\ ~ Stops(Server, h) /\ h \notin Dummies
         /\ Send(Server, MessageOf(t)[1], KeyOfMessage(Server, t), MessageOf(t)[2])
         /\ tls' = [tls EXCEPT ![Server] = ServerSent(t)]
  BY TwoSides DEF WriteMessage
<1>5. h # "PENDING_EARLY_DATA_END"
  BY <1>2 DEF ServerMove
<1>6. Stops(Server, h) <=> h = "OK" \/ (h = "EARLY_DATA" /\ v.early_data_state = "ACCEPTING")
  BY <1>5, TwoSides DEF Stops
<1> HIDE DEF h, t
<1>7. CASE Stops(Server, h) \/ h \in Dummies
  <2> DEFINE u == IF Stops(Server, h) THEN Finished(Server, t) ELSE t
  <2>1. tls' = [tls EXCEPT ![Server] = u] /\ wire' = wire
    BY <1>4, <1>7
  <2>2. h \in {"OK", "EARLY_DATA"}
    BY <1>5, <1>6, <1>7 DEF Dummies
  <2>3. ServerQuiet(v, u) /\ Finds(u, wire[Client])
    <3>1. CASE h = "OK"
      <4>1. ServerQuiet(v, u) /\ u.flow = "idle" /\ ~ u.in_init
        BY <1>1, <1>2, <1>3, <1>6, <3>1, ServerDone DEF t
      <4> QED BY <4>1, ServerFinds DEF ServerQuiet
    <3>2. CASE h = "EARLY_DATA"
      <4>1. u = IF v.early_data_state = "ACCEPTING" THEN Finished(Server, t) ELSE t
        BY <1>6, <3>2
      <4>a. t = [v EXCEPT !.hand_state = "EARLY_DATA", !.pha = PhaAfterTransition(v)]
        BY <3>2 DEF t
      <4> HIDE DEF u, v
      <4>2. /\ ServerQuiet(v, u) /\ u.hand_state = "EARLY_DATA"
            /\ (u.early_data_state = "READ_RETRY" => u.flow = "idle")
        BY <1>1, <1>2, <1>3, <3>2, <4>1, <4>a, ServerGoesQuiet
      <4> QED BY <4>2, ServerFinds DEF ServerQuiet
    <3> QED BY <2>2, <3>1, <3>2
  <2>4. DataOf(conf)'
    BY <1>1, <2>1, DataStays
  <2> HIDE DEF u
  <2> QED BY <1>1, <2>1, <2>3, <2>4, ServerStays DEF ServerQuiet
<1>8. CASE ~ Stops(Server, h) /\ h \notin Dummies
  <2> DEFINE r == [type |-> MessageOf(t)[1], key |-> KeyOfMessage(Server, t), arg |-> MessageOf(t)[2]]
             u == ServerSent(t)
  <2>1. h \in ServerWrites
    BY <1>2, <1>6, <1>8 DEF Dummies, ServerMove, ServerWrites
  <2>2. ServerSendsAs(v, h, r, u)
    BY <1>1, <1>2, <1>3, <2>1, ServerSending DEF t
  <2>3. wire' = [wire EXCEPT ![Server] = Append(@, r)] /\ tls' = [tls EXCEPT ![Server] = u]
    BY <1>4, <1>8 DEF Send
  <2> HIDE DEF r, u
  <2>4. ServerSpoke(v, r, u)
    <3>1. h = "SW_CERT_REQ" => "own" \notin v.fin \/ "peer" \in v.fin
      BY <1>1, <1>3 DEF ServerGoes, ToRead, ServerAt, ServerFar, ServerLate, ServerOK, ServerKeys
    <3>2. h \in {"SW_SESSION_TICKET", "SW_KEY_UPDATE"} => "peer" \in v.fin
      BY <1>1, <1>3 DEF ServerGoes, ToRead, ServerAt, ServerFar, ServerLate
    <3> HIDE DEF v
    <3> QED BY <2>1, <2>2, <3>1, <3>2, ServerHelloSent, ServerChangeSent, ExtensionsSent,
               RequestSent,
               ServerCertSent, ServerVerifySent, ServerFinishedSent, LateSent
               DEF ServerWrites
  <2>5. r \in Rec
    BY <2>2 DEF ServerSendsAs
  <2>6. Finds(u, wire[Client])
    BY <2>4, ServerFinds DEF ServerSpoke
  <2>7. DataOf(conf)'
    BY <1>1, <2>3, <2>4, <2>5, DataNotSent, TwoSides DEF ServerSpoke
  <2> QED BY <1>1, <2>3, <2>4, <2>5, <2>6, <2>7, ServerSaying DEF ServerSpoke
<1> QED BY <1>7, <1>8

\* The server has nothing to write.
LEMMA ServerTurnsToRead ==
  ASSUME ProtectedInv, Joint, Tls13Assumption, StartReading(Server)
  PROVE  Joint'
<1> DEFINE v == tls[Server]
           h == WriteTransition(Server)
           u == [v EXCEPT !.flow = "reading"]
<1>1. /\ ServerOK(conf, v) /\ v \in Conn /\ v.flow = "writing" /\ h \in {ToRead, Wrong}
      /\ UNCHANGED <<conf, calls, got, wire>> /\ conf \in AllConfigurations /\ ServerAt(conf, v)
  BY DEF StartReading, ProtectedInv, ServerOK, Tls13Assumption, Joint
<1>2. ServerGoes(conf, v, h) /\ h # Wrong
  <2>1. h = ServerWriteTransition(v)
    BY TwoSides DEF WriteTransition
  <2> QED BY <1>1, <2>1, ServerGoing
<1>3. tls' = [tls EXCEPT ![Server] = u]
  BY <1>2 DEF StartReading
<1>4. \/ v.hand_state = "OK" /\ v.key_update = "NONE" /\ v.pha # "REQUEST_PENDING"
      \/ v.hand_state \in {"BEFORE", "EARLY_DATA"}
  BY <1>1, <1>2 DEF ServerGoes, ToRead, Wrong
<1>5. /\ u.hand_state = v.hand_state /\ u.flow = "reading" /\ u.in_init = v.in_init
      /\ u.tls13 = v.tls13
      /\ u.rkey = v.rkey /\ u.wkey = v.wkey /\ u.hello_retry_request = v.hello_retry_request
      /\ u.hit = v.hit /\ u.cert = v.cert /\ u.fin = v.fin /\ u.early_data = v.early_data
      /\ u.cert_request = v.cert_request
      /\ u.pha = v.pha /\ u.early_data_state = v.early_data_state /\ u.key_update = v.key_update
  BY <1>1 DEF Conn
<1>6. Finds(v, wire[Client])
  BY DEF Joint
<1> HIDE DEF u, h, v
<1>7. ServerAt(conf, u)
  <2>1. ServerCall(u)
    BY <1>1, <1>4, <1>5 DEF ServerCall, ServerAnswer, ServerAt
  <2>2. ServerKnows(conf, u)
    BY <1>1, <1>5 DEF ServerKnows, ServerAt
  <2>3. ServerFar(u)
    BY <1>1, <1>5 DEF ServerFar, ServerAt
  <2>4. ServerData(conf, u)
    BY <1>1, <1>5 DEF ServerData, ServerAt
  <2>5. ServerAsks(conf, u)
    BY <1>1, <1>5 DEF ServerAsks, ServerAt
  <2>6. ServerKey(conf, u)
    BY <1>1, <1>5 DEF ServerKey, ServerAt
  <2> QED BY <2>1, <2>2, <2>3, <2>4, <2>5, <2>6 DEF ServerAt
<1>8. ServerPlace(conf, u) = ServerPlace(conf, v)
  BY <1>5 DEF ServerPlace
<1>9. ServerSaid(u) = ServerSaid(v)
  BY <1>5 DEF ServerSaid
<1>10. WaitsFor(v, u, 0)
  <2>1. (Waiting(u) <=> Waiting(v)) /\ (Served(u) <=> Served(v))
    BY <1>5 DEF Waiting, Served
  <2> QED BY <2>1, NothingChanged
<1>11. Finds(u, wire[Client])
  BY <1>1, <1>4, <1>5, <1>6 DEF Finds
<1>12. DataOf(conf)'
  BY <1>1, DataStays
<1> QED BY <1>1, <1>3, <1>7, <1>8, <1>9, <1>10, <1>11, <1>12, ServerStays DEF v

(***************************************************************************)
(* The client reads                                                        *)
(***************************************************************************)
\* The next record is one the client may be told where it is.
Told(c, r) == \E d : ServerSays(conf, ClientPlace(c), r, d)

\* Where the client is while it reads.
LEMMA ClientReader ==
  ASSUME NEW c, ClientOK(conf, c), ClientAt(conf, c), c.flow = "reading"
  PROVE  \/ /\ c.hand_state \in {"CW_CLNT_HELLO", "EARLY_DATA"} /\ ~ c.tls13 /\ c.fin = {}
            /\ c.rkey = Plain
            /\ ClientPlace(c) = IF c.hello_retry_request = "NONE" THEN Place("HELLO", Plain, "none")
                                ELSE Place("AGAIN", Plain, "none")
         \/ /\ c.hand_state \in ServerFlight /\ c.tls13 /\ "peer" \notin c.fin
            /\ "own" \notin c.fin
            /\ c.rkey = HandshakeKey
            /\ ClientPlace(c) = Place(c.hand_state, HandshakeKey, "none")
         \/ /\ c.hand_state = "OK" /\ c.tls13 /\ "peer" \in c.fin /\ "own" \in c.fin
            /\ c.rkey >= ApplicationKey /\ ClientPlace(c) = Place("APP", c.rkey, "none")
<1>1. CASE c.hand_state \in {"CW_CLNT_HELLO", "EARLY_DATA"}
  BY <1>1 DEF ClientAt, ClientFar, ClientPlace
<1>2. CASE c.hand_state \in ServerFlight /\ c.tls13 /\ "peer" \notin c.fin
  BY <1>2 DEF ClientAt, ClientFar, ClientPlace
<1>3. CASE c.hand_state = "OK"
  <2>1. "own" \in c.fin
    BY <1>3 DEF ClientOK, ClientLate
  <2>2. c.tls13
    BY <1>3 DEF ClientAt, ClientFar
  <2>3. "peer" \in c.fin
    BY <2>1, <2>2 DEF ClientOK, ClientLate
  <2> QED BY <1>3, <2>1, <2>2, <2>3 DEF ClientAt, ClientFar, ClientPlace
<1> QED BY <1>1, <1>2, <1>3 DEF ClientAt, ClientCall

\* What it hears, and the state h it moves to.
ClientHears(c, r, h) ==
  LET g == c.hand_state
      retried == c.hello_retry_request # "NONE"
  IN \/ /\ r.type = "SERVER_HELLO" /\ h = "CR_SRVR_HELLO" /\ g \in {"CW_CLNT_HELLO", "EARLY_DATA"}
             /\ ~ c.tls13
        /\ \/ r.arg = "retry" /\ conf.retry /\ ~ retried
           \/ (r.arg = IF conf.psk THEN "hit" ELSE "full") /\ (conf.retry <=> retried)
     \/ /\ c.tls13 /\ "peer" \notin c.fin
        /\ \/ /\ r.type = "ENCRYPTED_EXTENSIONS" /\ h = "CR_ENCRYPTED_EXTENSIONS"
              /\ g = "CR_SRVR_HELLO"
              /\ r.arg = IF Accepts(conf) THEN "early" ELSE "none"
           \/ r.type = "CERTIFICATE_REQUEST" /\ h = "CR_CERT_REQ" /\ g = "CR_ENCRYPTED_EXTENSIONS"
                /\ Asks(conf)
              /\ r.key = HandshakeKey
           \/ /\ r.type = "CERTIFICATE" /\ h = "CR_CERT" /\ ~ conf.psk
              /\ g = IF Asks(conf) THEN "CR_CERT_REQ" ELSE "CR_ENCRYPTED_EXTENSIONS"
           \/ r.type = "CERTIFICATE_VERIFY" /\ h = "CR_CERT_VRFY" /\ g = "CR_CERT"
           \/ /\ r.type = "FINISHED" /\ h = "CR_FINISHED"
              /\ g = IF conf.psk THEN "CR_ENCRYPTED_EXTENSIONS" ELSE "CR_CERT_VRFY"
     \/ /\ g = "OK" /\ c.tls13 /\ "peer" \in c.fin
        /\ \/ r.type = "CERTIFICATE_REQUEST" /\ h = "CR_CERT_REQ" /\ c.pha = "EXT_SENT"
           \/ r.type = "NEWSESSION_TICKET" /\ h = "CR_SESSION_TICKET"
           \/ r.type = "KEY_UPDATE" /\ h = "CR_KEY_UPDATE"

\* A client that reads has a transition for every message it may be told, and the key for it.
LEMMA ClientHearing ==
  ASSUME NEW c, ClientOK(conf, c), ClientAt(conf, c), c.flow = "reading",
         conf \in AllConfigurations,
         NEW r \in Rec, Told(c, r), r.type # "CCS", c.hand_state = "OK" => r.type # "DATA"
  PROVE  /\ ClientHears(c, r, ClientReadTransition(c, r.type))
         /\ ClientReadTransition(c, r.type) # Wrong
         /\ r.key = c.rkey
<1>1. PICK d : ServerSays(conf, ClientPlace(c), r, d)
  BY DEF Told
<1>2. c.hello_retry_request \in {"NONE", "PENDING"} /\ c.tls13 \in BOOLEAN /\ c.hit \in BOOLEAN
      /\ conf.retry \in BOOLEAN /\ conf.psk \in BOOLEAN /\ (c.tls13 => c.hit = conf.psk)
  BY Configured DEF ClientAt, ClientKnows, ClientOK, Conn
<1>3. CASE c.hand_state \in {"CW_CLNT_HELLO", "EARLY_DATA"}
  <2> DEFINE a == IF c.hello_retry_request = "NONE" THEN "HELLO" ELSE "AGAIN"
  <2>1. ~ c.tls13 /\ c.rkey = Plain /\ ClientPlace(c) = Place(a, Plain, "none")
    BY <1>3, ClientReader DEF ServerFlight
  <2>2. ServerSays(conf, Place(a, Plain, "none"), r, d) /\ a \in {"HELLO", "AGAIN"}
    BY <1>1, <2>1
  <2> HIDE DEF a
  <2>3. /\ r.type = "SERVER_HELLO" /\ r.key = Plain
        /\ \/ r.arg = "retry" /\ conf.retry /\ a = "HELLO"
           \/ (r.arg = IF conf.psk THEN "hit" ELSE "full") /\ a = IF conf.retry THEN "AGAIN"
                ELSE "HELLO"
    BY <2>2, PlaceFields DEF ServerSays, Rec
  <2>4. ClientReadTransition(c, r.type) = "CR_SRVR_HELLO"
    BY <1>3, <2>3 DEF ClientReadTransition
  <2> QED BY <1>2, <1>3, <2>1, <2>3, <2>4 DEF ClientHears, Wrong, a
<1>4. CASE c.hand_state \in ServerFlight
  <2>1. /\ c.tls13 /\ "peer" \notin c.fin /\ c.rkey = HandshakeKey
        /\ ClientPlace(c) = Place(c.hand_state, HandshakeKey, "none")
    BY <1>4, ClientReader DEF ServerFlight
  <2>2. ServerSays(conf, Place(c.hand_state, HandshakeKey, "none"), r, d)
    BY <1>1, <2>1
  <2>3. /\ r.key = HandshakeKey
        /\ r.type \in {"ENCRYPTED_EXTENSIONS", "CERTIFICATE_REQUEST", "CERTIFICATE",
               "CERTIFICATE_VERIFY",
                       "FINISHED"}
        /\ r.type = "ENCRYPTED_EXTENSIONS" =>
             (r.arg = IF Accepts(conf) THEN "early" ELSE "none") /\ c.hand_state = "CR_SRVR_HELLO"
        /\ r.type = "CERTIFICATE_REQUEST" => Asks(conf) /\ c.hand_state = "CR_ENCRYPTED_EXTENSIONS"
        /\ r.type = "CERTIFICATE" =>
             ~ conf.psk /\ c.hand_state = IF Asks(conf) THEN "CR_CERT_REQ"
               ELSE "CR_ENCRYPTED_EXTENSIONS"
        /\ r.type = "CERTIFICATE_VERIFY" => c.hand_state = "CR_CERT"
        /\ r.type = "FINISHED" =>
             c.hand_state = IF conf.psk THEN "CR_ENCRYPTED_EXTENSIONS" ELSE "CR_CERT_VRFY"
    BY <1>4, <2>2, PlaceFields DEF ServerSays, Rec, ServerFlight
  <2>4. ClientReadTransition(c, r.type) =
          CASE r.type = "ENCRYPTED_EXTENSIONS" -> "CR_ENCRYPTED_EXTENSIONS"
            [] r.type = "CERTIFICATE_REQUEST" -> "CR_CERT_REQ"
            [] r.type = "CERTIFICATE" -> "CR_CERT"
            [] r.type = "CERTIFICATE_VERIFY" -> "CR_CERT_VRFY"
            [] r.type = "FINISHED" -> "CR_FINISHED"
    BY <1>2, <2>1, <2>3 DEF ClientReadTransition, Asks
  <2> QED BY <2>1, <2>3, <2>4 DEF ClientHears, Wrong
<1>5. CASE c.hand_state = "OK"
  <2>1. c.tls13 /\ "peer" \in c.fin /\ ClientPlace(c) = Place("APP", c.rkey, "none")
    BY <1>5, ClientReader DEF ServerFlight
  <2>2. ServerSays(conf, Place("APP", c.rkey, "none"), r, d)
    BY <1>1, <2>1
  <2>3. /\ r.key = c.rkey
        /\ r.type \in {"CERTIFICATE_REQUEST", "NEWSESSION_TICKET", "KEY_UPDATE"}
        /\ r.type = "CERTIFICATE_REQUEST" => conf.pha
    BY <1>5, <2>2, PlaceFields DEF ServerSays, Rec
  <2>4. conf.pha => c.pha = "EXT_SENT"
    BY <1>5 DEF ClientAt, ClientKnows, ClientFar
  <2>5. ClientReadTransition(c, r.type) =
          CASE r.type = "CERTIFICATE_REQUEST" -> "CR_CERT_REQ"
            [] r.type = "NEWSESSION_TICKET" -> "CR_SESSION_TICKET"
            [] r.type = "KEY_UPDATE" -> "CR_KEY_UPDATE"
    BY <1>5, <2>3, <2>4 DEF ClientReadTransition
  <2> QED BY <1>5, <2>1, <2>3, <2>4, <2>5 DEF ClientHears, Wrong
<1> QED BY <1>3, <1>4, <1>5, ClientReader

\* A ChangeCipherSpec is passed over.
LEMMA ClientDropsCCS ==
  ASSUME NEW c, ClientOK(conf, c), NEW r \in Rec, Told(c, r), r.type = "CCS"
  PROVE  /\ r.key = Plain /\ (c.tls13 \/ c.hello_retry_request # "NONE") /\ "peer" \notin c.fin
         /\ ClientTakes(conf, c, r, c)
<1>1. PICK d : ServerSays(conf, ClientPlace(c), r, d)
  BY DEF Told
<1>2. ClientPlace(c).at \in {"AGAIN", "CR_SRVR_HELLO"} /\ r.key = Plain
  BY <1>1 DEF ServerSays
<1>3. "peer" \notin c.fin
  BY <1>2, PlaceFields DEF ClientPlace
<1>4. c.tls13 \/ c.hello_retry_request # "NONE"
  BY <1>2, <1>3, PlaceFields DEF ClientPlace
<1>5. ClientTakes(conf, c, r, c)
  BY DEF ClientTakes, ServerSays
<1> QED BY <1>2, <1>3, <1>4, <1>5

\* The client, having read r and gone to h, has become u.
ClientHeard(c, r, h, u) ==
  LET again == r.type = "SERVER_HELLO" /\ r.arg = "retry"
      hello == r.type = "SERVER_HELLO" /\ r.arg # "retry"
      asked == r.type = "CERTIFICATE_REQUEST" /\ c.hand_state = "OK"
  IN /\ ClientOK(conf, c) /\ ClientAt(conf, c) /\ c.flow = "reading" /\ ClientHears(c, r, h)
     /\ c \in Conn /\ u \in Conn /\ conf \in AllConfigurations /\ r \in Rec /\ r.key = c.rkey
     /\ u.hand_state = h /\ u.in_init = c.in_init /\ u.early_data_state = c.early_data_state
     /\ u.flow = (IF again \/ asked \/ r.type \in {"FINISHED", "NEWSESSION_TICKET", "KEY_UPDATE"}
                  THEN "writing" ELSE "reading")
     /\ u.tls13 = (IF hello THEN TRUE ELSE c.tls13)
     /\ u.hit = (IF hello THEN r.arg = "hit" ELSE c.hit)
     /\ u.hello_retry_request = (IF again THEN "PENDING" ELSE c.hello_retry_request)
     /\ u.wkey = (IF again THEN Plain ELSE c.wkey)
     /\ u.rkey = (IF hello THEN HandshakeKey ELSE IF r.type = "FINISHED" THEN ApplicationKey
                  ELSE IF r.type = "KEY_UPDATE" THEN c.rkey + 1 ELSE c.rkey)
     /\ u.early_data = (IF r.type = "ENCRYPTED_EXTENSIONS" /\ r.arg = "early"
                        THEN "ACCEPTED" ELSE c.early_data)
     /\ u.fin = (IF r.type = "FINISHED" THEN c.fin \cup {"peer"} ELSE c.fin)
     /\ u.pha = (IF asked THEN "REQUESTED" ELSE c.pha)
     /\ IF asked \/ (r.type = "CERTIFICATE_VERIFY" /\ c.cert = "cert") THEN u.cert \in {"cert", "empty"}
        ELSE IF r.type = "CERTIFICATE_REQUEST" THEN u.cert = "cert" ELSE u.cert = c.cert

\* That is what reading makes of the client.
LEMMA ClientHasHeard ==
  ASSUME NEW c, ClientOK(conf, c), ClientAt(conf, c), c.flow = "reading",
         conf \in AllConfigurations,
         NEW r, RecordOK(conf, Server, r), r.key = c.rkey,
         NEW h, h = ClientReadTransition(c, r.type), h # Wrong, ClientHears(c, r, h),
         NEW t, t = [c EXCEPT !.hand_state = h,
                              !.pha = IF r.type = "CERTIFICATE_REQUEST" /\ c.hand_state = "OK"
                                      THEN "REQUESTED" ELSE @],
         NEW u \in ClientProcess(t, r)
  PROVE  ClientHeard(c, r, h, u)
<1>1. c \in Conn /\ u \in Conn /\ r \in Rec
  BY ClientReads DEF ClientOK, RecordOK
<1> DEFINE p == IF r.type = "CERTIFICATE_REQUEST" /\ c.hand_state = "OK"
                THEN "REQUESTED" ELSE c.pha
           a == [c EXCEPT !.hand_state = h]
<1>2. h \in ClientStates \cup ServerStates /\ p \in PhaStates
  <2>1. c.pha \in PhaStates
    BY <1>1 DEF Conn
  <2> QED BY <2>1 DEF ClientReadTransition, ClientStates, PhaStates
<1>3. t = [a EXCEPT !.pha = p]
  OBVIOUS
<1>4. a \in Conn
  BY <1>1, <1>2, FieldSet
<1> DEFINE Kept(x) == /\ x.hand_state = h /\ x.in_init = c.in_init /\ x.pha = p
                      /\ x.early_data_state = c.early_data_state
           Hello(x) == x.tls13 = c.tls13 /\ x.hit = c.hit
           Keyed(x) == x.wkey = c.wkey /\ x.hello_retry_request = c.hello_retry_request
           Readies(x) == x.rkey = c.rkey /\ x.fin = c.fin
<1>5. /\ Kept(t) /\ Hello(t) /\ Keyed(t) /\ Readies(t) /\ t.flow = c.flow /\ t.cert = c.cert
      /\ t.early_data = c.early_data /\ t.key_update = c.key_update
  BY <1>1 DEF Conn
<1> HIDE DEF a, p
<1>6. t \in Conn
  BY ONLY <1>2, <1>3, <1>4, FieldSet
<1>7. r.type \in {"SERVER_HELLO", "ENCRYPTED_EXTENSIONS", "CERTIFICATE_REQUEST", "CERTIFICATE",
                  "CERTIFICATE_VERIFY", "FINISHED", "NEWSESSION_TICKET", "KEY_UPDATE"}
  BY DEF ClientHears
<1>8. CASE r.type = "SERVER_HELLO" /\ r.arg = "retry"
  <2>1. u = [t EXCEPT !.hello_retry_request = "PENDING", !.wkey = Plain, !.flow = "writing"]
    BY <1>8 DEF ClientProcess
  <2>2. /\ Kept(u) /\ Hello(u) /\ Readies(u) /\ u.flow = "writing" /\ u.cert = c.cert
        /\ u.early_data = c.early_data /\ u.hello_retry_request = "PENDING" /\ u.wkey = Plain
    BY <1>5, <1>6, <2>1 DEF Conn
  <2> QED BY <1>1, <1>8, <2>2 DEF ClientHeard, p
<1>9. CASE r.type = "SERVER_HELLO" /\ r.arg # "retry"
  <2> DEFINE x == r.arg = "hit"
  <2>1. u = [t EXCEPT !.tls13 = TRUE, !.hit = x, !.rkey = HandshakeKey]
    BY <1>9 DEF ClientProcess
  <2> HIDE DEF x
  <2>2. /\ Kept(u) /\ Keyed(u) /\ u.flow = c.flow /\ u.cert = c.cert /\ u.fin = c.fin
        /\ u.early_data = c.early_data /\ u.tls13 = TRUE /\ u.hit = x /\ u.rkey = HandshakeKey
    BY <1>5, <1>6, <2>1 DEF Conn
  <2> QED BY <1>1, <1>9, <2>2 DEF ClientHeard, p, x
<1>10. CASE r.type = "ENCRYPTED_EXTENSIONS"
  <2> DEFINE d == IF r.arg = "early" THEN "ACCEPTED" ELSE c.early_data
  <2>1. u = [t EXCEPT !.early_data = d]
    BY <1>5, <1>10 DEF ClientProcess
  <2> HIDE DEF d
  <2>2. /\ Kept(u) /\ Hello(u) /\ Keyed(u) /\ Readies(u) /\ u.flow = c.flow /\ u.cert = c.cert
        /\ u.early_data = d
    BY <1>5, <1>6, <2>1 DEF Conn
  <2> QED BY <1>1, <1>10, <2>2 DEF ClientHeard, p, d
<1>11. CASE r.type = "CERTIFICATE_REQUEST" /\ c.hand_state = "OK"
  <2>1. t.pha = "REQUESTED"
    BY <1>5, <1>11 DEF p
  <2>2. PICK x \in {"cert", "empty"} : u = [[t EXCEPT !.flow = "writing"] EXCEPT !.cert = x]
    BY <1>11, <2>1 DEF ClientProcess, CertificatePrepared
  <2>3. u = [t EXCEPT !.flow = "writing", !.cert = x]
    BY <2>2
  <2>4. /\ Kept(u) /\ Hello(u) /\ Keyed(u) /\ Readies(u) /\ u.flow = "writing" /\ u.cert = x
        /\ u.early_data = c.early_data
    BY <1>5, <1>6, <2>3 DEF Conn
  <2> QED BY <1>1, <1>11, <2>4 DEF ClientHeard, p
<1>12. CASE r.type = "CERTIFICATE_REQUEST" /\ c.hand_state # "OK"
  <2>1. t.pha # "REQUESTED"
    BY <1>5, <1>12 DEF p, ClientHears, ClientAt, ClientFar
  <2>2. u = [t EXCEPT !.cert = "cert"]
    BY <1>12, <2>1 DEF ClientProcess
  <2>3. /\ Kept(u) /\ Hello(u) /\ Keyed(u) /\ Readies(u) /\ u.flow = c.flow /\ u.cert = "cert"
        /\ u.early_data = c.early_data
    BY <1>5, <1>6, <2>2 DEF Conn
  <2> QED BY <1>1, <1>12, <2>3 DEF ClientHeard, p
<1>13. CASE r.type = "CERTIFICATE" \/ (r.type = "CERTIFICATE_VERIFY" /\ c.cert # "cert")
  <2>1. u = t
    BY <1>5, <1>13 DEF ClientProcess
  <2> QED BY <1>1, <1>5, <1>13, <2>1 DEF ClientHeard, p
<1>14. CASE r.type = "CERTIFICATE_VERIFY" /\ c.cert = "cert"
  <2>1. PICK x \in {"cert", "empty"} : u = [t EXCEPT !.cert = x]
    BY <1>5, <1>14 DEF ClientProcess, CertificatePrepared
  <2>2. /\ Kept(u) /\ Hello(u) /\ Keyed(u) /\ Readies(u) /\ u.flow = c.flow /\ u.cert = x
        /\ u.early_data = c.early_data
    BY <1>5, <1>6, <2>1 DEF Conn
  <2> QED BY <1>1, <1>14, <2>2 DEF ClientHeard, p
<1>15. CASE r.type = "FINISHED"
  <2> DEFINE g == c.fin \cup {"peer"}
  <2>1. u = [t EXCEPT !.rkey = ApplicationKey, !.fin = g, !.flow = "writing"]
    BY <1>5, <1>15 DEF ClientProcess
  <2> HIDE DEF g
  <2>2. /\ Kept(u) /\ Hello(u) /\ Keyed(u) /\ u.rkey = ApplicationKey /\ u.fin = g
        /\ u.flow = "writing"
        /\ u.cert = c.cert /\ u.early_data = c.early_data
    BY <1>5, <1>6, <2>1 DEF Conn
  <2> QED BY <1>1, <1>15, <2>2 DEF ClientHeard, p, g
<1>16. CASE r.type = "NEWSESSION_TICKET"
  <2>1. u = [t EXCEPT !.flow = "writing"]
    BY <1>16 DEF ClientProcess
  <2>2. /\ Kept(u) /\ Hello(u) /\ Keyed(u) /\ Readies(u) /\ u.flow = "writing"
        /\ u.cert = c.cert /\ u.early_data = c.early_data
    BY <1>5, <1>6, <2>1 DEF Conn
  <2> QED BY <1>1, <1>16, <2>2 DEF ClientHeard, p
<1>17. CASE r.type = "KEY_UPDATE"
  <2> DEFINE x == IF r.arg = "REQUESTED" THEN "NOT_REQUESTED" ELSE c.key_update
             k == c.rkey + 1
  <2>1. u = [t EXCEPT !.key_update = x, !.rkey = k, !.flow = "writing"]
    BY <1>5, <1>17 DEF ClientProcess, KeyUpdateRead
  <2> HIDE DEF x, k
  <2>2. /\ Kept(u) /\ Hello(u) /\ Keyed(u) /\ u.rkey = k /\ u.fin = c.fin /\ u.flow = "writing"
        /\ u.cert = c.cert /\ u.early_data = c.early_data
    BY <1>5, <1>6, <2>1 DEF Conn
  <2> QED BY <1>1, <1>17, <2>2 DEF ClientHeard, p, k
<1> QED BY <1>7, <1>8, <1>9, <1>10, <1>11, <1>12, <1>13, <1>14, <1>15, <1>16, <1>17

\* What reading r and becoming u leaves of the invariant.
ClientTook(c, r, u) ==
  /\ ClientAt(conf, u) /\ ClientSilent(conf, c, u) /\ ClientTakes(conf, c, r, u)
  /\ u.hand_state # "OK" /\ One(Answers(u)) = One(Answers(c)) + One(r \in LateRequests)

\* A message that asks for nothing, or asks in the handshake.
LEMMA NotAsked ==
  ASSUME NEW c, NEW u, NEW r, Answers(u) <=> Answers(c),
         r.type # "CERTIFICATE_REQUEST" \/ r.key < ApplicationKey, r \in Rec
  PROVE  One(Answers(u)) = One(Answers(c)) + One(r \in LateRequests)
<1>1. One(r \in LateRequests) = 0
  <2>1. r.key \in Nat
    BY DEF Rec
  <2> QED BY <2>1 DEF One, LateRequests, ApplicationKey
<1>2. One(Answers(u)) = One(Answers(c)) /\ One(Answers(c)) \in Nat
  BY DEF One
<1> QED BY <1>1, <1>2

\* A ServerHello, or a HelloRetryRequest.
LEMMA ServerHelloTaken ==
  ASSUME NEW c, NEW r, NEW h, NEW u, ClientHeard(c, r, h, u), r.type = "SERVER_HELLO"
  PROVE  ClientTook(c, r, u)
<1>1. /\ c \in Conn /\ u \in Conn /\ r \in Rec /\ ClientOK(conf, c) /\ conf \in AllConfigurations
      /\ ClientAt(conf, c) /\ c.flow = "reading" /\ ClientHears(c, r, h)
  BY DEF ClientHeard
<1>2. /\ h = "CR_SRVR_HELLO" /\ ~ c.tls13 /\ c.hand_state \in {"CW_CLNT_HELLO", "EARLY_DATA"}
      /\ \/ r.arg = "retry" /\ conf.retry /\ c.hello_retry_request = "NONE"
         \/ /\ (r.arg = IF conf.psk THEN "hit" ELSE "full")
            /\ (conf.retry <=> c.hello_retry_request = "PENDING")
  BY <1>1 DEF ClientHears, ClientAt, ClientKnows
<1>3. /\ c.fin = {} /\ c.rkey = Plain /\ c.cert = "none" /\ c.pha # "REQUESTED"
      /\ c.hello_retry_request \in {"NONE", "PENDING"} /\ c.early_data_state # "CONNECTING"
      /\ c.hand_state = "EARLY_DATA" => c.hello_retry_request = "NONE"
  BY <1>1, <1>2 DEF ClientAt, ClientFar, ClientKnows, ClientData
<1>4. /\ u.hand_state = "CR_SRVR_HELLO" /\ u.in_init = c.in_init
      /\ u.early_data_state = c.early_data_state
      /\ u.cert = "none" /\ u.fin = {} /\ u.early_data = c.early_data /\ u.pha = c.pha
      /\ r.arg = "retry" => /\ u.flow = "writing" /\ ~ u.tls13 /\ u.hello_retry_request = "PENDING"
                            /\ u.wkey = Plain /\ u.rkey = Plain
      /\ r.arg # "retry" => /\ u.flow = "reading" /\ u.tls13 /\ u.hit = (r.arg = "hit")
                            /\ u.hello_retry_request = c.hello_retry_request
                            /\ u.wkey = c.wkey /\ u.rkey = HandshakeKey
  BY <1>2, <1>3 DEF ClientHeard
<1>5. conf.psk \in BOOLEAN /\ conf.retry \in BOOLEAN
  BY <1>1, Configured
<1>6. ClientAt(conf, u)
  <2>1. ClientCall(u)
    BY <1>4 DEF ClientCall, ServerFlight
  <2>2. ClientFar(u)
    BY <1>3, <1>4 DEF ClientFar, ServerFlight
  <2>3. ClientKnows(conf, u)
    <3>1. c.pha \in IF conf.pha THEN {"EXT_SENT", "REQUESTED"} ELSE {"NONE"}
      BY <1>1, <1>2 DEF ClientAt, ClientKnows
    <3>2. u.tls13 => u.hit = conf.psk /\ r.arg # "retry"
      BY <1>2, <1>4, <1>5
    <3> QED BY <1>2, <1>3, <1>4, <1>5, <3>1, <3>2 DEF ClientKnows
  <2>4. ClientData(conf, u)
    <3>1. c.early_data = IF conf.early THEN "REJECTED" ELSE Fate(conf)
      BY <1>1, <1>2 DEF ClientAt, ClientData
    <3>2. /\ c.early_data_state \in {"NONE"} \cup Opened
          /\ c.early_data_state # "NONE" => conf.early
          /\ conf.early => c.early_data_state # "NONE"
          /\ c.early_data_state = "WRITING" => ~ conf.retry /\ ~ Accepts(conf)
      BY <1>1, <1>2, <1>3 DEF ClientAt, ClientData
    <3> QED BY <1>4, <3>1, <3>2 DEF ClientData, Opened
  <2>5. ClientCert(conf, u)
    BY <1>4 DEF ClientCert
  <2>6. ClientKey(conf, u)
    <3>1. c.wkey \in {Plain, EarlyKey}
            /\ (c.wkey = EarlyKey => conf.early /\ c.hello_retry_request = "NONE")
      BY <1>1, <1>2, <1>3 DEF ClientAt, ClientKey
    <3> QED BY <1>3, <1>4, <3>1 DEF ClientKey, Plain, EarlyKey
  <2> QED BY <2>1, <2>2, <2>3, <2>4, <2>5, <2>6 DEF ClientAt
<1>7. ClientSilent(conf, c, u)
  <2> SUFFICES ASSUME NEW x, Shown(c, x)
               PROVE  Shown(u, x) /\ ClientSaid(conf, u, x) = ClientSaid(conf, c, x)
    BY DEF ClientSilent
  <2>1. Shown(u, x)
    BY <1>2, <1>3, <1>4 DEF Shown
  <2>2. Awaited(conf, u) <=> Awaited(conf, c)
    BY <1>2, <1>3, <1>4, <1>5 DEF Awaited
  <2> QED BY <1>2, <1>3, <1>4, <2>1, <2>2 DEF ClientSaid
<1>8. ClientTakes(conf, c, r, u)
  <2> DEFINE a == IF c.hello_retry_request = "NONE" THEN "HELLO" ELSE "AGAIN"
  <2>1. ClientPlace(c) = Place(a, Plain, "none")
    BY <1>2, <1>3 DEF ClientPlace
  <2>2. ClientPlace(u) = IF r.arg = "retry" THEN Place("AGAIN", Plain, "none")
                         ELSE Place("CR_SRVR_HELLO", HandshakeKey, "none")
    BY <1>4 DEF ClientPlace
  <2> HIDE DEF a
  <2> QED BY <1>5, <2>1, <2>2 DEF ClientTakes, ServerSays
<1>9. One(Answers(u)) = One(Answers(c)) + One(r \in LateRequests)
  <2>1. ~ Answers(u) /\ ~ Answers(c)
    BY <1>3, <1>4 DEF Answers
  <2> QED BY <1>1, <2>1, NotAsked
<1> QED BY <1>4, <1>6, <1>7, <1>8, <1>9 DEF ClientTook

\* The rest of the flight of the server.
LEMMA FlightTaken ==
  ASSUME NEW c, NEW r, NEW h, NEW u, ClientHeard(c, r, h, u), r.type # "SERVER_HELLO",
         "peer" \notin c.fin
  PROVE  ClientTook(c, r, u)
<1>1. /\ c \in Conn /\ u \in Conn /\ r \in Rec /\ ClientOK(conf, c) /\ conf \in AllConfigurations
      /\ ClientAt(conf, c) /\ c.flow = "reading" /\ ClientHears(c, r, h) /\ r.key = c.rkey
  BY DEF ClientHeard
<1>2. /\ c.tls13 /\ c.hand_state \in ServerFlight
      /\ \/ /\ r.type = "ENCRYPTED_EXTENSIONS" /\ h = "CR_ENCRYPTED_EXTENSIONS"
            /\ c.hand_state = "CR_SRVR_HELLO"
            /\ (r.arg = IF Accepts(conf) THEN "early" ELSE "none")
         \/ /\ r.type = "CERTIFICATE_REQUEST" /\ h = "CR_CERT_REQ"
            /\ c.hand_state = "CR_ENCRYPTED_EXTENSIONS" /\ Asks(conf)
         \/ /\ r.type = "CERTIFICATE" /\ h = "CR_CERT" /\ ~ conf.psk
            /\ c.hand_state = IF Asks(conf) THEN "CR_CERT_REQ" ELSE "CR_ENCRYPTED_EXTENSIONS"
         \/ r.type = "CERTIFICATE_VERIFY" /\ h = "CR_CERT_VRFY" /\ c.hand_state = "CR_CERT"
         \/ /\ r.type = "FINISHED" /\ h = "CR_FINISHED"
            /\ c.hand_state = IF conf.psk THEN "CR_ENCRYPTED_EXTENSIONS" ELSE "CR_CERT_VRFY"
  BY <1>1 DEF ClientHears, ServerFlight
<1>3. /\ "own" \notin c.fin /\ c.rkey = HandshakeKey /\ c.pha # "REQUESTED" /\ c.hand_state # "OK"
      /\ c.early_data_state # "CONNECTING"
      /\ c.hand_state \notin {"BEFORE", "CW_CLNT_HELLO", "EARLY_DATA"}
  <2>1. "own" \notin c.fin /\ c.rkey = HandshakeKey
    BY <1>1, <1>2 DEF ClientAt, ClientFar
  <2>2. c.pha # "REQUESTED"
    BY <1>1, <2>1 DEF ClientOK, ClientLate
  <2> QED BY <1>1, <1>2, <2>1, <2>2 DEF ClientAt, ClientData, ServerFlight
<1>4. /\ u.hand_state = h /\ u.in_init = c.in_init /\ u.early_data_state = c.early_data_state
      /\ u.flow = (IF r.type = "FINISHED" THEN "writing" ELSE "reading")
      /\ u.tls13 /\ u.hit = c.hit /\ u.hello_retry_request = c.hello_retry_request
      /\ u.wkey = c.wkey
      /\ u.rkey = (IF r.type = "FINISHED" THEN ApplicationKey ELSE HandshakeKey)
      /\ u.early_data = (IF r.type = "ENCRYPTED_EXTENSIONS" /\ r.arg = "early"
                         THEN "ACCEPTED" ELSE c.early_data)
      /\ u.fin = (IF r.type = "FINISHED" THEN c.fin \cup {"peer"} ELSE c.fin)
      /\ u.pha = c.pha
      /\ IF r.type = "CERTIFICATE_VERIFY" /\ c.cert = "cert" THEN u.cert \in {"cert", "empty"}
         ELSE IF r.type = "CERTIFICATE_REQUEST" THEN u.cert = "cert" ELSE u.cert = c.cert
  BY <1>2, <1>3 DEF ClientHeard
<1>5. conf.psk \in BOOLEAN /\ conf.early \in BOOLEAN /\ (Asks(conf) => ~ conf.psk)
  BY <1>1, Configured DEF Asks
<1>6. ClientAt(conf, u)
  <2>1. ClientCall(u)
    BY <1>2, <1>4 DEF ClientCall, ServerFlight
  <2>2. ClientFar(u)
    <3>1. "own" \notin u.fin
      BY <1>3, <1>4
    <3> QED BY <1>2, <1>3, <1>4, <3>1 DEF ClientFar, ServerFlight, ApplicationKey
  <2>3. ClientKnows(conf, u)
    BY <1>1, <1>2, <1>3, <1>4 DEF ClientAt, ClientKnows
  <2>4. ClientData(conf, u)
    <3>1. c.early_data = IF conf.early /\ c.hand_state = "CR_SRVR_HELLO" THEN "REJECTED" ELSE Fate(conf)
      BY <1>1, <1>2, <1>3 DEF ClientAt, ClientData
    <3>2. u.early_data = Fate(conf)
      BY <1>2, <1>4, <1>5, <3>1 DEF Fate, Accepts
    <3>3. h \notin {"BEFORE", "CW_CLNT_HELLO", "CW_CHANGE", "CR_SRVR_HELLO"}
      BY <1>2
    <3> QED BY <1>1, <1>3, <1>4, <3>2, <3>3 DEF ClientAt, ClientData
  <2>5. ClientCert(conf, u)
    <3>1. /\ c.cert # "none" <=> Asks(conf)
               /\ c.hand_state \notin {"CR_SRVR_HELLO", "CR_ENCRYPTED_EXTENSIONS"}
          /\ c.hand_state \in {"CR_CERT_REQ", "CR_CERT"} => c.cert \in {"none", "cert"}
      BY <1>1, <1>2, <1>3 DEF ClientAt, ClientCert
    <3>2. u.cert # "none" <=> Asks(conf) /\ h \notin {"CR_SRVR_HELLO", "CR_ENCRYPTED_EXTENSIONS"}
      BY <1>2, <1>4, <1>5, <3>1 DEF ServerFlight
    <3> QED BY <1>2, <1>4, <3>1, <3>2 DEF ClientCert
  <2>6. ClientKey(conf, u)
    <3>1. c.wkey \in {Plain, EarlyKey}
            /\ (c.wkey = EarlyKey => conf.early /\ c.hello_retry_request # "PENDING")
      BY <1>1, <1>2, <1>3 DEF ClientAt, ClientKey, ServerFlight
    <3> QED BY <1>2, <1>4, <3>1 DEF ClientKey
  <2> QED BY <2>1, <2>2, <2>3, <2>4, <2>5, <2>6 DEF ClientAt
<1>7. ClientSilent(conf, c, u)
  <2> SUFFICES ASSUME NEW x, Shown(c, x)
               PROVE  Shown(u, x) /\ ClientSaid(conf, u, x) = ClientSaid(conf, c, x)
    BY DEF ClientSilent
  <2>1. "own" \notin u.fin /\ h \in ServerFlight \cup {"CR_FINISHED"}
    BY <1>2, <1>3, <1>4 DEF ServerFlight
  <2>2. Shown(u, x)
    BY <1>2, <1>3, <1>4, <2>1 DEF Shown, ServerFlight
  <2>3. ~ Awaited(conf, u) /\ ~ Awaited(conf, c)
    BY <1>2, <1>4 DEF Awaited
  <2> QED BY <1>2, <1>3, <1>4, <2>1, <2>2, <2>3 DEF ClientSaid, ServerFlight
<1>8. ClientTakes(conf, c, r, u)
  <2>1. ClientPlace(c) = Place(c.hand_state, HandshakeKey, "none")
    BY <1>2, <1>3 DEF ClientPlace
  <2>2. ClientPlace(u) = IF r.type = "FINISHED" THEN Place("APP", ApplicationKey, "none")
                         ELSE Place(h, HandshakeKey, "none")
    BY <1>4 DEF ClientPlace
  <2> QED BY <1>2, <2>1, <2>2, PlaceFields DEF ClientTakes, ServerSays, ServerFlight
<1>9. One(Answers(u)) = One(Answers(c)) + One(r \in LateRequests)
  <2>1. ~ Answers(u) /\ ~ Answers(c)
    BY <1>3, <1>4 DEF Answers
  <2>2. r.key < ApplicationKey
    BY <1>1, <1>3 DEF ApplicationKey, HandshakeKey
  <2> QED BY <1>1, <2>1, <2>2, NotAsked
<1>10. u.hand_state # "OK"
  BY <1>2, <1>4
<1> QED BY <1>6, <1>7, <1>8, <1>9, <1>10 DEF ClientTook

\* A message after the handshake.
LEMMA LateTaken ==
  ASSUME NEW c, NEW r, NEW h, NEW u, ClientHeard(c, r, h, u), r.type # "SERVER_HELLO",
         "peer" \in c.fin
  PROVE  ClientTook(c, r, u)
<1>1. /\ c \in Conn /\ u \in Conn /\ r \in Rec /\ ClientOK(conf, c) /\ conf \in AllConfigurations
      /\ ClientAt(conf, c) /\ c.flow = "reading" /\ ClientHears(c, r, h) /\ r.key = c.rkey
  BY DEF ClientHeard
<1>2. /\ c.tls13 /\ c.hand_state = "OK"
      /\ \/ r.type = "CERTIFICATE_REQUEST" /\ h = "CR_CERT_REQ" /\ c.pha = "EXT_SENT"
         \/ r.type = "NEWSESSION_TICKET" /\ h = "CR_SESSION_TICKET"
         \/ r.type = "KEY_UPDATE" /\ h = "CR_KEY_UPDATE"
  BY <1>1 DEF ClientHears
<1>3. "own" \in c.fin /\ c.rkey \in Nat /\ c.rkey >= ApplicationKey /\ c.pha # "REQUESTED"
  BY <1>1, <1>2, ClientReader, Typed DEF ServerFlight, ClientAt, ClientFar
<1>4. /\ u.hand_state = h /\ u.in_init = c.in_init /\ u.early_data_state = c.early_data_state
      /\ u.flow = "writing" /\ u.early_data = c.early_data /\ u.fin = c.fin
      /\ u.tls13 /\ u.hit = c.hit /\ u.hello_retry_request = c.hello_retry_request
      /\ u.wkey = c.wkey
      /\ u.rkey = (IF r.type = "KEY_UPDATE" THEN c.rkey + 1 ELSE c.rkey)
      /\ u.pha = (IF r.type = "CERTIFICATE_REQUEST" THEN "REQUESTED" ELSE c.pha)
      /\ IF r.type = "CERTIFICATE_REQUEST" THEN u.cert \in {"cert", "empty"} ELSE u.cert = c.cert
  BY <1>2, <1>3 DEF ClientHeard
<1>5. u.rkey \in Nat /\ u.rkey >= ApplicationKey
  BY <1>3, <1>4 DEF ApplicationKey
<1>6. ClientAt(conf, u)
  <2>1. ClientCall(u)
    BY <1>2, <1>4 DEF ClientCall, ServerFlight
  <2>2. ClientFar(u)
    BY <1>1, <1>2, <1>3, <1>4, <1>5 DEF ClientFar, ClientAt, ServerFlight
  <2>3. ClientKnows(conf, u)
    BY <1>1, <1>2, <1>3, <1>4 DEF ClientAt, ClientKnows
  <2>4. ClientData(conf, u)
    BY <1>1, <1>2, <1>4 DEF ClientAt, ClientData
  <2>5. ClientCert(conf, u)
    BY <1>2, <1>3, <1>4 DEF ClientCert
  <2>6. ClientKey(conf, u)
    BY <1>2, <1>3, <1>4 DEF ClientKey
  <2> QED BY <2>1, <2>2, <2>3, <2>4, <2>5, <2>6 DEF ClientAt
<1>7. ClientSilent(conf, c, u)
  BY <1>2, <1>3, <1>4 DEF ClientSilent, Shown, ClientSaid
<1>8. ClientTakes(conf, c, r, u)
  <2>1. ClientPlace(c) = Place("APP", c.rkey, "none")
    BY DEF ClientPlace
  <2>2. ClientPlace(u) = Place("APP", u.rkey, "none")
    BY <1>4 DEF ClientPlace
  <2> QED BY <1>2, <1>4, <2>1, <2>2, PlaceFields DEF ClientTakes, ServerSays
<1>9. One(Answers(u)) = One(Answers(c)) + One(r \in LateRequests)
  <2>1. ~ Answers(c)
    BY <1>3 DEF Answers
  <2>2. CASE r.type = "CERTIFICATE_REQUEST"
    <3>1. Answers(u) /\ r \in LateRequests
      BY <1>1, <1>2, <1>3, <1>4, <2>2 DEF Answers, LateRequests
    <3> QED BY <2>1, <3>1 DEF One
  <2>3. CASE r.type # "CERTIFICATE_REQUEST"
    <3>1. ~ Answers(u)
      BY <1>3, <1>4, <2>3 DEF Answers
    <3> QED BY <1>1, <2>1, <2>3, <3>1, NotAsked
  <2> QED BY <2>2, <2>3
<1>10. u.hand_state # "OK"
  BY <1>2, <1>4
<1> QED BY <1>6, <1>7, <1>8, <1>9, <1>10 DEF ClientTook

\* The next record of the server is one the client may be told where it is.
LEMMA ClientNext ==
  ASSUME ProtectedInv, Joint, wire[Server] # << >>
  PROVE  LET r == NextRecord(Client)
         IN /\ r = Head(wire[Server]) /\ r \in Rec /\ RecordOK(conf, Server, r) /\ Told(tls[Client], r)
            /\ Peer(Client) = Server
<1> DEFINE r == Head(wire[Server])
<1>1. Peer(Client) = Server /\ NextRecord(Client) = r
  BY DEF Peer, NextRecord
<1>2. RecordOK(conf, Server, r)
  BY <1>1, RecordRead, TwoSides
<1>3. Told(tls[Client], r)
  <2>1. wire[Server] \in Seq(Rec)
    BY Both
  <2>2. PICK d \in Places : Says(conf, Server, ClientPlace(tls[Client]), r, d)
    BY <2>1, PathTail DEF Joint, ServerPath
  <2> QED BY <2>2 DEF Told, Says
<1> QED BY <1>1, <1>2, <1>3 DEF RecordOK

\* Where the client is while it reads data.
LEMMA ClientAtData ==
  ASSUME ProtectedInv, Joint, ReadsData(Client)
  PROVE  /\ tls[Client].hand_state \in {"OK", "PENDING_EARLY_DATA_END"}
         /\ tls[Client].flow = "idle"
         /\ ~ tls[Client].in_init /\ tls[Client].early_data_state # "READ_RETRY"
         /\ ClientPlace(tls[Client]) = Place("APP", tls[Client].rkey, "none")
<1> DEFINE c == tls[Client]
<1>1. ClientOK(conf, c) /\ ClientAt(conf, c)
  BY DEF ProtectedInv, Joint
<1>2. c.early_data_state # "READ_RETRY"
  BY <1>1 DEF ClientAt, ClientData, Opened
<1>3. c.hand_state \in {"OK", "PENDING_EARLY_DATA_END"} /\ c.flow = "idle" /\ ~ c.in_init
  BY <1>2 DEF ReadsData
<1> HIDE DEF c
<1>4. c.tls13
  BY <1>1, <1>3 DEF ClientAt, ClientFar
<1>5. "peer" \in c.fin
  BY <1>1, <1>3, <1>4 DEF ClientOK, ClientLate
<1> QED BY <1>2, <1>3, <1>5 DEF ClientPlace, c

\* The client refuses nothing.
LEMMA ClientRefusesNothing ==
  ASSUME ProtectedInv, Joint, Tls13Assumption, wire[Server] # << >>, Reads(Client),
         ~ DropsCCS(Client)
  PROVE  /\ ~ Refused(Client) /\ NextRecord(Client).type # "CCS"
         /\ tls[Client].flow = "reading" =>
              /\ ClientHears(tls[Client], NextRecord(Client),
                             ClientReadTransition(tls[Client], NextRecord(Client).type))
              /\ NextRecord(Client).type # "DATA"
<1> DEFINE c == tls[Client]
           r == NextRecord(Client)
<1>1. /\ r = Head(wire[Server]) /\ r \in Rec /\ Told(c, r) /\ ClientOK(conf, c)
      /\ ClientAt(conf, c)
      /\ conf \in AllConfigurations /\ Finds(c, wire[Server])
  BY ClientNext DEF ProtectedInv, Joint, Tls13Assumption
<1>2. r.type # "CCS"
  <2> SUFFICES ASSUME r.type = "CCS" PROVE FALSE
    OBVIOUS
  <2>1. r.key = Plain /\ (c.tls13 \/ c.hello_retry_request # "NONE") /\ "peer" \notin c.fin
    BY <1>1, ClientDropsCCS
  <2> QED BY <2>1 DEF DropsCCS, FirstHandshake
<1>3. CASE c.flow = "reading"
  <2>1. c.hand_state = "OK" => r.type # "DATA"
    BY <1>1, <1>3 DEF Finds, Message
  <2>2. /\ ClientHears(c, r, ClientReadTransition(c, r.type))
        /\ ClientReadTransition(c, r.type) # Wrong
        /\ r.key = c.rkey
    BY <1>1, <1>2, <1>3, <2>1, ClientHearing
  <2>3. ReadTransition(Client, r.type) = ClientReadTransition(c, r.type)
    BY DEF ReadTransition
  <2>4. r.type # "DATA"
    BY <2>2 DEF ClientHears
  <2> QED BY <1>2, <2>2, <2>3, <2>4 DEF Refused, Undecipherable
<1>4. CASE c.flow # "reading"
  <2>1. ClientPlace(c) = Place("APP", c.rkey, "none")
    BY <1>4, ClientAtData DEF Reads
  <2>2. PICK d : ServerSays(conf, Place("APP", c.rkey, "none"), r, d)
    BY <1>1, <2>1 DEF Told
  <2>3. r.key = c.rkey
    BY <1>1, <1>2, <2>2, PlaceFields DEF ServerSays, Rec
  <2> QED BY <1>2, <1>4, <2>3 DEF Refused, Undecipherable
<1> QED BY <1>3, <1>4

\* The client reads a message.
LEMMA ClientReading ==
  ASSUME ProtectedInv, Joint, Tls13Assumption, ReadMessage(Client)
  PROVE  Joint'
<1> DEFINE c == tls[Client]
           r == NextRecord(Client)
           h == ReadTransition(Client, r.type)
           t == [c EXCEPT !.hand_state = h,
                          !.pha = IF r.type = "CERTIFICATE_REQUEST" /\ c.hand_state = "OK"
                                  THEN "REQUESTED" ELSE @]
<1>1. /\ wire[Server] # << >> /\ Reads(Client) /\ ~ DropsCCS(Client) /\ Peer(Client) = Server
      /\ UNCHANGED <<conf, calls, got>> /\ wire' = [wire EXCEPT ![Server] = Tail(@)]
  BY DEF ReadMessage, Reads, Peer, Consume
<1>2. /\ r = Head(wire[Server]) /\ RecordOK(conf, Server, r) /\ ClientOK(conf, c)
      /\ ClientAt(conf, c)
      /\ conf \in AllConfigurations
  BY <1>1, ClientNext DEF ProtectedInv, Joint, Tls13Assumption
<1>3. ~ Refused(Client)
  BY <1>1, ClientRefusesNothing
<1>4. c.flow = "reading"
  BY <1>3 DEF ReadMessage
<1>5. h = ClientReadTransition(c, r.type)
  BY DEF ReadTransition
<1>6. h # Wrong /\ ClientHears(c, r, h) /\ r.type # "DATA" /\ r.key = c.rkey
  BY <1>1, <1>3, <1>4, <1>5, ClientRefusesNothing DEF Refused, Undecipherable
<1>7. PICK u \in ClientProcess(t, r) : tls' = [tls EXCEPT ![Client] = u]
  <2>1. PICK u \in Processed(Client) : tls' = [tls EXCEPT ![Client] = u]
    BY DEF ReadMessage
  <2>2. u \in ClientProcess(t, r)
    BY <1>3, <2>1, TwoSides DEF Processed
  <2> QED BY <2>1, <2>2
<1> HIDE DEF h, t, c, r
<1>8. ClientHeard(c, r, h, u)
  BY <1>2, <1>4, <1>5, <1>6, ClientHasHeard DEF t
<1>9. ClientTook(c, r, u)
  BY <1>8, ServerHelloTaken, FlightTaken, LateTaken
<1>10. Finds(u, Tail(wire[Server]))
  BY <1>9, ClientFinds DEF ClientTook
<1>11. DataOf(conf)'
  BY <1>1, <1>2, <1>6, DataNotRead, TwoSides DEF r
<1> QED BY <1>1, <1>2, <1>7, <1>9, <1>10, <1>11, ClientTaking DEF ClientTook, c

\* It passes over a ChangeCipherSpec.
LEMMA ClientPassing ==
  ASSUME ProtectedInv, Joint, PassOver(Client)
  PROVE  Joint'
<1> DEFINE c == tls[Client]
           r == NextRecord(Client)
<1>1. /\ wire[Server] # << >> /\ Peer(Client) = Server
      /\ UNCHANGED <<conf, calls, got>> /\ wire' = [wire EXCEPT ![Server] = Tail(@)] /\ tls' = tls
      /\ r.type = "CCS"
  BY TwoSides DEF PassOver, Peer, Consume, SkipEarlyData, DropsCCS
<1>2. /\ r = Head(wire[Server]) /\ r \in Rec /\ Told(c, r) /\ ClientOK(conf, c)
      /\ ClientAt(conf, c)
      /\ Finds(c, wire[Server])
  BY <1>1, ClientNext DEF ProtectedInv, Joint
<1>3. ClientTakes(conf, c, r, c)
  BY <1>1, <1>2, ClientDropsCCS
<1>4. tls' = [tls EXCEPT ![Client] = c]
  BY <1>1, TwoSides DEF ProtectedInv
<1>5. ~ Message(wire[Server])
  BY <1>1, <1>2 DEF Message
<1>6. Finds(c, Tail(wire[Server]))
  BY <1>2, <1>5 DEF Finds
<1>7. One(Answers(c)) = One(Answers(c)) + One(r \in LateRequests)
  BY <1>1, <1>2, NotAsked
<1>8. DataOf(conf)'
  BY <1>1, <1>2, DataNotRead, TwoSides
<1>9. ClientSilent(conf, c, c)
  BY DEF ClientSilent
<1> QED BY <1>1, <1>2, <1>3, <1>4, <1>6, <1>7, <1>8, <1>9, ClientTaking

\* It finds a message where it was to read data.
LEMMA ClientFindsMessage ==
  ASSUME ProtectedInv, Joint, ReadFindsMessage(Client)
  PROVE  Joint'
<1> DEFINE c == tls[Client]
           r == NextRecord(Client)
           u == [c EXCEPT !.in_init = TRUE, !.flow = "writing"]
<1>1. /\ wire[Server] # << >> /\ Peer(Client) = Server /\ ReadsData(Client)
      /\ UNCHANGED <<conf, calls, got, wire>> /\ tls' = [tls EXCEPT ![Client] = u]
      /\ r.type \notin {"CCS", "DATA"} /\ r = Head(wire[Server])
  BY DEF ReadFindsMessage, Peer, NextRecord, Refused, ProtectedInv
<1>2. ClientOK(conf, c) /\ ClientAt(conf, c) /\ c \in Conn
  BY DEF ProtectedInv, Joint, ClientOK
<1>3. c.hand_state \in {"OK", "PENDING_EARLY_DATA_END"}
  BY <1>1, ClientAtData
<1>4. /\ u.hand_state = c.hand_state /\ u.flow = "writing" /\ u.in_init = TRUE
      /\ u.tls13 = c.tls13
      /\ u.rkey = c.rkey /\ u.wkey = c.wkey /\ u.hello_retry_request = c.hello_retry_request
      /\ u.hit = c.hit /\ u.cert = c.cert /\ u.fin = c.fin /\ u.early_data = c.early_data
      /\ u.pha = c.pha /\ u.early_data_state = c.early_data_state /\ u.key_update = c.key_update
  BY <1>2 DEF Conn
<1> HIDE DEF u, r
<1>5. ClientAt(conf, u)
  <2> HIDE DEF c
  <2>1. ClientCall(u)
    BY <1>3, <1>4 DEF ClientCall, ServerFlight
  <2>2. ClientFar(u)
    BY <1>2, <1>4 DEF ClientFar, ClientAt
  <2>3. ClientKnows(conf, u)
    BY <1>2, <1>4 DEF ClientKnows, ClientAt
  <2>4. ClientData(conf, u)
    BY <1>2, <1>3, <1>4 DEF ClientData, ClientAt, Opened
  <2>5. ClientCert(conf, u)
    BY <1>2, <1>4 DEF ClientCert, ClientAt
  <2>6. ClientKey(conf, u)
    BY <1>2, <1>4 DEF ClientKey, ClientAt
  <2> QED BY <2>1, <2>2, <2>3, <2>4, <2>5, <2>6 DEF ClientAt
<1>6. ClientPlace(u) = ClientPlace(c)
  BY <1>4 DEF ClientPlace
<1>7. ClientSilent(conf, c, u)
  BY <1>4 DEF ClientSilent, Shown, ClientSaid, Awaited
<1>8. Answers(u) <=> Answers(c)
  BY <1>4 DEF Answers
<1>9. Finds(u, wire[Server])
  <2>1. Message(wire[Server])
    BY <1>1 DEF Message
  <2>2. u.early_data_state # "READ_RETRY"
    BY <1>5 DEF ClientAt, ClientData, Opened
  <2> HIDE DEF c
  <2> QED BY <1>4, <2>1, <2>2 DEF Finds
<1>10. DataOf(conf)'
  BY <1>1, DataStays
<1> QED BY <1>1, <1>5, <1>6, <1>7, <1>8, <1>9, <1>10, ClientStays

\* The records of s in X are fewer by the one that is read.
LEMMA Fewer ==
  ASSUME ProtectedInv, NEW s \in Sides, wire[s] # << >>, wire' = [wire EXCEPT ![s] = Tail(@)],
         NEW X
  PROVE  /\ HowMany(wire[s], X) = HowMany(wire'[s], X) + One(Head(wire[s]) \in X)
         /\ HowMany(wire'[s], X) \in Nat /\ HowMany(wire[s], X) \in Nat
         /\ wire'[Peer(s)] = wire[Peer(s)]
<1>1. wire[s] \in Seq(Rec) /\ wire'[s] = Tail(wire[s]) /\ wire'[Peer(s)] = wire[Peer(s)]
  BY Both, PeerSide DEF Peer, Sides
<1>2. Tail(wire[s]) \in Seq(Rec)
  BY <1>1
<1> QED BY <1>1, <1>2, HowManyTail, HowManyNat

\* What the applications have been given and have written are numbers.
LEMMA Numbers ==
  ASSUME CallsInv
  PROVE  \A s \in Sides : /\ got[s].early \in Nat /\ got[s].data \in Nat /\ calls[s].early \in Nat
                          /\ calls[s].data \in Nat
BY Tls13Assumption DEF CallsInv

\* The client is given data.
LEMMA ClientGiven ==
  ASSUME ProtectedInv, CallsInv, Joint, wire[Server] # << >>, UNCHANGED <<conf, calls>>,
         wire' = [wire EXCEPT ![Server] = Tail(@)], Head(wire[Server]).type = "DATA",
         got' = [got EXCEPT ![Client].data = @ + 1]
  PROVE  DataOf(conf)'
<1>1. /\ HowMany(wire[Server], Data) = HowMany(wire'[Server], Data) + One(Head(wire[Server]) \in Data)
      /\ HowMany(wire'[Server], Data) \in Nat /\ HowMany(wire[Server], Data) \in Nat
      /\ wire'[Client] = wire[Client]
  BY Fewer, TwoSides DEF Peer
<1>2. One(Head(wire[Server]) \in Data) = 1
  <2>1. Head(wire[Server]) \in Rec
    BY ClientNext
  <2> QED BY <2>1 DEF One, Data
<1>3. got'[Client].data = got[Client].data + 1 /\ got'[Server] = got[Server] /\ got[Client].data \in Nat
  BY TwoSides DEF CallsInv
<1> DEFINE a == HowMany(wire[Server], Data)
           b == HowMany(wire'[Server], Data)
           g == got[Client].data
<1>4. g + a = calls[Server].data
  BY DEF Joint, DataOf
<1>5. a = b + 1 /\ a \in Nat /\ b \in Nat /\ g \in Nat
  BY <1>1, <1>2, <1>3
<1> HIDE DEF a, b, g
<1>6. (g + 1) + b = calls[Server].data
  BY <1>4, <1>5
<1>7. got'[Client].data + HowMany(wire'[Server], Data) = calls'[Server].data
  BY <1>3, <1>6 DEF b, g
<1> QED BY <1>1, <1>3, <1>7 DEF Joint, DataOf

\* It reads data.
LEMMA ClientReadsData ==
  ASSUME ProtectedInv, CallsInv, Joint, Tls13Assumption, ReadData(Client)
  PROVE  Joint'
<1> DEFINE c == tls[Client]
           r == NextRecord(Client)
<1>1. /\ wire[Server] # << >> /\ Peer(Client) = Server /\ ReadsData(Client)
      /\ UNCHANGED <<conf, calls>> /\ wire' = [wire EXCEPT ![Server] = Tail(@)] /\ tls' = tls
      /\ r.type = "DATA"
  BY TwoSides DEF ReadData, Peer, Consume
<1>2. /\ r = Head(wire[Server]) /\ r \in Rec /\ Told(c, r) /\ ClientAt(conf, c)
  BY <1>1, ClientNext DEF Joint
<1>3. /\ c.flow = "idle" /\ ~ c.in_init /\ c.early_data_state # "READ_RETRY"
      /\ ClientPlace(c) = Place("APP", c.rkey, "none")
  BY <1>1, ClientAtData
<1>4. got' = [got EXCEPT ![Client].data = @ + 1]
  BY <1>3 DEF ReadData
<1>5. DataOf(conf)'
  BY <1>1, <1>2, <1>4, ClientGiven
<1>6. tls' = [tls EXCEPT ![Client] = c]
  BY <1>1, TwoSides DEF ProtectedInv
<1>7. Finds(c, Tail(wire[Server]))
  BY <1>2, <1>3, ClientFinds
<1>8. One(Answers(c)) = One(Answers(c)) + One(r \in LateRequests)
  BY <1>1, <1>2, NotAsked
<1>9. ClientTakes(conf, c, r, c)
  BY <1>1, <1>3, PlaceFields DEF ClientTakes, ServerSays
<1>10. ClientSilent(conf, c, c)
  BY DEF ClientSilent
<1> QED BY <1>1, <1>2, <1>5, <1>6, <1>7, <1>8, <1>9, <1>10, ClientTaking

(***************************************************************************)
(* The server reads                                                        *)
(***************************************************************************)
\* The next record is one the server may be told where it is.
ServerTold(v, r) == \E d : ClientSays(conf, ServerPlace(conf, v), r, d)

\* Where the server is while it reads.
ServerReading == {"BEFORE", "EARLY_DATA", "SR_END_OF_EARLY_DATA", "OK"} \cup ServerAnswer

\* What it reads before the client's Finished, and with which key.
LEMMA ServerReader ==
  ASSUME NEW v, ServerOK(conf, v), ServerAt(conf, v), conf \in AllConfigurations,
         v.hand_state \in ServerReading
  PROVE  LET h == v.hand_state
         IN \/ /\ h = "BEFORE" /\ v.fin = {} /\ v.rkey = Plain /\ v.cert = "none" /\ ~ v.tls13
               /\ ServerPlace(conf, v) = Place("HELLO", Plain, "none")
            \/ /\ h = "EARLY_DATA" /\ v.hello_retry_request = "PENDING"
               /\ v.fin \cap {"own", "peer"} = {}
               /\ v.rkey = Plain /\ v.cert = "none" /\ v.tls13 /\ conf.retry /\ ~ Accepts(conf)
               /\ ServerPlace(conf, v) = Place("AGAIN", Plain, "none")
            \/ /\ h = "EARLY_DATA" /\ v.hello_retry_request # "PENDING" /\ Accepts(conf)
               /\ "own" \in v.fin /\ "peer" \notin v.fin /\ v.rkey = EarlyKey /\ v.cert = "none"
               /\ v.tls13
               /\ v.early_data_state = "READ_RETRY"
               /\ ServerPlace(conf, v) = Place("EARLY", EarlyKey, "none")
            \/ /\ h \in {"EARLY_DATA", "SR_END_OF_EARLY_DATA"}
               /\ v.hello_retry_request # "PENDING"
               /\ h = "SR_END_OF_EARLY_DATA" <=> Accepts(conf)
               /\ "own" \in v.fin /\ "peer" \notin v.fin /\ v.rkey = HandshakeKey
               /\ v.cert = "none" /\ v.tls13
               /\ ServerPlace(conf, v) = Place("ANSWER", HandshakeKey, "none")
            \/ /\ h \in ServerAnswer /\ "own" \in v.fin /\ v.tls13 /\ v.cert # "none"
               /\ h = "SR_CERT_VRFY" => v.cert = "cert"
               /\ "peer" \notin v.fin => v.rkey = HandshakeKey /\ v.pha # "REQUESTED" /\ Asks(conf)
               /\ "peer" \in v.fin => v.rkey >= ApplicationKey /\ v.pha = "REQUESTED"
               /\ ServerPlace(conf, v) = Place(h, v.rkey, v.cert)
            \/ /\ h = "OK" /\ "own" \in v.fin /\ "peer" \in v.fin /\ v.rkey >= ApplicationKey
               /\ v.tls13
               /\ ServerPlace(conf, v) = Place("APP", v.rkey, v.cert)
<1> DEFINE h == v.hand_state
<1>1. v.tls13 <=> h # "BEFORE"
  BY DEF ServerAt, ServerKnows
<1>2. v \in Conn /\ v.fin \subseteq {"own", "peer"} /\ v.wkey \in Nat /\ v.rkey \in Nat
  BY Typed DEF ServerOK
<1>3. CASE h = "BEFORE"
  <2>1. v.fin = {} /\ v.rkey = Plain
    BY <1>3 DEF ServerAt, ServerKnows, ServerKey
  <2>2. v.cert = "none"
    BY <1>3, <2>1 DEF ServerAt, ServerAsks, ServerAnswer
  <2> QED BY <1>1, <1>3, <2>1, <2>2 DEF ServerPlace
<1>4. CASE h = "EARLY_DATA"
  <2>1. "peer" \notin v.fin
    BY <1>4 DEF ServerAt, ServerFar, ServerLate, ServerAnswer
  <2>2. v.cert = "none"
    BY <1>4, <2>1 DEF ServerAt, ServerAsks, ServerAnswer
  <2>3. CASE v.hello_retry_request = "PENDING"
    <3>1. conf.retry /\ "own" \notin v.fin /\ v.rkey = Plain
      BY <2>3 DEF ServerOK, ServerKeys, ServerAt, ServerKey
    <3> QED BY <1>1, <1>4, <2>1, <2>2, <2>3, <3>1 DEF ServerPlace, Accepts
  <2>4. CASE v.hello_retry_request # "PENDING"
    <3>1. "own" \in v.fin
      BY <1>4, <2>4 DEF ServerAt, ServerFar
    <3>2. v.wkey # Plain
      BY <3>1, <1>2 DEF ServerOK, ServerKeys, ApplicationKey, Plain
    <3>3. CASE Accepts(conf)
      <4>1. v.rkey = EarlyKey /\ v.early_data_state = "READ_RETRY"
        BY <1>4, <2>1, <3>3 DEF ServerAt, ServerKey, ServerData, ServerAnswer
      <4> QED BY <1>1, <1>4, <2>1, <2>2, <2>4, <3>1, <3>3, <4>1 DEF ServerPlace
    <3>4. CASE ~ Accepts(conf)
      <4>1. v.rkey = HandshakeKey
        BY <1>4, <2>1, <2>4, <3>2, <3>4 DEF ServerAt, ServerKey
      <4> QED BY <1>1, <1>4, <2>1, <2>2, <2>4, <3>1, <3>4, <4>1 DEF ServerPlace
    <3> QED BY <3>3, <3>4
  <2> QED BY <2>3, <2>4
<1>5. CASE h = "SR_END_OF_EARLY_DATA"
  <2>1. "peer" \notin v.fin /\ "own" \in v.fin
    BY <1>5 DEF ServerAt, ServerFar, ServerLate, ServerAnswer
  <2>2. v.cert = "none" /\ v.rkey = HandshakeKey /\ Accepts(conf)
    BY <1>5, <2>1 DEF ServerAt, ServerAsks, ServerAnswer, ServerKey, ServerData
  <2>3. v.hello_retry_request # "PENDING"
    BY <1>5 DEF ServerAt, ServerKnows, ServerHellos
  <2> QED BY <1>1, <1>5, <2>1, <2>2, <2>3 DEF ServerPlace
<1>6. CASE h \in ServerAnswer
  <2>1. "own" \in v.fin /\ v.cert # "none" /\ (h = "SR_CERT_VRFY" => v.cert = "cert")
    BY <1>6 DEF ServerAt, ServerFar, ServerAsks, ServerAnswer
  <2>2. "peer" \notin v.fin => v.rkey = HandshakeKey /\ v.pha # "REQUESTED" /\ Asks(conf)
    BY <1>6 DEF ServerAt, ServerKey, ServerAsks, ServerAnswer
  <2>3. "peer" \in v.fin => v.rkey >= ApplicationKey /\ v.pha = "REQUESTED"
    BY <1>6 DEF ServerAt, ServerKey, ServerFar, ServerAnswer
  <2> QED BY <1>1, <1>6, <2>1, <2>2, <2>3 DEF ServerPlace, ServerAnswer
<1>7. CASE h = "OK"
  <2>1. "peer" \in v.fin
    BY <1>7 DEF ServerAt, ServerFar, ServerLate
  <2>2. "own" \in v.fin /\ v.rkey >= ApplicationKey
    BY <2>1 DEF ServerAt, ServerFar, ServerKey
  <2> QED BY <1>1, <1>7, <2>1, <2>2 DEF ServerPlace
<1> QED BY <1>3, <1>4, <1>5, <1>6, <1>7 DEF ServerReading

\* What it hears, and the state h it moves to.
ServerHears(v, r, h) ==
  LET g == v.hand_state
      first == "peer" \notin v.fin
      answer == \/ g = "SR_END_OF_EARLY_DATA"
                \/ g = "EARLY_DATA" /\ v.hello_retry_request # "PENDING" /\ ~ Accepts(conf)
  IN \/ /\ r.type = "CLIENT_HELLO" /\ h = "SR_CLNT_HELLO" /\ g = "BEFORE"
        /\ r.arg = IF conf.early THEN "early" ELSE "none"
     \/ /\ r.type = "CLIENT_HELLO" /\ h = "SR_CLNT_HELLO" /\ g = "EARLY_DATA"
        /\ v.hello_retry_request = "PENDING" /\ r.arg = "none"
     \/ /\ r.type = "END_OF_EARLY_DATA" /\ h = "SR_END_OF_EARLY_DATA" /\ g = "EARLY_DATA"
        /\ v.hello_retry_request # "PENDING" /\ Accepts(conf) /\ v.early_data_state = "READ_RETRY"
     \/ /\ r.type = "CERTIFICATE" /\ h = "SR_CERT" /\ r.arg \in {"cert", "empty"}
        /\ (first /\ answer /\ Asks(conf)) \/ (g = "OK" /\ v.pha = "REQUESTED")
     \/ r.type = "CERTIFICATE_VERIFY" /\ h = "SR_CERT_VRFY" /\ g = "SR_CERT" /\ v.cert = "cert"
     \/ /\ r.type = "FINISHED" /\ h = "SR_FINISHED"
        /\ (first /\ answer /\ ~ Asks(conf)) \/ (g = "SR_CERT" /\ v.cert = "empty") \/ g = "SR_CERT_VRFY"
     \/ r.type = "KEY_UPDATE" /\ h = "SR_KEY_UPDATE" /\ g = "OK"

\* A record it passes over: a ChangeCipherSpec, or early data it has not accepted.
ServerPassesOver(v, r) ==
  \/ r.type = "CCS" /\ r.key = Plain /\ v.tls13 /\ "peer" \notin v.fin
  \/ /\ r.type \in {"CCS", "DATA"} /\ r.key = EarlyKey /\ v.rkey # EarlyKey /\ ~ Accepts(conf)
     /\ v.early_data = "REJECTED" /\ v.hand_state = "EARLY_DATA"
     /\ v.hello_retry_request # "COMPLETE"

\* A server that reads has a transition and the key for every record it may be told, or takes
\* it for data, or passes it over.
LEMMA ServerHearing ==
  ASSUME NEW v, ServerOK(conf, v), ServerAt(conf, v), conf \in AllConfigurations,
         v.hand_state \in ServerReading, NEW r \in Rec, ServerTold(v, r),
         r.type = "CERTIFICATE" /\ v.hand_state = "OK" => v.pha = "REQUESTED"
  PROVE  \/ ServerPassesOver(v, r)
         \/ r.type = "DATA" /\ r.key = v.rkey /\ v.hand_state = "EARLY_DATA"
              /\ v.early_data_state = "READ_RETRY"
         \/ r.type = "DATA" /\ r.key = v.rkey /\ v.hand_state = "OK"
         \/ /\ ServerHears(v, r, ServerReadTransition(v, r.type))
            /\ ServerReadTransition(v, r.type) # Wrong
            /\ r.key = v.rkey /\ r.type \notin {"CCS", "DATA"}
<1> DEFINE h == v.hand_state
<1>1. PICK d : ClientSays(conf, ServerPlace(conf, v), r, d)
  BY DEF ServerTold
<1>2. /\ v.cert_request \in BOOLEAN /\ conf.early \in BOOLEAN /\ conf.psk \in BOOLEAN
      /\ conf.retry \in BOOLEAN
      /\ v.early_data = (IF h = "BEFORE" THEN "NOT_SENT" ELSE Fate(conf))
      /\ ("peer" \notin v.fin /\ h \in {"EARLY_DATA", "SR_END_OF_EARLY_DATA"}
            /\ v.hello_retry_request # "PENDING")
           => (v.cert_request <=> Asks(conf))
      /\ ~ conf.retry => v.hello_retry_request = "NONE"
  <2>1. v \in Conn
    BY DEF ServerOK
  <2>2. ~ conf.retry => v.hello_retry_request = "NONE"
    BY DEF ServerAt, ServerKnows
  <2> QED BY <2>1, <2>2, Typed, Configured DEF ServerAt, ServerData, ServerAsks, ServerHellos
<1>3. CASE h = "BEFORE"
  <2>1. ServerPlace(conf, v) = Place("HELLO", Plain, "none") /\ v.rkey = Plain
    BY <1>3, ServerReader DEF ServerAnswer
  <2>2. r.type = "CLIENT_HELLO" /\ r.key = Plain /\ r.arg = IF conf.early THEN "early" ELSE "none"
    BY <1>1, <2>1, PlaceFields DEF ClientSays, Rec
  <2>3. ServerReadTransition(v, r.type) = "SR_CLNT_HELLO"
    BY <1>3, <2>2 DEF ServerReadTransition
  <2> QED BY <1>3, <2>1, <2>2, <2>3 DEF ServerHears, Wrong
<1>4. CASE h = "EARLY_DATA" /\ v.hello_retry_request = "PENDING"
  <2>1. /\ ServerPlace(conf, v) = Place("AGAIN", Plain, "none") /\ v.rkey = Plain
        /\ "peer" \notin v.fin
        /\ v.tls13 /\ ~ Accepts(conf)
    BY <1>4, ServerReader DEF ServerAnswer
  <2>2. \/ r.type = "CLIENT_HELLO" /\ r.key = Plain /\ r.arg = "none"
        \/ r.type = "CCS" /\ r.key = Plain
        \/ r.type = "DATA" /\ r.key = EarlyKey /\ conf.early
    BY <1>1, <2>1, PlaceFields DEF ClientSays, Rec
  <2>3. CASE r.type = "CLIENT_HELLO"
    <3>1. ServerReadTransition(v, r.type) = "SR_CLNT_HELLO"
      BY <1>4, <2>3 DEF ServerReadTransition
    <3> QED BY <1>4, <2>1, <2>2, <2>3, <3>1 DEF ServerHears, Wrong
  <2>4. CASE r.type # "CLIENT_HELLO"
    BY <1>2, <1>4, <2>1, <2>2, <2>4 DEF ServerPassesOver, Fate, Plain, EarlyKey
  <2> QED BY <2>3, <2>4
<1>5. CASE h = "EARLY_DATA" /\ v.hello_retry_request # "PENDING" /\ Accepts(conf)
  <2>1. /\ ServerPlace(conf, v) = Place("EARLY", EarlyKey, "none") /\ v.rkey = EarlyKey
        /\ "peer" \notin v.fin
        /\ v.tls13 /\ v.early_data_state = "READ_RETRY"
    BY <1>5, ServerReader DEF ServerAnswer
  <2>2. \/ r.type = "END_OF_EARLY_DATA" /\ r.key = EarlyKey
        \/ r.type = "CCS" /\ r.key = Plain
        \/ r.type = "DATA" /\ r.key = EarlyKey
    BY <1>1, <2>1, PlaceFields DEF ClientSays, Rec
  <2>3. v.early_data = "ACCEPTED"
    BY <1>2, <1>5 DEF Fate
  <2>4. r.type = "END_OF_EARLY_DATA" => ServerReadTransition(v, r.type) = "SR_END_OF_EARLY_DATA"
    BY <1>5, <2>3 DEF ServerReadTransition
  <2> QED BY <1>5, <2>1, <2>2, <2>4 DEF ServerHears, ServerPassesOver, Wrong
<1>6. CASE \/ h = "EARLY_DATA" /\ v.hello_retry_request # "PENDING" /\ ~ Accepts(conf)
           \/ h = "SR_END_OF_EARLY_DATA"
  <2>1. /\ ServerPlace(conf, v) = Place("ANSWER", HandshakeKey, "none") /\ v.rkey = HandshakeKey
        /\ "peer" \notin v.fin /\ v.tls13 /\ v.hello_retry_request # "PENDING"
        /\ h = "SR_END_OF_EARLY_DATA" <=> Accepts(conf)
    BY <1>6, ServerReader DEF ServerAnswer
  <2>2. \/ r.type = "CCS" /\ r.key = Plain
        \/ r.type \in {"CCS", "DATA"} /\ r.key = EarlyKey /\ Fate(conf) = "REJECTED" /\ ~ conf.retry
        \/ r.type = "CERTIFICATE" /\ r.key = HandshakeKey /\ Asks(conf) /\ r.arg \in {"cert", "empty"}
        \/ r.type = "FINISHED" /\ r.key = HandshakeKey /\ ~ Asks(conf)
    BY <1>1, <2>1, PlaceFields DEF ClientSays, Rec
  <2>3. CASE r.type \in {"CCS", "DATA"}
    <3>1. Fate(conf) = "REJECTED" => ~ Accepts(conf)
      BY DEF Fate
    <3> QED BY <1>2, <1>6, <2>1, <2>2, <2>3, <3>1 DEF ServerPassesOver, HandshakeKey, EarlyKey
  <2>4. CASE r.type \in {"CERTIFICATE", "FINISHED"}
    <3>1. v.early_data = "ACCEPTED" <=> Accepts(conf)
      BY <1>2, <1>6 DEF Fate
    <3>2. v.cert_request <=> Asks(conf)
      BY <1>2, <1>6, <2>1
    <3>3. ServerReadTransition(v, r.type) = IF r.type = "CERTIFICATE" THEN "SR_CERT" ELSE "SR_FINISHED"
      BY <1>6, <2>1, <2>2, <2>4, <3>1, <3>2 DEF ServerReadTransition
    <3> QED BY <1>6, <2>1, <2>2, <2>4, <3>3 DEF ServerHears, Wrong
  <2> QED BY <2>2, <2>3, <2>4
<1>7. CASE h \in ServerAnswer
  <2>1. ServerPlace(conf, v) = Place(h, v.rkey, v.cert)
    BY <1>7, ServerReader DEF ServerAnswer
  <2>2. /\ r.key = v.rkey
        /\ \/ r.type = "CERTIFICATE_VERIFY" /\ h = "SR_CERT" /\ v.cert = "cert"
           \/ r.type = "FINISHED" /\ ((h = "SR_CERT" /\ v.cert = "empty") \/ h = "SR_CERT_VRFY")
    BY <1>1, <1>7, <2>1, PlaceFields DEF ClientSays, Rec, ServerAnswer
  <2>3. ServerReadTransition(v, r.type) = IF r.type = "FINISHED" THEN "SR_FINISHED" ELSE "SR_CERT_VRFY"
    BY <1>7, <2>2 DEF ServerReadTransition, ServerAnswer
  <2> QED BY <2>2, <2>3 DEF ServerHears, Wrong
<1>8. CASE h = "OK"
  <2>1. ServerPlace(conf, v) = Place("APP", v.rkey, v.cert) /\ v.rkey >= ApplicationKey
    BY <1>8, ServerReader DEF ServerAnswer
  <2>2. /\ r.key = v.rkey /\ r.type \in {"DATA", "CERTIFICATE", "KEY_UPDATE"}
        /\ r.type = "CERTIFICATE" => r.arg \in {"cert", "empty"}
    <3>1. r.type = "DATA" => r.key = v.rkey
      BY <1>1, <2>1, PlaceFields DEF ClientSays
    <3> QED BY <1>1, <2>1, <3>1, PlaceFields DEF ClientSays, Rec
  <2>3. /\ r.type = "CERTIFICATE" => ServerReadTransition(v, r.type) = "SR_CERT"
        /\ r.type = "KEY_UPDATE" => ServerReadTransition(v, r.type) = "SR_KEY_UPDATE"
    BY <1>8, <2>2 DEF ServerReadTransition
  <2> QED BY <1>8, <2>2, <2>3 DEF ServerHears, Wrong
<1> QED BY <1>3, <1>4, <1>5, <1>6, <1>7, <1>8 DEF ServerReading

\* The server, having read r and gone to h, has become u.
ServerHeard(v, r, h, u) ==
  LET hello == r.type = "CLIENT_HELLO"
      early == hello /\ r.arg = "early"
      taken == early /\ conf.psk /\ v.early_data_state = "ACCEPTING" /\ ~ conf.retry
  IN /\ ServerOK(conf, v) /\ ServerAt(conf, v) /\ ServerHears(v, r, h) /\ v.flow = "reading"
     /\ v \in Conn /\ u \in Conn /\ conf \in AllConfigurations /\ r \in Rec /\ r.key = v.rkey
     /\ u.hand_state = h /\ u.in_init = v.in_init /\ u.wkey = v.wkey
     /\ u.cert_request = v.cert_request
     /\ u.flow = (IF hello \/ r.type \in {"FINISHED", "KEY_UPDATE"} THEN "writing" ELSE "reading")
     /\ u.tls13 = (IF hello THEN TRUE ELSE v.tls13)
     /\ u.hit = (IF hello THEN conf.psk ELSE v.hit)
     /\ u.hello_retry_request = (IF ~ hello THEN v.hello_retry_request
                                 ELSE IF v.hello_retry_request = "PENDING" THEN "COMPLETE"
                                 ELSE IF conf.retry THEN "PENDING" ELSE "NONE")
     /\ u.pha = (IF hello /\ conf.pha THEN "EXT_RECEIVED" ELSE v.pha)
     /\ u.early_data = (IF taken THEN "ACCEPTED" ELSE IF early THEN "REJECTED" ELSE v.early_data)
     /\ u.rkey = (IF taken THEN EarlyKey
                  ELSE IF r.type = "END_OF_EARLY_DATA" THEN HandshakeKey
                  ELSE IF r.type = "FINISHED" /\ v.pha # "REQUESTED" THEN ApplicationKey
                  ELSE IF r.type = "KEY_UPDATE" THEN v.rkey + 1 ELSE v.rkey)
     /\ u.early_data_state = (IF r.type = "END_OF_EARLY_DATA" THEN "FINISHED_READING" ELSE v.early_data_state)
     /\ u.cert = (IF r.type = "CERTIFICATE" THEN r.arg ELSE v.cert)
     /\ u.fin = (IF r.type = "FINISHED" THEN v.fin \cup {"peer"} ELSE v.fin)

\* That is what reading makes of the server.
LEMMA ServerHasHeard ==
  ASSUME NEW v, ServerOK(conf, v), ServerAt(conf, v), conf \in Configurations, Tls13Assumption,
         v.flow = "reading", NEW r, RecordOK(conf, Client, r), r.key = v.rkey,
         NEW h, h = ServerReadTransition(v, r.type), h # Wrong, ServerHears(v, r, h),
         NEW t, t = [v EXCEPT !.hand_state = h], NEW u, u = ServerProcess(t, r)
  PROVE  ServerHeard(v, r, h, u)
<1>1. v \in Conn /\ u \in Conn /\ r \in Rec /\ conf \in AllConfigurations
  BY ServerReads DEF ServerOK, RecordOK, Tls13Assumption
<1>2. h \in ClientStates \cup ServerStates
  BY DEF ServerHears, ServerStates
<1>3. t \in Conn /\ t.hand_state = h
      /\ SameCall(v, t) /\ SameSecrets(v, t) /\ SameHello(v, t) /\ SameAuth(v, t)
      /\ SameEarly(v, t)
  BY <1>1, <1>2, MovedOn
<1> DEFINE Kept(x) == x.hand_state = h /\ x.in_init = v.in_init /\ x.wkey = v.wkey
                        /\ x.cert_request = v.cert_request
           Hello(x) == x.tls13 = v.tls13 /\ x.hit = v.hit
                         /\ x.hello_retry_request = v.hello_retry_request
                       /\ x.pha = v.pha /\ x.early_data = v.early_data
           Cert(x) == x.cert = v.cert
           Keyed(x) == x.rkey = v.rkey
           Fin(x) == x.fin = v.fin
           Early(x) == x.early_data_state = v.early_data_state
<1>4. /\ Kept(t) /\ Hello(t) /\ Cert(t) /\ Keyed(t) /\ Fin(t) /\ Early(t) /\ t.flow = v.flow
      /\ t.key_update = v.key_update
  BY <1>3 DEF SameCall, SameSecrets, SameHello, SameAuth, SameEarly
<1>5. r.type \in {"CLIENT_HELLO", "END_OF_EARLY_DATA", "CERTIFICATE", "CERTIFICATE_VERIFY",
          "FINISHED", "KEY_UPDATE"}
  BY DEF ServerHears
<1>6. CASE r.type = "CLIENT_HELLO"
  <2> DEFINE q == IF v.hello_retry_request = "PENDING" THEN "COMPLETE"
                  ELSE IF conf.retry THEN "PENDING" ELSE "NONE"
             p == IF conf.pha THEN "EXT_RECEIVED" ELSE v.pha
             k == conf.psk
             b == conf.ticket
             a == [t EXCEPT !.tls13 = TRUE, !.hit = k, !.hello_retry_request = q, !.pha = p,
                            !.ticket_expected = b, !.flow = "writing"]
  <2>1. v.hello_retry_request \in {"NONE", "PENDING"}
    BY <1>6 DEF ServerHears, ServerAt, ServerKnows
  <2>2. (CASE t.hello_retry_request = "NONE" -> IF conf.retry THEN "PENDING" ELSE t.hello_retry_request
           [] t.hello_retry_request = "PENDING" -> "COMPLETE") = q
    BY <1>4, <2>1
  <2>3. u = FinalEarlyData(a, r)
    BY <1>4, <1>6, <2>2 DEF ServerProcess, ClientHelloProcessed
  <2> HIDE DEF q, p, k, b
  <2>4. /\ Kept(a) /\ Cert(a) /\ Keyed(a) /\ Fin(a) /\ Early(a) /\ a.flow = "writing"
        /\ a.tls13 = TRUE
        /\ a.hit = k /\ a.hello_retry_request = q /\ a.pha = p /\ a.early_data = v.early_data
    BY <1>3, <1>4 DEF Conn
  <2>5. DOMAIN a = DOMAIN t /\ "early_data" \in DOMAIN t /\ "rkey" \in DOMAIN t
    BY <1>3 DEF Conn
  <2>6. /\ \A e : [a EXCEPT !.early_data = e, !.rkey = EarlyKey] =
                  [t EXCEPT !.tls13 = TRUE, !.hit = k, !.hello_retry_request = q, !.pha = p,
                            !.ticket_expected = b, !.flow = "writing", !.early_data = e,
                                !.rkey = EarlyKey]
        /\ \A e : [a EXCEPT !.early_data = e] =
                  [t EXCEPT !.tls13 = TRUE, !.hit = k, !.hello_retry_request = q, !.pha = p,
                            !.ticket_expected = b, !.flow = "writing", !.early_data = e]
    BY <1>3 DEF Conn
  <2>7. EarlyDataAccepted(a) <=> conf.psk /\ v.early_data_state = "ACCEPTING" /\ q = "NONE"
    BY <2>4 DEF EarlyDataAccepted, k
  <2>8. r.arg = "early" => (q = "NONE" <=> ~ conf.retry)
    <3>1. r.arg = "early" => v.hello_retry_request # "PENDING"
      BY <1>6 DEF ServerHears, ServerAt, ServerKnows
    <3> QED BY <3>1 DEF q
  <2> DEFINE New(x) == /\ Kept(x) /\ Cert(x) /\ Fin(x) /\ Early(x) /\ x.flow = "writing" /\ x.tls13 = TRUE
                       /\ x.hit = k /\ x.hello_retry_request = q /\ x.pha = p
  <2>9. CASE r.arg # "early"
    <3>1. u = a
      BY <2>3, <2>9 DEF FinalEarlyData
    <3>2. New(u) /\ u.early_data = v.early_data /\ u.rkey = v.rkey
      BY <2>4, <3>1
    <3> HIDE DEF a
    <3> QED BY <1>1, <1>6, <2>9, <3>2 DEF ServerHeard, q, p, k
  <2>10. CASE r.arg = "early" /\ EarlyDataAccepted(a)
    <3>1. u = [a EXCEPT !.early_data = "ACCEPTED", !.rkey = EarlyKey]
      BY <2>3, <2>10 DEF FinalEarlyData
    <3>2. u = [t EXCEPT !.tls13 = TRUE, !.hit = k, !.hello_retry_request = q, !.pha = p,
                        !.ticket_expected = b, !.flow = "writing", !.early_data = "ACCEPTED",
                            !.rkey = EarlyKey]
      BY <2>6, <3>1
    <3>3. New(u) /\ u.early_data = "ACCEPTED" /\ u.rkey = EarlyKey
      BY ONLY <1>3, <1>4, <3>2 DEF Conn
    <3> HIDE DEF a
    <3> QED BY <1>1, <1>6, <2>7, <2>8, <2>10, <3>3 DEF ServerHeard, q, p, k
  <2>11. CASE r.arg = "early" /\ ~ EarlyDataAccepted(a)
    <3>1. u = [a EXCEPT !.early_data = "REJECTED"]
      BY <2>3, <2>11 DEF FinalEarlyData
    <3>2. u = [t EXCEPT !.tls13 = TRUE, !.hit = k, !.hello_retry_request = q, !.pha = p,
                        !.ticket_expected = b, !.flow = "writing", !.early_data = "REJECTED"]
      BY <2>6, <3>1
    <3>3. New(u) /\ u.early_data = "REJECTED" /\ u.rkey = v.rkey
      BY ONLY <1>3, <1>4, <3>2 DEF Conn
    <3> HIDE DEF a
    <3> QED BY <1>1, <1>6, <2>7, <2>8, <2>11, <3>3 DEF ServerHeard, q, p, k
  <2> QED BY <2>9, <2>10, <2>11
<1>7. CASE r.type = "END_OF_EARLY_DATA"
  <2>1. v.early_data_state = "READ_RETRY"
    BY <1>7 DEF ServerHears
  <2>2. u = [t EXCEPT !.early_data_state = "FINISHED_READING", !.rkey = HandshakeKey]
    BY <1>4, <1>7, <2>1 DEF ServerProcess
  <2>3. /\ Kept(u) /\ Hello(u) /\ Cert(u) /\ Fin(u) /\ u.early_data_state = "FINISHED_READING"
        /\ u.rkey = HandshakeKey /\ u.flow = v.flow
    BY ONLY <1>3, <1>4, <2>2 DEF Conn
  <2> QED BY <1>1, <1>7, <2>3 DEF ServerHeard
<1>8. CASE r.type = "CERTIFICATE"
  <2> DEFINE x == r.arg
  <2>1. u = [t EXCEPT !.cert = x, !.sent_tickets = 0]
    BY <1>8 DEF ServerProcess
  <2> HIDE DEF x
  <2>2. Kept(u) /\ Hello(u) /\ Early(u) /\ Keyed(u) /\ Fin(u) /\ u.cert = x /\ u.flow = v.flow
    BY ONLY <1>3, <1>4, <2>1 DEF Conn
  <2> QED BY <1>1, <1>8, <2>2 DEF ServerHeard, x
<1>9. CASE r.type = "CERTIFICATE_VERIFY"
  <2>1. u = t
    BY <1>9 DEF ServerProcess
  <2> QED BY <1>1, <1>4, <1>9, <2>1 DEF ServerHeard
<1>10. CASE r.type = "FINISHED"
  <2> DEFINE k == IF v.pha = "REQUESTED" THEN v.rkey ELSE ApplicationKey
             g == v.fin \cup {"peer"}
  <2>1. u = [t EXCEPT !.rkey = k, !.fin = g, !.flow = "writing"]
    BY <1>4, <1>10 DEF ServerProcess
  <2> HIDE DEF k, g
  <2>2. Kept(u) /\ Hello(u) /\ Early(u) /\ Cert(u) /\ u.rkey = k /\ u.fin = g /\ u.flow = "writing"
    BY ONLY <1>3, <1>4, <2>1 DEF Conn
  <2> QED BY <1>1, <1>10, <2>2 DEF ServerHeard, k, g
<1>11. CASE r.type = "KEY_UPDATE"
  <2> DEFINE x == IF r.arg = "REQUESTED" THEN "NOT_REQUESTED" ELSE v.key_update
             k == v.rkey + 1
  <2>1. u = [t EXCEPT !.key_update = x, !.rkey = k, !.flow = "writing"]
    BY <1>4, <1>11 DEF ServerProcess, KeyUpdateRead
  <2> HIDE DEF x, k
  <2>2. Kept(u) /\ Hello(u) /\ Early(u) /\ Cert(u) /\ Fin(u) /\ u.rkey = k /\ u.flow = "writing"
    BY ONLY <1>3, <1>4, <2>1 DEF Conn
  <2> QED BY <1>1, <1>11, <2>2 DEF ServerHeard, k
<1> QED BY <1>5, <1>6, <1>7, <1>8, <1>9, <1>10, <1>11

\* What reading r and becoming u leaves of the invariant.
ServerTook(v, r, u) ==
  /\ ServerAt(conf, u) /\ ServerSaid(u) = ServerSaid(v) /\ ServerTakes(conf, v, r, u)
  /\ u.hand_state \notin {"OK", "EARLY_DATA"}
  /\ One(Served(u)) = One(Served(v)) + One(r \in LateAnswers)
  /\ Waiting(u) <=> Waiting(v)

\* A message that ends no answer to a late request.
LEMMA NotAnswered ==
  ASSUME NEW v, NEW u, NEW r, ~ Served(u), ~ Served(v),
         r.type # "FINISHED" \/ r.key < ApplicationKey, r \in Rec
  PROVE  One(Served(u)) = One(Served(v)) + One(r \in LateAnswers)
<1>1. One(r \in LateAnswers) = 0
  <2>1. r.key \in Nat
    BY DEF Rec
  <2> QED BY <2>1 DEF One, LateAnswers, ApplicationKey
<1> QED BY <1>1 DEF One

\* What the server is before it reads.
LEMMA ServerBefore ==
  ASSUME NEW v, NEW r, NEW h, NEW u, ServerHeard(v, r, h, u)
  PROVE  /\ v \in Conn /\ u \in Conn /\ r \in Rec /\ ServerOK(conf, v)
         /\ conf \in AllConfigurations
         /\ ServerAt(conf, v) /\ v.flow = "reading" /\ ServerHears(v, r, h) /\ v.in_init
         /\ ~ Served(v)
         /\ v.hand_state \in ServerReading /\ v.hand_state # "SW_CERT_REQ" /\ r.key = v.rkey
<1>1. /\ ServerAt(conf, v) /\ v.flow = "reading"
  BY DEF ServerHeard
<1>2. v.hand_state \in ServerReading /\ v.in_init
  BY <1>1 DEF ServerAt, ServerCall, ServerReading
<1> QED BY <1>2 DEF ServerHeard, ServerReading, ServerAnswer, Served

\* A ClientHello.
LEMMA ClientHelloTaken ==
  ASSUME NEW v, NEW r, NEW h, NEW u, ServerHeard(v, r, h, u), r.type = "CLIENT_HELLO"
  PROVE  ServerTook(v, r, u)
<1>1. /\ v \in Conn /\ u \in Conn /\ r \in Rec /\ ServerOK(conf, v) /\ conf \in AllConfigurations
      /\ ServerAt(conf, v) /\ v.flow = "reading" /\ ServerHears(v, r, h) /\ v.in_init
      /\ ~ Served(v)
      /\ v.hand_state \in ServerReading /\ r.key = v.rkey
  BY ServerBefore
<1>2. /\ h = "SR_CLNT_HELLO"
      /\ \/ /\ v.hand_state = "BEFORE" /\ (r.arg = IF conf.early THEN "early" ELSE "none")
            /\ v.hello_retry_request = "NONE"
         \/ /\ v.hand_state = "EARLY_DATA" /\ v.hello_retry_request = "PENDING" /\ r.arg = "none"
            /\ conf.retry
  BY <1>1 DEF ServerHears, ServerAt, ServerKnows, ServerOK, ServerKeys
<1>3. /\ v.fin = {} /\ v.rkey = Plain /\ v.cert = "none" /\ v.wkey = Plain /\ ~ v.cert_request
      /\ v.pha \in {"NONE", "EXT_RECEIVED"} /\ (~ conf.pha => v.pha = "NONE")
      /\ v.early_data = (IF v.hand_state = "BEFORE" THEN "NOT_SENT" ELSE Fate(conf))
  <2>1. v.fin \subseteq {"own", "peer"}
    BY <1>1, Typed
  <2>2. v.fin = {} /\ v.rkey = Plain /\ v.cert = "none"
    BY <1>1, <1>2, <2>1, ServerReader DEF ServerAnswer
  <2>3. v.wkey = Plain
    BY <1>1, <1>2 DEF ServerAt, ServerKey
  <2>4. ~ v.cert_request
    BY <1>1, <1>2, <2>2 DEF ServerAt, ServerAsks
  <2>5. v.pha \in {"NONE", "EXT_RECEIVED"} /\ (~ conf.pha => v.pha = "NONE")
    BY <1>1, <1>2, <2>2 DEF ServerAt, ServerAsks, ServerKnows
  <2>6. v.early_data = (IF v.hand_state = "BEFORE" THEN "NOT_SENT" ELSE Fate(conf))
    BY <1>1 DEF ServerAt, ServerData
  <2> QED BY <2>2, <2>3, <2>4, <2>5, <2>6
<1>4. /\ conf.read_early \in BOOLEAN /\ conf.early \in BOOLEAN /\ conf.retry \in BOOLEAN
      /\ conf.psk \in BOOLEAN
      /\ conf.pha \in BOOLEAN
  BY <1>1, Configured
<1>5. /\ v.hand_state = "BEFORE" => v.early_data_state = IF conf.read_early THEN "ACCEPTING" ELSE "NONE"
      /\ v.early_data_state \in {"NONE", "ACCEPTING", "FINISHED_READING"}
      /\ v.early_data_state # "NONE" => conf.read_early
      /\ conf.read_early => v.early_data_state # "NONE"
  BY <1>1, <1>2, <1>4 DEF ServerAt, ServerData, Accepts
<1>6. /\ u.hand_state = "SR_CLNT_HELLO" /\ u.in_init /\ u.wkey = Plain /\ ~ u.cert_request
      /\ u.flow = "writing" /\ u.tls13 /\ u.hit = conf.psk /\ u.cert = "none" /\ u.fin = {}
      /\ u.early_data_state = v.early_data_state
      /\ u.hello_retry_request = (IF v.hand_state = "EARLY_DATA" THEN "COMPLETE"
                                  ELSE IF conf.retry THEN "PENDING" ELSE "NONE")
      /\ u.pha = (IF conf.pha THEN "EXT_RECEIVED" ELSE "NONE")
  BY <1>1, <1>2, <1>3 DEF ServerHeard
<1>7. u.early_data = Fate(conf) /\ u.rkey = (IF Accepts(conf) THEN EarlyKey ELSE Plain)
  <2>1. CASE v.hand_state = "BEFORE"
    <3>1. /\ u.early_data = (IF conf.early /\ conf.psk /\ v.early_data_state = "ACCEPTING" /\ ~ conf.retry
                             THEN "ACCEPTED" ELSE IF conf.early THEN "REJECTED" ELSE "NOT_SENT")
          /\ u.rkey = (IF conf.early /\ conf.psk /\ v.early_data_state = "ACCEPTING" /\ ~ conf.retry
                       THEN EarlyKey ELSE Plain)
      BY <1>2, <1>3, <1>4, <2>1 DEF ServerHeard
    <3> QED BY <1>4, <1>5, <2>1, <3>1 DEF Fate, Accepts
  <2>2. CASE v.hand_state = "EARLY_DATA"
    <3>1. u.early_data = v.early_data /\ u.rkey = Plain /\ ~ Accepts(conf)
      BY <1>2, <1>3, <2>2 DEF ServerHeard, Accepts
    <3> QED BY <1>3, <2>2, <3>1
  <2> QED BY <1>2, <2>1, <2>2
<1>8. ServerAt(conf, u)
  <2>1. ServerCall(u)
    BY <1>6 DEF ServerCall, ServerAnswer
  <2>2. ServerKnows(conf, u)
    BY <1>2, <1>4, <1>6 DEF ServerKnows, ServerHellos
  <2>3. ServerFar(u)
    BY <1>6 DEF ServerFar, ServerLate, ServerAnswer
  <2>4. ServerData(conf, u)
    <3>1. conf.read_early /\ ~ conf.retry => v.early_data_state = "ACCEPTING"
      BY <1>2, <1>4, <1>5
    <3> QED BY <1>4, <1>5, <1>6, <1>7, <3>1 DEF ServerData, ServerAnswer
  <2>5. ServerAsks(conf, u)
    BY <1>4, <1>6 DEF ServerAsks, ServerAnswer, ServerHellos
  <2>6. ServerKey(conf, u)
    <3>1. Accepts(conf) => ~ conf.retry
      BY DEF Accepts
    <3> QED BY <1>2, <1>4, <1>6, <1>7, <3>1 DEF ServerKey, ServerAnswer
  <2> QED BY <2>1, <2>2, <2>3, <2>4, <2>5, <2>6 DEF ServerAt
<1>9. ServerSaid(u) = ServerSaid(v)
  BY <1>2, <1>3, <1>4, <1>6 DEF ServerSaid
<1>10. ServerTakes(conf, v, r, u)
  <2>1. ServerPlace(conf, v) = IF v.hand_state = "BEFORE" THEN Place("HELLO", Plain, "none")
                               ELSE Place("AGAIN", Plain, "none")
    BY <1>2, <1>3 DEF ServerPlace
  <2>2. ServerPlace(conf, u) = IF v.hand_state = "BEFORE"
          /\ conf.retry THEN Place("AGAIN", Plain, "none")
                               ELSE IF Accepts(conf) THEN Place("EARLY", EarlyKey, "none")
                               ELSE Place("ANSWER", HandshakeKey, "none")
    BY <1>2, <1>4, <1>6 DEF ServerPlace
  <2>3. CASE v.hand_state = "BEFORE"
    BY <2>1, <2>2, <2>3, PlaceFields DEF ServerTakes, ClientSays
  <2>4. CASE v.hand_state = "EARLY_DATA"
    BY <2>1, <2>2, <2>4, PlaceFields DEF ServerTakes, ClientSays
  <2> QED BY <1>2, <2>3, <2>4
<1>11. One(Served(u)) = One(Served(v)) + One(r \in LateAnswers)
  <2>1. ~ Served(u)
    BY <1>6 DEF Served
  <2> QED BY <1>1, <2>1, NotAnswered
<1>12. ~ Waiting(u) /\ ~ Waiting(v)
  BY <1>2, <1>3, <1>6 DEF Waiting
<1> QED BY <1>6, <1>8, <1>9, <1>10, <1>11, <1>12 DEF ServerTook

\* EndOfEarlyData.
LEMMA EndTaken ==
  ASSUME NEW v, NEW r, NEW h, NEW u, ServerHeard(v, r, h, u), r.type = "END_OF_EARLY_DATA"
  PROVE  ServerTook(v, r, u)
<1>1. /\ v \in Conn /\ u \in Conn /\ r \in Rec /\ ServerOK(conf, v) /\ conf \in AllConfigurations
      /\ ServerAt(conf, v) /\ v.flow = "reading" /\ ServerHears(v, r, h) /\ v.in_init
      /\ ~ Served(v)
      /\ v.hand_state \in ServerReading /\ r.key = v.rkey
  BY ServerBefore
<1>2. /\ h = "SR_END_OF_EARLY_DATA" /\ v.hand_state = "EARLY_DATA"
      /\ v.hello_retry_request # "PENDING"
      /\ Accepts(conf)
  BY <1>1 DEF ServerHears
<1>3. /\ "own" \in v.fin /\ "peer" \notin v.fin /\ v.cert = "none" /\ v.tls13
      /\ ServerPlace(conf, v) = Place("EARLY", EarlyKey, "none")
  BY <1>1, <1>2, ServerReader DEF ServerAnswer
<1>4. /\ u.hand_state = "SR_END_OF_EARLY_DATA" /\ u.in_init /\ u.wkey = v.wkey
      /\ u.cert_request = v.cert_request
      /\ u.flow = "reading" /\ u.tls13 /\ u.hit = v.hit /\ u.cert = "none" /\ u.fin = v.fin
      /\ u.early_data_state = "FINISHED_READING" /\ u.hello_retry_request = v.hello_retry_request
      /\ u.pha = v.pha /\ u.early_data = v.early_data /\ u.rkey = HandshakeKey
  BY <1>1, <1>2, <1>3 DEF ServerHeard
<1>5. ServerAt(conf, u)
  <2>1. ServerCall(u)
    BY <1>4 DEF ServerCall, ServerAnswer
  <2>2. ServerKnows(conf, u)
    BY <1>1, <1>2, <1>3, <1>4 DEF ServerKnows, ServerHellos, ServerAt
  <2>3. ServerFar(u)
    BY <1>3, <1>4 DEF ServerFar, ServerLate, ServerAnswer
  <2>4. ServerData(conf, u)
    BY <1>1, <1>2, <1>3, <1>4 DEF ServerData, ServerAt, ServerAnswer, Accepts
  <2>5. ServerAsks(conf, u)
    BY <1>1, <1>2, <1>3, <1>4 DEF ServerAsks, ServerAt, ServerAnswer, ServerHellos
  <2>6. ServerKey(conf, u)
    BY <1>2, <1>3, <1>4 DEF ServerKey, ServerAnswer
  <2> QED BY <2>1, <2>2, <2>3, <2>4, <2>5, <2>6 DEF ServerAt
<1>6. ServerSaid(u) = ServerSaid(v)
  BY <1>3, <1>4 DEF ServerSaid
<1>7. ServerTakes(conf, v, r, u)
  <2>1. ServerPlace(conf, u) = Place("ANSWER", HandshakeKey, "none")
    BY <1>2, <1>3, <1>4 DEF ServerPlace
  <2> QED BY <1>3, <2>1 DEF ServerTakes, ClientSays
<1>8. One(Served(u)) = One(Served(v)) + One(r \in LateAnswers)
  <2>1. ~ Served(u)
    BY <1>4 DEF Served
  <2> QED BY <1>1, <2>1, NotAnswered
<1>9. Waiting(u) <=> Waiting(v)
  BY <1>2, <1>4 DEF Waiting
<1> QED BY <1>4, <1>5, <1>6, <1>7, <1>8, <1>9 DEF ServerTook

\* Where the server is when the client answers, and what it has been asked for.
LEMMA AtAnswer ==
  ASSUME NEW v, NEW r, NEW h, NEW u, ServerHeard(v, r, h, u),
         r.type \in {"CERTIFICATE", "CERTIFICATE_VERIFY", "FINISHED", "KEY_UPDATE"}
  PROVE  /\ v \in Conn /\ u \in Conn /\ r \in Rec /\ ServerOK(conf, v)
         /\ conf \in AllConfigurations
         /\ ServerAt(conf, v) /\ v.flow = "reading" /\ ServerHears(v, r, h) /\ v.in_init
         /\ ~ Served(v)
         /\ r.key = v.rkey /\ v.rkey \in Nat /\ v.tls13 /\ "own" \in v.fin
         /\ v.early_data_state \notin {"ACCEPTING", "READ_RETRY"}
         /\ v.hello_retry_request # "PENDING"
         /\ v.hand_state \in {"EARLY_DATA", "SR_END_OF_EARLY_DATA", "OK"} \cup ServerAnswer
         /\ "peer" \notin v.fin =>
              /\ v.rkey = HandshakeKey /\ v.pha \in {"NONE", "EXT_RECEIVED"}
              /\ v.hand_state # "OK"
              /\ v.hand_state \notin ServerAnswer =>
                   v.cert = "none" /\ ServerPlace(conf, v) = Place("ANSWER", HandshakeKey, "none")
              /\ v.hand_state \in ServerAnswer => Asks(conf)
         /\ "peer" \in v.fin => v.rkey >= ApplicationKey /\ v.hand_state \in {"OK"} \cup ServerAnswer
         /\ v.hand_state = "OK" => ServerPlace(conf, v) = Place("APP", v.rkey, v.cert)
         /\ v.hand_state \in ServerAnswer =>
              /\ ServerPlace(conf, v) = Place(v.hand_state, v.rkey, v.cert)
              /\ "peer" \in v.fin => v.pha = "REQUESTED"
<1>1. /\ v \in Conn /\ u \in Conn /\ r \in Rec /\ ServerOK(conf, v) /\ conf \in AllConfigurations
      /\ ServerAt(conf, v) /\ v.flow = "reading" /\ ServerHears(v, r, h) /\ v.in_init
      /\ ~ Served(v)
      /\ v.hand_state \in ServerReading /\ r.key = v.rkey /\ v.rkey \in Nat
  BY ServerBefore, Typed
<1>2. \/ v.hand_state \in {"SR_END_OF_EARLY_DATA", "OK"} \cup ServerAnswer
      \/ v.hand_state = "EARLY_DATA" /\ v.hello_retry_request # "PENDING" /\ ~ Accepts(conf)
  BY <1>1 DEF ServerHears, ServerAnswer
<1>3. "peer" \notin v.fin => v.pha \in {"NONE", "EXT_RECEIVED"}
  BY <1>1 DEF ServerAt, ServerAsks
<1>4. v.early_data_state # "READ_RETRY"
  BY <1>1, <1>2 DEF ServerAt, ServerData, ServerAnswer
<1>5. CASE v.hand_state = "SR_END_OF_EARLY_DATA" \/ v.hand_state = "EARLY_DATA"
  <2>1. /\ "own" \in v.fin /\ "peer" \notin v.fin /\ v.rkey = HandshakeKey /\ v.cert = "none"
        /\ v.tls13
        /\ ServerPlace(conf, v) = Place("ANSWER", HandshakeKey, "none")
        /\ v.hello_retry_request # "PENDING"
    BY <1>1, <1>2, <1>5, ServerReader DEF ServerAnswer
  <2>2. v.early_data_state # "ACCEPTING"
    BY <1>1, <1>5 DEF ServerAt, ServerData
  <2> QED BY <1>1, <1>3, <1>4, <1>5, <2>1, <2>2 DEF ServerAnswer
<1>6. CASE v.hand_state \in ServerAnswer
  <2>1. /\ "own" \in v.fin /\ v.tls13
        /\ "peer" \notin v.fin => v.rkey = HandshakeKey /\ Asks(conf)
        /\ "peer" \in v.fin => v.rkey >= ApplicationKey /\ v.pha = "REQUESTED"
        /\ ServerPlace(conf, v) = Place(v.hand_state, v.rkey, v.cert)
    BY <1>1, <1>6, ServerReader DEF ServerAnswer
  <2>2. v.early_data_state # "ACCEPTING" /\ v.hello_retry_request # "PENDING"
    BY <1>1, <1>6 DEF ServerAt, ServerData, ServerKnows, ServerAnswer, ServerHellos
  <2> QED BY <1>1, <1>3, <1>4, <1>6, <2>1, <2>2 DEF ServerAnswer
<1>7. CASE v.hand_state = "OK"
  <2>1. /\ "own" \in v.fin /\ "peer" \in v.fin /\ v.rkey >= ApplicationKey /\ v.tls13
        /\ ServerPlace(conf, v) = Place("APP", v.rkey, v.cert)
    BY <1>1, <1>7, ServerReader DEF ServerAnswer
  <2>2. v.early_data_state # "ACCEPTING" /\ v.hello_retry_request # "PENDING"
    BY <1>1, <1>7, <2>1 DEF ServerAt, ServerData, ServerKnows, ServerHellos
  <2> QED BY <1>1, <1>4, <1>7, <2>1, <2>2 DEF ServerAnswer
<1> QED BY <1>2, <1>5, <1>6, <1>7

\* The certificate of the client.
LEMMA CertificateTaken ==
  ASSUME NEW v, NEW r, NEW h, NEW u, ServerHeard(v, r, h, u), r.type = "CERTIFICATE"
  PROVE  ServerTook(v, r, u)
<1>1. /\ r \in Rec /\ ServerAt(conf, v) /\ ServerHears(v, r, h) /\ ~ Served(v) /\ v.rkey \in Nat
      /\ v.in_init /\ v.tls13 /\ "own" \in v.fin /\ v.flow = "reading" /\ r.key = v.rkey
      /\ v.early_data_state \notin {"ACCEPTING", "READ_RETRY"}
      /\ v.hello_retry_request # "PENDING"
      /\ "peer" \notin v.fin =>
           /\ v.rkey = HandshakeKey /\ v.pha \in {"NONE", "EXT_RECEIVED"} /\ v.hand_state # "OK"
           /\ v.hand_state \notin ServerAnswer
                => ServerPlace(conf, v) = Place("ANSWER", HandshakeKey, "none")
      /\ "peer" \in v.fin => v.rkey >= ApplicationKey /\ v.hand_state \in {"OK"} \cup ServerAnswer
      /\ v.hand_state = "OK" => ServerPlace(conf, v) = Place("APP", v.rkey, v.cert)
  BY AtAnswer
<1>2. /\ h = "SR_CERT" /\ r.arg \in {"cert", "empty"}
      /\ \/ /\ "peer" \notin v.fin /\ Asks(conf)
            /\ v.hand_state \in {"EARLY_DATA", "SR_END_OF_EARLY_DATA"}
            /\ v.hand_state = "EARLY_DATA" => ~ Accepts(conf)
         \/ v.hand_state = "OK" /\ "peer" \in v.fin /\ v.pha = "REQUESTED"
  BY <1>1 DEF ServerHears
<1>3. /\ u.hand_state = "SR_CERT" /\ u.in_init /\ u.wkey = v.wkey
      /\ u.cert_request = v.cert_request
      /\ u.flow = "reading" /\ u.tls13 /\ u.hit = v.hit /\ u.cert = r.arg /\ u.fin = v.fin
      /\ u.early_data_state = v.early_data_state /\ u.hello_retry_request = v.hello_retry_request
      /\ u.pha = v.pha /\ u.early_data = v.early_data /\ u.rkey = v.rkey
  BY <1>1, <1>2 DEF ServerHeard
<1>4. ServerAt(conf, u)
  <2>1. ServerCall(u)
    BY <1>3 DEF ServerCall, ServerAnswer
  <2>2. ServerKnows(conf, u)
    BY <1>1, <1>2, <1>3 DEF ServerKnows, ServerHellos, ServerAt
  <2>3. ServerFar(u)
    BY <1>1, <1>2, <1>3 DEF ServerFar, ServerLate, ServerAnswer
  <2>4. ServerData(conf, u)
    BY <1>1, <1>2, <1>3 DEF ServerData, ServerAt, ServerAnswer
  <2>5. ServerAsks(conf, u)
    BY <1>1, <1>2, <1>3 DEF ServerAsks, ServerAt, ServerAnswer, ServerHellos
  <2>6. ServerKey(conf, u)
    BY <1>1, <1>2, <1>3 DEF ServerKey, ServerAnswer
  <2> QED BY <2>1, <2>2, <2>3, <2>4, <2>5, <2>6 DEF ServerAt
<1>5. ServerSaid(u) = ServerSaid(v)
  BY <1>1, <1>3 DEF ServerSaid
<1>6. ServerTakes(conf, v, r, u)
  <2>1. ServerPlace(conf, u) = Place("SR_CERT", v.rkey, r.arg)
    BY <1>3 DEF ServerPlace
  <2>2. ServerPlace(conf, v).key = v.rkey
    BY <1>1, <1>2, PlaceFields DEF ServerAnswer
  <2> QED BY <2>1, <2>2 DEF ServerTakes, ClientSays
<1>7. One(Served(u)) = One(Served(v)) + One(r \in LateAnswers)
  <2>1. ~ Served(u)
    BY <1>3 DEF Served
  <2> QED BY <1>1, <2>1, NotAnswered
<1>8. Waiting(u) <=> Waiting(v)
  BY <1>2, <1>3 DEF Waiting
<1> QED BY <1>3, <1>4, <1>5, <1>6, <1>7, <1>8 DEF ServerTook

\* CertificateVerify.
LEMMA VerifyTaken ==
  ASSUME NEW v, NEW r, NEW h, NEW u, ServerHeard(v, r, h, u), r.type = "CERTIFICATE_VERIFY"
  PROVE  ServerTook(v, r, u)
<1>1. /\ r \in Rec /\ ServerAt(conf, v) /\ ServerHears(v, r, h) /\ ~ Served(v) /\ v.rkey \in Nat
      /\ v.in_init /\ v.tls13 /\ "own" \in v.fin /\ v.flow = "reading" /\ r.key = v.rkey
      /\ v.early_data_state \notin {"ACCEPTING", "READ_RETRY"}
      /\ v.hello_retry_request # "PENDING"
      /\ "peer" \notin v.fin => v.rkey = HandshakeKey /\ v.pha \in {"NONE", "EXT_RECEIVED"}
      /\ "peer" \in v.fin => v.rkey >= ApplicationKey
      /\ v.hand_state \in ServerAnswer =>
           /\ ServerPlace(conf, v) = Place(v.hand_state, v.rkey, v.cert)
           /\ "peer" \in v.fin => v.pha = "REQUESTED"
           /\ "peer" \notin v.fin => Asks(conf)
  BY AtAnswer
<1>2. h = "SR_CERT_VRFY" /\ v.hand_state = "SR_CERT" /\ v.cert = "cert"
  BY <1>1 DEF ServerHears
<1>3. /\ u.hand_state = "SR_CERT_VRFY" /\ u.in_init /\ u.wkey = v.wkey
      /\ u.cert_request = v.cert_request
      /\ u.flow = "reading" /\ u.tls13 /\ u.hit = v.hit /\ u.cert = "cert" /\ u.fin = v.fin
      /\ u.early_data_state = v.early_data_state /\ u.hello_retry_request = v.hello_retry_request
      /\ u.pha = v.pha /\ u.early_data = v.early_data /\ u.rkey = v.rkey
  BY <1>1, <1>2 DEF ServerHeard
<1>4. ServerAt(conf, u)
  <2>1. ServerCall(u)
    BY <1>3 DEF ServerCall, ServerAnswer
  <2>2. ServerKnows(conf, u)
    BY <1>1, <1>2, <1>3 DEF ServerKnows, ServerHellos, ServerAt
  <2>3. ServerFar(u)
    BY <1>1, <1>2, <1>3 DEF ServerFar, ServerLate, ServerAnswer
  <2>4. ServerData(conf, u)
    BY <1>1, <1>2, <1>3 DEF ServerData, ServerAt, ServerAnswer
  <2>5. ServerAsks(conf, u)
    BY <1>1, <1>2, <1>3 DEF ServerAsks, ServerAt, ServerAnswer, ServerHellos
  <2>6. ServerKey(conf, u)
    BY <1>1, <1>2, <1>3 DEF ServerKey, ServerAnswer
  <2> QED BY <2>1, <2>2, <2>3, <2>4, <2>5, <2>6 DEF ServerAt
<1>5. ServerSaid(u) = ServerSaid(v)
  BY <1>1, <1>3 DEF ServerSaid
<1>6. ServerTakes(conf, v, r, u)
  <2>1. ServerPlace(conf, u) = Place("SR_CERT_VRFY", v.rkey, v.cert)
    BY <1>2, <1>3 DEF ServerPlace
  <2>2. ServerPlace(conf, v) = Place("SR_CERT", v.rkey, v.cert)
    BY <1>1, <1>2 DEF ServerAnswer
  <2> QED BY <2>1, <2>2, PlaceFields DEF ServerTakes, ClientSays
<1>7. One(Served(u)) = One(Served(v)) + One(r \in LateAnswers)
  <2>1. ~ Served(u)
    BY <1>3 DEF Served
  <2> QED BY <1>1, <2>1, NotAnswered
<1>8. Waiting(u) <=> Waiting(v)
  BY <1>2, <1>3 DEF Waiting
<1> QED BY <1>3, <1>4, <1>5, <1>6, <1>7, <1>8 DEF ServerTook

\* The client's Finished, of the handshake or after a late request.
LEMMA LastTaken ==
  ASSUME NEW v, NEW r, NEW h, NEW u, ServerHeard(v, r, h, u), r.type = "FINISHED"
  PROVE  ServerTook(v, r, u)
<1>1. /\ r \in Rec /\ ServerAt(conf, v) /\ ServerHears(v, r, h) /\ ~ Served(v) /\ v.rkey \in Nat
      /\ v.in_init /\ v.tls13 /\ "own" \in v.fin /\ v.flow = "reading" /\ r.key = v.rkey
      /\ v.early_data_state \notin {"ACCEPTING", "READ_RETRY"}
      /\ v.hello_retry_request # "PENDING"
      /\ v.hand_state \in {"EARLY_DATA", "SR_END_OF_EARLY_DATA", "OK"} \cup ServerAnswer
      /\ "peer" \notin v.fin =>
           /\ v.rkey = HandshakeKey /\ v.pha \in {"NONE", "EXT_RECEIVED"}
           /\ v.hand_state \notin ServerAnswer =>
                v.cert = "none" /\ ServerPlace(conf, v) = Place("ANSWER", HandshakeKey, "none")
      /\ "peer" \in v.fin => v.rkey >= ApplicationKey
      /\ v.hand_state \in ServerAnswer =>
           /\ ServerPlace(conf, v) = Place(v.hand_state, v.rkey, v.cert)
           /\ "peer" \in v.fin => v.pha = "REQUESTED"
  BY AtAnswer
<1>2. h = "SR_FINISHED" /\ ("peer" \in v.fin => v.hand_state \in ServerAnswer /\ v.pha = "REQUESTED")
  BY <1>1 DEF ServerHears, ServerAnswer
<1>3. /\ u.hand_state = "SR_FINISHED" /\ u.in_init /\ u.wkey = v.wkey
      /\ u.cert_request = v.cert_request
      /\ u.flow = "writing" /\ u.tls13 /\ u.hit = v.hit /\ u.cert = v.cert
      /\ u.fin = v.fin \cup {"peer"}
      /\ u.early_data_state = v.early_data_state /\ u.hello_retry_request = v.hello_retry_request
      /\ u.pha = v.pha /\ u.early_data = v.early_data
      /\ u.rkey = (IF "peer" \in v.fin THEN v.rkey ELSE ApplicationKey)
  BY <1>1, <1>2 DEF ServerHeard
<1>4. "own" \in u.fin /\ "peer" \in u.fin /\ u.rkey >= ApplicationKey
  BY <1>1, <1>3 DEF ApplicationKey
<1>5. ServerAt(conf, u)
  <2>1. ServerCall(u)
    BY <1>3 DEF ServerCall, ServerAnswer
  <2>2. ServerKnows(conf, u)
    BY <1>1, <1>2, <1>3 DEF ServerKnows, ServerHellos, ServerAt, ServerAnswer
  <2>3. ServerFar(u)
    BY <1>1, <1>3, <1>4 DEF ServerFar, ServerLate, ServerAnswer
  <2>4. ServerData(conf, u)
    BY <1>1, <1>2, <1>3, <1>4 DEF ServerData, ServerAt, ServerAnswer
  <2>5. ServerAsks(conf, u)
    <3>1. v.hand_state # "BEFORE"
      BY <1>1 DEF ServerAnswer
    <3>2. v.pha \in {"NONE", "EXT_RECEIVED", "REQUESTED"} /\ (conf.pha <=> v.pha # "NONE")
      BY <1>1, <1>2, <3>1 DEF ServerAt, ServerAsks
    <3> QED BY <1>3, <1>4, <3>2 DEF ServerAsks, ServerAnswer
  <2>6. ServerKey(conf, u)
    BY <1>1, <1>3, <1>4 DEF ServerKey, ServerAnswer
  <2> QED BY <2>1, <2>2, <2>3, <2>4, <2>5, <2>6 DEF ServerAt
<1>6. ServerSaid(u) = ServerSaid(v)
  BY <1>1, <1>3, <1>4 DEF ServerSaid
<1>7. ServerTakes(conf, v, r, u)
  <2>1. ServerPlace(conf, u) = Place("APP", u.rkey, v.cert)
    BY <1>3, <1>4 DEF ServerPlace
  <2>2. \E a : ServerPlace(conf, v) = Place(a, v.rkey, v.cert)
    BY <1>1, <1>2
  <2>3. u.rkey = IF v.rkey = HandshakeKey THEN ApplicationKey ELSE v.rkey
    BY <1>1, <1>3 DEF HandshakeKey, ApplicationKey
  <2> QED BY <2>1, <2>2, <2>3, PlaceFields DEF ServerTakes, ClientSays
<1>8. One(Served(u)) = One(Served(v)) + One(r \in LateAnswers)
  <2>1. Served(u) <=> "peer" \in v.fin
    BY <1>1, <1>2, <1>3 DEF Served
  <2>2. r \in LateAnswers <=> "peer" \in v.fin
    BY <1>1 DEF LateAnswers, HandshakeKey, ApplicationKey
  <2> QED BY <1>1, <2>1, <2>2 DEF One
<1>9. Waiting(u) <=> Waiting(v)
  BY <1>1, <1>3 DEF Waiting, ServerAnswer
<1> QED BY <1>3, <1>5, <1>6, <1>7, <1>8, <1>9 DEF ServerTook

\* A KeyUpdate.
LEMMA RekeyTaken ==
  ASSUME NEW v, NEW r, NEW h, NEW u, ServerHeard(v, r, h, u), r.type = "KEY_UPDATE"
  PROVE  ServerTook(v, r, u)
<1>1. /\ r \in Rec /\ ServerAt(conf, v) /\ ServerHears(v, r, h) /\ ~ Served(v) /\ v.rkey \in Nat
      /\ v.in_init /\ v.tls13 /\ "own" \in v.fin /\ v.flow = "reading" /\ r.key = v.rkey
      /\ v.early_data_state \notin {"ACCEPTING", "READ_RETRY"}
      /\ v.hello_retry_request # "PENDING"
      /\ "peer" \notin v.fin => v.hand_state # "OK"
      /\ "peer" \in v.fin => v.rkey >= ApplicationKey
      /\ v.hand_state = "OK" => ServerPlace(conf, v) = Place("APP", v.rkey, v.cert)
  BY AtAnswer
<1>2. h = "SR_KEY_UPDATE" /\ v.hand_state = "OK" /\ "peer" \in v.fin
  BY <1>1 DEF ServerHears
<1>3. /\ u.hand_state = "SR_KEY_UPDATE" /\ u.in_init /\ u.wkey = v.wkey
      /\ u.cert_request = v.cert_request
      /\ u.flow = "writing" /\ u.tls13 /\ u.hit = v.hit /\ u.cert = v.cert /\ u.fin = v.fin
      /\ u.early_data_state = v.early_data_state /\ u.hello_retry_request = v.hello_retry_request
      /\ u.pha = v.pha /\ u.early_data = v.early_data /\ u.rkey = v.rkey + 1
  BY <1>1, <1>2 DEF ServerHeard
<1>4. ServerAt(conf, u)
  <2>1. ServerCall(u)
    BY <1>3 DEF ServerCall, ServerAnswer
  <2>2. ServerKnows(conf, u)
    BY <1>1, <1>2, <1>3 DEF ServerKnows, ServerHellos, ServerAt
  <2>3. ServerFar(u)
    BY <1>1, <1>2, <1>3 DEF ServerFar, ServerLate, ServerAnswer
  <2>4. ServerData(conf, u)
    BY <1>1, <1>2, <1>3 DEF ServerData, ServerAt, ServerAnswer
  <2>5. ServerAsks(conf, u)
    BY <1>1, <1>2, <1>3 DEF ServerAsks, ServerAt, ServerAnswer, ServerHellos
  <2>6. ServerKey(conf, u)
    <3>1. u.rkey >= ApplicationKey
      BY <1>1, <1>2, <1>3 DEF ApplicationKey
    <3> QED BY <1>1, <1>2, <1>3, <3>1 DEF ServerKey, ServerAnswer
  <2> QED BY <2>1, <2>2, <2>3, <2>4, <2>5, <2>6 DEF ServerAt
<1>5. ServerSaid(u) = ServerSaid(v)
  BY <1>1, <1>3 DEF ServerSaid
<1>6. ServerTakes(conf, v, r, u)
  <2>1. ServerPlace(conf, u) = Place("APP", v.rkey + 1, v.cert)
    BY <1>2, <1>3 DEF ServerPlace
  <2>2. ServerPlace(conf, v) = Place("APP", v.rkey, v.cert)
    BY <1>1, <1>2
  <2> QED BY <2>1, <2>2, PlaceFields DEF ServerTakes, ClientSays
<1>7. One(Served(u)) = One(Served(v)) + One(r \in LateAnswers)
  <2>1. ~ Served(u)
    BY <1>3 DEF Served
  <2> QED BY <1>1, <2>1, NotAnswered
<1>8. Waiting(u) <=> Waiting(v)
  BY <1>2, <1>3 DEF Waiting
<1> QED BY <1>3, <1>4, <1>5, <1>6, <1>7, <1>8 DEF ServerTook

\* Whatever the server reads.
LEMMA ServerTakesIt ==
  ASSUME NEW v, NEW r, NEW h, NEW u, ServerHeard(v, r, h, u)
  PROVE  ServerTook(v, r, u)
<1>1. r.type \in {"CLIENT_HELLO", "END_OF_EARLY_DATA", "CERTIFICATE", "CERTIFICATE_VERIFY", "FINISHED",
                  "KEY_UPDATE"}
  BY DEF ServerHeard, ServerHears
<1> QED BY <1>1, ClientHelloTaken, EndTaken, CertificateTaken, VerifyTaken, LastTaken, RekeyTaken

\* The next record of the client is one the server may be told where it is.
LEMMA ServerNext ==
  ASSUME ProtectedInv, Joint, wire[Client] # << >>
  PROVE  LET r == NextRecord(Server)
         IN /\ r = Head(wire[Client]) /\ r \in Rec /\ RecordOK(conf, Client, r)
                 /\ ServerTold(tls[Server], r)
            /\ Peer(Server) = Client
<1> DEFINE r == Head(wire[Client])
<1>1. Peer(Server) = Client /\ NextRecord(Server) = r
  BY TwoSides DEF Peer, NextRecord
<1>2. RecordOK(conf, Client, r)
  BY <1>1, RecordRead, TwoSides
<1>3. ServerTold(tls[Server], r)
  <2>1. wire[Client] \in Seq(Rec)
    BY Both
  <2>2. PICK x : Path(conf, Client, wire[Client], ServerPlace(conf, tls[Server]), ClientSaid(conf,
            tls[Client], x))
    BY DEF Joint, ClientPath
  <2>3. PICK d \in Places : Says(conf, Client, ServerPlace(conf, tls[Server]), r, d)
    BY <2>1, <2>2, PathTail
  <2> QED BY <2>3, TwoSides DEF ServerTold, Says
<1> QED BY <1>1, <1>2, <1>3 DEF RecordOK

\* Where the server is while it reads data, and while it reads.
LEMMA ServerAtData ==
  ASSUME ProtectedInv, Joint, ReadsData(Server)
  PROVE  LET v == tls[Server]
         IN /\ v.flow = "idle" /\ ~ v.in_init
            /\ \/ v.hand_state = "OK" /\ v.early_data_state # "READ_RETRY"
               \/ v.hand_state = "EARLY_DATA" /\ v.early_data_state = "READ_RETRY"
<1> DEFINE v == tls[Server]
<1>1. ServerOK(conf, v) /\ ServerAt(conf, v)
  BY DEF ProtectedInv, Joint
<1>2. v.hand_state # "PENDING_EARLY_DATA_END"
  BY <1>1 DEF ServerOK, ServerStates
<1>3. v.early_data_state = "READ_RETRY" => v.hand_state = "EARLY_DATA"
  BY <1>1 DEF ServerAt, ServerData
<1> QED BY <1>2, <1>3 DEF ReadsData

\* In none of the states it reads in has it just been answered.
LEMMA ServerAtRead ==
  ASSUME ProtectedInv, Joint, Reads(Server)
  PROVE  tls[Server].hand_state \in ServerReading /\ ~ Served(tls[Server])
<1> DEFINE v == tls[Server]
<1>1. v.hand_state \in ServerReading
  <2>1. CASE v.flow = "reading"
    BY <2>1 DEF Joint, ServerAt, ServerCall, ServerReading
  <2>2. CASE ReadsData(Server)
    BY <2>2, ServerAtData DEF ServerReading
  <2> QED BY <2>1, <2>2 DEF Reads
<1> QED BY <1>1 DEF Served, ServerReading, ServerAnswer

\* There is one to be counted.
LEMMA HowManySome ==
  ASSUME NEW q \in Seq(Rec), NEW S, NEW j \in DOMAIN q, q[j] \in S
  PROVE  HowMany(q, S) >= 1
<1> DEFINE A == {i \in DOMAIN q : q[i] \in S}
<1>1. IsFiniteSet(A) /\ Cardinality(A) \in Nat
  BY HowManyNat DEF HowMany
<1>2. A # {}
  OBVIOUS
<1>3. Cardinality(A) # 0
  BY <1>1, <1>2, FS_EmptySet
<1> QED BY <1>1, <1>3 DEF HowMany

\* A certificate comes to a server past its handshake only when it has asked for it.
LEMMA CertificateAsked ==
  ASSUME ProtectedInv, Joint, wire[Client] # << >>, NextRecord(Server).type = "CERTIFICATE",
         tls[Server].hand_state = "OK", conf \in AllConfigurations
  PROVE  tls[Server].pha = "REQUESTED"
<1> DEFINE v == tls[Server]
           c == tls[Client]
           cq == wire[Client]
           vq == wire[Server]
           r == NextRecord(Server)
<1>1. /\ r = Head(cq) /\ r \in Rec /\ ServerTold(v, r) /\ cq \in Seq(Rec) /\ vq \in Seq(Rec)
      /\ ServerOK(conf, v) /\ ServerAt(conf, v) /\ RequestsOf(c, v, cq, vq)
  BY ServerNext, Both DEF ProtectedInv, Joint
<1>2. ServerPlace(conf, v) = Place("APP", v.rkey, v.cert) /\ v.rkey >= ApplicationKey
  BY <1>1, ServerReader DEF ServerReading, ServerAnswer
<1>3. r.key >= ApplicationKey
  BY <1>1, <1>2, PlaceFields DEF ServerTold, ClientSays
<1>4. 1 \in DOMAIN cq /\ cq[1] = r
  BY <1>1
<1> HIDE DEF v, c, cq, vq, r
<1>5. Answers(c) \/ \E j \in DOMAIN cq : cq[j] \in LateAnswers
  BY <1>1, <1>3, <1>4 DEF RequestsOf, r
<1> DEFINE a == HowMany(vq, LateRequests)
           b == HowMany(cq, LateAnswers)
           m == One(Answers(c))
           n == One(Served(v))
<1>6. a \in Nat /\ b \in Nat /\ m \in Nat /\ n \in Nat /\ a + m + b + n = One(Waiting(v))
  BY <1>1, HowManyNat DEF One, RequestsOf
<1>7. m >= 1 \/ b >= 1
  <2>1. CASE Answers(c)
    BY <2>1 DEF One
  <2>2. CASE \E j \in DOMAIN cq : cq[j] \in LateAnswers
    BY <1>1, <2>2, HowManySome
  <2> QED BY <1>5, <2>1, <2>2
<1> HIDE DEF a, b, m, n
<1>8. One(Waiting(v)) # 0
  BY <1>6, <1>7
<1>9. Waiting(v)
  BY <1>8 DEF One
<1> QED BY <1>9 DEF Waiting, v

\* What the server may meet where it reads.
LEMMA ServerMeets ==
  ASSUME ProtectedInv, Joint, Tls13Assumption, wire[Client] # << >>, Reads(Server)
  PROVE  LET v == tls[Server]
             r == NextRecord(Server)
         IN \/ ServerPassesOver(v, r)
            \/ r.type = "DATA" /\ r.key = v.rkey /\ v.hand_state = "EARLY_DATA"
                 /\ v.early_data_state = "READ_RETRY"
            \/ r.type = "DATA" /\ r.key = v.rkey /\ v.hand_state = "OK"
            \/ /\ ServerHears(v, r, ServerReadTransition(v, r.type))
               /\ ServerReadTransition(v, r.type) # Wrong
               /\ r.key = v.rkey /\ r.type \notin {"CCS", "DATA"}
<1> DEFINE v == tls[Server]
           r == NextRecord(Server)
<1>1. ServerOK(conf, v) /\ ServerAt(conf, v) /\ conf \in AllConfigurations
  BY DEF ProtectedInv, Joint, Tls13Assumption
<1>2. r \in Rec /\ ServerTold(v, r)
  BY ServerNext
<1>3. v.hand_state \in ServerReading
  BY ServerAtRead
<1>4. r.type = "CERTIFICATE" /\ v.hand_state = "OK" => v.pha = "REQUESTED"
  BY <1>1, CertificateAsked
<1> HIDE DEF v, r
<1>5. \/ ServerPassesOver(v, r)
      \/ r.type = "DATA" /\ r.key = v.rkey /\ v.hand_state = "EARLY_DATA"
           /\ v.early_data_state = "READ_RETRY"
      \/ r.type = "DATA" /\ r.key = v.rkey /\ v.hand_state = "OK"
      \/ /\ ServerHears(v, r, ServerReadTransition(v, r.type))
         /\ ServerReadTransition(v, r.type) # Wrong
         /\ r.key = v.rkey /\ r.type \notin {"CCS", "DATA"}
  BY <1>1, <1>2, <1>3, <1>4, ServerHearing
<1> QED BY <1>5 DEF v, r

\* It refuses nothing.
LEMMA ServerRefusesNothing ==
  ASSUME ProtectedInv, Joint, Tls13Assumption, wire[Client] # << >>, Reads(Server),
         ~ DropsCCS(Server),
         ~ (Undecipherable(Server) /\ SkipEarlyData(Server, tls[Server]))
  PROVE  LET v == tls[Server]
             r == NextRecord(Server)
         IN /\ ~ Refused(Server) /\ r.type # "CCS" /\ r.key = v.rkey
            /\ v.flow = "reading" => ServerHears(v, r, ServerReadTransition(v, r.type))
                 /\ r.type # "DATA"
<1> DEFINE v == tls[Server]
           r == NextRecord(Server)
<1>1. ~ ServerPassesOver(v, r)
  <2> SUFFICES ASSUME ServerPassesOver(v, r) PROVE FALSE
    OBVIOUS
  <2>1. CASE r.type = "CCS" /\ r.key = Plain /\ v.tls13 /\ "peer" \notin v.fin
    BY <2>1 DEF DropsCCS, FirstHandshake
  <2>2. CASE /\ r.key = EarlyKey /\ v.rkey # EarlyKey /\ v.early_data = "REJECTED"
             /\ v.hand_state = "EARLY_DATA" /\ v.hello_retry_request # "COMPLETE"
    BY <2>2 DEF Undecipherable, SkipEarlyData
  <2> QED BY <2>1, <2>2 DEF ServerPassesOver
<1>2. \/ r.type = "DATA" /\ r.key = v.rkey /\ v.hand_state = "EARLY_DATA"
           /\ v.early_data_state = "READ_RETRY"
      \/ r.type = "DATA" /\ r.key = v.rkey /\ v.hand_state = "OK"
      \/ /\ ServerHears(v, r, ServerReadTransition(v, r.type))
         /\ ServerReadTransition(v, r.type) # Wrong
         /\ r.key = v.rkey /\ r.type \notin {"CCS", "DATA"}
  BY <1>1, ServerMeets
<1>3. v.flow = "reading" /\ (v.hand_state = "OK" \/ v.early_data_state = "READ_RETRY")
        => r.type # "DATA"
  <2>1. Finds(v, wire[Client]) /\ r = Head(wire[Client])
    BY ServerNext DEF Joint
  <2> QED BY <2>1 DEF Finds, Message
<1>4. ReadTransition(Server, r.type) = ServerReadTransition(v, r.type)
  BY TwoSides DEF ReadTransition
<1> QED BY <1>2, <1>3, <1>4 DEF Refused, Undecipherable

\* The server reads a message.
LEMMA ServerReadsMessage ==
  ASSUME ProtectedInv, Joint, Tls13Assumption, ReadMessage(Server)
  PROVE  Joint'
<1> DEFINE v == tls[Server]
           r == NextRecord(Server)
           h == ReadTransition(Server, r.type)
           t == [v EXCEPT !.hand_state = h]
           w == [v EXCEPT !.hand_state = h,
                          !.pha = IF r.type = "CERTIFICATE_REQUEST" /\ v.hand_state = "OK"
                                  THEN "REQUESTED" ELSE @]
<1>1. /\ wire[Client] # << >> /\ Reads(Server) /\ ~ DropsCCS(Server) /\ Peer(Server) = Client
      /\ ~ (Undecipherable(Server) /\ SkipEarlyData(Server, tls[Server]))
      /\ UNCHANGED <<conf, calls, got>> /\ wire' = [wire EXCEPT ![Client] = Tail(@)]
  BY TwoSides DEF ReadMessage, Reads, Peer, Consume
<1>2. /\ r = Head(wire[Client]) /\ RecordOK(conf, Client, r) /\ ServerOK(conf, v)
      /\ ServerAt(conf, v)
      /\ conf \in Configurations /\ v \in Conn
  BY <1>1, ServerNext DEF ProtectedInv, Joint, ServerOK
<1>3. ~ Refused(Server) /\ r.key = v.rkey
  BY <1>1, ServerRefusesNothing
<1>4. v.flow = "reading"
  BY <1>3 DEF ReadMessage
<1>5. h = ServerReadTransition(v, r.type)
  BY TwoSides DEF ReadTransition
<1>6. h # Wrong /\ ServerHears(v, r, h) /\ r.type # "DATA"
  BY <1>1, <1>3, <1>4, <1>5, ServerRefusesNothing DEF Refused
<1>7. w = t
  <2>1. r.type # "CERTIFICATE_REQUEST"
    BY <1>6 DEF ServerHears
  <2> HIDE DEF v, r, h
  <2> QED BY <1>2, <2>1 DEF Conn
<1> DEFINE u == ServerProcess(t, r)
<1>8. tls' = [tls EXCEPT ![Server] = u]
  <2>1. PICK x \in Processed(Server) : tls' = [tls EXCEPT ![Server] = x]
    BY DEF ReadMessage
  <2>2. x = ServerProcess(w, r)
    BY <1>3, <2>1, TwoSides DEF Processed
  <2> QED BY <1>7, <2>1, <2>2
<1> HIDE DEF h, t, v, r, u, w
<1>9. ServerHeard(v, r, h, u)
  BY <1>2, <1>3, <1>4, <1>5, <1>6, ServerHasHeard DEF t, u
<1>10. ServerTook(v, r, u)
  BY <1>9, ServerTakesIt
<1>11. Finds(u, Tail(wire[Client]))
  BY <1>10, ServerFinds DEF ServerTook
<1>12. DataOf(conf)'
  BY <1>1, <1>2, <1>6, DataNotRead, TwoSides DEF r
<1> QED BY <1>1, <1>2, <1>8, <1>10, <1>11, <1>12, ServerTaking DEF ServerTook, v

\* The server is given data, early data if it comes under the early key, or passes over early
\* data it has not accepted.
LEMMA ServerGiven ==
  ASSUME ProtectedInv, CallsInv, Joint, wire[Client] # << >>, UNCHANGED <<conf, calls>>,
         wire' = [wire EXCEPT ![Client] = Tail(@)], Head(wire[Client]).type = "DATA",
         \/ /\ Head(wire[Client]).key = EarlyKey /\ Accepts(conf)
            /\ got' = [got EXCEPT ![Server].early = @ + 1]
         \/ /\ Head(wire[Client]).key # EarlyKey
            /\ got' = [got EXCEPT ![Server].data = @ + 1]
         \/ Head(wire[Client]).key = EarlyKey /\ ~ Accepts(conf) /\ got' = got
  PROVE  DataOf(conf)'
<1> DEFINE r == Head(wire[Client])
           a == HowMany(wire[Client], AppData)
           b == HowMany(wire'[Client], AppData)
           d == HowMany(wire[Client], EarlyData)
           e == HowMany(wire'[Client], EarlyData)
           g == got[Server].data
           k == got[Server].early
<1>1. /\ a = b + One(r \in AppData) /\ a \in Nat /\ b \in Nat
      /\ d = e + One(r \in EarlyData) /\ d \in Nat /\ e \in Nat
      /\ wire'[Server] = wire[Server]
  BY Fewer, TwoSides DEF Peer
<1>2. r \in Rec
  BY ServerNext
<1>3. /\ r.key = EarlyKey => One(r \in AppData) = 0 /\ One(r \in EarlyData) = 1
      /\ r.key # EarlyKey => One(r \in AppData) = 1 /\ One(r \in EarlyData) = 0
  BY <1>2 DEF One, AppData, EarlyData
<1>4. /\ g \in Nat /\ k \in Nat /\ got[Server] \in [early : Nat, data : Nat]
      /\ calls[Client].data \in Nat /\ calls[Client].early \in Nat
  BY Numbers, TwoSides DEF CallsInv
<1>5. /\ g + a >= calls[Client].data /\ (Accepts(conf) => k + d = calls[Client].early)
      /\ (~ Accepts(conf) => k = 0)
      /\ got[Client].data + HowMany(wire[Server], Data) = calls[Server].data
  BY DEF Joint, DataOf
<1> DEFINE P == /\ got'[Client] = got[Client] /\ conf' = conf /\ calls' = calls
                /\ got'[Server].data + b >= calls[Client].data
                /\ Accepts(conf) => got'[Server].early + e = calls[Client].early
                /\ ~ Accepts(conf) => got'[Server].early = 0
<1>6. ASSUME r.key = EarlyKey /\ Accepts(conf) /\ got' = [got EXCEPT ![Server].early = @ + 1]
      PROVE  P
  <2>1. got'[Client] = got[Client] /\ got'[Server].early = k + 1 /\ got'[Server].data = g
    BY <1>4, <1>6, TwoSides DEF CallsInv
  <2>2. a = b /\ d = e + 1
    BY <1>1, <1>3, <1>6
  <2> HIDE DEF a, b, d, e, g, k
  <2>3. (k + 1) + e = calls[Client].early /\ g + b >= calls[Client].data
    BY <1>1, <1>4, <1>5, <1>6, <2>2
  <2> QED BY <1>6, <2>1, <2>3
<1>7. ASSUME r.key # EarlyKey /\ got' = [got EXCEPT ![Server].data = @ + 1]
      PROVE  P
  <2>1. got'[Client] = got[Client] /\ got'[Server].early = k /\ got'[Server].data = g + 1
    BY <1>4, <1>7, TwoSides DEF CallsInv
  <2>2. a = b + 1 /\ d = e
    BY <1>1, <1>3, <1>7
  <2> HIDE DEF a, b, d, e, g, k
  <2>3. (g + 1) + b >= calls[Client].data
    BY <1>1, <1>4, <1>5, <2>2
  <2> QED BY <1>5, <2>1, <2>2, <2>3
<1>8. ASSUME r.key = EarlyKey /\ ~ Accepts(conf) /\ got' = got
      PROVE  P
  <2>1. a = b
    BY <1>1, <1>3, <1>8
  <2> QED BY <1>5, <1>8, <2>1
<1>9. P
  BY <1>6, <1>7, <1>8
<1> QED BY <1>1, <1>5, <1>9 DEF DataOf

\* It passes over a ChangeCipherSpec or early data.
LEMMA ServerPassing ==
  ASSUME ProtectedInv, CallsInv, Joint, Tls13Assumption, PassOver(Server)
  PROVE  Joint'
<1> DEFINE v == tls[Server]
           r == NextRecord(Server)
<1>1. /\ wire[Client] # << >> /\ Peer(Server) = Client /\ Reads(Server)
      /\ UNCHANGED <<conf, calls, got>> /\ wire' = [wire EXCEPT ![Client] = Tail(@)] /\ tls' = tls
      /\ r.type = "CCS" \/ r.key # v.rkey
  BY TwoSides DEF PassOver, Peer, Consume, DropsCCS, Undecipherable
<1>2. r = Head(wire[Client]) /\ r \in Rec /\ ServerAt(conf, v) /\ Finds(v, wire[Client])
  BY <1>1, ServerNext DEF Joint
<1>3. r.type = "CCS" \/ (r.type = "DATA" /\ r.key = EarlyKey /\ ~ Accepts(conf))
  BY <1>1, ServerMeets DEF ServerPassesOver
<1>4. ServerTakes(conf, v, r, v)
  BY <1>3 DEF ServerTakes, ClientSays
<1>5. tls' = [tls EXCEPT ![Server] = v]
  BY <1>1, TwoSides DEF ProtectedInv
<1>6. ~ Message(wire[Client])
  BY <1>2, <1>3 DEF Message
<1>7. Finds(v, Tail(wire[Client]))
  BY <1>2, <1>6 DEF Finds
<1>8. One(Served(v)) = One(Served(v)) + One(r \in LateAnswers)
  BY <1>1, <1>2, <1>3, NotAnswered, ServerAtRead
<1>9. DataOf(conf)'
  BY <1>1, <1>2, <1>3, DataNotRead, ServerGiven, TwoSides
<1> QED BY <1>1, <1>2, <1>4, <1>5, <1>7, <1>8, <1>9, ServerTaking

\* It reads data.
LEMMA ServerReadsData ==
  ASSUME ProtectedInv, CallsInv, Joint, Tls13Assumption, ReadData(Server)
  PROVE  Joint'
<1> DEFINE v == tls[Server]
           r == NextRecord(Server)
<1>1. /\ wire[Client] # << >> /\ Peer(Server) = Client /\ ReadsData(Server) /\ Reads(Server)
      /\ UNCHANGED <<conf, calls>> /\ wire' = [wire EXCEPT ![Client] = Tail(@)] /\ tls' = tls
      /\ r.type = "DATA" /\ r.key = v.rkey
      /\ got' = (IF v.early_data_state = "READ_RETRY"
                 THEN [got EXCEPT ![Server].early = @ + 1] ELSE [got EXCEPT ![Server].data = @ + 1])
  BY TwoSides DEF ReadData, Peer, Consume, Undecipherable, Reads
<1>2. /\ r = Head(wire[Client]) /\ r \in Rec /\ ServerAt(conf, v) /\ Finds(v, wire[Client])
      /\ ServerOK(conf, v) /\ conf \in AllConfigurations
  BY <1>1, ServerNext DEF Joint, ProtectedInv, Tls13Assumption
<1>3. /\ v.flow = "idle" /\ ~ v.in_init
      /\ \/ v.hand_state = "OK" /\ v.early_data_state # "READ_RETRY"
         \/ v.hand_state = "EARLY_DATA" /\ v.early_data_state = "READ_RETRY"
  BY <1>1, ServerAtData
<1>4. /\ v.early_data_state = "READ_RETRY" => r.key = EarlyKey /\ Accepts(conf)
      /\ v.early_data_state # "READ_RETRY" => r.key # EarlyKey
  <2>1. v.early_data_state = "READ_RETRY" => Accepts(conf)
    BY <1>2 DEF ServerAt, ServerData
  <2>2. v.hand_state \in ServerReading
    BY <1>1, ServerAtRead
  <2>3. CASE v.hand_state = "OK"
    <3>1. v.rkey >= ApplicationKey
      BY <1>2, <2>2, <2>3, ServerReader DEF ServerAnswer
    <3> QED BY <1>1, <1>3, <2>3, <3>1 DEF ApplicationKey, EarlyKey
  <2>4. CASE v.hand_state = "EARLY_DATA" /\ v.early_data_state = "READ_RETRY"
    <3>1. v.rkey = EarlyKey
      BY <1>2, <2>1, <2>2, <2>4, ServerReader DEF ServerAnswer
    <3> QED BY <1>1, <2>1, <2>4, <3>1
  <2> QED BY <1>3, <2>3, <2>4
<1>5. DataOf(conf)'
  BY <1>1, <1>2, <1>4, ServerGiven
<1>6. tls' = [tls EXCEPT ![Server] = v]
  BY <1>1, TwoSides DEF ProtectedInv
<1>7. Finds(v, Tail(wire[Client]))
  BY <1>2, <1>3, ServerFinds
<1>8. One(Served(v)) = One(Served(v)) + One(r \in LateAnswers)
  BY <1>1, <1>2, NotAnswered, ServerAtRead
<1>9. ServerTakes(conf, v, r, v)
  BY <1>1 DEF ServerTakes, ClientSays
<1> QED BY <1>1, <1>2, <1>5, <1>6, <1>7, <1>8, <1>9, ServerTaking

\* It finds a message where it was to read data.
LEMMA ServerFindsMessage ==
  ASSUME ProtectedInv, Joint, ReadFindsMessage(Server)
  PROVE  Joint'
<1> DEFINE v == tls[Server]
           r == NextRecord(Server)
           u == [v EXCEPT !.in_init = TRUE, !.flow = "writing"]
<1>1. /\ wire[Client] # << >> /\ Peer(Server) = Client /\ ReadsData(Server)
      /\ UNCHANGED <<conf, calls, got, wire>> /\ tls' = [tls EXCEPT ![Server] = u]
      /\ r.type \notin {"CCS", "DATA"} /\ r = Head(wire[Client])
  BY TwoSides DEF ReadFindsMessage, Peer, NextRecord, Refused, ProtectedInv
<1>2. ServerAt(conf, v) /\ v \in Conn
  BY DEF ProtectedInv, Joint, ServerOK
<1>3. v.hand_state \in {"OK", "EARLY_DATA"}
  BY <1>1, ServerAtData
<1>4. /\ u.hand_state = v.hand_state /\ u.flow = "writing" /\ u.in_init = TRUE
      /\ u.tls13 = v.tls13
      /\ u.rkey = v.rkey /\ u.wkey = v.wkey /\ u.hello_retry_request = v.hello_retry_request
      /\ u.hit = v.hit /\ u.cert = v.cert /\ u.fin = v.fin /\ u.early_data = v.early_data
      /\ u.pha = v.pha /\ u.early_data_state = v.early_data_state /\ u.key_update = v.key_update
      /\ u.cert_request = v.cert_request
  BY <1>2 DEF Conn
<1> HIDE DEF u, r
<1>5. ServerAt(conf, u)
  <2> HIDE DEF v
  <2>1. ServerCall(u)
    BY <1>3, <1>4 DEF ServerCall, ServerAnswer
  <2>2. ServerKnows(conf, u)
    BY <1>2, <1>4 DEF ServerKnows, ServerAt
  <2>3. ServerFar(u)
    BY <1>2, <1>4 DEF ServerFar, ServerAt
  <2>4. ServerData(conf, u)
    BY <1>2, <1>3, <1>4 DEF ServerData, ServerAt
  <2>5. ServerAsks(conf, u)
    BY <1>2, <1>4 DEF ServerAsks, ServerAt
  <2>6. ServerKey(conf, u)
    BY <1>2, <1>4 DEF ServerKey, ServerAt
  <2> QED BY <2>1, <2>2, <2>3, <2>4, <2>5, <2>6 DEF ServerAt
<1>6. ServerPlace(conf, u) = ServerPlace(conf, v) /\ ServerSaid(u) = ServerSaid(v)
  BY <1>4 DEF ServerPlace, ServerSaid
<1>7. WaitsFor(v, u, 0)
  BY <1>4, NothingChanged DEF Waiting, Served
<1>8. Finds(u, wire[Client])
  <2>1. Message(wire[Client])
    BY <1>1 DEF Message
  <2> HIDE DEF v
  <2> QED BY <1>4, <2>1 DEF Finds
<1>9. DataOf(conf)'
  BY <1>1, DataStays
<1> QED BY <1>1, <1>5, <1>6, <1>7, <1>8, <1>9, ServerStays

(***************************************************************************)
(* The calls of the applications                                           *)
(***************************************************************************)
\* A client that goes on with tls_write_early_data once it has begun to read has a server that
\* neither asks for another ClientHello nor accepts early data, and a server that asks for one
\* writes nothing before its Finished.
EarlyWritesHarmless ==
  \A f \in Configurations :
    /\ f.interleave => ~ f.retry /\ ~ Accepts(f)
    /\ f.hasty => ~ f.retry

\* What a call makes of a connection.
LEMMA CalledFields ==
  ASSUME NEW t \in Conn, NEW b, NEW x, NEW e, NEW k, NEW u, u = Called(t, b, x, e, k)
  PROVE  /\ u.hand_state = t.hand_state /\ u.flow = x /\ u.in_init = b /\ u.tls13 = t.tls13
         /\ u.rkey = t.rkey /\ u.wkey = t.wkey /\ u.hello_retry_request = t.hello_retry_request
         /\ u.hit = t.hit /\ u.cert = t.cert /\ u.fin = t.fin /\ u.early_data = t.early_data
         /\ u.pha = t.pha /\ u.early_data_state = e /\ u.key_update = k
         /\ u.cert_request = t.cert_request
BY DEF Called, Conn

\* A call that only sets these fields, for the client and for the server.
LEMMA ClientCalled ==
  ASSUME ProtectedInv, Joint, NEW b, NEW x, NEW e, NEW k, NEW u,
         u = Called(tls[Client], b, x, e, k),
         tls[Client].hand_state # "CW_CHANGE" \/ tls[Client].early_data_state # "CONNECTING",
         ClientCall(u), ClientData(conf, u)
  PROVE  /\ ClientAt(conf, u) /\ ClientPlace(u) = ClientPlace(tls[Client])
         /\ ClientSilent(conf, tls[Client], u) /\ (Answers(u) <=> Answers(tls[Client]))
<1> DEFINE c == tls[Client]
<1>1. c \in Conn /\ ClientAt(conf, c)
  BY DEF ProtectedInv, ClientOK, Joint
<1>2. /\ u.hand_state = c.hand_state /\ u.tls13 = c.tls13
      /\ u.rkey = c.rkey /\ u.wkey = c.wkey /\ u.hello_retry_request = c.hello_retry_request
      /\ u.hit = c.hit /\ u.cert = c.cert /\ u.fin = c.fin /\ u.pha = c.pha
  BY <1>1, CalledFields
<1>3. c.hand_state # "CW_CHANGE" \/ c.early_data_state # "CONNECTING"
  OBVIOUS
<1> HIDE DEF c
<1>4. ClientFar(u)
  BY <1>1, <1>2 DEF ClientFar, ClientAt
<1>5. ClientKnows(conf, u)
  BY <1>1, <1>2, <1>3 DEF ClientKnows, ClientAt
<1>6. ClientCert(conf, u)
  BY <1>1, <1>2 DEF ClientCert, ClientAt
<1>7. ClientKey(conf, u)
  BY <1>1, <1>2 DEF ClientKey, ClientAt
<1>8. ClientAt(conf, u)
  BY <1>4, <1>5, <1>6, <1>7 DEF ClientAt
<1>9. ClientPlace(u) = ClientPlace(c)
  BY <1>2 DEF ClientPlace
<1>10. ClientSilent(conf, c, u)
  BY <1>2 DEF ClientSilent, Shown, ClientSaid, Awaited
<1>11. Answers(u) <=> Answers(c)
  BY <1>2 DEF Answers
<1> QED BY <1>8, <1>9, <1>10, <1>11 DEF c

\* Such a call keeps the joint invariant, of the client,
LEMMA ClientIsCalled ==
  ASSUME ProtectedInv, Joint, NEW b, NEW x, NEW e, NEW k, NEW u,
         u = Called(tls[Client], b, x, e, k),
         tls[Client].hand_state # "CW_CHANGE" \/ tls[Client].early_data_state # "CONNECTING",
         ClientCall(u), ClientData(conf, u), tls' = [tls EXCEPT ![Client] = u], wire' = wire,
         conf' = conf,
         Finds(u, wire[Server]), DataOf(conf)'
  PROVE  Joint'
<1>1. /\ ClientAt(conf, u) /\ ClientPlace(u) = ClientPlace(tls[Client])
      /\ ClientSilent(conf, tls[Client], u) /\ (Answers(u) <=> Answers(tls[Client]))
  BY ClientCalled
<1> QED BY <1>1, ClientStays

\* and of the server.
LEMMA ServerIsCalled ==
  ASSUME ProtectedInv, Joint, NEW b, NEW x, NEW e, NEW k, NEW u,
         u = Called(tls[Server], b, x, e, k),
         ServerCall(u), ServerData(conf, u), tls' = [tls EXCEPT ![Server] = u], wire' = wire,
         conf' = conf,
         Finds(u, wire[Client]), DataOf(conf)'
  PROVE  Joint'
<1> DEFINE v == tls[Server]
<1>1. v \in Conn /\ ServerAt(conf, v)
  BY DEF ProtectedInv, ServerOK, Joint
<1>2. /\ u.hand_state = v.hand_state /\ u.tls13 = v.tls13 /\ u.cert_request = v.cert_request
      /\ u.rkey = v.rkey /\ u.wkey = v.wkey /\ u.hello_retry_request = v.hello_retry_request
      /\ u.hit = v.hit /\ u.cert = v.cert /\ u.fin = v.fin /\ u.pha = v.pha
  BY <1>1, CalledFields
<1>3. ServerAt(conf, u)
  <2> HIDE DEF v
  <2>1. ServerKnows(conf, u)
    BY <1>1, <1>2 DEF ServerKnows, ServerAt
  <2>2. ServerFar(u)
    BY <1>1, <1>2 DEF ServerFar, ServerAt
  <2>3. ServerAsks(conf, u)
    BY <1>1, <1>2 DEF ServerAsks, ServerAt
  <2>4. ServerKey(conf, u)
    BY <1>1, <1>2 DEF ServerKey, ServerAt
  <2> QED BY <2>1, <2>2, <2>3, <2>4 DEF ServerAt
<1>4. ServerPlace(conf, u) = ServerPlace(conf, v) /\ ServerSaid(u) = ServerSaid(v)
  BY <1>2 DEF ServerPlace, ServerSaid
<1>5. WaitsFor(v, u, 0)
  BY <1>2, NothingChanged DEF Waiting, Served
<1> QED BY <1>3, <1>4, <1>5, ServerStays

\* The state machine is entered.
LEMMA EnteredCalled ==
  ASSUME NEW t \in Conn, NEW e
  PROVE  LET x == IF t.flow = "idle" THEN "writing" ELSE t.flow
         IN /\ Entered(t) = Called(t, TRUE, x, t.early_data_state, t.key_update)
            /\ [Entered(t) EXCEPT !.early_data_state = e] = Called(t, TRUE, x, e, t.key_update)
BY DEF Entered, Called, Conn

\* A call that enters the state machine of the client, or of the server, with e for the state
\* of its early data.
LEMMA ClientEntered ==
  ASSUME ProtectedInv, Joint, conf \in AllConfigurations, NEW e, UNCHANGED <<conf, wire, calls,
         got>>,
         tls' = [tls EXCEPT ![Client] = [Entered(@) EXCEPT !.early_data_state = e]],
         LET c == tls[Client]
         IN \/ /\ c.hand_state = "BEFORE" /\ c.flow = "idle"
               /\ e = IF conf.early THEN "CONNECTING" ELSE c.early_data_state
            \/ /\ c.hand_state \in {"EARLY_DATA", "PENDING_EARLY_DATA_END"}
               /\ e = c.early_data_state \/ (c.early_data_state = "WRITE_RETRY" /\ e = "FINISHED_WRITING")
            \/ c.hand_state = "OK" /\ c.flow = "idle" /\ e = c.early_data_state
               /\ (c.in_init \/ c.key_update # "NONE")
  PROVE  Joint'
<1> DEFINE c == tls[Client]
           x == IF c.flow = "idle" THEN "writing" ELSE c.flow
           k == c.key_update
           u == Called(c, TRUE, x, e, k)
<1>1. c \in Conn /\ ClientOK(conf, c) /\ ClientAt(conf, c) /\ Finds(c, wire[Server])
  BY DEF ProtectedInv, ClientOK, Joint
<1>2. tls' = [tls EXCEPT ![Client] = u]
  BY <1>1, EnteredCalled
<1>3. /\ u.hand_state = c.hand_state /\ u.flow = x /\ u.in_init = TRUE /\ u.tls13 = c.tls13
      /\ u.hello_retry_request = c.hello_retry_request /\ u.early_data = c.early_data
      /\ u.pha = c.pha /\ u.early_data_state = e /\ u.key_update = k /\ u.fin = c.fin
  <2> HIDE DEF c, x, k
  <2> QED BY <1>1 DEF Called, Conn
<1>4. \/ /\ c.hand_state = "BEFORE" /\ c.flow = "idle"
         /\ e = IF conf.early THEN "CONNECTING" ELSE c.early_data_state
      \/ /\ c.hand_state \in {"EARLY_DATA", "PENDING_EARLY_DATA_END"}
         /\ e = c.early_data_state \/ (c.early_data_state = "WRITE_RETRY" /\ e = "FINISHED_WRITING")
      \/ c.hand_state = "OK" /\ c.flow = "idle" /\ e = c.early_data_state
         /\ (c.in_init \/ c.key_update # "NONE")
  OBVIOUS
<1>5. conf.early \in BOOLEAN /\ DataOf(conf)'
  BY Configured, DataStays
<1>6. c.flow \in {"idle", "reading", "writing"} /\ c.hand_state # "CW_CHANGE"
  BY <1>1, <1>4, Typed DEF ClientAt, ClientCall
<1> HIDE DEF u
<1>7. ClientCall(u)
  <2> HIDE DEF c
  <2> QED BY <1>1, <1>3, <1>4, <1>6 DEF ClientCall, ClientAt, ServerFlight
<1>8. ClientData(conf, u)
  <2> HIDE DEF c, x
  <2>1. CASE c.hand_state = "BEFORE" /\ c.flow = "idle" /\ e = IF conf.early THEN "CONNECTING"
               ELSE c.early_data_state
    <3>1. u.flow = "writing" /\ ~ c.tls13 /\ c.hello_retry_request # "PENDING"
      BY <1>1, <1>3, <2>1 DEF x, ClientAt, ClientFar, ClientKnows
    <3>2. ~ conf.early => e = "NONE"
      BY <1>1, <2>1 DEF ClientAt, ClientData, Opened
    <3>3. e \in {"NONE", "CONNECTING"} /\ (e = "CONNECTING" <=> conf.early)
      BY <1>5, <2>1, <3>2
    <3> QED BY <1>1, <1>3, <2>1, <3>1, <3>3 DEF ClientData, ClientAt, Opened
  <2>2. CASE c.hand_state \in {"EARLY_DATA", "PENDING_EARLY_DATA_END", "OK"}
             /\ (e = c.early_data_state \/ (c.early_data_state = "WRITE_RETRY" /\ e = "FINISHED_WRITING"))
    BY <1>1, <1>3, <2>2 DEF ClientData, ClientAt, Opened
  <2> QED BY <1>4, <2>1, <2>2
<1>9. Finds(u, wire[Server])
  <2>1. u.early_data_state # "READ_RETRY"
    BY <1>8 DEF ClientData, Opened
  <2> HIDE DEF c, x
  <2>2. u.flow # "idle"
    BY <1>3 DEF x
  <2>3. u.hand_state = "OK" => u.key_update # "NONE" \/ u.pha = "REQUEST_PENDING"
    BY <1>1, <1>3, <1>4 DEF Finds, k
  <2>4. u.hand_state = "OK" => u.flow = "writing"
    BY <1>3, <1>4 DEF x
  <2> QED BY <2>1, <2>2, <2>3, <2>4 DEF Finds
<1> QED BY <1>2, <1>5, <1>6, <1>7, <1>8, <1>9, ClientIsCalled DEF u

\* The same for the server.
LEMMA ServerEntered ==
  ASSUME ProtectedInv, Joint, conf \in AllConfigurations, NEW e, UNCHANGED <<conf, wire, calls,
         got>>,
         tls' = [tls EXCEPT ![Server] = [Entered(@) EXCEPT !.early_data_state = e]],
         LET v == tls[Server]
         IN /\ v.flow = "idle"
            /\ \/ /\ v.hand_state = "BEFORE"
                  /\ e = IF conf.read_early THEN "ACCEPTING" ELSE v.early_data_state
               \/ v.hand_state = "EARLY_DATA" /\ v.early_data_state = "FINISHED_READING"
                    /\ e = v.early_data_state
               \/ v.hand_state = "OK" /\ e = v.early_data_state /\ (v.in_init \/ v.key_update # "NONE")
  PROVE  Joint'
<1> DEFINE v == tls[Server]
           k == v.key_update
           u == Called(v, TRUE, "writing", e, k)
<1>1. v \in Conn /\ ServerOK(conf, v) /\ ServerAt(conf, v) /\ Finds(v, wire[Client])
  BY DEF ProtectedInv, ServerOK, Joint
<1>2. /\ v.flow = "idle"
      /\ \/ /\ v.hand_state = "BEFORE"
            /\ e = IF conf.read_early THEN "ACCEPTING" ELSE v.early_data_state
         \/ v.hand_state = "EARLY_DATA" /\ v.early_data_state = "FINISHED_READING"
              /\ e = v.early_data_state
         \/ v.hand_state = "OK" /\ e = v.early_data_state /\ (v.in_init \/ v.key_update # "NONE")
  OBVIOUS
<1>3. tls' = [tls EXCEPT ![Server] = u]
  BY <1>1, <1>2, EnteredCalled
<1>4. /\ u.hand_state = v.hand_state /\ u.flow = "writing" /\ u.in_init = TRUE
      /\ u.early_data = v.early_data /\ u.early_data_state = e /\ u.key_update = k
      /\ u.pha = v.pha
      /\ u.fin = v.fin
  <2> HIDE DEF v, k
  <2> QED BY <1>1 DEF Called, Conn
<1>5. conf.read_early \in BOOLEAN /\ DataOf(conf)'
  BY Configured, DataStays
<1> HIDE DEF u
<1>6. ServerCall(u)
  BY <1>2, <1>4 DEF ServerCall, ServerAnswer
<1>7. ServerData(conf, u)
  <2> HIDE DEF v
  <2>1. CASE v.hand_state = "BEFORE" /\ e = IF conf.read_early THEN "ACCEPTING" ELSE v.early_data_state
    <3>1. ~ conf.read_early => e = "NONE"
      BY <1>1, <2>1 DEF ServerAt, ServerData
    <3>2. e = IF conf.read_early THEN "ACCEPTING" ELSE "NONE"
      BY <1>5, <2>1, <3>1
    <3>3. v.fin = {}
      BY <1>1, <2>1 DEF ServerAt, ServerKnows
    <3> QED BY <1>1, <1>4, <1>5, <2>1, <3>2, <3>3 DEF ServerData, ServerAt, ServerAnswer
  <2>2. CASE v.hand_state \in {"EARLY_DATA", "OK"} /\ e = v.early_data_state
    BY <1>1, <1>4, <2>2 DEF ServerData, ServerAt
  <2> QED BY <1>2, <2>1, <2>2
<1>8. Finds(u, wire[Client])
  <2>1. u.early_data_state # "READ_RETRY" \/ u.hand_state = "OK"
    BY <1>2, <1>4, <1>7 DEF ServerData
  <2>2. u.early_data_state = "READ_RETRY" => u.hand_state = "EARLY_DATA"
    BY <1>7 DEF ServerData
  <2> HIDE DEF v
  <2>3. u.hand_state = "OK" => u.key_update # "NONE" \/ u.pha = "REQUEST_PENDING"
    BY <1>1, <1>2, <1>4 DEF Finds, k
  <2> QED BY <1>4, <2>1, <2>2, <2>3 DEF Finds
<1> QED BY <1>3, <1>5, <1>6, <1>7, <1>8, ServerIsCalled DEF u

\* The records of s in X are more by the one that is sent.
LEMMA More ==
  ASSUME ProtectedInv, NEW s \in Sides, NEW r \in Rec, wire' = [wire EXCEPT ![s] = Append(@, r)],
         NEW X
  PROVE  /\ HowMany(wire'[s], X) = HowMany(wire[s], X) + One(r \in X)
         /\ HowMany(wire[s], X) \in Nat /\ wire'[Peer(s)] = wire[Peer(s)]
<1>1. wire[s] \in Seq(Rec) /\ wire'[s] = Append(wire[s], r) /\ wire'[Peer(s)] = wire[Peer(s)]
  BY Both, PeerSide DEF Peer, Sides
<1> QED BY <1>1, HowManyAppend, HowManyNat

\* The client sends data: early data under the early key, which counts if it is accepted, or
\* data under an application key.
LEMMA ClientDataSent ==
  ASSUME ProtectedInv, CallsInv, Joint, NEW r \in Rec, r.type = "DATA", UNCHANGED <<conf, got>>,
         wire' = [wire EXCEPT ![Client] = Append(@, r)], calls'[Server] = calls[Server],
         LET n == calls[Client]
             m == calls'[Client]
         IN \/ /\ r.key # EarlyKey /\ m.data \in {n.data, n.data + 1}
               /\ Accepts(conf) => m.early = n.early
            \/ r.key = EarlyKey /\ m.data = n.data /\ (Accepts(conf) => m.early = n.early + 1)
  PROVE  DataOf(conf)'
<1> DEFINE a == HowMany(wire[Client], AppData)
           b == HowMany(wire'[Client], AppData)
           d == HowMany(wire[Client], EarlyData)
           e == HowMany(wire'[Client], EarlyData)
           g == got[Server].data
           k == got[Server].early
           n == calls[Client]
           m == calls'[Client]
<1>1. /\ b = a + One(r \in AppData) /\ a \in Nat /\ e = d + One(r \in EarlyData) /\ d \in Nat
      /\ wire'[Server] = wire[Server]
  BY More, TwoSides DEF Peer
<1>2. /\ r.key = EarlyKey => One(r \in AppData) = 0 /\ One(r \in EarlyData) = 1
      /\ r.key # EarlyKey => One(r \in AppData) = 1 /\ One(r \in EarlyData) = 0
  BY DEF One, AppData, EarlyData
<1>3. g \in Nat /\ k \in Nat /\ n.data \in Nat /\ n.early \in Nat
  BY Numbers, TwoSides
<1>4. /\ g + a >= n.data /\ (Accepts(conf) => k + d = n.early)
      /\ (~ Accepts(conf) => k = 0)
      /\ got[Client].data + HowMany(wire[Server], Data) = calls[Server].data
  BY DEF Joint, DataOf
<1>5. \/ /\ r.key # EarlyKey /\ m.data \in {n.data, n.data + 1}
         /\ Accepts(conf) => m.early = n.early
      \/ r.key = EarlyKey /\ m.data = n.data /\ (Accepts(conf) => m.early = n.early + 1)
  OBVIOUS
<1>6. g + b >= m.data /\ (Accepts(conf) => k + e = m.early)
  <2> HIDE DEF a, b, d, e, g, k, n, m
  <2>1. CASE r.key = EarlyKey
    BY ONLY <1>1, <1>2, <1>3, <1>4, <1>5, <2>1
  <2>2. CASE r.key # EarlyKey
    BY ONLY <1>1, <1>2, <1>3, <1>4, <1>5, <2>2
  <2> QED BY <2>1, <2>2
<1> QED BY <1>1, <1>4, <1>6 DEF DataOf

\* The server sends data.
LEMMA ServerDataSent ==
  ASSUME ProtectedInv, CallsInv, Joint, NEW r \in Rec, r.type = "DATA", UNCHANGED <<conf, got>>,
         wire' = [wire EXCEPT ![Server] = Append(@, r)],
         calls' = [calls EXCEPT ![Server].data = @ + 1]
  PROVE  DataOf(conf)'
<1> DEFINE a == HowMany(wire[Server], Data)
           b == HowMany(wire'[Server], Data)
           g == got[Client].data
           n == calls[Server].data
<1>1. /\ b = a + One(r \in Data) /\ a \in Nat /\ wire'[Client] = wire[Client]
  BY More, TwoSides DEF Peer
<1>2. One(r \in Data) = 1
  BY DEF One, Data
<1>3. g \in Nat /\ n \in Nat /\ calls'[Server].data = n + 1 /\ calls'[Client] = calls[Client]
  BY Numbers, TwoSides DEF CallsInv
<1>4. g + a = n
  BY DEF Joint, DataOf
<1>5. g + b = n + 1
  <2> HIDE DEF a, b, g, n
  <2> QED BY <1>1, <1>2, <1>3, <1>4
<1> QED BY <1>1, <1>3, <1>5 DEF Joint, DataOf

\* Data leaves the server where it is.
LEMMA ClientSaysData ==
  ASSUME ProtectedInv, Joint, NEW u, ClientSilent(conf, tls[Client], u), NEW r \in Rec,
         \A x : Shown(tls[Client], x) =>
                  ClientSays(conf, ClientSaid(conf, tls[Client], x), r, ClientSaid(conf,
                      tls[Client], x))
  PROVE  ClientSpeaks(conf, tls[Client], r, u)
<1> DEFINE c == tls[Client]
<1>1. c \in Conn
  BY Both
<1> SUFFICES ASSUME NEW x, Shown(c, x)
             PROVE  /\ Shown(u, x) /\ ClientSaid(conf, u, x) \in Places
                    /\ ClientSays(conf, ClientSaid(conf, c, x), r, ClientSaid(conf, u, x))
                    /\ ClientSaid(conf, c, x).key <= ClientSaid(conf, u, x).key
  BY DEF ClientSpeaks
<1>2. Shown(u, x) /\ ClientSaid(conf, u, x) = ClientSaid(conf, c, x)
  BY DEF ClientSilent
<1>3. ClientSaid(conf, c, x) \in Places
  BY <1>1, SaidPlace
<1>4. ClientSaid(conf, c, x).key \in Nat
  BY <1>3 DEF Places
<1> QED BY <1>2, <1>3, <1>4

\* The client writes a record of data and becomes u.
LEMMA ClientPuts ==
  ASSUME ProtectedInv, Joint, NEW u, NEW r \in Rec, r.type = "DATA",
         tls' = [tls EXCEPT ![Client] = u],
         wire' = [wire EXCEPT ![Client] = Append(@, r)], conf' = conf,
         ClientAt(conf, u), ClientSilent(conf, tls[Client], u),
         ClientPlace(u) = ClientPlace(tls[Client]), Answers(u) <=> Answers(tls[Client]),
         u.flow = "idle" /\ ~ u.in_init, DataOf(conf)',
         \A x : Shown(tls[Client], x) =>
                  ClientSays(conf, ClientSaid(conf, tls[Client], x), r, ClientSaid(conf,
                      tls[Client], x))
  PROVE  Joint'
<1>1. ClientSpeaks(conf, tls[Client], r, u)
  BY ClientSaysData
<1>2. Finds(u, wire[Server])
  BY ClientFinds
<1>3. One(Answers(u)) + One(r \in LateAnswers) = One(Answers(tls[Client]))
  BY NoAnswerYet
<1> QED BY <1>1, <1>2, <1>3, ClientSaying

\* tls_write of the client.
LEMMA ClientWritesData ==
  ASSUME ProtectedInv, CallsInv, Joint, InitFinished(tls[Client]), tls[Client].flow = "idle",
         calls' = [calls EXCEPT ![Client].data = @ + 1], Send(Client, "DATA", tls[Client].wkey, "app"),
         UNCHANGED <<conf, tls, got>>
  PROVE  Joint'
<1> DEFINE c == tls[Client]
           r == [type |-> "DATA", key |-> c.wkey, arg |-> "app"]
<1>1. /\ c \in Conn /\ ClientOK(conf, c) /\ ClientAt(conf, c) /\ ~ c.in_init
      /\ c.hand_state = "OK"
      /\ wire' = [wire EXCEPT ![Client] = Append(@, r)] /\ c.wkey \in Nat
  BY Typed DEF InitFinished, ProtectedInv, ClientOK, Joint, Send
<1>2. r \in Rec
  BY <1>1 DEF Rec
<1>3. "own" \in c.fin /\ c.wkey >= ApplicationKey
  BY <1>1 DEF ClientOK, ClientLate
<1>4. \A x : ClientSaid(conf, c, x) = Place("APP", c.wkey, x)
  BY <1>1, <1>3 DEF ClientSaid
<1>5. r.type = "DATA" /\ r.key = c.wkey
  OBVIOUS
<1> HIDE DEF r
<1>6. \A x : ClientSays(conf, ClientSaid(conf, c, x), r, ClientSaid(conf, c, x))
  BY <1>4, <1>5, PlaceFields DEF ClientSays
<1>7. /\ calls'[Server] = calls[Server] /\ calls'[Client].data = calls[Client].data + 1
      /\ calls'[Client].early = calls[Client].early
  BY TwoSides DEF CallsInv
<1>8. DataOf(conf)'
  <2>1. r.key # EarlyKey
    BY <1>3, <1>5 DEF EarlyKey, ApplicationKey
  <2> QED BY <1>1, <1>2, <1>5, <1>7, <2>1, ClientDataSent
<1>9. tls' = [tls EXCEPT ![Client] = c]
  BY TwoSides DEF ProtectedInv
<1>10. ClientSilent(conf, c, c)
  BY DEF ClientSilent
<1> QED BY <1>1, <1>2, <1>5, <1>6, <1>8, <1>9, <1>10, ClientPuts

\* tls_write of the server, and tls_write_early_data.
LEMMA ServerWritesData ==
  ASSUME ProtectedInv, CallsInv, Joint, "own" \in tls[Server].fin,
         calls' = [calls EXCEPT ![Server].data = @ + 1], Send(Server, "DATA", tls[Server].wkey, "app"),
         UNCHANGED <<conf, tls, got>>
  PROVE  Joint'
<1> DEFINE v == tls[Server]
           r == [type |-> "DATA", key |-> v.wkey, arg |-> "app"]
<1>1. /\ v \in Conn /\ ServerOK(conf, v) /\ ServerAt(conf, v) /\ Finds(v, wire[Client])
      /\ wire' = [wire EXCEPT ![Server] = Append(@, r)] /\ v.wkey \in Nat
  BY Typed DEF ProtectedInv, ServerOK, Joint, Send
<1>2. r \in Rec
  BY <1>1 DEF Rec
<1>3. ServerSaid(v) = Place("APP", v.wkey, "none")
  BY DEF ServerSaid
<1>4. r.type = "DATA" /\ r.key = v.wkey
  OBVIOUS
<1> HIDE DEF r
<1>5. ServerSpeaks(conf, v, r, v)
  <2>1. ServerSaid(v) \in Places
    BY <1>1, <1>3 DEF Places, Place
  <2>2. ServerSays(conf, ServerSaid(v), r, ServerSaid(v))
    BY <1>3, <1>4, PlaceFields DEF ServerSays
  <2>3. ServerSaid(v).key <= ServerSaid(v).key
    BY <1>1, <1>3, PlaceFields
  <2> QED BY <2>1, <2>2, <2>3 DEF ServerSpeaks
<1>6. DataOf(conf)'
  BY <1>1, <1>2, <1>4, ServerDataSent
<1>7. tls' = [tls EXCEPT ![Server] = v]
  BY TwoSides DEF ProtectedInv
<1>8. WaitsFor(v, v, One(r \in LateRequests))
  <2>1. One(r \in LateRequests) = 0
    BY <1>4 DEF One, LateRequests
  <2> QED BY <2>1, NothingChanged
<1> QED BY <1>1, <1>2, <1>5, <1>6, <1>7, <1>8, ServerSaying

\* tls_connect and tls_accept, or the early data calls that come before them.
LEMMA BeginAgrees ==
  ASSUME ProtectedInv, Joint, Tls13Assumption, NEW s \in Sides, Begin(s)
  PROVE  Joint'
<1>1. conf \in AllConfigurations /\ UNCHANGED <<conf, wire, calls, got>>
  BY DEF ProtectedInv, Tls13Assumption, Begin
<1>2. CASE s = Client
  <2> DEFINE e == IF conf.early THEN "CONNECTING" ELSE tls[Client].early_data_state
  <2>1. /\ tls[Client].hand_state = "BEFORE" /\ tls[Client].flow = "idle"
        /\ tls' = [tls EXCEPT ![Client] = [Entered(@) EXCEPT !.early_data_state = e]]
    BY <1>2, TwoSides DEF Begin
  <2> HIDE DEF e
  <2> QED BY <1>1, <2>1, ClientEntered DEF e
<1>3. CASE s = Server
  <2> DEFINE e == IF conf.read_early THEN "ACCEPTING" ELSE tls[Server].early_data_state
  <2>1. /\ tls[Server].hand_state = "BEFORE" /\ tls[Server].flow = "idle"
        /\ tls' = [tls EXCEPT ![Server] = [Entered(@) EXCEPT !.early_data_state = e]]
    BY <1>3, TwoSides DEF Begin
  <2> HIDE DEF e
  <2> QED BY <1>1, <2>1, ServerEntered DEF e
<1> QED BY <1>2, <1>3, TwoSides

\* tls_do_handshake in the middle of early data.
LEMMA CompleteAgrees ==
  ASSUME ProtectedInv, Joint, Tls13Assumption, NEW s \in Sides, CompleteHandshake(s)
  PROVE  Joint'
<1>1. conf \in AllConfigurations /\ UNCHANGED <<conf, wire, calls, got>>
  BY DEF ProtectedInv, Tls13Assumption, CompleteHandshake
<1>2. CASE s = Client
  <2>1. /\ tls[Client].hand_state \in {"EARLY_DATA", "PENDING_EARLY_DATA_END"}
        /\ tls[Client].early_data_state = "WRITE_RETRY"
        /\ tls' = [tls EXCEPT ![Client] = [Entered(@) EXCEPT !.early_data_state = "FINISHED_WRITING"]]
    BY <1>2, TwoSides DEF CompleteHandshake
  <2> QED BY <1>1, <2>1, ClientEntered
<1>3. CASE s = Server
  <2> DEFINE e == tls[Server].early_data_state
  <2>1. /\ tls[Server].hand_state = "EARLY_DATA" /\ tls[Server].flow = "idle"
        /\ e = "FINISHED_READING"
        /\ tls' = [tls EXCEPT ![Server] = [Entered(@) EXCEPT !.early_data_state = e]]
    BY <1>3, TwoSides DEF CompleteHandshake
  <2> HIDE DEF e
  <2> QED BY <1>1, <2>1, ServerEntered DEF e
<1> QED BY <1>2, <1>3, TwoSides

\* The state machine is entered and nothing else changes.
LEMMA EnterAgrees ==
  ASSUME ProtectedInv, Joint, Tls13Assumption, NEW s \in Sides, UNCHANGED <<conf, wire, calls,
         got>>,
         tls' = [tls EXCEPT ![s] = Entered(@)], tls[s].flow = "idle",
         \/ s = Client /\ tls[s].hand_state = "EARLY_DATA"
         \/ tls[s].hand_state = "OK" /\ (tls[s].in_init \/ tls[s].key_update # "NONE")
  PROVE  Joint'
<1> DEFINE t == tls[s]
           e == t.early_data_state
<1>1. t \in Conn /\ conf \in AllConfigurations
  BY DEF ProtectedInv, Tls13Assumption
<1>2. Entered(t) = [Entered(t) EXCEPT !.early_data_state = e]
  <2> HIDE DEF t
  <2> QED BY <1>1 DEF Entered, Conn
<1>3. tls' = [tls EXCEPT ![s] = [Entered(@) EXCEPT !.early_data_state = e]]
  BY <1>2
<1> HIDE DEF e
<1>4. CASE s = Client
  BY <1>1, <1>3, <1>4, ClientEntered DEF e
<1>5. CASE s = Server
  BY <1>1, <1>3, <1>5, ServerEntered, TwoSides DEF e
<1> QED BY <1>4, <1>5, TwoSides

\* A call that takes up a handshake again.
LEMMA ResumeAgrees ==
  ASSUME ProtectedInv, Joint, Tls13Assumption, NEW s \in Sides, Resume(s)
  PROVE  Joint'
BY EnterAgrees DEF Resume

\* tls_read of the client in the middle of early data.
LEMMA ReadDuringAgrees ==
  ASSUME ProtectedInv, Joint, Tls13Assumption, ReadDuringEarlyData
  PROVE  Joint'
BY EnterAgrees, TwoSides DEF ReadDuringEarlyData

\* tls_write; a KeyUpdate that is due goes first.
LEMMA WriteDataAgrees ==
  ASSUME ProtectedInv, CallsInv, Joint, Tls13Assumption, NEW s \in Sides, WriteData(s)
  PROVE  Joint'
<1>1. InitFinished(tls[s]) /\ tls[s].flow = "idle" /\ UNCHANGED <<conf, got>>
  BY DEF WriteData
<1>2. CASE tls[s].key_update # "NONE" /\ tls' = [tls EXCEPT ![s] = Entered(@)]
             /\ UNCHANGED <<wire, calls>>
  BY <1>1, <1>2, EnterAgrees DEF InitFinished
<1>3. CASE /\ calls' = [calls EXCEPT ![s].data = @ + 1]
           /\ Send(s, "DATA", tls[s].wkey, "app") /\ UNCHANGED tls
  <2>1. CASE s = Client
    BY <1>1, <1>3, <2>1, ClientWritesData
  <2>2. CASE s = Server
    <3>1. "own" \in tls[Server].fin
      BY <1>1, <2>2 DEF InitFinished, ProtectedInv, ServerOK, ServerKeys
    <3> QED BY <1>1, <1>3, <2>2, <3>1, ServerWritesData
  <2> QED BY <2>1, <2>2, TwoSides
<1> QED BY <1>2, <1>3 DEF WriteData

\* tls_write_early_data of the server.
LEMMA UnauthenticatedAgrees ==
  ASSUME ProtectedInv, CallsInv, Joint, EarlyWritesHarmless, WriteUnauthenticated
  PROVE  Joint'
<1>1. /\ conf \in Configurations /\ ServerKeys(conf, tls[Server])
      /\ tls[Server].early_data_state \in {"READ_RETRY", "FINISHED_READING"}
      /\ conf.hasty \/ "own" \in tls[Server].fin
  BY DEF ProtectedInv, ServerOK, WriteUnauthenticated
<1>2. "own" \in tls[Server].fin
  BY <1>1 DEF EarlyWritesHarmless, ServerKeys
<1> QED BY <1>2, ServerWritesData DEF WriteUnauthenticated

\* tls_key_update counts a call of s that is neither for data nor for early data.
LEMMA CountedCall ==
  ASSUME CallsInv, Joint, NEW s \in Sides, UNCHANGED <<conf, wire, got>>, NEW n,
         calls' = [calls EXCEPT ![s].updates = n] \/ calls' = [calls EXCEPT ![s].requests = n]
  PROVE  DataOf(conf)'
<1>1. \A p \in Sides : calls'[p].data = calls[p].data /\ calls'[p].early = calls[p].early
  BY DEF CallsInv
<1> QED BY <1>1, TwoSides DEF Joint, DataOf

\* tls_key_update.
LEMMA KeyUpdateAgrees ==
  ASSUME ProtectedInv, CallsInv, Joint, NEW s \in Sides, KeyUpdate(s)
  PROVE  Joint'
<1> DEFINE t == tls[s]
           x == t.flow
           e == t.early_data_state
<1>1. /\ InitFinished(t) /\ t.flow = "idle" /\ UNCHANGED <<conf, got, wire>>
      /\ calls' = [calls EXCEPT ![s].updates = @ + 1]
  BY DEF KeyUpdate
<1>2. PICK k \in {"NOT_REQUESTED", "REQUESTED"} :
        tls' = [tls EXCEPT ![s].in_init = TRUE, ![s].key_update = k]
  BY DEF KeyUpdate
<1>3. t \in Conn /\ t.hand_state = "OK"
  BY <1>1 DEF ProtectedInv, InitFinished
<1>4. [t EXCEPT !.in_init = TRUE, !.key_update = k] = Called(t, TRUE, x, e, k)
  <2> HIDE DEF t
  <2> QED BY <1>3 DEF Called, Conn
<1> DEFINE u == Called(t, TRUE, x, e, k)
<1>5. tls' = [tls EXCEPT ![s] = u]
  BY <1>2, <1>4 DEF ProtectedInv
<1>6. /\ u.hand_state = "OK" /\ u.flow = "idle" /\ u.in_init = TRUE /\ u.early_data_state = e
      /\ u.key_update = k /\ u.tls13 = t.tls13 /\ u.hello_retry_request = t.hello_retry_request
      /\ u.early_data = t.early_data /\ u.fin = t.fin
  <2> HIDE DEF t, e
  <2> QED BY <1>1, <1>3 DEF Called, Conn, x
<1>7. DataOf(conf)'
  <2> DEFINE n == calls[s].updates + 1
  <2>1. calls' = [calls EXCEPT ![s].updates = n]
    BY <1>1
  <2> HIDE DEF n
  <2> QED BY <1>1, <2>1, CountedCall
<1> HIDE DEF u
<1>8. CASE s = Client
  <2>1. ClientAt(conf, t)
    BY <1>8 DEF Joint
  <2>2. ClientCall(u)
    BY <1>6 DEF ClientCall
  <2>3. ClientData(conf, u)
    <3> HIDE DEF t
    <3> QED BY <1>1, <1>3, <1>6, <2>1 DEF ClientData, ClientAt, Opened, e
  <2>4. Finds(u, wire[Server])
    <3>1. u.early_data_state # "READ_RETRY"
      BY <2>3 DEF ClientData, Opened
    <3> QED BY <1>6, <3>1 DEF Finds
  <2> QED BY <1>1, <1>3, <1>5, <1>7, <1>8, <2>2, <2>3, <2>4, ClientIsCalled DEF u
<1>9. CASE s = Server
  <2>1. ServerAt(conf, t)
    BY <1>9 DEF Joint
  <2>2. ServerCall(u)
    BY <1>6 DEF ServerCall
  <2>3. ServerData(conf, u)
    <3> HIDE DEF t
    <3> QED BY <1>1, <1>3, <1>6, <2>1 DEF ServerData, ServerAt, e
  <2>4. Finds(u, wire[Client])
    BY <1>6 DEF Finds
  <2> QED BY <1>1, <1>5, <1>7, <1>9, <2>2, <2>3, <2>4, ServerIsCalled DEF u
<1> QED BY <1>8, <1>9, TwoSides

\* tls_verify_client_post_handshake.
LEMMA VerifyAgrees ==
  ASSUME ProtectedInv, CallsInv, Joint, VerifyClientPostHandshake
  PROVE  Joint'
<1> DEFINE v == tls[Server]
           u == [v EXCEPT !.pha = "REQUEST_PENDING", !.in_init = TRUE]
<1>1. /\ InitFinished(v) /\ v.flow = "idle" /\ v.pha = "EXT_RECEIVED"
      /\ UNCHANGED <<conf, got, wire>>
      /\ calls' = [calls EXCEPT ![Server].requests = @ + 1] /\ tls' = [tls EXCEPT ![Server] = u]
  BY DEF VerifyClientPostHandshake
<1>2. v \in Conn /\ v.hand_state = "OK" /\ ServerAt(conf, v)
  BY <1>1 DEF ProtectedInv, InitFinished, ServerOK, Joint
<1>3. DataOf(conf)'
  <2> DEFINE n == calls[Server].requests + 1
  <2>1. calls' = [calls EXCEPT ![Server].requests = n]
    BY <1>1
  <2> HIDE DEF n
  <2> QED BY <1>1, <2>1, CountedCall, TwoSides
<1> DEFINE P == /\ u.hand_state = v.hand_state /\ u.flow = "idle" /\ u.in_init = TRUE /\ u.tls13 = v.tls13
                /\ u.rkey = v.rkey /\ u.wkey = v.wkey
                /\ u.hello_retry_request = v.hello_retry_request
                /\ u.hit = v.hit /\ u.cert = v.cert /\ u.fin = v.fin
                /\ u.early_data = v.early_data
                /\ u.pha = "REQUEST_PENDING" /\ u.early_data_state = v.early_data_state
                /\ u.cert_request = v.cert_request
<1>4. P
  <2> HIDE DEF v
  <2> QED BY <1>1, <1>2 DEF Conn
<1> HIDE DEF u
<1>5. "peer" \in v.fin
  BY <1>2 DEF ServerAt, ServerFar, ServerLate
<1>6. ServerAt(conf, u)
  <2> HIDE DEF v
  <2>1. ServerCall(u)
    BY <1>2, <1>4 DEF ServerCall
  <2>2. ServerKnows(conf, u)
    BY <1>2, <1>4 DEF ServerKnows, ServerAt
  <2>3. ServerFar(u)
    BY <1>2, <1>4 DEF ServerFar, ServerAt, ServerAnswer
  <2>4. ServerData(conf, u)
    BY <1>2, <1>4 DEF ServerData, ServerAt
  <2>5. ServerAsks(conf, u)
    BY <1>1, <1>2, <1>4, <1>5 DEF ServerAsks, ServerAt
  <2>6. ServerKey(conf, u)
    BY <1>2, <1>4 DEF ServerKey, ServerAt
  <2> QED BY <2>1, <2>2, <2>3, <2>4, <2>5, <2>6 DEF ServerAt
<1>7. ServerPlace(conf, u) = ServerPlace(conf, v) /\ ServerSaid(u) = ServerSaid(v)
  BY <1>4 DEF ServerPlace, ServerSaid
<1>8. WaitsFor(v, u, 0)
  BY <1>1, <1>2, <1>4, NothingChanged DEF Waiting, Served
<1>9. Finds(u, wire[Client])
  BY <1>2, <1>4 DEF Finds
<1> QED BY <1>1, <1>3, <1>6, <1>7, <1>8, <1>9, ServerStays

\* Where the client is when it writes early data: the record is one the server may be told,
\* and under another key than the early one only if early data is not accepted.
LEMMA EarlyDataSaid ==
  ASSUME ProtectedInv, Joint, Tls13Assumption, EarlyWritesHarmless, ~ tls[Client].in_init,
         conf.interleave \/ tls[Client].hand_state = "EARLY_DATA",
         tls[Client].early_data_state \in {"WRITE_RETRY", "WRITING"},
         NEW r, r = [type |-> "DATA", key |-> tls[Client].wkey, arg |-> "early"]
  PROVE  /\ r \in Rec /\ tls[Client].flow = "idle" /\ (r.key # EarlyKey => ~ Accepts(conf))
         /\ \A x : Shown(tls[Client], x) =>
                  ClientSays(conf, ClientSaid(conf, tls[Client], x), r, ClientSaid(conf,
                      tls[Client], x))
<1> DEFINE c == tls[Client]
<1>1. /\ ClientOK(conf, c) /\ ClientAt(conf, c) /\ c.wkey \in Nat /\ conf \in Configurations
      /\ conf \in AllConfigurations
  BY Typed DEF ProtectedInv, Joint, ClientOK, Tls13Assumption
<1>2. conf.interleave => ~ conf.retry /\ ~ Accepts(conf)
  BY <1>1 DEF EarlyWritesHarmless
<1>3. ~ c.in_init /\ (conf.interleave \/ c.hand_state = "EARLY_DATA") /\ c.early_data_state \in Opened
  BY DEF Opened
<1>4. r \in Rec /\ r.type = "DATA" /\ r.key = c.wkey /\ r.arg = "early"
  BY <1>1 DEF Rec
<1> HIDE DEF c
<1>5. c.flow = "idle" /\ c.hand_state \in {"OK", "EARLY_DATA", "PENDING_EARLY_DATA_END"}
  BY <1>1, <1>3 DEF ClientOK, ClientEarly
<1>6. conf.early
  BY <1>1, <1>3 DEF ClientAt, ClientData, Opened
<1>7. CASE c.hand_state = "OK"
  <2>1. "own" \in c.fin
    BY <1>1, <1>7 DEF ClientOK, ClientLate
  <2>2. \A x : ClientSaid(conf, c, x) = Place("APP", c.wkey, x)
    BY <1>7, <2>1 DEF ClientSaid
  <2>3. \A x : ClientSays(conf, ClientSaid(conf, c, x), r, ClientSaid(conf, c, x))
    BY <1>4, <2>2, PlaceFields DEF ClientSays
  <2> QED BY <1>2, <1>3, <1>4, <1>5, <1>7, <2>3 DEF c
<1>8. CASE c.hand_state = "EARLY_DATA"
  <2>1. ~ c.tls13 /\ "own" \notin c.fin /\ c.wkey = EarlyKey
    BY <1>1, <1>8 DEF ClientOK, ClientEarly, ClientAt, ClientFar
  <2>2. \A x : ClientSaid(conf, c, x) = IF conf.retry THEN Place("AGAIN", Plain, x)
                                        ELSE IF Accepts(conf) THEN Place("EARLY", EarlyKey, x)
                                        ELSE Place("ANSWER", HandshakeKey, x)
    BY <1>8, <2>1 DEF ClientSaid, Awaited
  <2>3. ~ Accepts(conf) => Fate(conf) = "REJECTED"
    BY <1>6 DEF Fate
  <2>4. \A x : ClientSays(conf, ClientSaid(conf, c, x), r, ClientSaid(conf, c, x))
    <3>1. CASE conf.retry
      BY <1>4, <1>6, <2>1, <2>2, <3>1, PlaceFields DEF ClientSays
    <3>2. CASE ~ conf.retry /\ Accepts(conf)
      BY <1>4, <2>1, <2>2, <3>2, PlaceFields DEF ClientSays
    <3>3. CASE ~ conf.retry /\ ~ Accepts(conf)
      BY <1>4, <2>1, <2>2, <2>3, <3>3, PlaceFields DEF ClientSays
    <3> QED BY <3>1, <3>2, <3>3
  <2> QED BY <1>4, <1>5, <2>1, <2>4 DEF c
<1>9. CASE c.hand_state = "PENDING_EARLY_DATA_END"
  <2>1. conf.interleave /\ ~ conf.retry /\ ~ Accepts(conf)
    BY <1>2, <1>3, <1>9
  <2>2. "own" \notin c.fin /\ c.hello_retry_request = "NONE"
    BY <1>1, <1>9, <2>1 DEF ClientOK, ClientEarly
  <2>3. c.wkey = EarlyKey
    BY <1>1, <1>3, <1>9, <2>2 DEF ClientOK, ClientEarly
  <2>4. \A x : ClientSaid(conf, c, x) = Place("ANSWER", HandshakeKey, x)
    BY <1>9, <2>1, <2>2 DEF ClientSaid, Awaited
  <2>5. Fate(conf) = "REJECTED"
    BY <1>6, <2>1 DEF Fate
  <2>6. \A x : ClientSays(conf, ClientSaid(conf, c, x), r, ClientSaid(conf, c, x))
    BY <1>4, <2>1, <2>3, <2>4, <2>5, PlaceFields DEF ClientSays
  <2> QED BY <1>4, <1>5, <2>1, <2>6 DEF c
<1> QED BY <1>5, <1>7, <1>8, <1>9

\* Early data that waits changes nothing but its state.
LEMMA EarlyDataState ==
  ASSUME ProtectedInv, Joint, NEW e \in {"WRITE_RETRY", "WRITING"},
         tls[Client].early_data_state \in {"WRITE_RETRY", "WRITING"},
         e = "WRITING" => ~ conf.retry /\ ~ Accepts(conf),
         NEW u, u = [tls[Client] EXCEPT !.early_data_state = e]
  PROVE  /\ ClientAt(conf, u) /\ ClientPlace(u) = ClientPlace(tls[Client])
         /\ ClientSilent(conf, tls[Client], u) /\ (Answers(u) <=> Answers(tls[Client]))
         /\ u.flow = tls[Client].flow /\ u.in_init = tls[Client].in_init
         /\ Finds(u, wire[Server])
<1> DEFINE c == tls[Client]
           b == c.in_init
           x == c.flow
           k == c.key_update
<1>1. c \in Conn /\ ClientAt(conf, c) /\ Finds(c, wire[Server])
  BY DEF ProtectedInv, ClientOK, Joint
<1>2. c.early_data_state \in {"WRITE_RETRY", "WRITING"} /\ c.early_data_state # "CONNECTING"
  OBVIOUS
<1>3. u = Called(c, b, x, e, k)
  <2>1. [c EXCEPT !.early_data_state = e] = Called(c, b, x, e, k)
    BY <1>1 DEF Called, Conn
  <2> QED BY <2>1
<1> HIDE DEF b, x, k
<1>4. /\ u.hand_state = c.hand_state /\ u.flow = x /\ u.in_init = b /\ u.tls13 = c.tls13
      /\ u.hello_retry_request = c.hello_retry_request /\ u.pha = c.pha /\ u.early_data_state = e
      /\ u.key_update = k /\ u.fin = c.fin /\ u.early_data = c.early_data
  <2> HIDE DEF c
  <2> QED BY ONLY <1>1, <1>3, CalledFields
<1>5. ClientCall(u)
  <2> HIDE DEF c
  <2> QED BY <1>1, <1>4 DEF ClientCall, ClientAt, b, x
<1>6. ClientData(conf, u)
  <2> HIDE DEF c
  <2> QED BY <1>1, <1>2, <1>4 DEF ClientData, ClientAt, Opened
<1>7. Finds(u, wire[Server])
  <2> HIDE DEF c
  <2> QED BY <1>1, <1>4 DEF Finds, b, x, k
<1>8. /\ ClientAt(conf, u) /\ ClientPlace(u) = ClientPlace(tls[Client])
      /\ ClientSilent(conf, tls[Client], u) /\ (Answers(u) <=> Answers(tls[Client]))
  BY <1>2, <1>3, <1>5, <1>6, ClientCalled
<1> QED BY <1>4, <1>7, <1>8 DEF b, x

\* What is called for early data that is not accepted does not count.
LEMMA NotCounted ==
  ASSUME CallsInv, Joint, UNCHANGED <<conf, wire, got>>, ~ Accepts(conf), NEW n,
         calls' = [calls EXCEPT ![Client].early = n]
  PROVE  DataOf(conf)'
<1>1. \A p \in Sides : calls'[p].data = calls[p].data
  BY DEF CallsInv
<1> QED BY <1>1, TwoSides DEF Joint, DataOf

\* tls_write_early_data of the client.
LEMMA WriteEarlyAgrees ==
  ASSUME ProtectedInv, CallsInv, Joint, Tls13Assumption, EarlyWritesHarmless, WriteEarlyData
  PROVE  Joint'
<1> DEFINE c == tls[Client]
           n == calls[Client].early + 1
<1>1. /\ c.early_data_state = "WRITE_RETRY" /\ UNCHANGED <<conf, got>>
      /\ conf.interleave \/ (c.hand_state = "EARLY_DATA" /\ ~ c.in_init)
      /\ calls' = [calls EXCEPT ![Client].early = n] /\ conf \in Configurations
  BY DEF WriteEarlyData, ProtectedInv
<1>2. CASE c.in_init /\ tls' = [tls EXCEPT ![Client].early_data_state = "WRITING"] /\ UNCHANGED wire
  <2> DEFINE u == [c EXCEPT !.early_data_state = "WRITING"]
  <2>1. ~ conf.retry /\ ~ Accepts(conf)
    BY <1>1, <1>2 DEF EarlyWritesHarmless
  <2>2. tls' = [tls EXCEPT ![Client] = u]
    BY <1>2 DEF ProtectedInv
  <2> HIDE DEF u, n
  <2>3. /\ ClientAt(conf, u) /\ ClientPlace(u) = ClientPlace(tls[Client])
        /\ ClientSilent(conf, tls[Client], u) /\ (Answers(u) <=> Answers(tls[Client]))
        /\ Finds(u, wire[Server])
    BY <1>1, <2>1, EarlyDataState DEF u
  <2>4. DataOf(conf)'
    BY <1>1, <1>2, <2>1, NotCounted
  <2> QED BY <1>1, <1>2, <2>2, <2>3, <2>4, ClientStays
<1>3. CASE ~ c.in_init /\ Send(Client, "DATA", c.wkey, "early") /\ UNCHANGED tls
  <2> DEFINE r == [type |-> "DATA", key |-> c.wkey, arg |-> "early"]
  <2>1. wire' = [wire EXCEPT ![Client] = Append(@, r)] /\ r.type = "DATA"
    BY <1>3 DEF Send
  <2> HIDE DEF r
  <2>2. /\ r \in Rec /\ c.flow = "idle" /\ (r.key # EarlyKey => ~ Accepts(conf))
        /\ \A x : Shown(c, x) => ClientSays(conf, ClientSaid(conf, c, x), r, ClientSaid(conf, c, x))
    BY <1>1, <1>3, EarlyDataSaid DEF r
  <2>3. /\ calls'[Server] = calls[Server] /\ calls'[Client].data = calls[Client].data
        /\ calls'[Client].early = calls[Client].early + 1
    BY <1>1, TwoSides DEF CallsInv
  <2>4. DataOf(conf)'
    BY <1>1, <2>1, <2>2, <2>3, ClientDataSent
  <2>5. tls' = [tls EXCEPT ![Client] = c] /\ ClientAt(conf, c)
    BY <1>3, TwoSides DEF ProtectedInv, Joint
  <2>6. ClientSilent(conf, c, c)
    BY DEF ClientSilent
  <2> QED BY <1>1, <1>3, <2>1, <2>2, <2>4, <2>5, <2>6, ClientPuts
<1> QED BY <1>2, <1>3 DEF WriteEarlyData

\* The call returns.
LEMMA WriteEarlyReturnsAgrees ==
  ASSUME ProtectedInv, CallsInv, Joint, Tls13Assumption, EarlyWritesHarmless, WriteEarlyDataReturns
  PROVE  Joint'
<1> DEFINE c == tls[Client]
           n == calls[Client].early - 1
           u == [c EXCEPT !.early_data_state = "WRITE_RETRY"]
<1>1. /\ c.early_data_state = "WRITING" /\ UNCHANGED <<conf, got>>
      /\ tls' = [tls EXCEPT ![Client] = u]
  BY DEF WriteEarlyDataReturns, ProtectedInv
<1>2. conf.interleave /\ ~ Accepts(conf)
  BY <1>1 DEF ProtectedInv, ClientOK, ClientEarly, Joint, ClientAt, ClientData
<1> HIDE DEF u, n
<1>3. /\ ClientAt(conf, u) /\ ClientPlace(u) = ClientPlace(tls[Client])
      /\ ClientSilent(conf, tls[Client], u) /\ (Answers(u) <=> Answers(tls[Client]))
      /\ u.flow = c.flow /\ u.in_init = c.in_init /\ Finds(u, wire[Server])
  BY <1>1, EarlyDataState DEF u
<1>4. CASE c.in_init /\ calls' = [calls EXCEPT ![Client].early = n] /\ UNCHANGED wire
  <2>1. DataOf(conf)'
    BY <1>1, <1>2, <1>4, NotCounted
  <2> QED BY <1>1, <1>3, <1>4, <2>1, ClientStays
<1>5. CASE ~ c.in_init /\ Send(Client, "DATA", c.wkey, "early") /\ UNCHANGED calls
  <2> DEFINE r == [type |-> "DATA", key |-> c.wkey, arg |-> "early"]
  <2>1. wire' = [wire EXCEPT ![Client] = Append(@, r)] /\ r.type = "DATA"
    BY <1>5 DEF Send
  <2> HIDE DEF r
  <2>2. /\ r \in Rec /\ c.flow = "idle"
        /\ \A x : Shown(c, x) => ClientSays(conf, ClientSaid(conf, c, x), r, ClientSaid(conf, c, x))
    BY <1>1, <1>2, <1>5, EarlyDataSaid DEF r
  <2>3. DataOf(conf)'
    BY <1>1, <1>2, <1>5, <2>1, <2>2, ClientDataSent
  <2> QED BY <1>1, <1>3, <1>5, <2>1, <2>2, <2>3, ClientPuts
<1> QED BY <1>4, <1>5 DEF WriteEarlyDataReturns, n

(***************************************************************************)
(* The joint invariant holds                                               *)
(***************************************************************************)
\* There is nothing in an empty queue.
LEMMA HowManyNone == \A X : HowMany(<< >>, X) = 0
<1> SUFFICES ASSUME NEW X PROVE HowMany(<< >>, X) = 0
  OBVIOUS
<1> DEFINE e == << >>
<1>1. {i \in DOMAIN e : e[i] \in X} = {}
  OBVIOUS
<1> QED BY <1>1, FS_EmptySet DEF HowMany

\* Two new connections, with nothing on its way.
LEMMA JointStart == Init => Joint
<1> SUFFICES ASSUME Init PROVE Joint
  OBVIOUS
<1> DEFINE n == NewConnection
           p == Place("HELLO", Plain, "none")
<1>1. /\ tls[Client] = n /\ tls[Server] = n /\ wire[Client] = << >> /\ wire[Server] = << >>
      /\ calls[Client].data = 0 /\ calls[Server].data = 0 /\ calls[Client].early = 0
      /\ got[Client].data = 0 /\ got[Server].data = 0 /\ got[Server].early = 0
  BY TwoSides DEF Init
<1>2. /\ n.hand_state = "BEFORE" /\ n.flow = "idle" /\ n.in_init /\ ~ n.tls13
      /\ n.wkey = Plain /\ n.rkey = Plain /\ n.early_data_state = "NONE"
      /\ n.early_data = "NOT_SENT" /\ n.hello_retry_request = "NONE" /\ ~ n.hit
      /\ ~ n.cert_request /\ n.cert = "none" /\ n.pha = "NONE" /\ n.key_update = "NONE"
      /\ n.fin = {}
  BY DEF NewConnection
<1> HIDE DEF n
<1>3. ClientAt(conf, n)
  BY <1>2 DEF ClientAt, ClientCall, ClientFar, ClientKnows, ClientData, ClientCert, ClientKey,
     ServerFlight, Opened, Plain, EarlyKey, HandshakeKey, ApplicationKey
<1>4. ServerAt(conf, n)
  BY <1>2 DEF ServerAt, ServerCall, ServerKnows, ServerFar, ServerData, ServerAsks, ServerKey,
     ServerHellos, ServerAnswer, ServerLate, Plain, EarlyKey, HandshakeKey, ApplicationKey
<1>5. p \in Places
  BY DEF Place, Places, Plain
<1>6. /\ ServerPlace(conf, n) = p /\ ClientSaid(conf, n, "none") = p /\ Shown(n, "none")
      /\ ClientPlace(n) = p /\ ServerSaid(n) = p
  BY <1>2 DEF ServerPlace, ClientSaid, Shown, ClientPlace, ServerSaid
<1> HIDE DEF p
<1>7. ClientPath(conf, n, n, << >>) /\ ServerPath(n, n, << >>, conf)
  BY <1>5, <1>6, PathEmpty DEF ClientPath, ServerPath
<1>8. Finds(n, << >>)
  BY <1>2 DEF Finds
<1>9. RequestsOf(n, n, << >>, << >>)
  BY <1>2, HowManyNone DEF RequestsOf, Answers, Waiting, Served, One
<1>10. DataOf(conf)
  BY <1>1, HowManyNone DEF DataOf
<1> QED BY <1>1, <1>3, <1>4, <1>7, <1>8, <1>9, <1>10 DEF Joint

\* Every step keeps it.
LEMMA JointStep ==
  ASSUME ProtectedInv, CallsInv, Joint, Tls13Assumption, EarlyWritesHarmless, [Next]_vars
  PROVE  Joint'
<1>1. CASE UNCHANGED vars
  BY <1>1 DEF vars, Joint, DataOf
<1>2. ASSUME NEW s \in Sides, Write(s)
      PROVE  Joint'
  BY <1>2, TwoSides, ClientWriting, ServerWriting, ClientTurnsToRead, ServerTurnsToRead DEF Write
<1>3. ASSUME NEW s \in Sides, Read(s)
      PROVE  Joint'
  <2>1. CASE s = Client
    BY <1>3, <2>1, ClientReading, ClientPassing, ClientFindsMessage, ClientReadsData DEF Read
  <2>2. CASE s = Server
    BY <1>3, <2>2, ServerReadsMessage, ServerPassing, ServerFindsMessage, ServerReadsData DEF Read
  <2> QED BY <2>1, <2>2, TwoSides
<1>4. ASSUME NEW s \in Sides, Call(s)
      PROVE  Joint'
  BY <1>4, BeginAgrees, CompleteAgrees, WriteDataAgrees, KeyUpdateAgrees, ResumeAgrees DEF Call
<1>5. CASE ReadDuringEarlyData
  BY <1>5, ReadDuringAgrees
<1>6. CASE WriteEarlyData
  BY <1>6, WriteEarlyAgrees
<1>7. CASE WriteEarlyDataReturns
  BY <1>7, WriteEarlyReturnsAgrees
<1>8. CASE WriteUnauthenticated
  BY <1>8, UnauthenticatedAgrees
<1>9. CASE VerifyClientPostHandshake
  BY <1>9, VerifyAgrees
<1> QED BY <1>1, <1>2, <1>3, <1>4, <1>5, <1>6, <1>7, <1>8, <1>9 DEF Next

(***************************************************************************)
(* What follows from it                                                    *)
(***************************************************************************)
\* Neither side is in error.
LEMMA JointNeverFails ==
  ASSUME Joint
  PROVE  NeverFails
BY TwoSides DEF Joint, ClientAt, ServerAt, ClientCall, ServerCall, NeverFails

\* Early data the server accepts is all read before the server goes on to a later key.
LEMMA EarlyDataBehind ==
  ASSUME NEW f, NEW q \in Seq(Rec), NEW a, NEW b, Path(f, Client, q, a, b), Accepts(f),
         a.key >= HandshakeKey
  PROVE  HowMany(q, EarlyData) = 0
<1>1. a.key \in Nat
  BY PathTypes DEF Places
<1>2. ASSUME NEW i \in DOMAIN q, q[i] \in EarlyData
      PROVE  FALSE
  <2>1. PICK d, e \in Places : Says(f, Client, d, q[i], e) /\ a.key <= d.key
    BY PathAlong
  <2>2. d.key \in Nat
    BY DEF Places
  <2>3. ClientSays(f, d, q[i], e) /\ q[i].type = "DATA" /\ q[i].key = EarlyKey
    BY <1>2, <2>1, TwoSides DEF Says, EarlyData
  <2>4. Fate(f) # "REJECTED"
    BY DEF Fate
  <2>5. d.key = Plain \/ d.key = EarlyKey \/ d.key = q[i].key
    BY <2>3, <2>4 DEF ClientSays
  <2> QED BY <1>1, <2>1, <2>2, <2>3, <2>5 DEF Plain, EarlyKey, HandshakeKey
<1>3. {i \in DOMAIN q : q[i] \in EarlyData} = {}
  BY <1>2
<1> QED BY <1>3, FS_EmptySet DEF HowMany

\* Once the server has come to the end of early data it reads with a later key, if it accepted
\* any.
LEMMA JointEarlyData ==
  ASSUME ProtectedInv, CallsInv, Joint
  PROVE  EarlyDataExact
<1> DEFINE v == tls[Server]
           q == wire[Client]
           a == ServerPlace(conf, v)
<1> SUFFICES ASSUME v.early_data_state = "FINISHED_READING"
             PROVE  got[Server].early = IF v.early_data = "ACCEPTED" THEN calls[Client].early ELSE 0
  BY DEF EarlyDataExact
<1>1. /\ ServerAt(conf, v) /\ DataOf(conf) /\ v \in Conn /\ q \in Seq(Rec)
      /\ ClientPath(conf, tls[Client], v, q)
  BY Both DEF Joint
<1>2. got[Server].early \in Nat /\ calls[Client].early \in Nat
  BY TwoSides DEF CallsInv
<1> HIDE DEF v, q
<1>3. v.hand_state # "BEFORE" /\ v.early_data = Fate(conf)
  BY <1>1 DEF ServerAt, ServerData
<1>4. CASE ~ Accepts(conf)
  BY <1>1, <1>3, <1>4 DEF DataOf, Fate
<1>5. CASE Accepts(conf)
  <2>1. /\ conf.read_early /\ ~ conf.retry /\ v.hello_retry_request # "PENDING"
    BY <1>1, <1>5 DEF Accepts, ServerAt, ServerKnows
  <2>2. "peer" \notin v.fin => v.hand_state \in {"SR_END_OF_EARLY_DATA"} \cup ServerAnswer
    BY <1>1, <1>3, <1>5, <2>1 DEF ServerAt, ServerData
  <2>3. v.rkey >= HandshakeKey
    <3>1. v.rkey = HandshakeKey \/ v.rkey >= ApplicationKey
      BY <1>1, <2>2 DEF ServerAt, ServerKey
    <3>2. v.rkey \in Nat
      BY <1>1 DEF Conn
    <3> QED BY <3>1, <3>2 DEF HandshakeKey, ApplicationKey
  <2>4. a.key >= HandshakeKey
    BY <1>3, <2>1, <2>2, <2>3, PlaceFields DEF ServerPlace, ServerAnswer, HandshakeKey
  <2>5. HowMany(q, EarlyData) = 0
    BY <1>1, <1>5, <2>4, EarlyDataBehind DEF ClientPath
  <2> QED BY <1>1, <1>2, <1>3, <1>5, <2>5 DEF DataOf, Fate, q
<1> QED BY <1>4, <1>5

\* Once the server has read the client's Finished, the client has read the server's.
LEMMA ServerAfterClient ==
  ASSUME ProtectedInv, Joint, "peer" \in tls[Server].fin
  PROVE  /\ "peer" \in tls[Client].fin /\ ServerPlace(conf, tls[Server]).key >= ApplicationKey
         /\ ClientPlace(tls[Client]).key >= ApplicationKey
<1> DEFINE c == tls[Client]
           v == tls[Server]
           q == wire[Client]
           a == ServerPlace(conf, v)
<1>1. /\ ServerAt(conf, v) /\ ClientAt(conf, c) /\ v \in Conn /\ c \in Conn /\ q \in Seq(Rec)
      /\ ClientPath(conf, c, v, q)
  BY Both DEF Joint
<1> HIDE DEF c, v, q
<1>2. a.key = v.rkey /\ v.rkey >= ApplicationKey
  <2>1. "peer" \in v.fin /\ v.hand_state # "BEFORE"
    BY <1>1 DEF v, ServerAt, ServerKnows
  <2> QED BY <1>1, <2>1, PlaceFields DEF ServerPlace, ServerAt, ServerKey
<1>3. PICK x : Shown(c, x) /\ Path(conf, Client, q, a, ClientSaid(conf, c, x))
  BY <1>1 DEF ClientPath
<1> DEFINE b == ClientSaid(conf, c, x)
<1>4. b.key \in Nat /\ b.key >= ApplicationKey
  <2>1. a.key \in Nat /\ b.key \in Nat /\ a.key <= b.key
    BY <1>1, <1>3, PathTypes DEF Places
  <2> HIDE DEF a, b
  <2> QED BY <1>2, <2>1 DEF ApplicationKey
<1>5. "own" \in c.fin
  <2>1. ASSUME "own" \notin c.fin PROVE b.key \in {Plain, EarlyKey, HandshakeKey}
    BY <1>1, <2>1, PlaceFields DEF ClientSaid, ClientAt, ClientKey
  <2> HIDE DEF b
  <2> QED BY <1>4, <2>1 DEF Plain, EarlyKey, HandshakeKey, ApplicationKey
<1>6. "peer" \in c.fin
  BY <1>1, <1>5 DEF ClientAt, ClientFar
<1>7. ClientPlace(c).key = c.rkey /\ c.rkey >= ApplicationKey
  BY <1>1, <1>6, PlaceFields DEF ClientAt, ClientFar, ClientPlace
<1> QED BY <1>2, <1>6, <1>7 DEF c, v

\* Beyond the handshake every request, and every Finished of the client, is a late one.
LEMMA AllLate ==
  ASSUME NEW f, NEW s \in Sides, NEW q \in Seq(Rec), NEW a, NEW b, Path(f, s, q, a, b),
         a.key >= ApplicationKey, NEW i \in DOMAIN q
  PROVE  /\ s = Server => (q[i].type = "CERTIFICATE_REQUEST" <=> q[i] \in LateRequests)
         /\ s = Client => (q[i].type = "FINISHED" <=> q[i] \in LateAnswers)
<1>1. PICK d, e \in Places : Says(f, s, d, q[i], e) /\ a.key <= d.key /\ d.key <= e.key
  BY PathAlong
<1>2. a.key \in Nat /\ d.key \in Nat /\ e.key \in Nat
  BY PathTypes DEF Places
<1>3. d.key >= ApplicationKey /\ e.key >= ApplicationKey
  BY <1>1, <1>2 DEF ApplicationKey
<1>4. q[i] \in Rec
  OBVIOUS
<1>5. ASSUME s = Server, q[i].type = "CERTIFICATE_REQUEST" PROVE q[i] \in LateRequests
  <2>1. ServerSays(f, d, q[i], e)
    BY <1>1, <1>5 DEF Says
  <2>2. q[i].key = d.key \/ e.key = HandshakeKey
    BY <1>5, <2>1, PlaceFields DEF ServerSays
  <2>3. q[i].key = d.key
    BY <1>2, <1>3, <2>2 DEF HandshakeKey, ApplicationKey
  <2> QED BY <1>3, <1>4, <1>5, <2>3 DEF LateRequests
<1>6. ASSUME s = Client, q[i].type = "FINISHED" PROVE q[i] \in LateAnswers
  <2>1. ClientSays(f, d, q[i], e)
    BY <1>1, <1>6, TwoSides DEF Says
  <2>2. q[i].key = d.key
    BY <1>6, <2>1 DEF ClientSays
  <2> QED BY <1>3, <1>4, <1>6, <2>2 DEF LateAnswers
<1> QED BY <1>5, <1>6 DEF LateRequests, LateAnswers

\* So the requests and the answers that are counted are all of them.
LEMMA JointOneRequest ==
  ASSUME ProtectedInv, Joint
  PROVE  OneRequest
<1> DEFINE c == tls[Client]
           v == tls[Server]
<1> SUFFICES ASSUME "peer" \in v.fin
             PROVE  Count(Server, "CERTIFICATE_REQUEST")
                      + One(c.pha = "REQUESTED" /\ c.hand_state # "CW_FINISHED")
                      + Count(Client, "FINISHED")
                      + One(v.hand_state = "SR_FINISHED" /\ v.pha = "REQUESTED")
                    = One(v.pha = "REQUESTED" \/ v.hand_state = "SW_CERT_REQ")
  BY DEF OneRequest
<1>1. /\ wire[Client] \in Seq(Rec) /\ wire[Server] \in Seq(Rec) /\ ServerAt(conf, v)
      /\ ClientPath(conf, c, v, wire[Client]) /\ ServerPath(c, v, wire[Server], conf)
      /\ RequestsOf(c, v, wire[Client], wire[Server])
  BY Both DEF Joint
<1>2. ServerPlace(conf, v).key >= ApplicationKey /\ ClientPlace(c).key >= ApplicationKey
  BY ServerAfterClient
<1>3. "own" \in v.fin
  BY <1>1 DEF ServerAt, ServerFar
<1> HIDE DEF c, v
<1>4. Count(Server, "CERTIFICATE_REQUEST") = HowMany(wire[Server], LateRequests)
  <2>1. \A i \in DOMAIN wire[Server] :
          wire[Server][i].type = "CERTIFICATE_REQUEST" <=> wire[Server][i] \in LateRequests
    BY <1>1, <1>2, AllLate, TwoSides DEF ServerPath
  <2>2. {i \in DOMAIN wire[Server] : wire[Server][i].type = "CERTIFICATE_REQUEST"}
        = {i \in DOMAIN wire[Server] : wire[Server][i] \in LateRequests}
    BY <2>1
  <2> QED BY <2>2 DEF Count, HowMany
<1>5. Count(Client, "FINISHED") = HowMany(wire[Client], LateAnswers)
  <2>1. \A i \in DOMAIN wire[Client] :
          wire[Client][i].type = "FINISHED" <=> wire[Client][i] \in LateAnswers
    <3>1. PICK x : Path(conf, Client, wire[Client], ServerPlace(conf, v), ClientSaid(conf, c, x))
      BY <1>1 DEF ClientPath
    <3> QED BY <1>1, <1>2, <3>1, AllLate, TwoSides
  <2>2. {i \in DOMAIN wire[Client] : wire[Client][i].type = "FINISHED"}
        = {i \in DOMAIN wire[Client] : wire[Client][i] \in LateAnswers}
    BY <2>1
  <2> QED BY <2>2 DEF Count, HowMany
<1> QED BY <1>1, <1>3, <1>4, <1>5 DEF RequestsOf, Answers, Waiting, Served

\* With nothing on its way each side is where the other has taken it.
LEMMA JointAgreement ==
  ASSUME ProtectedInv, CallsInv, Joint
  PROVE  Agreement
<1> DEFINE c == tls[Client]
           v == tls[Server]
<1> SUFFICES ASSUME \A s \in Sides : InitFinished(tls[s]) /\ wire[s] = << >>
             PROVE  /\ c.hit = v.hit /\ c.early_data = v.early_data
                    /\ c.cert = v.cert
                    /\ c.wkey = v.rkey /\ c.rkey = v.wkey
                    /\ got[Client].data = calls[Server].data
                    /\ got[Server].data >= calls[Client].data
  BY DEF Agreement
<1>1. /\ ClientAt(conf, c) /\ ServerAt(conf, v) /\ c \in Conn /\ v \in Conn
      /\ ClientOK(conf, c) /\ wire[Client] = << >> /\ wire[Server] = << >>
      /\ c.hand_state = "OK" /\ v.hand_state = "OK" /\ DataOf(conf)
      /\ ClientPath(conf, c, v, << >>) /\ ServerPath(c, v, << >>, conf)
  BY Both, TwoSides DEF Joint, ProtectedInv, InitFinished
<1>2. /\ got[Client].data = calls[Server].data /\ got[Server].data >= calls[Client].data
  <2>1. /\ got[Client].data \in Nat /\ got[Server].data \in Nat
        /\ calls[Client].data \in Nat /\ calls[Server].data \in Nat
    BY TwoSides DEF CallsInv
  <2> QED BY <1>1, <2>1, HowManyNone DEF DataOf
<1> HIDE DEF c, v
<1>3. "own" \in c.fin /\ "peer" \in c.fin /\ c.tls13
  BY <1>1 DEF ClientOK, ClientLate, ClientAt, ClientFar
<1>4. "own" \in v.fin /\ "peer" \in v.fin /\ v.hello_retry_request # "PENDING"
  BY <1>1 DEF ServerAt, ServerFar, ServerLate, ServerKnows, ServerHellos
<1>5. c.hit = v.hit /\ c.early_data = v.early_data
  BY <1>1, <1>3, <1>4 DEF ClientAt, ClientKnows, ClientData, ServerAt, ServerKnows, ServerData
<1>6. c.cert = v.cert /\ c.wkey = v.rkey
  <2>1. PICK x : Shown(c, x) /\ ServerPlace(conf, v) = ClientSaid(conf, c, x)
    BY <1>1, PathEmpty DEF ClientPath
  <2>2. x = c.cert
    BY <1>1, <1>3, <2>1 DEF Shown
  <2>3. Place("APP", v.rkey, v.cert) = Place("APP", c.wkey, x)
    BY <1>1, <1>3, <1>4, <2>1 DEF ServerPlace, ClientSaid
  <2> QED BY <2>2, <2>3, PlaceFields
<1>7. c.rkey = v.wkey
  <2>1. ClientPlace(c) = ServerSaid(v)
    BY <1>1, PathEmpty DEF ServerPath
  <2>2. Place("APP", c.rkey, "none") = Place("APP", v.wkey, "none")
    BY <1>1, <1>3, <1>4, <2>1 DEF ClientPlace, ServerSaid
  <2> QED BY <2>2, PlaceFields
<1> QED BY <1>2, <1>5, <1>6, <1>7

(***************************************************************************)
(* The theorems                                                            *)
(***************************************************************************)
\* What holds throughout.
JointInv == ProtectedInv /\ KeysInv /\ CallsInv /\ Joint

\* The joint invariant holds throughout, under the assumption on early writes.
LEMMA JointAlways ==
  ASSUME EarlyWritesHarmless
  PROVE  Spec => []JointInv
<1>1. Init => JointInv
  BY ProtectedStart, KeysStart, JointStart DEF JointInv
<1>2. JointInv /\ [Next]_vars => JointInv'
  BY ProtectedStep, KeysStep, JointStep, Tls13Assumption DEF JointInv
<1> QED BY <1>1, <1>2, PTL DEF Spec

\* Two sides of this library never break off a handshake with each other, whatever their
\* configurations, for any number of calls, records of data, KeyUpdates and requests for a
\* certificate and in every order of their steps: no record is undecipherable to its reader
\* (tls3_get_record), no message unexpected (the read transitions), no write transition
\* impossible.  Assumed is that a client that goes on with tls_write_early_data once it has begun
\* to read has a server that neither sends a HelloRetryRequest nor accepts early data, and that a
\* server that sends one writes no data before its Finished.  SSL_read_early_data.pod allows all
\* three: in the run tls13_early the handshake does break off, and in tls13_retry the data of
\* either side goes out in the clear, where the other expects none.
THEOREM HandshakeNeverFails ==
  ASSUME EarlyWritesHarmless
  PROVE  Spec => []NeverFails
<1>1. JointInv => NeverFails
  BY JointNeverFails DEF JointInv
<1> QED BY <1>1, JointAlways, PTL

\* When the server's tls_read_early_data reports the end of early data, the application has been
\* given each record the client wrote, if early data was accepted, and none if it was not.
THEOREM EarlyDataIsExact ==
  ASSUME EarlyWritesHarmless
  PROVE  Spec => []EarlyDataExact
<1>1. JointInv => EarlyDataExact
  BY JointEarlyData DEF JointInv
<1> QED BY <1>1, JointAlways, PTL

\* After the handshake a request of tls_verify_client_post_handshake that is open is in exactly
\* one place: on its way, with the client, or answered by a Finished that is on its way or just
\* read; and there is none in any of them when none is open.
THEOREM RequestsAreOne ==
  ASSUME EarlyWritesHarmless
  PROVE  Spec => []OneRequest
<1>1. JointInv => OneRequest
  BY JointOneRequest DEF JointInv
<1> QED BY <1>1, JointAlways, PTL

\* Two sides that have finished, with nothing on its way, agree on the resumption, on early data,
\* on the certificate of the client and on the keys of both directions, whatever KeyUpdates have
\* crossed; and all data has been delivered.
THEOREM SidesAgree ==
  ASSUME EarlyWritesHarmless
  PROVE  Spec => []Agreement
<1>1. JointInv => Agreement
  BY JointAgreement DEF JointInv
<1> QED BY <1>1, JointAlways, PTL

=============================================================================
