--------------------------- MODULE DtlsRecordWrite ---------------------------
(***************************************************************************)
(* The send side of a DTLS connection: the write epochs and sequence       *)
(* numbers of the record layer (do_dtls1_write, dtls1_reset_seq_numbers,   *)
(* DTLS_RECORD_LAYER_set_saved_w_epoch), the buffer of messages kept for   *)
(* retransmission (dtls1_buffer_message, dtls1_retransmit_message) and the *)
(* retransmission timer (d1_lib.c), driven by the write half of the        *)
(* handshake state machine (write_state_machine).                          *)
(*                                                                         *)
(* The peer is the environment: it answers a flight, sends its Finished    *)
(* again, asks for a renegotiation, or stays silent.  Certificates, key    *)
(* exchange and their like are one message, KEY_EXCH or SRVR_DONE: any of  *)
(* them is buffered and sent in the same way.                              *)
(***************************************************************************)
EXTENDS Integers, Sequences, FiniteSets

CONSTANTS
  TmoAlertCount,   \* DTLS1_TMO_ALERT_COUNT
  MaxFragments,    \* bound: the records one message may take
  MaxListenSeq,    \* bound: the sequence number DTLSv1_listen leaves
  MaxSeq,          \* bound: the sequence numbers of an epoch (2^48 - 1)
  MaxEpoch         \* bound: the write epoch (2^16 - 1)

ASSUME WriteAssumption ==
  /\ TmoAlertCount \in Nat /\ MaxFragments \in Nat \ {0}
  /\ MaxListenSeq \in Nat /\ MaxSeq \in Nat /\ MaxEpoch \in Nat

VARIABLES
  server,           \* the side this is, for good
  flow,             \* MSG_FLOW_*: "reading", "writing", "finished" (or uninited), "error"
  hand_state,       \* TLS_ST_*, without its prefix
  sending,          \* WRITE_STATE_SEND: a message is constructed but not written
  init_buf,         \* the message whose unsent part init_buf holds, or NoMessage
  hit,              \* the session is resumed
  renegotiate,
  rl,               \* epoch: w_epoch; write, last, curr: the *_write_sequence counters
  ctx,              \* enc_write_ctx, contexts being numbered as they are made
  etm,              \* TLS1_FLAGS_ENCRYPT_THEN_MAC_WRITE
  freed,            \* contexts that dtls1_hm_fragment_free has freed
  sent_messages,    \* the messages kept for retransmission
  resend,           \* those the running retransmission still has to send
  next_handshake_write_seq, use_timer,
  timer,            \* next_timeout is set
  num_alerts, alert_dispatch,
  written, used, flight   \* history: see below

machine == <<server, flow, hand_state, sending, hit, renegotiate>>
timers  == <<use_timer, timer, num_alerts>>
keys    == <<ctx, etm>>
history == <<written, used>>
vars    == <<machine, init_buf, rl, keys, freed, sent_messages, resend, flight,
             next_handshake_write_seq, timers, alert_dispatch, history>>

NoMessage == [seq |-> 0]

Epochs  == 0..MaxEpoch
Seqs    == 0..MaxSeq
Numbers == Epochs \X Seqs

\* hm_header_st of a sent message: the epoch and the context are its
\* saved_retransmit_state.
Messages == [seq : Nat, is_ccs : 0..1, epoch : Epochs, ctx : Nat]

\* written[<<e, s>>] counts the records given sequence number s in epoch e, used is
\* the set of states records were protected in, and flight the messages of this side
\* that the peer has not answered yet, in the order they were first sent.
Init ==
  /\ server \in BOOLEAN
  /\ flow = "finished" /\ hand_state = "BEFORE" /\ sending = FALSE
  /\ init_buf = NoMessage /\ hit = FALSE /\ renegotiate = FALSE
  /\ rl = [epoch |-> 0, write |-> 0, last |-> 0, curr |-> 0]
  /\ ctx = 0 /\ etm = FALSE /\ freed = {}
  /\ sent_messages = {} /\ resend = {} /\ flight = << >>
  /\ next_handshake_write_seq = 0
  /\ use_timer = FALSE /\ timer = FALSE /\ num_alerts = 0 /\ alert_dispatch = FALSE
  /\ written = [k \in Numbers |-> 0] /\ used = {}

(***************************************************************************)
(* Epochs and sequence numbers                                             *)
(***************************************************************************)
\* Mutant: the numbers of the epoch that is left are not kept.
ForgetLast(r, e) ==
  IF e = r.epoch - 1 THEN [epoch |-> e, write |-> r.last, last |-> r.last, curr |-> r.write]
  ELSE IF e = r.epoch + 1
       THEN [epoch |-> e, write |-> r.curr, last |-> r.last, curr |-> r.curr]
       ELSE [epoch |-> e, write |-> r.write, last |-> r.last, curr |-> r.curr]

\* DTLS_RECORD_LAYER_set_saved_w_epoch
set_saved_w_epoch(r, e) ==
  IF e = r.epoch - 1 THEN [epoch |-> e, write |-> r.last, last |-> r.last, curr |-> r.write]
  ELSE IF e = r.epoch + 1
       THEN [epoch |-> e, write |-> r.curr, last |-> r.write, curr |-> r.curr]
       ELSE [epoch |-> e, write |-> r.write, last |-> r.last, curr |-> r.curr]

\* do_dtls1_write, n times: every record takes the next number.
Advance(r, n) == [epoch |-> r.epoch, write |-> r.write + n, last |-> r.last, curr |-> r.curr]

\* dtls1_reset_seq_numbers(s, tls3_CC_WRITE)
dtls1_reset_seq_numbers(r) ==
  [epoch |-> r.epoch + 1, write |-> 0, last |-> r.write, curr |-> r.curr]

\* n records are protected with the numbers of r, the context c and the MAC order of
\* the connection.  A record the BIO refuses is dropped, but its number is gone.
Protect(r, n, c) ==
  /\ r.write + n <= MaxSeq + 1
  /\ written' = [k \in Numbers |->
                   IF k[1] = r.epoch /\ k[2] >= r.write /\ k[2] < r.write + n
                   THEN written[k] + 1 ELSE written[k]]
  /\ used' = IF n = 0 THEN used
             ELSE used \cup {[epoch |-> r.epoch, ctx |-> c, etm |-> etm]}

\* dtls1_do_write: a message goes out in some number of fragments.  do_dtls1_write
\* sends a pending alert first.  If it fails, it does so at any of the records.
WriteFragments(r, n, c, ok) ==
  LET alert == IF alert_dispatch THEN 1 ELSE 0
  IN  /\ IF ok THEN n \in 1 + alert .. MaxFragments + alert
               ELSE n \in 0 .. MaxFragments + alert
      /\ alert_dispatch' = (alert_dispatch /\ ~ ok /\ n <= 1)
      /\ Protect(r, n, c)

(***************************************************************************)
(* The buffer of sent messages                                             *)
(***************************************************************************)
\* Mutant: ChangeCipherSpec and Finished get the same place in the queue.
PriorityBySeq(seq, is_ccs) == seq * 2

dtls1_get_queue_priority(seq, is_ccs) == seq * 2 - is_ccs

Priority(m) == dtls1_get_queue_priority(m.seq, m.is_ccs)

\* dtls1_buffer_message: pqueue_insert refuses a second item of the same priority.
dtls1_buffer_message(q, m) ==
  IF \E i \in q : Priority(i) = Priority(m) THEN q ELSE q \cup {m}

\* Mutant: every message owns its context.
OwnedByAll == {m.ctx : m \in sent_messages}

\* dtls1_clear_sent_buffer frees these contexts: a ChangeCipherSpec owns the one it was
\* sent with.
Owned == {m.ctx : m \in {i \in sent_messages : i.is_ccs = 1}}

(***************************************************************************)
(* The write half of the state machine                                     *)
(***************************************************************************)
Writes == {"CW_CLNT_HELLO", "CW_KEY_EXCH", "CW_CHANGE", "CW_FINISHED", "SW_HELLO_REQ",
           "SW_HELLO_VERIFY_REQUEST", "SW_SRVR_HELLO", "SW_SRVR_DONE", "SW_SESSION_TICKET",
           "SW_CHANGE", "SW_FINISHED"}
Reads  == {"BEFORE", "OK", "CR_HELLO_VERIFY_REQUEST", "CR_SRVR_DONE", "CR_FINISHED",
           "CR_HELLO_REQ", "SR_CLNT_HELLO", "SR_FINISHED"}
Change == {"CW_CHANGE", "SW_CHANGE"}

\* otls_statem_client_write_transition: next is the message to write, OK at the end of
\* the handshake, STOP when it is the peer's turn.
ClientWriteTransition(h, next) ==
  \/ h \in {"BEFORE", "OK", "CR_HELLO_VERIFY_REQUEST"} /\ next = "CW_CLNT_HELLO"
  \/ h = "CW_CLNT_HELLO" /\ next = "STOP"
  \/ h = "CR_SRVR_DONE"  /\ next = "CW_KEY_EXCH"
  \/ h = "CW_KEY_EXCH"   /\ next = "CW_CHANGE"
  \/ h = "CW_CHANGE"     /\ next = "CW_FINISHED"
  \/ h = "CW_FINISHED"   /\ next = IF hit THEN "OK" ELSE "STOP"
  \/ h = "CR_FINISHED"   /\ next = IF hit THEN "CW_CHANGE" ELSE "OK"
  \/ h = "CR_HELLO_REQ"  /\ next = "OK"
  \/ h = "CR_HELLO_REQ"  /\ renegotiate /\ next = "CW_CLNT_HELLO"

\* otls_statem_server_write_transition.  In OK the server writes only to ask for a
\* renegotiation; the client's wish for one may be refused.
ServerWriteTransition(h, next) ==
  \/ h = "OK"                      /\ next = "SW_HELLO_REQ"
  \/ h = "SW_HELLO_REQ"            /\ next = "OK"
  \/ h = "SR_CLNT_HELLO"           /\ next = "SW_HELLO_VERIFY_REQUEST"
  \/ h = "SR_CLNT_HELLO"           /\ next = IF rl.epoch > 0 /\ ~ renegotiate
                                             THEN "OK" ELSE "SW_SRVR_HELLO"
  \/ h = "SW_HELLO_VERIFY_REQUEST" /\ next = "STOP"
  \/ h = "SW_SRVR_HELLO"           /\ hit   /\ next \in {"SW_SESSION_TICKET", "SW_CHANGE"}
  \/ h = "SW_SRVR_HELLO"           /\ ~ hit /\ next = "SW_SRVR_DONE"
  \/ h = "SW_SRVR_DONE"            /\ next = "STOP"
  \/ h = "SR_FINISHED"             /\ hit   /\ next = "OK"
  \/ h = "SR_FINISHED"             /\ ~ hit /\ next \in {"SW_SESSION_TICKET", "SW_CHANGE"}
  \/ h = "SW_SESSION_TICKET"       /\ next = "SW_CHANGE"
  \/ h = "SW_CHANGE"               /\ next = "SW_FINISHED"
  \/ h = "SW_FINISHED"             /\ next = IF hit THEN "STOP" ELSE "OK"

WriteTransition(next) == IF server THEN ServerWriteTransition(hand_state, next)
                                   ELSE ClientWriteTransition(hand_state, next)

\* The pre_work functions: who uses the timer.  The last flight does not.
UseTimer(h) ==
  IF h \in {"SW_HELLO_VERIFY_REQUEST", "SW_SESSION_TICKET", "SW_CHANGE"}
     \/ (h = "CW_CHANGE" /\ hit)
  THEN FALSE
  ELSE h \in {"CW_CLNT_HELLO", "SW_SRVR_HELLO"} \/ use_timer

\* The pre_work of these clears the sent messages.
Clears == {"SW_HELLO_REQ", "SW_HELLO_VERIFY_REQUEST"}

\* write_state_machine up to WRITE_STATE_SEND: pre_work, the header with the message's
\* number, dtls1_close_construct_packet, which buffers the message, and the timer.  A
\* HelloVerifyRequest is not buffered.
ConstructMessage(h) ==
  LET m == [seq |-> next_handshake_write_seq, is_ccs |-> IF h \in Change THEN 1 ELSE 0,
            epoch |-> rl.epoch, ctx |-> ctx]
      kept == IF h \in Clears THEN {} ELSE sent_messages
  IN  /\ flow = "writing" /\ ~ sending /\ resend = {}
      /\ WriteTransition(h)
      /\ h \in Change => rl.epoch < MaxEpoch
      /\ hand_state' = h /\ sending' = TRUE /\ init_buf' = m
      /\ next_handshake_write_seq' =
           IF h \in Change THEN next_handshake_write_seq ELSE next_handshake_write_seq + 1
      /\ sent_messages' = IF h = "SW_HELLO_VERIFY_REQUEST" THEN {}
                          ELSE dtls1_buffer_message(kept, m)
      /\ freed' = IF h \in Clears THEN freed \cup Owned ELSE freed
      /\ flight' = IF h = "SW_HELLO_VERIFY_REQUEST" THEN << >>
                   ELSE Append(IF h \in Clears THEN << >> ELSE flight, m)
      /\ use_timer' = UseTimer(h)
      /\ timer' = (timer \/ UseTimer(h))
      /\ UNCHANGED <<server, flow, hit, renegotiate, rl, keys, resend, num_alerts, alert_dispatch, history>>

\* WRITE_STATE_SEND and the post_work: what init_buf holds is written, and after a
\* ChangeCipherSpec the keys change.  If init_buf is empty dtls1_do_write fails, and
\* nothing changes.
SendMessage ==
  /\ flow = "writing" /\ sending /\ resend = {} /\ init_buf # NoMessage
  /\ \E n \in 1 .. MaxFragments + 1 :
       /\ WriteFragments(rl, n, ctx, TRUE)
       /\ IF hand_state \in Change
          THEN /\ rl' = dtls1_reset_seq_numbers(Advance(rl, n))
               /\ ctx' = ctx + 1 /\ etm' \in BOOLEAN
          ELSE rl' = Advance(rl, n) /\ UNCHANGED keys
  /\ sending' = FALSE /\ init_buf' = NoMessage
  /\ UNCHANGED <<server, flow, hand_state, hit, renegotiate, freed, sent_messages, resend, flight,
                 next_handshake_write_seq, timers>>

\* The BIO refuses a write or a flush: tls_do_handshake returns, to be called again.
SendInterrupted ==
  /\ flow = "writing" /\ sending /\ resend = {} /\ init_buf # NoMessage
  /\ \E n \in 0 .. MaxFragments + 1 :
       WriteFragments(rl, n, ctx, FALSE) /\ rl' = Advance(rl, n)
  /\ UNCHANGED <<machine, init_buf, keys, freed, sent_messages, resend, flight,
                 next_handshake_write_seq, timers>>

\* WRITE_TRAN_FINISHED: the peer's turn.
EndFlight ==
  /\ flow = "writing" /\ ~ sending /\ resend = {} /\ WriteTransition("STOP")
  /\ flow' = "reading"
  /\ UNCHANGED <<server, hand_state, sending, hit, renegotiate, init_buf, rl, keys, freed, sent_messages, resend,
                 flight, next_handshake_write_seq, timers, alert_dispatch, history>>

\* tls_finish_handshake.  After a HelloRequest, or a renegotiation that did not begin,
\* there is no handshake to clean up: the message numbers go on.
FinishHandshake ==
  LET cleanuphand == hand_state \notin {"SW_HELLO_REQ", "CR_HELLO_REQ", "SR_CLNT_HELLO"}
  IN  /\ flow = "writing" /\ ~ sending /\ resend = {} /\ WriteTransition("OK")
      /\ flow' = "finished" /\ hand_state' = "OK"
      /\ renegotiate' = (renegotiate /\ ~ cleanuphand)
      /\ next_handshake_write_seq' = IF cleanuphand THEN 0 ELSE next_handshake_write_seq
      /\ UNCHANGED <<server, sending, hit, init_buf, rl, keys, freed, sent_messages, resend,
                     flight, timers, alert_dispatch, history>>

(***************************************************************************)
(* Reading, as far as it matters here                                      *)
(***************************************************************************)
\* The message that ends a flight of the peer, as a hand_state, and whether it resumes
\* a session.
LastOfFlight(h, resumed) ==
  IF server
  THEN \/ hand_state \in {"BEFORE", "OK", "SW_HELLO_VERIFY_REQUEST"} /\ h = "SR_CLNT_HELLO"
       \/ hand_state \in {"SW_SRVR_DONE", "SW_FINISHED"} /\ h = "SR_FINISHED" /\ resumed = hit
  ELSE \/ hand_state = "OK" /\ h = "CR_HELLO_REQ" /\ resumed = hit
       \/ hand_state = "CW_CLNT_HELLO" /\ h = "CR_HELLO_VERIFY_REQUEST" /\ resumed = hit
       \/ hand_state = "CW_CLNT_HELLO" /\ h = "CR_SRVR_DONE" /\ resumed = FALSE
       \/ hand_state = "CW_CLNT_HELLO" /\ h = "CR_FINISHED" /\ resumed = TRUE
       \/ hand_state = "CW_FINISHED" /\ h = "CR_FINISHED" /\ resumed = hit

\* Mutant: the sent messages outlive the peer's answer.
KeepSentMessages ==
  /\ timer' = FALSE /\ num_alerts' = 0
  /\ UNCHANGED <<sent_messages, freed>>

\* dtls1_stop_timer
dtls1_stop_timer ==
  /\ timer' = FALSE /\ num_alerts' = 0
  /\ sent_messages' = {} /\ freed' = freed \cup Owned

\* read_state_machine ends with the last message of the peer's flight.  A hello that
\* asks for a renegotiation sets renegotiate, unless that is refused, with an alert.
ReadFlight(h, resumed) ==
  /\ flow = "reading" /\ resend = {} /\ LastOfFlight(h, resumed)
  /\ flow' = "writing" /\ hand_state' = h /\ hit' = resumed
  /\ dtls1_stop_timer
  /\ flight' = << >>
  /\ \/ /\ renegotiate' = (renegotiate \/ hand_state = "OK")
        /\ UNCHANGED <<rl, history, alert_dispatch>>
     \/ /\ hand_state = "OK" /\ ~ renegotiate /\ UNCHANGED renegotiate
        /\ Protect(rl, 1, ctx) /\ rl' = Advance(rl, 1)
        /\ alert_dispatch' \in BOOLEAN
  /\ UNCHANGED <<server, sending, init_buf, keys, resend, next_handshake_write_seq, use_timer>>

\* tlsfatal() while reading: the alert goes out, or stays pending.
ReadFatal ==
  /\ flow = "reading" /\ resend = {}
  /\ flow' = "error"
  /\ Protect(rl, 1, ctx) /\ rl' = Advance(rl, 1)
  /\ alert_dispatch' \in BOOLEAN
  /\ UNCHANGED <<server, hand_state, sending, hit, renegotiate, init_buf, keys, freed, sent_messages, resend,
                 flight, next_handshake_write_seq, timers>>

(***************************************************************************)
(* Between handshakes                                                      *)
(***************************************************************************)
\* state_machine leaves MSG_FLOW_UNINITED or MSG_FLOW_FINISHED.  It writes first in a
\* client's first handshake and after tls_renegotiate; a message of the peer makes it
\* read.
BeginHandshake(to) ==
  /\ flow = "finished" /\ resend = {}
  /\ IF hand_state = "BEFORE" THEN to = (IF server THEN "reading" ELSE "writing")
     ELSE to = "reading" => server \/ ~ renegotiate
  /\ flow' = to /\ init_buf' = NoMessage
  /\ renegotiate' = (renegotiate \/ (to = "writing" /\ hand_state = "OK"))
  /\ flight' = IF to = "writing" THEN << >> ELSE flight
  /\ UNCHANGED <<server, hand_state, sending, hit, rl, keys, freed, sent_messages, resend,
                 next_handshake_write_seq, timers, alert_dispatch, history>>

\* DTLSv1_listen: the record numbers go on from those of the ClientHello it accepted.
DTLSv1_listen(seq) ==
  /\ server /\ flow = "finished" /\ hand_state = "BEFORE" /\ next_handshake_write_seq = 0
  /\ next_handshake_write_seq' = 1
  /\ rl' = [epoch |-> rl.epoch, write |-> seq, last |-> rl.last, curr |-> rl.curr]
  /\ UNCHANGED <<machine, init_buf, keys, freed, sent_messages, resend, flight, timers,
                 alert_dispatch, history>>

\* dtls1_write_app_data_bytes, after any pending alert.
WriteAppData ==
  /\ flow = "finished" /\ hand_state = "OK" /\ resend = {}
  /\ LET n == IF alert_dispatch THEN 2 ELSE 1
     IN  Protect(rl, n, ctx) /\ rl' = Advance(rl, n)
  /\ alert_dispatch' = FALSE
  /\ UNCHANGED <<machine, init_buf, keys, freed, sent_messages, resend, flight,
                 next_handshake_write_seq, timers>>

\* tls3_send_alert: the alert is dispatched at once, or stays pending.
SendAlert ==
  /\ flow = "finished" /\ hand_state = "OK" /\ resend = {}
  /\ Protect(rl, 1, ctx) /\ rl' = Advance(rl, 1)
  /\ alert_dispatch' \in BOOLEAN
  /\ UNCHANGED <<machine, init_buf, keys, freed, sent_messages, resend, flight,
                 next_handshake_write_seq, timers>>

\* tls_clear, which fails while a renegotiation is wanted or under way.
tls_clear ==
  /\ resend = {} /\ ~ renegotiate
  /\ flow' = "finished" /\ hand_state' = "BEFORE" /\ sending' = FALSE
  /\ init_buf' = NoMessage /\ hit' = FALSE /\ renegotiate' = FALSE
  /\ rl' = [epoch |-> 0, write |-> 0, last |-> 0, curr |-> 0]
  /\ ctx' = 0 /\ etm' = FALSE /\ freed' = {}
  /\ sent_messages' = {} /\ resend' = {} /\ flight' = << >>
  /\ next_handshake_write_seq' = 0
  /\ use_timer' = FALSE /\ timer' = FALSE /\ num_alerts' = 0 /\ alert_dispatch' = FALSE
  /\ written' = [k \in Numbers |-> 0] /\ used' = {}
  /\ UNCHANGED server

(***************************************************************************)
(* Retransmission                                                          *)
(***************************************************************************)
\* Mutant: the timeouts are not counted.
UncountedTimeouts == resend' = sent_messages /\ UNCHANGED <<flow, num_alerts>>

\* dtls1_check_timeout_num, and then what follows it when it does not fail.
CheckTimeoutNum ==
  /\ num_alerts' = num_alerts + 1
  /\ IF num_alerts' > TmoAlertCount
     THEN flow' = "error" /\ UNCHANGED resend
     ELSE resend' = sent_messages /\ UNCHANGED flow

\* No call of the library is running, or one that reads is.
MayTimeOut == /\ resend = {} /\ num_alerts <= TmoAlertCount
              /\ \/ flow # "writing" \/ sending
                 \/ hand_state \in {"CW_CLNT_HELLO", "SW_SRVR_DONE", "CW_FINISHED", "SW_FINISHED"}

\* dtls1_handle_timeout, from dtls1_read_bytes, dtls1_read_failed, or the application.
dtls1_handle_timeout ==
  /\ timer /\ MayTimeOut
  /\ CheckTimeoutNum
  /\ UNCHANGED <<server, hand_state, sending, hit, renegotiate, init_buf, rl, keys, freed, sent_messages, flight,
                 next_handshake_write_seq, use_timer, timer, alert_dispatch, history>>

\* dtls1_read_bytes after the handshake: the peer's Finished has come again.
RepeatedFinished ==
  /\ flow = "finished" /\ hand_state = "OK" /\ resend = {}
  /\ CheckTimeoutNum
  /\ UNCHANGED <<server, hand_state, sending, hit, renegotiate, init_buf, rl, keys, freed, sent_messages, flight,
                 next_handshake_write_seq, use_timer, timer, alert_dispatch, history>>

\* Mutant: the context is left as it is.
CurrentContext(m) == ctx

\* The context dtls1_retransmit_message puts back.
SavedContext(m) == m.ctx

\* dtls1_retransmit_message, for the next message of the queue: the epoch and the
\* context it was first sent with are put back, it is copied over init_buf and
\* written, and the current ones are restored.  A failure ends the retransmission and
\* leaves the rest of the message in init_buf.
dtls1_retransmit_message(ok) ==
  \E m \in resend :
    LET then == set_saved_w_epoch(rl, m.epoch)
    IN  /\ \A i \in resend : Priority(m) <= Priority(i)
        /\ \E n \in 0 .. MaxFragments + 1 :
             /\ WriteFragments(then, n, SavedContext(m), ok)
             /\ rl' = set_saved_w_epoch(Advance(then, n), rl.epoch)
        /\ resend' = IF ok THEN resend \ {m} ELSE {}
        /\ init_buf' = IF ok THEN NoMessage ELSE m
        /\ UNCHANGED <<machine, keys, freed, sent_messages, flight,
                       next_handshake_write_seq, timers>>

(***************************************************************************)
(* The specification                                                       *)
(***************************************************************************)
Handshake == \/ \E h \in Writes : ConstructMessage(h)
             \/ SendMessage \/ SendInterrupted \/ EndFlight \/ FinishHandshake
             \/ \E h \in Reads, resumed \in BOOLEAN : ReadFlight(h, resumed)
             \/ ReadFatal
             \/ \E to \in {"reading", "writing"} : BeginHandshake(to)
             \/ \E seq \in 0..MaxListenSeq : DTLSv1_listen(seq)

Connected  == WriteAppData \/ SendAlert \/ RepeatedFinished \/ tls_clear

Retransmit == dtls1_handle_timeout \/ \E ok \in BOOLEAN : dtls1_retransmit_message(ok)

Next == Handshake \/ Connected \/ Retransmit

Spec == Init /\ [][Next]_vars

(***************************************************************************)
(* Properties                                                              *)
(***************************************************************************)
\* Types, and a retransmission only concerns messages still buffered.
TypeOK ==
  /\ server \in BOOLEAN /\ flow \in {"reading", "writing", "finished", "error"}
  /\ hand_state \in Writes \cup Reads
  /\ sending \in BOOLEAN /\ hit \in BOOLEAN /\ renegotiate \in BOOLEAN
  /\ init_buf \in Messages \cup {NoMessage}
  /\ rl \in [epoch : Epochs, write : Nat, last : Nat, curr : Nat]
  /\ ctx \in Nat /\ etm \in BOOLEAN /\ freed \subseteq Nat
  /\ sent_messages \subseteq Messages /\ resend \subseteq sent_messages
  /\ next_handshake_write_seq \in Nat
  /\ use_timer \in BOOLEAN /\ timer \in BOOLEAN /\ num_alerts \in Nat
  /\ alert_dispatch \in BOOLEAN
  /\ written \in [Numbers -> Nat]
  /\ used \subseteq [epoch : Epochs, ctx : Nat, etm : BOOLEAN]

\* do_dtls1_write never gives the same epoch and sequence number to two records,
\* whatever is retransmitted, interrupted and renegotiated in between.
NoReuse == \A k \in Numbers : written[k] <= 1

\* An epoch stands for one set of keys: what dtls1_retransmit_message sends again in an
\* epoch is protected with the context that the epoch's other records used.
OneKeyPerEpoch == \A u, v \in used : u.epoch = v.epoch <=> u.ctx = v.ctx

\* dtls1_hm_fragment_free gives up a context only when no message that may be sent again
\* needs it, and never the current one.
ContextsAlive == ctx \notin freed /\ \A m \in sent_messages : m.ctx \notin freed

\* What the peer has not answered can be sent again: every message of the flight is in
\* sent_messages, and dtls1_get_queue_priority puts them in the order they were sent.
FlightKept ==
  /\ \A i \in 1..Len(flight) : flight[i] \in sent_messages
  /\ \A i, j \in 1..Len(flight) : i < j => Priority(flight[i]) < Priority(flight[j])

\* dtls1_retransmit_message restores the state in which the message was first sent: no
\* epoch with keys mixes encrypt-then-MAC and MAC-then-encrypt.
OneMacOrderPerEpoch == \A u, v \in used : u.epoch = v.epoch /\ u.epoch > 0 => u.etm = v.etm

(***************************************************************************)
(* The inductive invariant                                                 *)
(***************************************************************************)
\* A number is used once, and the counters of the current and of the last epoch are past
\* every number used in them.
NumbersInv ==
  \A k \in Numbers :
    /\ written[k] <= 1
    /\ written[k] > 0 => /\ k[1] <= rl.epoch
                         /\ k[1] = rl.epoch => k[2] < rl.write
                         /\ k[1] = rl.epoch - 1 => k[2] < rl.last

\* A flight that leads to a ChangeCipherSpec is being written, and its keys have not
\* changed yet.
Fresh ==
  /\ flow = "writing"
  /\ \/ hand_state \in {"CR_SRVR_DONE", "CW_KEY_EXCH", "CR_FINISHED", "SR_CLNT_HELLO",
                        "SR_FINISHED", "SW_SRVR_HELLO", "SW_SESSION_TICKET"}
     \/ hand_state \in Change /\ sending

\* A connection that has not begun has neither buffered nor sent anything.
StartInv ==
  /\ flow = "finished" => hand_state \in {"BEFORE", "OK"}
  /\ hand_state = "BEFORE" =>
       /\ sent_messages = {}
       /\ flow = "finished" => \A k \in Numbers : written[k] = 0

\* Buffered messages are of the last two epochs, the two whose counters the record layer
\* has; before the epoch changes, they are all of the current one.
EpochsInv ==
  /\ sending /\ hand_state \in Change => rl.epoch < MaxEpoch
  /\ \A m \in sent_messages : /\ m.epoch \in {rl.epoch - 1, rl.epoch}
                              /\ Fresh => m.epoch = rl.epoch

\* The contexts are numbered like the epochs.
KeysInv == /\ ctx = rl.epoch
           /\ \A m \in sent_messages : m.ctx = m.epoch
           /\ \A u \in used : u.ctx = u.epoch

\* What is freed is older than what is buffered; a ChangeCipherSpec is of an older epoch
\* once it is sent.
ContextsInv ==
  /\ sending => flow \in {"writing", "error"}
  /\ \A c \in freed : c < rl.epoch /\ \A m \in sent_messages : c < m.epoch
  /\ \A m \in sent_messages :
       m.is_ccs = 1 => m.epoch < rl.epoch \/ (sending /\ hand_state \in Change)

\* The invariant that makes NoReuse, OneKeyPerEpoch and ContextsAlive inductive: the send
\* buffer never reaches back further than the counters of the record layer do.
WriteInv == TypeOK /\ NumbersInv /\ StartInv /\ EpochsInv /\ KeysInv /\ ContextsInv

(***************************************************************************)
(* Liveness                                                                *)
(***************************************************************************)
\* A call that runs goes on, and an expired timer is noticed, by the next read or by the
\* application's call of dtls1_handle_timeout.
FairSpec == /\ Spec
            /\ WF_vars((\E h \in Writes : ConstructMessage(h)) \/ EndFlight \/ FinishHandshake)
            /\ WF_vars(dtls1_handle_timeout)
            /\ WF_vars(\E ok \in BOOLEAN : dtls1_retransmit_message(ok))

\* The bounds of the model stop the connection.
AtBound == rl.epoch = MaxEpoch \/ rl.write >= MaxSeq \/ rl.last >= MaxSeq

\* dtls1_check_timeout_num ends it: a flight that is never answered is not retransmitted
\* for ever, the connection fails.
GivesUp == timer ~> (~ timer \/ flow = "error" \/ AtBound)
=============================================================================
