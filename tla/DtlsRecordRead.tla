--------------------------- MODULE DtlsRecordRead ---------------------------
(***************************************************************************)
(* The receive side of the DTLS record layer: dtls1_read_bytes and the     *)
(* functions below it (dtls1_get_record, dtls1_process_buffered_records,   *)
(* dtls1_buffer_record, dtls1_get_bitmap), with the two handshake steps    *)
(* that change its state, ChangeCipherSpec and Finished.                   *)
(*                                                                         *)
(* The network gives any datagram of Datagrams at any time: that covers    *)
(* loss, duplication and reordering.  pc is the place inside the running   *)
(* call; everything between two values of pc is one thread's straight      *)
(* code.  A record is handed over whole.                                   *)
(***************************************************************************)
EXTENDS DtlsReplayWindow, Sequences, FiniteSets

CONSTANTS
  Records,        \* records the network can hold
  Datagrams,      \* non-empty sequences of records: what one read returns
  QueueLimit,     \* 100, the limit of dtls1_buffer_record
  MaxWarnAlert,   \* MAX_WARN_ALERT_COUNT
  MaxEpoch        \* bound: the read epoch stops growing there

NoRecord == [type |-> "none"]

\* "fin" is a handshake record that carries Finished, "hs" any other one.
Handshake == {"hs", "fin"}
Alert     == {"warn", "close_notify", "fatal_alert"}
Types     == Handshake \cup Alert \cup {"ccs", "app"}

\* What header checks and dtls1_process_record make of the record: it is good, fails
\* its MAC, is fatally long after decryption, is empty, or has a bad header.
Bodies == {"good", "bad_mac", "overflow", "empty", "bad_header"}

ASSUME ReadAssumption ==
  /\ \A r \in Records : /\ r \in [epoch : Nat, seq : SeqNums, type : Types, body : Bodies]
                        /\ r # NoRecord
  /\ Datagrams \subseteq Seq(Records)
  /\ << >> \notin Datagrams
  /\ QueueLimit \in Nat \ {0} /\ MaxWarnAlert \in Nat \ {0} /\ MaxEpoch \in Nat

VARIABLES
  pc,                  \* place in the call: see the actions
  want,                \* the type argument: "hs", "app" or "none" (0)
  r_epoch, bitmap, next_bitmap,
  unprocessed_rcds, unprocessed_epoch, processed_rcds, buffered_app_data,
  rbuf,                \* records of the current datagram not read yet
  rrec,                \* the current record once processed, NoRecord when its length is 0
  change_cipher_spec, in_init, shutdown, alert_count,
  err,                 \* "ok", "error": MSG_FLOW_ERROR, "unseen": MSG_FLOW_ERROR
                       \* but the running call goes on
  accepted, handed     \* history, see below

queues == <<unprocessed_rcds, unprocessed_epoch, processed_rcds, buffered_app_data>>
window == <<r_epoch, bitmap, next_bitmap, accepted>>
conn   == <<change_cipher_spec, in_init, shutdown, alert_count, err>>
vars   == <<pc, want, queues, window, rbuf, rrec, conn, handed>>

Key(r) == <<r.epoch, r.seq>>
Keys   == {Key(r) : r \in Records}

\* A buffered record takes the read buffer with it, and so the records that
\* came after it in its datagram (DTLS1_RECORD_DATA.rbuf).
Items == [rec : Records, rest : Seq(Records)]

(***************************************************************************)
(* Priority queues (pqueue.c), ordered by sequence number alone.           *)
(***************************************************************************)
IsFirst(item, q) == item \in q /\ \A i \in q : item.rec.seq <= i.rec.seq

pqueue_insert(q, item) ==
  IF \E i \in q : i.rec.seq = item.rec.seq THEN q ELSE q \cup {item}

\* Mutant: one record too many.
RoomForOneMore(q) == Cardinality(q) <= QueueLimit

\* dtls1_buffer_record: refuses at the limit; otherwise the record goes into the
\* queue with the read buffer, whether or not it turns out to be a duplicate.
Room(q) == Cardinality(q) < QueueLimit

dtls1_buffer_record(q, item) == IF Room(q) THEN pqueue_insert(q, item) ELSE q

RbufAfterBuffering(q, rest) == IF Room(q) THEN << >> ELSE rest

(***************************************************************************)
(* Epochs                                                                  *)
(***************************************************************************)
\* Mutant: records of the next epoch are taken while records of the last
\* one are still unprocessed.
NextEpochAlways(r) == r.epoch = r_epoch + 1 /\ r.type \in Handshake \cup Alert

\* dtls1_get_bitmap: the two epochs a record may belong to.
IsNextEpoch(r) == /\ r.epoch = r_epoch + 1
                  /\ unprocessed_epoch # r_epoch
                  /\ r.type \in Handshake \cup Alert

HasBitmap(r)   == r.epoch = r_epoch \/ IsNextEpoch(r)
BitmapOf(r)    == IF r.epoch = r_epoch THEN bitmap ELSE next_bitmap

\* dtls1_process_record succeeded: the window marks it.
MarkReceived(r) ==
  /\ bitmap' = dtls1_record_bitmap_update(bitmap, r.seq)
  /\ accepted' = accepted \cup {Key(r)}
  /\ UNCHANGED <<r_epoch, next_bitmap>>

Init ==
  /\ pc = "idle" /\ want = "none"
  /\ r_epoch = 0 /\ bitmap = ZeroBitmap /\ next_bitmap = ZeroBitmap
  /\ unprocessed_rcds = {} /\ unprocessed_epoch = 0
  /\ processed_rcds = {} /\ buffered_app_data = {}
  /\ rbuf = << >> /\ rrec = NoRecord
  /\ change_cipher_spec = FALSE /\ in_init = TRUE /\ shutdown = {}
  /\ alert_count = 0 /\ err = "ok"
  /\ accepted = {} /\ handed = [k \in Keys |-> 0]

(***************************************************************************)
(* dtls1_read_bytes, up to the current record                              *)
(***************************************************************************)
\* A call.  While a handshake is in progress it is the state machine that reads,
\* asking for handshake records; otherwise tls_read asks for application data
\* and tls_shutdown for nothing.
dtls1_read_bytes(type) ==
  /\ pc = "idle" /\ err # "error"
  /\ IF in_init THEN type = "hs"
     ELSE \/ type = "app" /\ "received" \notin shutdown
          \/ type = "none" /\ shutdown = {"sent"}
  /\ want' = type /\ pc' = "start"
  /\ UNCHANGED <<queues, window, rbuf, rrec, conn, handed>>

\* Once the handshake is over, application data buffered during it comes first.
\* Taking it releases the read buffer.
TakeBufferedAppData ==
  /\ pc = "start" /\ ~ in_init /\ rrec = NoRecord
  /\ \E item \in buffered_app_data :
       /\ IsFirst(item, buffered_app_data)
       /\ buffered_app_data' = buffered_app_data \ {item}
       /\ rrec' = item.rec /\ rbuf' = item.rest
  /\ pc' = "have"
  /\ UNCHANGED <<want, unprocessed_rcds, unprocessed_epoch, processed_rcds, window, conn, handed>>

\* Mutant: the current record is used even when it is empty.
UseStaleRecord ==
  /\ pc = "start" /\ pc' = "have"
  /\ UNCHANGED <<want, queues, window, rbuf, rrec, conn, handed>>

\* Before it looks for a record, and again at every goto start, the call returns if the
\* connection is in error.
ReturnInError ==
  /\ pc = "start" /\ err # "ok"
  /\ pc' = "idle" /\ err' = "error"
  /\ UNCHANGED <<want, queues, window, rbuf, rrec, handed,
                 change_cipher_spec, in_init, shutdown, alert_count>>

\* The current record if it is not used up, else dtls1_get_record.
NeedRecord ==
  /\ pc = "start" /\ err = "ok"
  /\ IF rrec = NoRecord
     THEN /\ in_init \/ buffered_app_data = {}
          /\ pc' = "again"
     ELSE pc' = "have"
  /\ UNCHANGED <<want, queues, window, rbuf, rrec, conn, handed>>

(***************************************************************************)
(* dtls1_process_buffered_records                                          *)
(***************************************************************************)
\* Mutant: the test of what is left of the datagram is the wrong way round.
BeginWhenDataLeft ==
  /\ pc = "again" /\ unprocessed_rcds # {}
  /\ pc' = IF unprocessed_epoch = r_epoch /\ rbuf # << >> THEN "drain" ELSE "wire"
  /\ UNCHANGED <<want, queues, window, rbuf, rrec, conn, handed>>

\* The head of the function: nothing to do, wait for the rest of the datagram,
\* or go through the queue.
BeginProcessBuffered ==
  /\ pc = "again" /\ unprocessed_rcds # {}
  /\ pc' = IF unprocessed_epoch = r_epoch /\ rbuf = << >> THEN "drain" ELSE "wire"
  /\ UNCHANGED <<want, queues, window, rbuf, rrec, conn, handed>>

\* Mutant: a buffered record is not checked again.
NoRecheck(r) == TRUE

\* The window may have moved since the record was buffered, so it is checked again.
ReplayRecheck(r) == dtls1_record_replay_check(bitmap, r.seq)

\* One turn of its loop.  A record without a bitmap is an internal error; a repeat
\* or a bad MAC is dumped; a fatal error makes the function return -1, which
\* dtls1_get_record takes for success; a good record is marked and moved to
\* processed_rcds.
ProcessBuffered ==
  /\ pc = "drain"
  /\ \E item \in unprocessed_rcds :
       /\ IsFirst(item, unprocessed_rcds)
       /\ unprocessed_rcds' = unprocessed_rcds \ {item}
       /\ \/ /\ HasBitmap(item.rec)
             /\ ReplayRecheck(item.rec)
             /\ item.rec.body = "good"
             /\ MarkReceived(item.rec)
             /\ processed_rcds' = dtls1_buffer_record(processed_rcds, item)
             /\ rbuf' = RbufAfterBuffering(processed_rcds, item.rest)
             /\ UNCHANGED <<pc, err, in_init>>
          \/ LET noBitmap == ~ HasBitmap(item.rec)
                 replayOk == ReplayRecheck(item.rec)
                 fatal    == replayOk /\ item.rec.body = "overflow"
             IN  /\ noBitmap \/ ~ replayOk \/ item.rec.body # "good"
                 /\ pc'  = IF noBitmap THEN "idle" ELSE IF fatal THEN "wire" ELSE "drain"
                 /\ err' = IF noBitmap THEN "error" ELSE IF fatal THEN "unseen" ELSE err
                 /\ in_init' = (in_init \/ noBitmap \/ fatal)
                 /\ rbuf' = item.rest
                 /\ UNCHANGED <<processed_rcds, window>>
  /\ UNCHANGED <<want, unprocessed_epoch, buffered_app_data, rrec, handed,
                 change_cipher_spec, shutdown, alert_count>>

\* The end of the function: the queue is empty, its epoch becomes the next one.
SyncEpoch ==
  /\ pc \in {"again", "drain"} /\ unprocessed_rcds = {}
  /\ unprocessed_epoch' = r_epoch + 1
  /\ pc' = "wire"
  /\ UNCHANGED <<want, unprocessed_rcds, processed_rcds, buffered_app_data, window, rbuf, rrec, conn, handed>>

(***************************************************************************)
(* dtls1_get_record, after the buffered records                            *)
(***************************************************************************)
\* dtls1_get_processed_record: a processed record comes before the wire.
TakeProcessed ==
  /\ pc = "wire"
  /\ \E item \in processed_rcds :
       /\ IsFirst(item, processed_rcds)
       /\ processed_rcds' = processed_rcds \ {item}
       /\ rrec' = item.rec /\ rbuf' = item.rest
  /\ pc' = "have"
  /\ UNCHANGED <<want, unprocessed_rcds, unprocessed_epoch, buffered_app_data, window, conn, handed>>

\* Mutant: the wire is read although processed records wait.
AtWire == pc = "wire"

\* Only when no processed record is left is the wire read.
WireTurn == pc = "wire" /\ processed_rcds = {}

\* tls3_read_n: the records of the current datagram, or of a new one when it is
\* used up.
Incoming == IF rbuf = << >> THEN Datagrams ELSE {rbuf}

\* BIO_read has nothing: the call returns.  dtls1_read_failed hands the error on,
\* and if MSG_FLOW_ERROR was set every later call fails.
WouldBlock ==
  /\ WireTurn /\ rbuf = << >>
  /\ pc' = "idle"
  /\ err' = IF err = "unseen" THEN "error" ELSE err
  /\ UNCHANGED <<want, queues, window, rbuf, rrec, handed,
                 change_cipher_spec, in_init, shutdown, alert_count>>

\* The record is dumped and the next one is read.
Dump(rest) ==
  /\ rbuf' = rest /\ rrec' = NoRecord /\ pc' = "again"
  /\ UNCHANGED <<want, queues, window, conn, handed>>

\* A record that is dropped without a word: no bitmap, a repeat, empty, of the next
\* epoch outside a handshake, or with a bad MAC.  After a bad header the body is
\* taken for the next header, so the rest of the datagram may be lost as well.
DropRecord ==
  /\ WireTurn
  /\ \E d \in Incoming :
       LET r == Head(d)
       IN  \/ r.body = "bad_header" /\ \E rest \in {Tail(d), << >>} : Dump(rest)
           \/ /\ r.body # "bad_header"
              /\ \/ ~ HasBitmap(r)
                 \/ ~ dtls1_record_replay_check(BitmapOf(r), r.seq)
                 \/ r.body = "empty"
                 \/ IsNextEpoch(r) /\ ~ in_init
                 \/ ~ IsNextEpoch(r) /\ r.body = "bad_mac"
              /\ Dump(Tail(d))

\* A record the epoch and the window let through.
Passes(r) == /\ r.body \notin {"bad_header", "empty"}
             /\ HasBitmap(r) /\ dtls1_record_replay_check(BitmapOf(r), r.seq)

\* A record of the next epoch waits for the ChangeCipherSpec.
BufferNextEpoch ==
  /\ WireTurn /\ in_init
  /\ \E d \in Incoming :
       /\ Passes(Head(d)) /\ IsNextEpoch(Head(d))
       /\ unprocessed_rcds' = dtls1_buffer_record(unprocessed_rcds, [rec |-> Head(d), rest |-> Tail(d)])
       /\ rbuf' = RbufAfterBuffering(unprocessed_rcds, Tail(d))
  /\ rrec' = NoRecord /\ pc' = "again"
  /\ UNCHANGED <<want, unprocessed_epoch, processed_rcds, buffered_app_data, window, conn, handed>>

\* dtls1_process_record on a record of the current epoch.
ProcessRecord ==
  /\ WireTurn
  /\ \E d \in Incoming :
       LET r == Head(d)
       IN  /\ Passes(r) /\ ~ IsNextEpoch(r)
           /\ rbuf' = Tail(d)
           /\ \/ /\ r.body = "good"
                 /\ MarkReceived(r)
                 /\ rrec' = r /\ pc' = "have" /\ UNCHANGED conn
              \/ /\ r.body = "overflow"
                 /\ err' = "error" /\ in_init' = TRUE /\ pc' = "idle"
                 /\ UNCHANGED <<rrec, window, change_cipher_spec, shutdown, alert_count>>
  /\ UNCHANGED <<want, queues, handed>>


(***************************************************************************)
(* dtls1_read_bytes, what it does with the current record                  *)
(***************************************************************************)
\* The count of consecutive warning alerts starts again at any other record.
CountReset ==
  IF rrec.type \in Alert THEN UNCHANGED alert_count
                         ELSE alert_count' = 0

\* Mutant: data between ChangeCipherSpec and Finished is not set aside.
HoldAlertsOnly == change_cipher_spec /\ rrec.type \in Alert

\* The record came between ChangeCipherSpec and Finished.
Holds == change_cipher_spec /\ rrec.type \notin Handshake

\* Between ChangeCipherSpec and Finished everything but a handshake record is set
\* aside for later; at the limit it is lost.
HoldAppData ==
  /\ pc = "have" /\ Holds
  /\ buffered_app_data' = dtls1_buffer_record(buffered_app_data, [rec |-> rrec, rest |-> rbuf])
  /\ rbuf' = RbufAfterBuffering(buffered_app_data, rbuf)
  /\ rrec' = NoRecord /\ pc' = "start"
  /\ CountReset
  /\ UNCHANGED <<want, unprocessed_rcds, unprocessed_epoch, processed_rcds, window,
                 change_cipher_spec, in_init, shutdown, err, handed>>

\* The peer has closed: the record is thrown away and the call returns.
DiscardAfterClose ==
  /\ pc = "have" /\ ~ Holds /\ "received" \in shutdown
  /\ rrec' = NoRecord /\ pc' = "idle"
  /\ CountReset
  /\ UNCHANGED <<want, queues, window, rbuf, change_cipher_spec, in_init, shutdown, err, handed>>

\* The record reached the switch on its type.
Current(types) == /\ pc = "have" /\ ~ Holds /\ "received" \notin shutdown
                  /\ rrec.type \in types

\* The record goes to the caller, which uses all of it.
HandOver == /\ handed' = [handed EXCEPT ![Key(rrec)] = @ + 1]
            /\ rrec' = NoRecord /\ pc' = "idle"
            /\ UNCHANGED <<want, queues, rbuf>>

\* Application data for tls_read.  While a renegotiation has not got past its hello
\* messages, tls3_read_internal takes it too (in_read_app_data), with a second call.
ReadAppData ==
  /\ Current({"app"}) /\ CountReset
  /\ want = "app" \/ (want = "hs" /\ r_epoch > 0 /\ err = "ok")
  /\ HandOver
  /\ UNCHANGED <<window, change_cipher_spec, in_init, shutdown, err>>

\* A handshake record for the state machine, which may keep it for later or work on it.
\* It reads the message's body with another call, which returns if there is an error.
ReadHandshake ==
  /\ want = "hs" /\ Current(Handshake) /\ CountReset
  /\ HandOver
  /\ UNCHANGED <<window, change_cipher_spec, in_init, shutdown, err>>

\* Mutant: Finished is taken without a ChangeCipherSpec before it.
FinishedAnyTime ==
  /\ want = "hs" /\ Current({"fin"}) /\ CountReset
  /\ HandOver
  /\ change_cipher_spec' = FALSE /\ in_init' = FALSE /\ err' = "ok"
  /\ UNCHANGED <<window, shutdown>>

\* tls_process_finished: without a ChangeCipherSpec before it a fatal error; else
\* the handshake ends once the state machine has written its own last flight.
ReadFinished ==
  /\ want = "hs" /\ err = "ok" /\ Current({"fin"}) /\ CountReset
  /\ HandOver
  /\ change_cipher_spec' = FALSE
  /\ IF change_cipher_spec THEN in_init' = FALSE /\ UNCHANGED err
                           ELSE in_init' = TRUE /\ err' = "error"
  /\ UNCHANGED <<window, shutdown>>

\* dtls1_reset_seq_numbers(s, tls3_CC_READ)
ResetReadSeqNumbers ==
  /\ r_epoch' = r_epoch + 1
  /\ bitmap' = next_bitmap /\ next_bitmap' = ZeroBitmap
  /\ UNCHANGED accepted

\* tls_process_change_cipher_spec, when the state machine expects one.
ReadChangeCipherSpec ==
  /\ want = "hs" /\ Current({"ccs"}) /\ CountReset /\ r_epoch < MaxEpoch
  /\ HandOver
  /\ change_cipher_spec' = TRUE
  /\ ResetReadSeqNumbers
  /\ UNCHANGED <<in_init, shutdown, err>>

\* An out-of-order ChangeCipherSpec is dropped: here when no handshake reads, and in
\* the read transitions of the state machine when it expects another message.
DropChangeCipherSpec ==
  /\ Current({"ccs"}) /\ want # "none" /\ CountReset
  /\ rrec' = NoRecord
  /\ pc' = IF want = "hs" THEN "idle" ELSE "start"
  /\ UNCHANGED <<want, queues, window, rbuf, change_cipher_spec, in_init, shutdown, err, handed>>

\* tlsfatal(): MSG_FLOW_ERROR, and back into init.
Fatal == err' = "error" /\ in_init' = TRUE /\ pc' = "idle"

\* A warning alert.  The record keeps its length, so after goto start the same
\* record is found again; only the limit or a close ends that.
ReadWarningAlert ==
  /\ Current({"warn", "close_notify"})
  /\ alert_count' = alert_count + 1
  /\ IF alert_count' = MaxWarnAlert THEN Fatal /\ UNCHANGED shutdown
     ELSE /\ UNCHANGED <<err, in_init>>
          /\ IF rrec.type = "close_notify"
             THEN shutdown' = shutdown \cup {"received"} /\ pc' = "idle"
             ELSE UNCHANGED shutdown /\ pc' = "start"
  /\ UNCHANGED <<want, queues, window, rbuf, rrec, change_cipher_spec, handed>>

\* A fatal alert closes the connection; one that is malformed is an error of our own.
ReadFatalAlert ==
  /\ Current({"fatal_alert"}) /\ CountReset
  /\ Fatal /\ shutdown' \in {shutdown, shutdown \cup {"received"}}
  /\ UNCHANGED <<want, queues, window, rbuf, rrec, change_cipher_spec, handed>>

\* tls_shutdown waits for the peer's close_notify and wants nothing else.
DiscardAfterShutdown ==
  /\ want # "hs" /\ Current(Handshake \cup {"ccs", "app"}) /\ CountReset
  /\ rrec.type # want
  /\ "sent" \in shutdown
  /\ rrec' = NoRecord /\ pc' = "idle"
  /\ UNCHANGED <<want, queues, window, rbuf, change_cipher_spec, in_init, shutdown, err, handed>>

\* A handshake record outside a handshake: a stale one is dropped, a repeated
\* Finished makes us send our last flight again, anything else starts a
\* renegotiation, whose state machine reads the record.
LateHandshakeRecord ==
  /\ want = "app" /\ Current(Handshake) /\ CountReset
  /\ "sent" \notin shutdown
  /\ IF rrec.epoch # r_epoch \/ rrec.type = "fin"
     THEN rrec' = NoRecord /\ pc' = "start" /\ UNCHANGED <<want, in_init, err>>
     ELSE /\ UNCHANGED rrec
          /\ IF in_init THEN Fatal /\ UNCHANGED want
             ELSE in_init' = TRUE /\ want' = "hs" /\ pc' = "start" /\ UNCHANGED err
  /\ UNCHANGED <<queues, window, rbuf, change_cipher_spec, shutdown, handed>>

\* Application data when the state machine wants a handshake record.
UnexpectedAppData ==
  /\ want = "hs" /\ Current({"app"}) /\ CountReset
  /\ "sent" \notin shutdown
  /\ Fatal
  /\ UNCHANGED <<want, queues, window, rbuf, rrec, change_cipher_spec, shutdown, handed>>

(***************************************************************************)
(* The application                                                         *)
(***************************************************************************)
\* tls_shutdown sends close_notify.
tls_shutdown ==
  /\ pc = "idle" /\ ~ in_init /\ "sent" \notin shutdown
  /\ shutdown' = shutdown \cup {"sent"}
  /\ UNCHANGED <<pc, want, queues, window, rbuf, rrec, change_cipher_spec, in_init, alert_count, err, handed>>

\* tls_clear, with DTLS_RECORD_LAYER_clear: the object serves a new connection.
tls_clear ==
  /\ pc = "idle" /\ (err = "error" \/ shutdown # {})
  /\ pc' = "idle" /\ want' = "none"
  /\ r_epoch' = 0 /\ bitmap' = ZeroBitmap /\ next_bitmap' = ZeroBitmap
  /\ unprocessed_rcds' = {} /\ unprocessed_epoch' = 0
  /\ processed_rcds' = {} /\ buffered_app_data' = {}
  /\ rbuf' = << >> /\ rrec' = NoRecord
  /\ change_cipher_spec' = FALSE /\ in_init' = TRUE /\ shutdown' = {}
  /\ alert_count' = 0 /\ err' = "ok"
  /\ accepted' = {} /\ handed' = [k \in Keys |-> 0]

\* The steps of a running call.
Step ==
  \/ TakeBufferedAppData \/ ReturnInError \/ NeedRecord
  \/ BeginProcessBuffered \/ ProcessBuffered \/ SyncEpoch
  \/ TakeProcessed \/ DropRecord \/ BufferNextEpoch \/ ProcessRecord
  \/ HoldAppData \/ DiscardAfterClose
  \/ ReadAppData \/ ReadHandshake \/ ReadFinished \/ ReadChangeCipherSpec \/ DropChangeCipherSpec
  \/ ReadWarningAlert \/ ReadFatalAlert \/ DiscardAfterShutdown
  \/ LateHandshakeRecord \/ UnexpectedAppData

Next ==
  \/ Step \/ WouldBlock
  \/ \E type \in {"hs", "app", "none"} : dtls1_read_bytes(type)
  \/ tls_shutdown \/ tls_clear

Spec == Init /\ [][Next]_vars

(***************************************************************************)
(* Properties                                                              *)
(***************************************************************************)
TypeOK ==
  /\ pc \in {"idle", "start", "again", "drain", "wire", "have"}
  /\ want \in {"hs", "app", "none"}
  /\ r_epoch \in Nat /\ unprocessed_epoch \in Nat
  /\ bitmap \in Bitmap /\ next_bitmap \in Bitmap
  /\ unprocessed_rcds \subseteq Items /\ processed_rcds \subseteq Items
  /\ buffered_app_data \subseteq Items
  /\ rbuf \in Seq(Records)
  /\ rrec \in Records \cup {NoRecord} /\ (pc = "have" => rrec # NoRecord)
  /\ change_cipher_spec \in BOOLEAN /\ in_init \in BOOLEAN
  /\ shutdown \subseteq {"sent", "received"}
  /\ alert_count \in Nat /\ err \in {"ok", "error", "unseen"}
  /\ accepted \subseteq Keys /\ handed \in [Keys -> Nat]

\* No record reaches the caller twice, however often the network repeats it and
\* whichever queues it goes through (dtls1_record_replay_check,
\* dtls1_process_buffered_records).
NoReplay == \A k \in Keys : handed[k] <= 1

\* The "Should not happen" branch of dtls1_process_buffered_records is not reached:
\* every record the loop meets is of the read epoch.
BufferedHaveBitmap ==
  pc = "drain" => \A item \in unprocessed_rcds : item.rec.epoch = r_epoch

\* The state machine is only given handshake records of the read epoch: no record
\* decrypted under the old keys is used after a ChangeCipherSpec
\* (dtls1_get_processed_record hands records out without a look at their epoch).
HandshakeInEpoch ==
  /\ rrec.type \in Handshake => rrec.epoch = r_epoch
  /\ \A item \in processed_rcds : item.rec.epoch = r_epoch

\* Application data reaches the caller only if it was protected, and never between
\* a ChangeCipherSpec and the Finished that authenticates it.
AppDataAuthenticated ==
  [][\A k \in Keys : handed'[k] > handed[k] /\ rrec.type = "app"
       => rrec.epoch > 0 /\ ~ change_cipher_spec]_vars

\* The three record queues stay within the limit that protects the memory of the
\* process (dtls1_buffer_record), and hold one record per sequence number.
QueuesBounded ==
  \A q \in {unprocessed_rcds, processed_rcds, buffered_app_data} :
    /\ Cardinality(q) <= QueueLimit
    /\ \A i, j \in q : i.rec.seq = j.rec.seq => i = j

\* What otls_statem_fatal promises, "a permanent error for the current connection":
\* once it was called no more data of the connection is handed over to the application.
ErrorIsPermanent ==
  [][err # "ok" /\ rrec.type = "app" /\ ~ tls_clear => handed' = handed]_vars

(***************************************************************************)
(* Liveness: a caller that keeps calling                                   *)
(***************************************************************************)
FairSpec ==
  /\ Spec /\ WF_vars(Step)
  /\ WF_vars(dtls1_read_bytes("hs")) /\ WF_vars(dtls1_read_bytes("app"))

\* Records buffered for the epoch that has begun do not stay in the queue: the rest
\* of the current datagram delays them, but not for ever.
BufferedGetProcessed ==
  unprocessed_rcds # {} /\ unprocessed_epoch = r_epoch
    ~> \/ unprocessed_rcds = {} \/ unprocessed_epoch # r_epoch
       \/ err = "error" \/ shutdown # {}

(***************************************************************************)
(* The inductive invariant                                                 *)
(***************************************************************************)
\* The window refuses every record accepted in the read epoch.
WindowInv ==
  /\ next_bitmap = ZeroBitmap
  /\ \A k \in accepted : k[1] <= r_epoch
  /\ Blocks(bitmap, {n \in SeqNums : <<r_epoch, n>> \in accepted})

\* Every accepted record is in at most one place.
PlaceInv ==
  /\ \A k \in Keys : handed[k] = 0 \/ (handed[k] = 1 /\ k \in accepted)
  /\ \A i \in processed_rcds \cup buffered_app_data :
       Key(i.rec) \in accepted /\ handed[Key(i.rec)] = 0
  /\ \A i \in processed_rcds : \A j \in buffered_app_data : Key(i.rec) # Key(j.rec)
  /\ \A i, j \in processed_rcds : i.rec.seq = j.rec.seq => i = j
  /\ \A i, j \in buffered_app_data : i.rec.seq = j.rec.seq => i = j
  /\ rrec # NoRecord =>
       /\ Key(rrec) \in accepted /\ handed[Key(rrec)] = 0
       /\ \A i \in processed_rcds \cup buffered_app_data : Key(i.rec) # Key(rrec)

\* Which records the queues can hold, and when.
QueueInv ==
  /\ unprocessed_epoch <= r_epoch + 1
  /\ unprocessed_epoch >= r_epoch => \A i \in unprocessed_rcds : i.rec.epoch = unprocessed_epoch
  /\ pc = "drain" => unprocessed_epoch = r_epoch
  /\ \A i \in unprocessed_rcds \cup processed_rcds : i.rec.type \in Handshake \cup Alert
  /\ \A i \in processed_rcds : i.rec.epoch = r_epoch
  /\ \A i \in buffered_app_data : i.rec.epoch > 0 /\ i.rec.type \notin Handshake
  /\ rrec # NoRecord /\ pc # "have" => rrec.type # "ccs"
  /\ rrec.type = "ccs" /\ want = "hs" => processed_rcds = {}
  /\ rrec.type \in Handshake => rrec.epoch = r_epoch
  /\ rrec # NoRecord /\ r_epoch > 0 => rrec.epoch > 0

\* How the handshake and the epoch go together.
PhaseInv ==
  /\ change_cipher_spec => in_init /\ r_epoch > 0
  /\ ~ in_init => r_epoch > 0
  /\ pc # "idle" /\ want = "hs" => in_init
  /\ pc # "idle" /\ want # "hs" => r_epoch > 0
  /\ pc \in {"again", "drain", "wire"} => rrec = NoRecord

ReadInv == TypeOK /\ WindowInv /\ PlaceInv /\ QueueInv /\ PhaseInv
=============================================================================
