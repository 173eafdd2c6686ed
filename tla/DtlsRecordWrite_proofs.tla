------------------------ MODULE DtlsRecordWrite_proofs ------------------------
(***************************************************************************)
(* The record numbers, keys and contexts of DtlsRecordWrite, for every     *)
(* number of fragments, records, epochs and timeouts, on either side.      *)
(*                                                                         *)
(* A retransmission goes back at most one epoch, which is as far as        *)
(* last_write_sequence reaches.  That is so because a flight that contains *)
(* a ChangeCipherSpec begins with an empty send buffer (EpochsInv): the    *)
(* peer's answer that allows it has stopped the timer.                     *)
(***************************************************************************)
EXTENDS DtlsRecordWrite, TLAPS

Counters == [epoch : Epochs, write : Nat, last : Nat, curr : Nat]

(***************************************************************************)
(* Numbers                                                                 *)
(***************************************************************************)
\* do_dtls1_write takes numbers nobody has used, if the counter is past the used ones of
\* its epoch.
LEMMA ProtectNumbers ==
  ASSUME NEW r \in Counters, NEW n \in Nat, NEW c, WriteAssumption,
         written \in [Numbers -> Nat],
         \A k \in Numbers : written[k] <= 1,
         \A k \in Numbers : written[k] > 0 /\ k[1] = r.epoch => k[2] < r.write,
         Protect(r, n, c)
  PROVE  /\ written' \in [Numbers -> Nat]
         /\ \A k \in Numbers : written'[k] <= 1
         /\ \A k \in Numbers : written'[k] > 0 =>
              written[k] > 0 \/ (k[1] = r.epoch /\ k[2] < r.write + n)
<1>1. \A k \in Numbers : k[1] \in Nat /\ k[2] \in Nat
  BY WriteAssumption DEF Numbers, Epochs, Seqs
<1>2. r.write \in Nat
  BY DEF Counters
<1>3. \A k \in Numbers : written[k] \in Nat
  OBVIOUS
<1>4. \A k \in Numbers : written'[k] =
         IF k[1] = r.epoch /\ k[2] >= r.write /\ k[2] < r.write + n
         THEN written[k] + 1 ELSE written[k]
  BY DEF Protect
<1>5. written' \in [Numbers -> Nat]
  BY <1>3 DEF Protect
<1>6. ASSUME NEW k \in Numbers
      PROVE  /\ written'[k] <= 1
             /\ written'[k] > 0 => written[k] > 0 \/ (k[1] = r.epoch /\ k[2] < r.write + n)
  BY <1>1, <1>2, <1>3, <1>4, <1>6
<1> QED BY <1>5, <1>6

\* Records written in the current epoch keep the numbers apart.
LEMMA WriteHere ==
  ASSUME NEW n \in Nat, NEW c, WriteAssumption, TypeOK, NumbersInv, Protect(rl, n, c)
  PROVE  /\ written' \in [Numbers -> Nat]
         /\ Advance(rl, n) \in Counters
         /\ \A k \in Numbers :
              /\ written'[k] <= 1
              /\ written'[k] > 0 => /\ k[1] <= rl.epoch
                                    /\ k[1] = rl.epoch => k[2] < rl.write + n
                                    /\ k[1] = rl.epoch - 1 => k[2] < rl.last
<1>1. rl \in Counters /\ written \in [Numbers -> Nat]
  BY DEF TypeOK, Counters
<1>2. \A k \in Numbers : k[1] \in Nat /\ k[2] \in Nat
  BY WriteAssumption DEF Numbers, Epochs, Seqs
<1>3. rl.write \in Nat /\ rl.epoch \in Nat /\ rl.last \in Nat /\ rl.curr \in Nat
      /\ rl.epoch \in Epochs
  BY <1>1, WriteAssumption DEF Counters, Epochs
<1>4. /\ \A k \in Numbers : written[k] <= 1
      /\ \A k \in Numbers : written[k] > 0 => /\ k[1] <= rl.epoch
                                              /\ k[1] = rl.epoch => k[2] < rl.write
                                              /\ k[1] = rl.epoch - 1 => k[2] < rl.last
  BY DEF NumbersInv
<1>5. /\ written' \in [Numbers -> Nat]
      /\ \A k \in Numbers : written'[k] <= 1
      /\ \A k \in Numbers : written'[k] > 0 =>
              written[k] > 0 \/ (k[1] = rl.epoch /\ k[2] < rl.write + n)
  BY <1>1, <1>4, ProtectNumbers
<1>6. Advance(rl, n) \in Counters
  BY <1>3 DEF Advance, Counters
<1>7. ASSUME NEW k \in Numbers, written'[k] > 0
      PROVE  /\ k[1] <= rl.epoch
             /\ k[1] = rl.epoch => k[2] < rl.write + n
             /\ k[1] = rl.epoch - 1 => k[2] < rl.last
  BY <1>2, <1>3, <1>4, <1>5, <1>7
<1> QED BY <1>5, <1>6, <1>7

\* Going to the epoch of a buffered message, writing there and coming back keeps the
\* numbers apart too: the counter of the last epoch moves with it.
LEMMA WriteThere ==
  ASSUME NEW n \in Nat, NEW c, NEW e \in Epochs, e \in {rl.epoch - 1, rl.epoch},
         WriteAssumption, TypeOK, NumbersInv,
         Protect(set_saved_w_epoch(rl, e), n, c),
         rl' = set_saved_w_epoch(Advance(set_saved_w_epoch(rl, e), n), rl.epoch)
  PROVE  /\ written' \in [Numbers -> Nat]
         /\ rl' \in Counters /\ rl'.epoch = rl.epoch
         /\ NumbersInv'
<1> DEFINE r == set_saved_w_epoch(rl, e)
<1>1. rl \in Counters /\ written \in [Numbers -> Nat]
  BY DEF TypeOK, Counters
<1>2. \A k \in Numbers : k[1] \in Nat /\ k[2] \in Nat
  BY WriteAssumption DEF Numbers, Epochs, Seqs
<1>3. rl.write \in Nat /\ rl.epoch \in Nat /\ rl.last \in Nat /\ rl.curr \in Nat
      /\ rl.epoch \in Epochs /\ e \in Nat
  BY <1>1, WriteAssumption DEF Counters, Epochs
<1>4. /\ \A k \in Numbers : written[k] <= 1
      /\ \A k \in Numbers : written[k] > 0 => /\ k[1] <= rl.epoch
                                              /\ k[1] = rl.epoch => k[2] < rl.write
                                              /\ k[1] = rl.epoch - 1 => k[2] < rl.last
  BY DEF NumbersInv
<1>5. CASE e = rl.epoch
  <2>1. r = [epoch |-> e, write |-> rl.write, last |-> rl.last, curr |-> rl.curr]
    BY <1>3, <1>5 DEF set_saved_w_epoch
  <2>2. r \in Counters /\ r.epoch = rl.epoch /\ r.write = rl.write
    BY <1>3, <1>5, <2>1 DEF Counters
  <2>3. rl' = [epoch |-> e, write |-> rl.write + n, last |-> rl.last, curr |-> rl.curr]
    BY <1>3, <1>5, <2>1 DEF set_saved_w_epoch, Advance
  <2>4. rl' \in Counters /\ rl'.epoch = rl.epoch /\ rl'.write = rl.write + n /\ rl'.last = rl.last
    BY <1>3, <1>5, <2>3 DEF Counters
  <2>5. /\ written' \in [Numbers -> Nat]
        /\ \A k \in Numbers : written'[k] <= 1
        /\ \A k \in Numbers : written'[k] > 0 =>
              written[k] > 0 \/ (k[1] = r.epoch /\ k[2] < r.write + n)
    BY <1>1, <1>4, <2>2, ProtectNumbers
  <2>6. NumbersInv'
    <3> SUFFICES ASSUME NEW k \in Numbers
                 PROVE  /\ written'[k] <= 1
                        /\ written'[k] > 0 => /\ k[1] <= rl'.epoch
                                              /\ k[1] = rl'.epoch => k[2] < rl'.write
                                              /\ k[1] = rl'.epoch - 1 => k[2] < rl'.last
      BY DEF NumbersInv
    <3> QED BY <1>2, <1>3, <1>4, <2>2, <2>4, <2>5
  <2> QED BY <2>4, <2>5, <2>6
<1>6. CASE e = rl.epoch - 1
  <2>1. r = [epoch |-> e, write |-> rl.last, last |-> rl.last, curr |-> rl.write]
    BY <1>3, <1>6 DEF set_saved_w_epoch
  <2>2. r \in Counters /\ r.epoch = e /\ r.write = rl.last
    BY <1>3, <2>1 DEF Counters
  <2>3. Advance(r, n) = [epoch |-> e, write |-> rl.last + n, last |-> rl.last, curr |-> rl.write]
    BY <2>1 DEF Advance
  <2>4. rl' = [epoch |-> rl.epoch, write |-> rl.write, last |-> rl.last + n, curr |-> rl.write]
    BY <1>3, <1>6, <2>3 DEF set_saved_w_epoch
  <2>5. rl' \in Counters /\ rl'.epoch = rl.epoch /\ rl'.write = rl.write /\ rl'.last = rl.last + n
    BY <1>3, <2>4 DEF Counters
  <2>6. /\ written' \in [Numbers -> Nat]
        /\ \A k \in Numbers : written'[k] <= 1
        /\ \A k \in Numbers : written'[k] > 0 =>
              written[k] > 0 \/ (k[1] = r.epoch /\ k[2] < r.write + n)
    <3>1. \A k \in Numbers : written[k] > 0 /\ k[1] = r.epoch => k[2] < r.write
      BY <1>4, <1>6, <2>2
    <3> QED BY <1>1, <1>4, <2>2, <3>1, ProtectNumbers
  <2>7. NumbersInv'
    <3> SUFFICES ASSUME NEW k \in Numbers
                 PROVE  /\ written'[k] <= 1
                        /\ written'[k] > 0 => /\ k[1] <= rl'.epoch
                                              /\ k[1] = rl'.epoch => k[2] < rl'.write
                                              /\ k[1] = rl'.epoch - 1 => k[2] < rl'.last
      BY DEF NumbersInv
    <3> QED BY <1>2, <1>3, <1>4, <1>6, <2>2, <2>5, <2>6
  <2> QED BY <2>5, <2>6, <2>7
<1> QED BY <1>5, <1>6

\* The contexts used stay numbered like the epochs they are used in.
LEMMA ProtectUsed ==
  ASSUME NEW r \in Counters, NEW n, NEW c \in Nat, c = r.epoch,
         used \subseteq [epoch : Epochs, ctx : Nat, etm : BOOLEAN], etm \in BOOLEAN,
         \A u \in used : u.ctx = u.epoch,
         Protect(r, n, c)
  PROVE  /\ used' \subseteq [epoch : Epochs, ctx : Nat, etm : BOOLEAN]
         /\ \A u \in used' : u.ctx = u.epoch
<1>1. [epoch |-> r.epoch, ctx |-> c, etm |-> etm] \in [epoch : Epochs, ctx : Nat, etm : BOOLEAN]
  BY DEF Counters
<1>2. \/ used' = used
      \/ used' = used \cup {[epoch |-> r.epoch, ctx |-> c, etm |-> etm]}
  BY DEF Protect
<1> QED BY <1>1, <1>2

(***************************************************************************)
(* The invariant                                                           *)
(***************************************************************************)
\* The parts of WriteInv that do not speak of numbers: what an action that writes nothing
\* has to show.
Quiet == /\ rl' = rl /\ ctx' = ctx /\ UNCHANGED <<written, used>>

\* Without a write, the numbers stay as they are.
LEMMA QuietNumbers ==
  ASSUME NumbersInv, Quiet
  PROVE  NumbersInv'
BY DEF NumbersInv, Quiet

\* Init establishes WriteInv.
LEMMA InitInv == WriteAssumption /\ Init => WriteInv
<1> SUFFICES ASSUME WriteAssumption, Init PROVE WriteInv
  OBVIOUS
<1>1. 0 \in Epochs
  BY DEF WriteAssumption, Epochs
<1>2. TypeOK
  BY <1>1 DEF Init, TypeOK, Writes, Reads
<1>3. NumbersInv
  BY DEF Init, NumbersInv
<1>4. StartInv /\ EpochsInv /\ KeysInv /\ ContextsInv
  BY DEF Init, StartInv, EpochsInv, KeysInv, ContextsInv
<1> QED BY <1>2, <1>3, <1>4 DEF WriteInv

\* Building a message: it joins the buffer in the current epoch, with the current context.
LEMMA ConstructStep ==
  ASSUME WriteAssumption, WriteInv, NEW h \in Writes, ConstructMessage(h)
  PROVE  WriteInv'
<1> DEFINE m == [seq |-> next_handshake_write_seq, is_ccs |-> IF h \in Change THEN 1 ELSE 0,
                 epoch |-> rl.epoch, ctx |-> ctx]
<1> USE DEF WriteInv
<1>1. /\ m \in Messages /\ m.epoch = rl.epoch /\ m.ctx = rl.epoch
      /\ m.is_ccs = 1 => h \in Change
  BY DEF TypeOK, Messages, KeysInv
<1>2. sent_messages' \subseteq sent_messages \cup {m}
  BY DEF ConstructMessage, dtls1_buffer_message
<1>3. h \in Clears => sent_messages' \subseteq {m}
  BY DEF ConstructMessage, dtls1_buffer_message
<1>4. freed' = IF h \in Clears THEN freed \cup Owned ELSE freed
  BY DEF ConstructMessage
<1>5. /\ flow = "writing" /\ flow' = flow /\ ~ sending /\ sending' /\ hand_state' = h
      /\ resend = {} /\ resend' = {} /\ rl' = rl /\ ctx' = ctx /\ used' = used /\ written' = written
      /\ h \in Change => rl.epoch < MaxEpoch
  BY DEF ConstructMessage, keys, history
<1>6. rl.epoch \in Nat
  BY WriteAssumption DEF TypeOK, Epochs
<1>7. TypeOK'
  <2>1. Owned \subseteq Nat
    BY DEF Owned, TypeOK, Messages
  <2>2. freed' \subseteq Nat /\ sent_messages' \subseteq Messages
    BY <1>1, <1>2, <1>4, <2>1 DEF TypeOK
  <2>3. UseTimer(h) \in BOOLEAN
    BY DEF UseTimer, TypeOK
  <2>4. use_timer' \in BOOLEAN /\ timer' \in BOOLEAN
    BY <2>3 DEF ConstructMessage
  <2>5. init_buf' \in Messages \cup {NoMessage} /\ next_handshake_write_seq' \in Nat
    BY <1>1 DEF ConstructMessage, TypeOK
  <2>6. /\ server' = server /\ hit' = hit /\ renegotiate' = renegotiate /\ etm' = etm
        /\ num_alerts' = num_alerts /\ alert_dispatch' = alert_dispatch /\ sending' = TRUE
    BY DEF ConstructMessage, keys
  <2> QED BY <1>5, <2>2, <2>4, <2>5, <2>6 DEF TypeOK
<1>8. NumbersInv'
  BY <1>5, QuietNumbers DEF Quiet
<1>9. StartInv'
  BY <1>5 DEF StartInv, Writes
<1>10. Fresh' => Fresh
  BY <1>5 DEF Fresh, ConstructMessage, WriteTransition, ClientWriteTransition,
              ServerWriteTransition, Change
<1>11. EpochsInv'
  BY <1>1, <1>2, <1>5, <1>10 DEF EpochsInv
<1>12. KeysInv'
  BY <1>1, <1>2, <1>5 DEF KeysInv
<1>13. ContextsInv'
  <2>1. \A i \in sent_messages : i.is_ccs = 1 => i.epoch < rl.epoch
    BY <1>5 DEF ContextsInv
  <2>2. \A c \in Owned : c < rl.epoch
    BY <2>1 DEF Owned, KeysInv
  <2>3. \A c \in freed' : c < rl.epoch /\ \A i \in sent_messages' : c < i.epoch
    BY <1>1, <1>2, <1>3, <1>4, <2>2 DEF ContextsInv
  <2> QED BY <1>1, <1>2, <1>5, <2>1, <2>3 DEF ContextsInv
<1> QED BY <1>7, <1>8, <1>9, <1>11, <1>12, <1>13

\* Sending the message: records in the current epoch, then perhaps the next epoch.
LEMMA SendStep ==
  ASSUME WriteAssumption, WriteInv, SendMessage
  PROVE  WriteInv'
<1> USE DEF WriteInv
<1>1. PICK n \in 1 .. MaxFragments + 1 :
        /\ WriteFragments(rl, n, ctx, TRUE)
        /\ IF hand_state \in Change
           THEN /\ rl' = dtls1_reset_seq_numbers(Advance(rl, n))
                /\ ctx' = ctx + 1 /\ etm' \in BOOLEAN
           ELSE rl' = Advance(rl, n) /\ UNCHANGED keys
  BY DEF SendMessage
<1>2. n \in Nat
  BY WriteAssumption DEF WriteAssumption
<1>3. Protect(rl, n, ctx) /\ alert_dispatch' \in BOOLEAN
  BY <1>1 DEF WriteFragments, TypeOK
<1>4. /\ written' \in [Numbers -> Nat]
      /\ Advance(rl, n) \in Counters
      /\ \A k \in Numbers :
           /\ written'[k] <= 1
           /\ written'[k] > 0 => /\ k[1] <= rl.epoch
                                 /\ k[1] = rl.epoch => k[2] < rl.write + n
                                 /\ k[1] = rl.epoch - 1 => k[2] < rl.last
  BY <1>2, <1>3, WriteHere
<1>5. /\ used' \subseteq [epoch : Epochs, ctx : Nat, etm : BOOLEAN]
      /\ \A u \in used' : u.ctx = u.epoch
  BY <1>3, ProtectUsed DEF TypeOK, KeysInv, Counters
<1>6. /\ sending /\ flow = "writing" /\ flow' = flow /\ hand_state' = hand_state
      /\ sending' = FALSE /\ sent_messages' = sent_messages /\ resend = {} /\ resend' = {}
      /\ freed' = freed /\ init_buf' = NoMessage
      /\ server' = server /\ hit' = hit /\ renegotiate' = renegotiate
      /\ next_handshake_write_seq' = next_handshake_write_seq
      /\ use_timer' = use_timer /\ timer' = timer /\ num_alerts' = num_alerts
  BY DEF SendMessage, timers
<1>7. /\ rl.epoch \in Nat /\ rl.write \in Nat /\ rl.last \in Nat /\ rl.curr \in Nat
      /\ MaxEpoch \in Nat
  BY WriteAssumption DEF TypeOK, Epochs, WriteAssumption
<1>8. \A k \in Numbers : k[1] \in Nat /\ k[2] \in Nat
  BY WriteAssumption DEF Numbers, Epochs, Seqs
<1>9. CASE hand_state \in Change
  <2>1. rl' = [epoch |-> rl.epoch + 1, write |-> 0, last |-> rl.write + n, curr |-> rl.curr]
    BY <1>1, <1>9 DEF dtls1_reset_seq_numbers, Advance
  <2>2. /\ rl'.epoch = rl.epoch + 1 /\ rl'.write = 0 /\ rl'.last = rl.write + n
        /\ rl' \in Counters
    BY <1>2, <1>6, <1>7, <1>9, <2>1 DEF Counters, EpochsInv, Epochs
  <2>3. ctx' = ctx + 1 /\ etm' \in BOOLEAN
    BY <1>1, <1>9
  <2>4. TypeOK'
    <3>1. ctx' \in Nat
      BY <2>3 DEF TypeOK
    <3>2. init_buf' \in Messages \cup {NoMessage} /\ sending' \in BOOLEAN
      BY <1>6
    <3>3. /\ flow' \in {"reading", "writing", "finished", "error"}
          /\ hand_state' \in Writes \cup Reads /\ freed' \subseteq Nat
          /\ sent_messages' \subseteq Messages /\ resend' \subseteq sent_messages'
          /\ next_handshake_write_seq' \in Nat /\ num_alerts' \in Nat
      BY <1>6 DEF TypeOK
    <3>4. /\ server' \in BOOLEAN /\ hit' \in BOOLEAN /\ renegotiate' \in BOOLEAN
          /\ use_timer' \in BOOLEAN /\ timer' \in BOOLEAN
      BY <1>6 DEF TypeOK
    <3> QED BY <1>3, <1>4, <1>5, <2>2, <2>3, <3>1, <3>2, <3>3, <3>4, Zenon DEF TypeOK, Counters
  <2>5. NumbersInv'
    <3> SUFFICES ASSUME NEW k \in Numbers
                 PROVE  /\ written'[k] <= 1
                        /\ written'[k] > 0 => /\ k[1] <= rl'.epoch
                                              /\ k[1] = rl'.epoch => k[2] < rl'.write
                                              /\ k[1] = rl'.epoch - 1 => k[2] < rl'.last
      BY DEF NumbersInv
    <3> QED BY <1>4, <1>7, <1>8, <2>2
  <2>6. StartInv'
    BY <1>6, <1>9 DEF StartInv, Change
  <2>7. ~ Fresh'
    BY <1>6, <1>9 DEF Fresh, Change
  <2>8. \A m \in sent_messages : m.epoch = rl.epoch
    BY <1>6, <1>9 DEF EpochsInv, Fresh
  <2>9. EpochsInv'
    BY <1>6, <1>7, <2>2, <2>7, <2>8 DEF EpochsInv
  <2>10. KeysInv'
    BY <1>5, <1>6, <2>2, <2>3 DEF KeysInv
  <2>11. ContextsInv'
    BY <1>6, <1>7, <2>2, <2>8 DEF ContextsInv, TypeOK
  <2> QED BY <2>4, <2>5, <2>6, <2>9, <2>10, <2>11
<1>10. CASE hand_state \notin Change
  <2>1. rl' = [epoch |-> rl.epoch, write |-> rl.write + n, last |-> rl.last, curr |-> rl.curr]
    BY <1>1, <1>10 DEF Advance
  <2>2. rl'.epoch = rl.epoch /\ rl'.write = rl.write + n /\ rl'.last = rl.last /\ rl' \in Counters
    BY <1>1, <1>4, <1>10, <2>1
  <2>3. ctx' = ctx /\ etm' = etm
    BY <1>1, <1>10 DEF keys
  <2>4. TypeOK'
    BY <1>3, <1>4, <1>5, <1>6, <2>2, <2>3 DEF TypeOK, Counters
  <2>5. NumbersInv'
    BY <1>4, <2>2 DEF NumbersInv
  <2>6. StartInv'
    BY <1>6 DEF StartInv
  <2>7. Fresh' => Fresh
    BY <1>6, <1>10 DEF Fresh
  <2>8. EpochsInv' /\ KeysInv' /\ ContextsInv'
    BY <1>5, <1>6, <1>10, <2>2, <2>3, <2>7 DEF EpochsInv, KeysInv, ContextsInv
  <2> QED BY <2>4, <2>5, <2>6, <2>8
<1> QED BY <1>9, <1>10

\* Records written outside a ChangeCipherSpec's post_work only move the counter: an
\* interrupted message, an alert, application data.
LEMMA RecordStep ==
  ASSUME WriteAssumption, WriteInv, NEW n \in Nat,
         Protect(rl, n, ctx), rl' = Advance(rl, n), alert_dispatch' \in BOOLEAN,
         flow' \in {flow, "error"}, hand_state # "BEFORE" \/ flow' # "finished",
         UNCHANGED <<server, hand_state, sending, hit, renegotiate, init_buf, keys, freed, sent_messages,
                     resend, next_handshake_write_seq, timers>>
  PROVE  WriteInv'
<1> USE DEF WriteInv
<1>1. /\ written' \in [Numbers -> Nat]
      /\ Advance(rl, n) \in Counters
      /\ \A k \in Numbers :
           /\ written'[k] <= 1
           /\ written'[k] > 0 => /\ k[1] <= rl.epoch
                                 /\ k[1] = rl.epoch => k[2] < rl.write + n
                                 /\ k[1] = rl.epoch - 1 => k[2] < rl.last
  BY WriteHere
<1>2. /\ used' \subseteq [epoch : Epochs, ctx : Nat, etm : BOOLEAN]
      /\ \A u \in used' : u.ctx = u.epoch
  BY ProtectUsed DEF TypeOK, KeysInv, Counters
<1>3. rl'.epoch = rl.epoch /\ rl'.write = rl.write + n /\ rl'.last = rl.last /\ rl' \in Counters
  BY <1>1 DEF Advance
<1>4. TypeOK'
  BY <1>1, <1>2, <1>3 DEF TypeOK, Counters, keys, timers
<1>5. NumbersInv'
  BY <1>1, <1>3 DEF NumbersInv
<1>6. StartInv'
  BY DEF StartInv
<1>7. Fresh' => Fresh
  BY DEF Fresh
<1>8. EpochsInv' /\ KeysInv' /\ ContextsInv'
  BY <1>2, <1>3, <1>7 DEF EpochsInv, KeysInv, ContextsInv, keys
<1> QED BY <1>4, <1>5, <1>6, <1>8

\* A step that writes nothing and leaves the buffer, the keys and the message under way
\* alone: the turn of the state machine, the timer.
LEMMA IdleStep ==
  ASSUME WriteInv, TypeOK', Quiet, UNCHANGED <<freed, sent_messages, sending>>,
         hand_state' = hand_state \/ (~ sending /\ hand_state' = "OK"),
         sending => flow' \in {"writing", "error"},
         Fresh' => Fresh,
         flow' = "finished" => hand_state' = "OK" \/ (flow = "finished" /\ hand_state' = hand_state)
  PROVE  WriteInv'
<1> USE DEF WriteInv
<1>1. NumbersInv'
  BY QuietNumbers
<1>2. StartInv'
  BY DEF StartInv, Quiet
<1>3. EpochsInv'
  BY DEF EpochsInv, Quiet, Change
<1>4. KeysInv'
  BY DEF KeysInv, Quiet
<1>5. ContextsInv'
  BY DEF ContextsInv, Quiet, Change
<1> QED BY <1>1, <1>2, <1>3, <1>4, <1>5

\* The peer's answer empties the buffer and frees what the ChangeCipherSpec owned.
LEMMA ReadFlightStep ==
  ASSUME WriteAssumption, WriteInv, NEW h \in Reads, NEW resumed \in BOOLEAN,
         ReadFlight(h, resumed)
  PROVE  WriteInv'
<1> USE DEF WriteInv
<1>1. /\ flow = "reading" /\ flow' = "writing" /\ hand_state' = h /\ h # "BEFORE"
      /\ sent_messages' = {} /\ freed' = freed \cup Owned
      /\ sending' = sending /\ ctx' = ctx /\ etm' = etm /\ resend = {} /\ resend' = {}
      /\ init_buf' = init_buf /\ next_handshake_write_seq' = next_handshake_write_seq
      /\ server' = server /\ use_timer' = use_timer /\ timer' = FALSE /\ num_alerts' = 0 /\ hit' = resumed
  BY DEF ReadFlight, LastOfFlight, dtls1_stop_timer, keys
<1>2. ~ sending
  BY <1>1 DEF ContextsInv
<1>3. rl.epoch \in Nat
  BY WriteAssumption DEF TypeOK, Epochs
<1>4. \A c \in freed' : c < rl.epoch
  BY <1>1, <1>2 DEF ContextsInv, KeysInv, Owned
<1>5. freed' \subseteq Nat
  BY <1>1 DEF TypeOK, Owned, Messages
<1>6. /\ rl'.epoch = rl.epoch /\ rl' \in Counters /\ written' \in [Numbers -> Nat]
      /\ used' \subseteq [epoch : Epochs, ctx : Nat, etm : BOOLEAN]
      /\ \A u \in used' : u.ctx = u.epoch
      /\ NumbersInv'
      /\ renegotiate' \in BOOLEAN /\ alert_dispatch' \in BOOLEAN
  <2>1. CASE /\ renegotiate' = (renegotiate \/ hand_state = "OK")
             /\ UNCHANGED <<rl, history, alert_dispatch>>
    BY <1>1, <2>1, QuietNumbers DEF history, Quiet, TypeOK, KeysInv, Counters
  <2>2. CASE /\ UNCHANGED renegotiate
             /\ Protect(rl, 1, ctx) /\ rl' = Advance(rl, 1)
             /\ alert_dispatch' \in BOOLEAN
    <3>1. /\ written' \in [Numbers -> Nat]
          /\ Advance(rl, 1) \in Counters
          /\ \A k \in Numbers :
               /\ written'[k] <= 1
               /\ written'[k] > 0 => /\ k[1] <= rl.epoch
                                     /\ k[1] = rl.epoch => k[2] < rl.write + 1
                                     /\ k[1] = rl.epoch - 1 => k[2] < rl.last
      BY <2>2, WriteHere
    <3>2. /\ used' \subseteq [epoch : Epochs, ctx : Nat, etm : BOOLEAN]
          /\ \A u \in used' : u.ctx = u.epoch
      BY <2>2, ProtectUsed DEF TypeOK, KeysInv, Counters
    <3>3. rl'.epoch = rl.epoch /\ rl'.write = rl.write + 1 /\ rl'.last = rl.last
      BY <2>2 DEF Advance
    <3>4. NumbersInv'
      BY <3>1, <3>3 DEF NumbersInv
    <3> QED BY <2>2, <3>1, <3>2, <3>3, <3>4 DEF TypeOK
  <2> QED BY <2>1, <2>2 DEF ReadFlight
<1>7. TypeOK'
  BY <1>1, <1>5, <1>6 DEF TypeOK, Counters
<1>8. StartInv'
  BY <1>1 DEF StartInv
<1>9. EpochsInv' /\ KeysInv' /\ ContextsInv'
  BY <1>1, <1>2, <1>4, <1>6 DEF EpochsInv, KeysInv, ContextsInv
<1> QED BY <1>6, <1>7, <1>8, <1>9

\* A new connection starts from Init's state.
LEMMA ClearStep ==
  ASSUME WriteAssumption, TypeOK, tls_clear
  PROVE  WriteInv'
<1>1. 0 \in Epochs
  BY DEF WriteAssumption, Epochs
<1>2. TypeOK'
  BY <1>1 DEF tls_clear, TypeOK, Writes, Reads
<1>3. NumbersInv'
  BY DEF tls_clear, NumbersInv
<1>4. StartInv' /\ EpochsInv' /\ KeysInv' /\ ContextsInv'
  BY DEF tls_clear, StartInv, EpochsInv, KeysInv, ContextsInv
<1> QED BY <1>2, <1>3, <1>4 DEF WriteInv

\* DTLSv1_listen may set the counter because nothing has been written.
LEMMA ListenStep ==
  ASSUME WriteAssumption, WriteInv, NEW seq \in 0..MaxListenSeq, DTLSv1_listen(seq)
  PROVE  WriteInv'
<1> USE DEF WriteInv
<1>1. \A k \in Numbers : written[k] = 0
  BY DEF StartInv, DTLSv1_listen
<1>2. rl' = [epoch |-> rl.epoch, write |-> seq, last |-> rl.last, curr |-> rl.curr]
  BY DEF DTLSv1_listen
<1>3. seq \in Nat
  BY DEF WriteAssumption
<1>4. rl' \in Counters /\ rl'.epoch = rl.epoch
  BY <1>2, <1>3 DEF TypeOK, Counters
<1>5. TypeOK'
  BY <1>4 DEF DTLSv1_listen, machine, keys, timers, history, TypeOK, Counters
<1>6. NumbersInv'
  BY <1>1 DEF NumbersInv, DTLSv1_listen, history
<1>7. StartInv' /\ KeysInv'
  BY <1>4 DEF StartInv, KeysInv, DTLSv1_listen, machine, history, keys
<1>8. EpochsInv' /\ ContextsInv'
  BY <1>4 DEF EpochsInv, ContextsInv, Fresh, DTLSv1_listen, machine
<1> QED BY <1>5, <1>6, <1>7, <1>8

\* A retransmission writes in the message's epoch, with the message's context, and comes
\* back.
LEMMA RetransmitStep ==
  ASSUME WriteAssumption, WriteInv, NEW ok \in BOOLEAN, dtls1_retransmit_message(ok)
  PROVE  WriteInv'
<1> USE DEF WriteInv
<1>1. PICK m \in resend, n \in 0 .. MaxFragments + 1 :
        /\ WriteFragments(set_saved_w_epoch(rl, m.epoch), n, SavedContext(m), ok)
        /\ rl' = set_saved_w_epoch(Advance(set_saved_w_epoch(rl, m.epoch), n), rl.epoch)
        /\ resend' = IF ok THEN resend \ {m} ELSE {}
        /\ init_buf' = IF ok THEN NoMessage ELSE m
  BY DEF dtls1_retransmit_message
<1> DEFINE r == set_saved_w_epoch(rl, m.epoch)
<1>2. /\ m \in sent_messages /\ m \in Messages /\ m.epoch \in Epochs
      /\ m.epoch \in {rl.epoch - 1, rl.epoch} /\ m.ctx = m.epoch /\ n \in Nat /\ m.ctx \in Nat
  BY WriteAssumption DEF TypeOK, EpochsInv, KeysInv, WriteAssumption, Messages
<1>3. Protect(r, n, m.ctx) /\ alert_dispatch' \in BOOLEAN
  BY <1>1 DEF WriteFragments, TypeOK, SavedContext
<1>4. written' \in [Numbers -> Nat] /\ rl' \in Counters /\ rl'.epoch = rl.epoch /\ NumbersInv'
  BY <1>1, <1>2, <1>3, WriteThere
<1>5. r \in Counters /\ r.epoch = m.epoch
  BY <1>2 DEF set_saved_w_epoch, Counters, TypeOK
<1>6. /\ used' \subseteq [epoch : Epochs, ctx : Nat, etm : BOOLEAN]
      /\ \A u \in used' : u.ctx = u.epoch
  BY <1>2, <1>3, <1>5, ProtectUsed DEF TypeOK, KeysInv
<1>7. UNCHANGED <<machine, keys, freed, sent_messages, next_handshake_write_seq, timers>>
  BY DEF dtls1_retransmit_message
<1>8. resend' \subseteq sent_messages /\ init_buf' \in Messages \cup {NoMessage}
  BY <1>1, <1>2 DEF TypeOK
<1>9. TypeOK'
  BY <1>3, <1>4, <1>6, <1>7, <1>8 DEF TypeOK, Counters, machine, keys, timers
<1>10. StartInv'
  BY <1>2, <1>7 DEF StartInv, machine
<1>11. EpochsInv' /\ KeysInv' /\ ContextsInv'
  BY <1>4, <1>6, <1>7 DEF EpochsInv, KeysInv, ContextsInv, Fresh, machine, keys
<1> QED BY <1>4, <1>9, <1>10, <1>11

\* Every step keeps WriteInv.
LEMMA NextInv == WriteAssumption /\ WriteInv /\ [Next]_vars => WriteInv'
<1> SUFFICES ASSUME WriteAssumption, WriteInv, [Next]_vars PROVE WriteInv'
  OBVIOUS
<1>1. CASE \E h \in Writes : ConstructMessage(h)
  BY <1>1, ConstructStep
<1>2. CASE SendMessage
  BY <1>2, SendStep
<1>3. CASE SendInterrupted
  <2>1. PICK n \in 0 .. MaxFragments + 1 :
          WriteFragments(rl, n, ctx, FALSE) /\ rl' = Advance(rl, n)
    BY <1>3 DEF SendInterrupted
  <2>2. n \in Nat
    BY DEF WriteAssumption
  <2>3. Protect(rl, n, ctx) /\ alert_dispatch' \in BOOLEAN
    BY <2>1 DEF WriteFragments, WriteInv, TypeOK
  <2> QED BY <1>3, <2>1, <2>2, <2>3, RecordStep DEF SendInterrupted, machine
<1>4. CASE EndFlight
  <2>1. TypeOK' /\ Quiet
    BY <1>4 DEF EndFlight, WriteInv, TypeOK, Quiet, keys, timers, history
  <2>2. ~ Fresh'
    BY <1>4 DEF EndFlight, Fresh
  <2>3. /\ UNCHANGED <<freed, sent_messages, sending>>
        /\ hand_state' = hand_state \/ (~ sending /\ hand_state' = "OK")
        /\ sending => flow' \in {"writing", "error"}
        /\ flow' = "finished" =>
             hand_state' = "OK" \/ (flow = "finished" /\ hand_state' = hand_state)
    BY <1>4 DEF EndFlight
  <2> QED BY <2>1, <2>2, <2>3, IdleStep
<1>5. CASE FinishHandshake
  <2>1. /\ flow' = "finished" /\ hand_state' = "OK" /\ ~ sending
        /\ renegotiate' \in BOOLEAN /\ next_handshake_write_seq' \in Nat
        /\ UNCHANGED <<server, sending, hit, init_buf, rl, keys, freed, sent_messages, resend,
                       timers, alert_dispatch, history>>
    BY <1>5 DEF FinishHandshake, WriteInv, TypeOK
  <2>2. TypeOK' /\ Quiet
    BY <2>1 DEF WriteInv, TypeOK, Quiet, keys, timers, history, Reads
  <2>3. ~ Fresh'
    BY <2>1 DEF Fresh
  <2> QED BY <2>1, <2>2, <2>3, IdleStep
<1>6. CASE \E h \in Reads, resumed \in BOOLEAN : ReadFlight(h, resumed)
  BY <1>6, ReadFlightStep
<1>7. CASE ReadFatal
  BY <1>7, RecordStep DEF ReadFatal
<1>8. CASE \E to \in {"reading", "writing"} : BeginHandshake(to)
  <2>1. PICK to \in {"reading", "writing"} : BeginHandshake(to)
    BY <1>8
  <2>2. /\ flow = "finished" /\ flow' = to /\ renegotiate' \in BOOLEAN /\ init_buf' = NoMessage
        /\ UNCHANGED <<server, hand_state, sending, hit, rl, keys, freed, sent_messages, resend,
                       next_handshake_write_seq, timers, alert_dispatch, history>>
    BY <2>1 DEF BeginHandshake, WriteInv, TypeOK
  <2>3. TypeOK' /\ Quiet
    BY <2>2 DEF WriteInv, TypeOK, Quiet, keys, timers, history
  <2>4. ~ sending /\ hand_state \in {"BEFORE", "OK"}
    BY <2>2 DEF WriteInv, ContextsInv, StartInv
  <2>5. ~ Fresh'
    BY <2>2, <2>4 DEF Fresh, Change
  <2>6. /\ UNCHANGED <<freed, sent_messages, sending>>
        /\ hand_state' = hand_state \/ (~ sending /\ hand_state' = "OK")
        /\ sending => flow' \in {"writing", "error"}
        /\ flow' = "finished" =>
             hand_state' = "OK" \/ (flow = "finished" /\ hand_state' = hand_state)
    BY <2>2, <2>4
  <2> QED BY <2>3, <2>5, <2>6, IdleStep
<1>9. CASE \E seq \in 0..MaxListenSeq : DTLSv1_listen(seq)
  BY <1>9, ListenStep
<1>10. CASE WriteAppData
  <2>1. PICK n \in {1, 2} : Protect(rl, n, ctx) /\ rl' = Advance(rl, n)
    BY <1>10 DEF WriteAppData
  <2> QED BY <1>10, <2>1, RecordStep DEF WriteAppData, machine
<1>11. CASE SendAlert
  BY <1>11, RecordStep DEF SendAlert, machine
<1>12. CASE tls_clear
  BY <1>12, ClearStep DEF WriteInv
<1>13. CASE dtls1_handle_timeout \/ RepeatedFinished
  <2>1. /\ flow' \in {flow, "error"} /\ resend' \subseteq sent_messages /\ num_alerts' \in Nat
        /\ UNCHANGED <<server, hand_state, sending, hit, renegotiate, init_buf, rl, keys, freed,
                       sent_messages, next_handshake_write_seq, use_timer, timer,
                       alert_dispatch, history>>
    BY <1>13 DEF dtls1_handle_timeout, RepeatedFinished, CheckTimeoutNum, WriteInv, TypeOK
  <2>2. TypeOK' /\ Quiet
    BY <2>1 DEF WriteInv, TypeOK, Quiet, keys, history
  <2>3. Fresh' => Fresh
    BY <2>1 DEF Fresh
  <2>4. /\ UNCHANGED <<freed, sent_messages, sending>>
        /\ hand_state' = hand_state \/ (~ sending /\ hand_state' = "OK")
        /\ sending => flow' \in {"writing", "error"}
        /\ flow' = "finished" =>
             hand_state' = "OK" \/ (flow = "finished" /\ hand_state' = hand_state)
    BY <2>1 DEF WriteInv, ContextsInv
  <2> QED BY <2>2, <2>3, <2>4, IdleStep
<1>14. CASE \E ok \in BOOLEAN : dtls1_retransmit_message(ok)
  BY <1>14, RetransmitStep
<1>15. CASE UNCHANGED vars
  <2>1. UNCHANGED <<server, flow, hand_state, sending, hit, renegotiate, init_buf, rl, ctx, etm, freed,
                    sent_messages, resend, next_handshake_write_seq, use_timer, timer,
                    num_alerts, alert_dispatch, written, used>>
    BY <1>15 DEF vars, machine, keys, timers, history
  <2>2. TypeOK' /\ Quiet
    BY <2>1 DEF WriteInv, TypeOK, Quiet
  <2>3. Fresh' => Fresh
    BY <2>1 DEF Fresh
  <2>4. /\ UNCHANGED <<freed, sent_messages, sending>>
        /\ hand_state' = hand_state \/ (~ sending /\ hand_state' = "OK")
        /\ sending => flow' \in {"writing", "error"}
        /\ flow' = "finished" =>
             hand_state' = "OK" \/ (flow = "finished" /\ hand_state' = hand_state)
    BY <2>1 DEF WriteInv, ContextsInv
  <2> QED BY <2>2, <2>3, <2>4, IdleStep
<1> QED BY <1>1, <1>2, <1>3, <1>4, <1>5, <1>6, <1>7, <1>8, <1>9, <1>10, <1>11, <1>12,
           <1>13, <1>14, <1>15 DEF Next, Handshake, Connected, Retransmit

(***************************************************************************)
(* The flight                                                              *)
(***************************************************************************)
\* The states in which a client has sent its ClientHello and is still in the handshake.
UnderWay == {"CW_CLNT_HELLO", "CR_SRVR_DONE", "CR_FINISHED", "CW_KEY_EXCH", "CW_CHANGE",
             "CW_FINISHED"}

\* After a message of the peer nothing is buffered, and in the flight that follows what is
\* buffered has lower numbers than the message built next.  Only the ChangeCipherSpec
\* shares its number, with the Finished after it.
PlaceInv ==
  /\ hand_state \in Reads \ {"OK"} => sent_messages = {} /\ flight = << >>
  /\ hand_state \notin {"OK", "CW_CLNT_HELLO"} =>
       \A m \in sent_messages :
         \/ m.seq < next_handshake_write_seq
         \/ m.is_ccs = 1 /\ m.seq = next_handshake_write_seq /\ hand_state \in Change

\* tls_finish_handshake sets the numbers back to 0 while the last flight of a resumed
\* handshake is still buffered.  A client that renegotiates then adds its ClientHello to
\* that flight.  It finds its place free because the old flight does not hold number 0.
RestartInv ==
  /\ flow = "writing" /\ hand_state = "OK" => flight = << >>
  /\ ~ server /\ hand_state = "OK" => \A m \in sent_messages : m.seq > 0
  /\ ~ server /\ hand_state \in {"OK", "CR_HELLO_REQ"} => next_handshake_write_seq = 0
  /\ hand_state \in UnderWay => next_handshake_write_seq > 0
  /\ hand_state \in UnderWay \ {"CW_CLNT_HELLO"} => \A m \in sent_messages : m.seq > 0

\* The invariant that makes FlightKept inductive.
FlightInv == flight \in Seq(Messages) /\ FlightKept /\ PlaceInv /\ RestartInv

\* A message that comes after all that is buffered takes its place in the queue, and at the
\* end of the flight.
LEMMA AppendKept ==
  ASSUME NEW f \in Seq(Messages), NEW q \in SUBSET Messages, NEW m \in Messages,
         \A i \in 1..Len(f) : f[i] \in q,
         \A i, j \in 1..Len(f) : i < j => Priority(f[i]) < Priority(f[j]),
         \A i \in 1..Len(f) : Priority(f[i]) < Priority(m),
         \A i \in q : Priority(i) # Priority(m),
         flight' = Append(f, m), sent_messages' = dtls1_buffer_message(q, m)
  PROVE  flight' \in Seq(Messages) /\ FlightKept'
<1>1. sent_messages' = q \cup {m}
  BY DEF dtls1_buffer_message
<1>2. /\ flight' \in Seq(Messages) /\ Len(flight') = Len(f) + 1 /\ Len(f) \in Nat
      /\ \A i \in 1..Len(f) : flight'[i] = f[i]
      /\ flight'[Len(f) + 1] = m
  OBVIOUS
<1>3. \A i \in 1..Len(f) + 1 : i \in 1..Len(f) \/ i = Len(f) + 1
  BY <1>2
<1>4. ASSUME NEW i \in 1..Len(flight') PROVE flight'[i] \in sent_messages'
  BY <1>1, <1>2, <1>3
<1>5. ASSUME NEW i \in 1..Len(flight'), NEW j \in 1..Len(flight'), i < j
      PROVE  Priority(flight'[i]) < Priority(flight'[j])
  <2>1. i \in 1..Len(f)
    BY <1>2, <1>5
  <2>2. CASE j \in 1..Len(f)
    BY <1>2, <1>5, <2>1, <2>2
  <2>3. CASE j = Len(f) + 1
    BY <1>2, <2>1, <2>3
  <2> QED BY <1>2, <1>3, <2>2, <2>3
<1> QED BY <1>2, <1>4, <1>5 DEF FlightKept, Priority

\* A new message comes after what is buffered, or its flight begins with it.
LEMMA ConstructFlight ==
  ASSUME WriteInv, FlightInv, NEW h \in Writes, ConstructMessage(h)
  PROVE  FlightInv'
<1> DEFINE m == [seq |-> next_handshake_write_seq, is_ccs |-> IF h \in Change THEN 1 ELSE 0,
                 epoch |-> rl.epoch, ctx |-> ctx]
           kept == IF h \in Clears THEN {} ELSE sent_messages
           old  == IF h \in Clears THEN << >> ELSE flight
           next == next_handshake_write_seq
<1>1. /\ flow = "writing" /\ flow' = flow /\ hand_state' = h /\ server' = server
      /\ next_handshake_write_seq' = IF h \in Change THEN next ELSE next + 1
      /\ sent_messages' = IF h = "SW_HELLO_VERIFY_REQUEST" THEN {}
                          ELSE dtls1_buffer_message(kept, m)
      /\ flight' = IF h = "SW_HELLO_VERIFY_REQUEST" THEN << >> ELSE Append(old, m)
      /\ WriteTransition(h)
  BY DEF ConstructMessage
<1>2. /\ m \in Messages /\ m.seq = next /\ next \in Nat /\ m.is_ccs = IF h \in Change THEN 1 ELSE 0
      /\ sent_messages \subseteq Messages
  BY DEF WriteInv, TypeOK, Messages
<1>3. /\ \A i \in Messages : i.seq \in Nat /\ i.is_ccs \in 0..1 /\ Priority(i) = i.seq * 2 - i.is_ccs
      /\ \A i \in Messages : Priority(i) \in Int
  BY DEF Messages, Priority, dtls1_get_queue_priority
<1>4. hand_state \in Change => h \notin Change
  BY <1>1 DEF WriteTransition, ClientWriteTransition, ServerWriteTransition, Change
<1>5. hand_state = "CW_CLNT_HELLO" => FALSE
  BY <1>1 DEF WriteTransition, ClientWriteTransition, ServerWriteTransition, Writes
<1>6. hand_state = "OK" => h \in Clears \/ (~ server /\ h = "CW_CLNT_HELLO")
  BY <1>1 DEF WriteTransition, ClientWriteTransition, ServerWriteTransition, Clears, Writes
<1>7. h = "CW_CLNT_HELLO" => hand_state \in Reads
  BY <1>1 DEF WriteTransition, ClientWriteTransition, ServerWriteTransition, Reads
<1>8. h \in UnderWay \ {"CW_CLNT_HELLO"} => hand_state \in UnderWay \ {"CW_CLNT_HELLO"}
  BY <1>1, <1>5 DEF WriteTransition, ClientWriteTransition, ServerWriteTransition, UnderWay, Writes
<1>9. "CW_CLNT_HELLO" \notin Change /\ "SW_HELLO_VERIFY_REQUEST" \notin Change
  BY DEF Change
<1>10. h \notin Reads /\ h # "OK"
  BY DEF Writes, Reads
<1> HIDE DEF m, kept, old
<1>11. CASE hand_state # "OK" \/ h \in Clears
  <2>1. \A i \in kept : \/ i.seq < next
                        \/ i.is_ccs = 1 /\ i.seq = next /\ h \notin Change
    BY <1>4, <1>5, <1>11 DEF kept, FlightInv, PlaceInv
  <2>2. \A i \in kept : Priority(i) < Priority(m)
    <3> SUFFICES ASSUME NEW i \in kept PROVE Priority(i) < Priority(m)
      OBVIOUS
    <3>1. i \in Messages
      BY <1>2 DEF kept
    <3> QED BY <1>2, <1>3, <2>1, <3>1
  <2>3. /\ old \in Seq(Messages) /\ kept \in SUBSET Messages
        /\ \A i \in 1..Len(old) : old[i] \in kept
        /\ \A i, j \in 1..Len(old) : i < j => Priority(old[i]) < Priority(old[j])
    BY <1>2 DEF old, kept, FlightInv, FlightKept
  <2>4. flight' \in Seq(Messages) /\ FlightKept'
    <3>1. CASE h = "SW_HELLO_VERIFY_REQUEST"
      BY <1>1, <3>1 DEF FlightKept
    <3>2. CASE h # "SW_HELLO_VERIFY_REQUEST"
      <4>1. \A i \in 1..Len(old) : Priority(old[i]) < Priority(m)
        BY <2>2, <2>3
      <4>2. \A i \in kept : Priority(i) # Priority(m)
        BY <1>2, <1>3, <2>2, <2>3
      <4> QED BY <1>1, <1>2, <2>3, <3>2, <4>1, <4>2, AppendKept
    <3> QED BY <3>1, <3>2
  <2>5. sent_messages' \subseteq kept \cup {m}
    BY <1>1 DEF dtls1_buffer_message
  <2>6. PlaceInv'
    <3>1. ASSUME NEW i \in sent_messages'
          PROVE  \/ i.seq < next_handshake_write_seq'
                 \/ i.is_ccs = 1 /\ i.seq = next_handshake_write_seq' /\ h \in Change
      <4>1. CASE i \in kept
        <5>1. i.seq \in Nat
          BY <1>2, <1>3, <2>3, <4>1
        <5> QED BY <1>1, <1>2, <2>1, <4>1, <5>1
      <4>2. CASE i = m
        BY <1>1, <1>2, <4>2
      <4> QED BY <2>5, <4>1, <4>2
    <3> QED BY <1>1, <1>10, <3>1 DEF PlaceInv
  <2>7. RestartInv'
    <3>1. h \in UnderWay => next_handshake_write_seq' > 0
      BY <1>1, <1>2, <1>8, <1>9 DEF FlightInv, RestartInv
    <3>2. ASSUME h \in UnderWay \ {"CW_CLNT_HELLO"}, NEW i \in sent_messages' PROVE i.seq > 0
      <4>1. next > 0 /\ \A k \in sent_messages : k.seq > 0
        BY <1>8, <3>2 DEF FlightInv, RestartInv
      <4> QED BY <1>2, <2>5, <4>1, <3>2 DEF kept
    <3>3. h # "CR_HELLO_REQ"
      BY DEF Writes
    <3> QED BY <1>1, <1>10, <3>1, <3>2, <3>3 DEF RestartInv
  <2> QED BY <2>4, <2>6, <2>7 DEF FlightInv
<1>12. CASE hand_state = "OK" /\ h \notin Clears
  <2>1. ~ server /\ h = "CW_CLNT_HELLO" /\ h # "SW_HELLO_VERIFY_REQUEST" /\ h \notin Change
    BY <1>6, <1>9, <1>12
  <2>2. old = << >> /\ next = 0 /\ kept = sent_messages /\ \A i \in kept : i.seq > 0
    BY <1>1, <1>12, <2>1 DEF FlightInv, RestartInv, old, kept
  <2>3. \A i \in kept : Priority(i) # Priority(m)
    <3> SUFFICES ASSUME NEW i \in kept PROVE Priority(i) # Priority(m)
      OBVIOUS
    <3>1. i \in Messages /\ i.seq > 0
      BY <1>2, <2>2
    <3> QED BY <1>2, <1>3, <2>1, <2>2, <3>1
  <2>4. old \in Seq(Messages) /\ kept \in SUBSET Messages /\ Len(old) = 0
    BY <1>2, <2>2
  <2>5. flight' = Append(old, m) /\ sent_messages' = dtls1_buffer_message(kept, m)
    BY <1>1, <2>1
  <2>6. flight' \in Seq(Messages) /\ FlightKept'
    <3>1. \A i \in 1..Len(old) : FALSE
      BY <2>4
    <3>2. /\ \A i \in 1..Len(old) : old[i] \in kept
          /\ \A i, j \in 1..Len(old) : i < j => Priority(old[i]) < Priority(old[j])
          /\ \A i \in 1..Len(old) : Priority(old[i]) < Priority(m)
      BY <3>1
    <3> QED BY <1>2, <2>3, <2>4, <2>5, <3>2, AppendKept
  <2>7. next_handshake_write_seq' > 0
    BY <1>1, <1>2, <2>1
  <2>8. PlaceInv' /\ RestartInv'
    BY <1>1, <1>10, <2>1, <2>7 DEF PlaceInv, RestartInv
  <2> QED BY <2>6, <2>8 DEF FlightInv
<1> QED BY <1>11, <1>12

\* The peer's answer empties the flight with the buffer.
LEMMA ReadFlightFlight ==
  ASSUME WriteInv, FlightInv, NEW h \in Reads, NEW resumed \in BOOLEAN, ReadFlight(h, resumed)
  PROVE  FlightInv'
<1>1. /\ hand_state' = h /\ sent_messages' = {} /\ flight' = << >> /\ server' = server
      /\ next_handshake_write_seq' = next_handshake_write_seq
      /\ LastOfFlight(h, resumed)
  BY DEF ReadFlight, dtls1_stop_timer
<1>2. h # "OK"
  BY <1>1 DEF LastOfFlight
<1>3. h \in UnderWay => hand_state \in UnderWay
  BY <1>1 DEF LastOfFlight, UnderWay
<1>4. h = "CR_HELLO_REQ" => ~ server /\ hand_state = "OK"
  BY <1>1 DEF LastOfFlight
<1>5. RestartInv'
  BY <1>1, <1>2, <1>3, <1>4 DEF FlightInv, RestartInv
<1>6. PlaceInv' /\ flight' \in Seq(Messages) /\ FlightKept'
  BY <1>1 DEF PlaceInv, FlightKept
<1> QED BY <1>5, <1>6 DEF FlightInv

\* The end of the handshake leaves the last flight to be sent again.
LEMMA FinishFlight ==
  ASSUME WriteInv, FlightInv, FinishHandshake
  PROVE  FlightInv'
<1>1. /\ flow' = "finished" /\ hand_state' = "OK" /\ server' = server
      /\ sent_messages' = sent_messages /\ flight' = flight /\ WriteTransition("OK")
      /\ next_handshake_write_seq' =
           IF hand_state \notin {"SW_HELLO_REQ", "CR_HELLO_REQ", "SR_CLNT_HELLO"} THEN 0
           ELSE next_handshake_write_seq
  BY DEF FinishHandshake
<1>2. ~ server => hand_state \in {"CW_FINISHED", "CR_FINISHED", "CR_HELLO_REQ"}
  BY <1>1 DEF WriteTransition, ClientWriteTransition
<1>3. ~ server => \A m \in sent_messages : m.seq > 0
  BY <1>2 DEF FlightInv, PlaceInv, RestartInv, Reads, UnderWay
<1>4. ~ server => next_handshake_write_seq' = 0
  BY <1>1, <1>2 DEF FlightInv, RestartInv
<1>5. "OK" \notin UnderWay
  BY DEF UnderWay
<1> QED BY <1>1, <1>3, <1>4, <1>5 DEF FlightInv, FlightKept, PlaceInv, RestartInv

\* A step that leaves the buffer, the flight and the place in the handshake alone.
LEMMA FlightStays ==
  ASSUME FlightInv,
         UNCHANGED <<server, hand_state, sent_messages, flight, next_handshake_write_seq>>,
         flow' = "writing" => flow = "writing"
  PROVE  FlightInv'
BY DEF FlightInv, FlightKept, PlaceInv, RestartInv

\* Every step keeps FlightInv.
LEMMA FlightStep == WriteInv /\ FlightInv /\ [Next]_vars => FlightInv'
<1> SUFFICES ASSUME WriteInv, FlightInv, [Next]_vars PROVE FlightInv'
  OBVIOUS
<1>1. CASE \E h \in Writes : ConstructMessage(h)
  BY <1>1, ConstructFlight
<1>2. CASE SendMessage \/ SendInterrupted
  BY <1>2, FlightStays DEF SendMessage, SendInterrupted, machine
<1>3. CASE EndFlight
  BY <1>3, FlightStays DEF EndFlight
<1>4. CASE FinishHandshake
  BY <1>4, FinishFlight
<1>5. CASE \E h \in Reads, resumed \in BOOLEAN : ReadFlight(h, resumed)
  BY <1>5, ReadFlightFlight
<1>6. CASE ReadFatal
  BY <1>6, FlightStays DEF ReadFatal
<1>7. CASE \E to \in {"reading", "writing"} : BeginHandshake(to)
  <2>1. PICK to \in {"reading", "writing"} : BeginHandshake(to)
    BY <1>7
  <2>2. /\ flow' = to /\ flight' = IF to = "writing" THEN << >> ELSE flight
        /\ UNCHANGED <<server, hand_state, sent_messages, next_handshake_write_seq>>
    BY <2>1 DEF BeginHandshake
  <2>3. CASE to = "reading"
    BY <2>2, <2>3, FlightStays
  <2>4. CASE to = "writing"
    <3>1. flight' = << >>
      BY <2>2, <2>4
    <3>2. flight' \in Seq(Messages) /\ FlightKept'
      BY <3>1 DEF FlightKept
    <3>3. PlaceInv' /\ RestartInv'
      BY <2>2, <3>1 DEF FlightInv, PlaceInv, RestartInv
    <3> QED BY <3>2, <3>3 DEF FlightInv
  <2> QED BY <2>3, <2>4
<1>8. CASE \E seq \in 0..MaxListenSeq : DTLSv1_listen(seq)
  <2>1. /\ server /\ server' = server /\ hand_state = "BEFORE" /\ hand_state' = hand_state
        /\ sent_messages' = sent_messages /\ flight' = flight /\ flow' = flow
    BY <1>8 DEF DTLSv1_listen, machine
  <2>2. sent_messages = {} /\ flight = << >>
    BY <2>1 DEF FlightInv, PlaceInv, Reads
  <2> QED BY <2>1, <2>2 DEF FlightInv, FlightKept, PlaceInv, RestartInv, UnderWay
<1>9. CASE WriteAppData \/ SendAlert
  BY <1>9, FlightStays DEF WriteAppData, SendAlert, machine
<1>10. CASE tls_clear
  BY <1>10 DEF tls_clear, FlightInv, FlightKept, PlaceInv, RestartInv, UnderWay
<1>11. CASE dtls1_handle_timeout \/ RepeatedFinished
  BY <1>11, FlightStays DEF dtls1_handle_timeout, RepeatedFinished, CheckTimeoutNum
<1>12. CASE \E ok \in BOOLEAN : dtls1_retransmit_message(ok)
  BY <1>12, FlightStays DEF dtls1_retransmit_message, machine
<1>13. CASE UNCHANGED vars
  BY <1>13, FlightStays DEF vars, machine
<1> QED BY <1>1, <1>2, <1>3, <1>4, <1>5, <1>6, <1>7, <1>8, <1>9, <1>10, <1>11, <1>12, <1>13
        DEF Next, Handshake, Connected, Retransmit

(***************************************************************************)
(* The theorems                                                            *)
(***************************************************************************)
\* The send buffer never reaches back further than the counters of the record layer.
THEOREM WriteInvariant == Spec => []WriteInv
<1>1. Init => WriteInv
  BY InitInv, WriteAssumption
<1>2. WriteInv /\ [Next]_vars => WriteInv'
  BY NextInv, WriteAssumption
<1> QED BY <1>1, <1>2, PTL DEF Spec

\* do_dtls1_write never gives two records the same epoch and sequence number.
THEOREM NumbersUnique == Spec => []NoReuse
<1>1. WriteInv => NoReuse
  BY DEF WriteInv, NumbersInv, NoReuse
<1> QED BY <1>1, WriteInvariant, PTL

\* A retransmission uses the keys of the epoch it is sent in: an epoch has one context,
\* and a context one epoch.
THEOREM KeysPerEpoch == Spec => []OneKeyPerEpoch
<1>1. WriteInv => OneKeyPerEpoch
  BY DEF WriteInv, KeysInv, OneKeyPerEpoch
<1> QED BY <1>1, WriteInvariant, PTL

\* dtls1_hm_fragment_free never frees a context that is in use or may be used again.
THEOREM ContextsLive == Spec => []ContextsAlive
<1>1. WriteInv => ContextsAlive
  <2> SUFFICES ASSUME WriteInv PROVE ContextsAlive
    OBVIOUS
  <2>1. /\ \A c \in freed : c < ctx
        /\ \A c \in freed : \A m \in sent_messages : c < m.ctx
    BY DEF WriteInv, ContextsInv, KeysInv
  <2>2. ctx \in Nat /\ freed \subseteq Nat
    BY DEF WriteInv, TypeOK
  <2>3. ctx \notin freed
    BY <2>1, <2>2
  <2>4. ASSUME NEW m \in sent_messages, m.ctx \in freed PROVE FALSE
    <3>1. m.ctx < m.ctx /\ m.ctx \in Nat
      BY <2>1, <2>2, <2>4
    <3> QED BY <3>1
  <2> QED BY <2>3, <2>4 DEF ContextsAlive
<1> QED BY <1>1, WriteInvariant, PTL

\* What the peer has not answered can be sent again, in the order it was first sent:
\* neither the numbers tls_finish_handshake sets back nor a renegotiation on top of a
\* buffered flight lets dtls1_buffer_message refuse a message or put it out of place.
THEOREM FlightIsKept == Spec => []FlightKept
<1>1. Init => FlightInv
  BY DEF Init, FlightInv, FlightKept, PlaceInv, RestartInv, UnderWay
<1>2. WriteInv /\ FlightInv /\ [Next]_vars => FlightInv'
  BY FlightStep
<1>3. FlightInv => FlightKept
  BY DEF FlightInv
<1> QED BY <1>1, <1>2, <1>3, WriteInvariant, PTL DEF Spec
=============================================================================
