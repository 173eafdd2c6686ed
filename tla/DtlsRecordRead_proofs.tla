------------------------ MODULE DtlsRecordRead_proofs ------------------------
(***************************************************************************)
(* ReadInv is inductive; the safety properties of DtlsRecordRead follow    *)
(* for every set of records and datagrams, window width and queue limit.   *)
(***************************************************************************)
EXTENDS DtlsRecordRead, FiniteSetTheorems, SequenceTheorems, TLAPS

(***************************************************************************)
(* The replay window is sound for every width of the map, as long as the   *)
(* saturated difference cannot fall inside it.                             *)
(***************************************************************************)
\* satsub64be is the difference cut off at SatLimit, whatever 64-bit wrap-around
\* the subtraction meets.
LEMMA SatSub ==
  ASSUME NEW a \in SeqNums, NEW b \in SeqNums
  PROVE  /\ satsub64be(a, b) \in Int
         /\ a - b > SatLimit => satsub64be(a, b) = SatLimit
         /\ a - b < - SatLimit => satsub64be(a, b) = - SatLimit
         /\ a - b \in - SatLimit .. SatLimit => satsub64be(a, b) = a - b
<1> DEFINE d == IF a >= b THEN a - b ELSE a - b + 2 * Half
           w == IF d >= Half THEN d - 2 * Half ELSE d
<1>1. /\ SatLimit \in Nat /\ Half \in Nat /\ SatLimit < Half
      /\ a \in Nat /\ b \in Nat /\ a < 2 * Half /\ b < 2 * Half
  BY WindowAssumption DEF SeqNums
<1>2. WrappedDifference(a, b) = w
  BY DEF WrappedDifference
<1>3. /\ w \in Int
      /\ a > b /\ w < 0 => a - b > SatLimit
      /\ b > a /\ w > 0 => a - b < - SatLimit
      /\ ~ (a > b /\ w < 0) /\ ~ (b > a /\ w > 0) => w = a - b
  BY <1>1
<1> HIDE DEF w, d
<1>4. satsub64be(a, b) = CASE a > b /\ w < 0 -> SatLimit
                           [] b > a /\ w > 0 -> - SatLimit
                           [] OTHER -> CASE w > SatLimit   -> SatLimit
                                         [] w < - SatLimit -> - SatLimit
                                         [] OTHER          -> w
  BY <1>2 DEF satsub64be
<1>5. CASE a > b /\ w < 0
  BY <1>1, <1>3, <1>4, <1>5
<1>6. CASE b > a /\ w > 0
  BY <1>1, <1>3, <1>4, <1>6
<1>7. CASE ~ (a > b /\ w < 0) /\ ~ (b > a /\ w > 0)
  BY <1>1, <1>3, <1>4, <1>7
<1>8. QED
  BY <1>5, <1>6, <1>7

\* The sign and the size of satsub64be, as the two functions of the window use it.
LEMMA SatSubSign ==
  ASSUME NEW a \in SeqNums, NEW b \in SeqNums
  PROVE  /\ satsub64be(a, b) \in Int
         /\ satsub64be(a, b) > 0 <=> a > b
         /\ satsub64be(a, b) < MapBits /\ - satsub64be(a, b) < MapBits
              => satsub64be(a, b) = a - b
         /\ a - b \in - SatLimit .. SatLimit => satsub64be(a, b) = a - b
         /\ satsub64be(a, b) >= MapBits => a - b >= MapBits
         /\ a > b /\ satsub64be(a, b) < MapBits => satsub64be(a, b) = a - b
         /\ a <= b /\ - satsub64be(a, b) < MapBits => satsub64be(a, b) = a - b
  BY SatSub, WindowAssumption DEF SeqNums

\* A marked map is again a map.
LEMMA UpdateType ==
  ASSUME NEW bm \in Bitmap, NEW seq \in SeqNums
  PROVE  dtls1_record_bitmap_update(bm, seq) \in Bitmap
<1> DEFINE cmp == satsub64be(seq, bm.max_seq_num)
<1>1. /\ bm.map \subseteq 0 .. MapBits - 1 /\ bm.max_seq_num \in SeqNums
      /\ bm = [map |-> bm.map, max_seq_num |-> bm.max_seq_num]
  BY DEF Bitmap
<1>2. cmp \in Int /\ MapBits \in Nat \ {0}
  BY <1>1, SatSubSign, WindowAssumption
<1>3. CASE cmp > 0
  BY <1>1, <1>2, <1>3 DEF dtls1_record_bitmap_update, Bitmap
<1>4. CASE ~ (cmp > 0) /\ - cmp < MapBits
  <2>1. - cmp \in 0 .. MapBits - 1
    BY <1>2, <1>4
  <2>2. dtls1_record_bitmap_update(bm, seq)
          = [map |-> bm.map \cup {- cmp}, max_seq_num |-> bm.max_seq_num]
    BY <1>4 DEF dtls1_record_bitmap_update
  <2>3. QED
    BY <1>1, <2>1, <2>2 DEF Bitmap
<1>5. CASE ~ (cmp > 0) /\ ~ (- cmp < MapBits)
  BY <1>1, <1>5 DEF dtls1_record_bitmap_update
<1>6. QED
  BY <1>3, <1>4, <1>5

\* A record the window lets through has not been seen.
LEMMA ReplayCheckSound ==
  ASSUME NEW bm \in Bitmap, NEW seen \in SUBSET SeqNums, Blocks(bm, seen),
         NEW seq \in SeqNums, dtls1_record_replay_check(bm, seq)
  PROVE  seq \notin seen
<1> DEFINE cmp == satsub64be(seq, bm.max_seq_num)
<1>1. bm.max_seq_num \in SeqNums /\ bm.map \subseteq 0 .. MapBits - 1
  BY DEF Bitmap
<1>2. cmp > 0 \/ (- cmp < MapBits /\ - cmp \notin bm.map)
  BY DEF dtls1_record_replay_check
<1>3. SUFFICES ASSUME seq \in seen PROVE FALSE
  OBVIOUS
<1>4. /\ seq <= bm.max_seq_num
      /\ bm.max_seq_num - seq < MapBits => bm.max_seq_num - seq \in bm.map
  BY <1>3 DEF Blocks
<1>5. /\ cmp \in Int
      /\ cmp > 0 <=> seq > bm.max_seq_num
      /\ - cmp < MapBits => cmp = seq - bm.max_seq_num
      /\ seq \in Int /\ bm.max_seq_num \in Int
  BY <1>1, <1>4, SatSubSign DEF SeqNums
<1> HIDE DEF cmp
<1>6. - cmp < MapBits /\ - cmp \notin bm.map /\ - cmp = bm.max_seq_num - seq
  BY <1>2, <1>4, <1>5
<1>7. QED
  BY <1>4, <1>6

\* Marking a record keeps every earlier one blocked and blocks this one.
LEMMA UpdateBlocks ==
  ASSUME NEW bm \in Bitmap, NEW seen \in SUBSET SeqNums, Blocks(bm, seen),
         NEW seq \in SeqNums
  PROVE  Blocks(dtls1_record_bitmap_update(bm, seq), seen \cup {seq})
<1> DEFINE cmp == satsub64be(seq, bm.max_seq_num)
           new == dtls1_record_bitmap_update(bm, seq)
<1>1. /\ bm.max_seq_num \in SeqNums /\ bm.map \subseteq 0 .. MapBits - 1
      /\ bm = [map |-> bm.map, max_seq_num |-> bm.max_seq_num]
      /\ bm.max_seq_num \in Int /\ seq \in Int /\ MapBits \in Nat \ {0}
  BY WindowAssumption DEF Bitmap, SeqNums
<1>2. /\ cmp \in Int
      /\ cmp > 0 <=> seq > bm.max_seq_num
      /\ cmp > 0 /\ cmp < MapBits => cmp = seq - bm.max_seq_num
      /\ cmp > 0 /\ ~ (cmp < MapBits) => seq - bm.max_seq_num >= MapBits
      /\ ~ (cmp > 0) /\ - cmp < MapBits => cmp = seq - bm.max_seq_num
      /\ ~ (cmp > 0) /\ ~ (- cmp < MapBits) => bm.max_seq_num - seq >= MapBits
  BY <1>1, SatSub, WindowAssumption DEF SeqNums
<1>3. SUFFICES ASSUME NEW n \in seen \cup {seq}
               PROVE  /\ n <= new.max_seq_num
                      /\ new.max_seq_num - n < MapBits => new.max_seq_num - n \in new.map
  BY DEF Blocks
<1>4. /\ n \in Int
      /\ n # seq => /\ n <= bm.max_seq_num
                    /\ bm.max_seq_num - n < MapBits => bm.max_seq_num - n \in bm.map
  BY <1>3 DEF Blocks, SeqNums
<1>5. CASE cmp > 0 /\ cmp < MapBits
  <2>1. new = [map |-> {i \in 0 .. MapBits - 1 : i - cmp \in bm.map} \cup {0}, max_seq_num |-> seq]
    BY <1>5 DEF dtls1_record_bitmap_update
  <2> HIDE DEF cmp, new
  <2>2. CASE n = seq
    BY <1>1, <2>1, <2>2
  <2>3. CASE n # seq
    <3>1. n <= seq
      BY <1>1, <1>2, <1>4, <1>5, <2>3
    <3>2. ASSUME seq - n < MapBits PROVE seq - n \in new.map
      <4>1. (seq - n) - cmp = bm.max_seq_num - n /\ bm.max_seq_num - n < MapBits
        BY <1>1, <1>2, <1>4, <1>5, <3>2
      <4>2. (seq - n) - cmp \in bm.map
        BY <1>4, <2>3, <4>1
      <4>3. seq - n \in 0 .. MapBits - 1
        BY <1>1, <1>4, <3>1, <3>2
      <4>4. QED
        BY <2>1, <4>2, <4>3
    <3>3. QED
      BY <2>1, <3>1, <3>2
  <2>4. QED
    BY <2>2, <2>3
<1>6. CASE cmp > 0 /\ ~ (cmp < MapBits)
  <2>1. new = [map |-> {0}, max_seq_num |-> seq]
    BY <1>6 DEF dtls1_record_bitmap_update
  <2> HIDE DEF cmp, new
  <2>2. QED
    BY <1>1, <1>2, <1>4, <1>6, <2>1
<1>7. CASE ~ (cmp > 0) /\ - cmp < MapBits
  <2>1. new = [map |-> bm.map \cup {- cmp}, max_seq_num |-> bm.max_seq_num]
    BY <1>1, <1>7 DEF dtls1_record_bitmap_update
  <2> HIDE DEF cmp, new
  <2>2. QED
    BY <1>1, <1>2, <1>4, <1>7, <2>1
<1>8. CASE ~ (cmp > 0) /\ ~ (- cmp < MapBits)
  <2>1. new = bm
    BY <1>1, <1>8 DEF dtls1_record_bitmap_update
  <2> HIDE DEF cmp, new
  <2>2. QED
    BY <1>1, <1>2, <1>4, <1>8, <2>1
<1>9. QED
  BY <1>5, <1>6, <1>7, <1>8

(***************************************************************************)
(* The receive side                                                        *)
(***************************************************************************)
\* The fields of a record, and of a queue item.
LEMMA RecordFields ==
  /\ \A r \in Records : /\ r.epoch \in Nat /\ r.seq \in SeqNums /\ r.type \in Types
                        /\ r.body \in Bodies /\ r # NoRecord /\ Key(r) \in Keys
  /\ \A i \in Items : i.rec \in Records /\ i.rest \in Seq(Records)
  /\ NoRecord.type = "none" /\ "none" \notin Types
  BY ReadAssumption DEF Items, NoRecord, Types, Handshake, Alert, Keys

\* The empty window is a window.
LEMMA ZeroBitmapType == ZeroBitmap \in Bitmap /\ Blocks(ZeroBitmap, {})
<1>1. 0 \in SeqNums
  BY WindowAssumption DEF SeqNums
<1>2. QED
  BY <1>1 DEF ZeroBitmap, Bitmap, Blocks

\* What the wire delivers is well formed.
LEMMA IncomingType ==
  ASSUME TypeOK, NEW d \in Incoming
  PROVE  Head(d) \in Records /\ Tail(d) \in Seq(Records)
  BY ReadAssumption DEF Incoming, TypeOK

\* dtls1_buffer_record adds at most the one record, and keeps sequence numbers apart.
LEMMA BufferRecord ==
  ASSUME NEW q, NEW item
  PROVE  /\ q \subseteq dtls1_buffer_record(q, item)
         /\ dtls1_buffer_record(q, item) \subseteq q \cup {item}
         /\ (\A i, j \in q : i.rec.seq = j.rec.seq => i = j)
              => \A i, j \in dtls1_buffer_record(q, item) : i.rec.seq = j.rec.seq => i = j
  BY DEF dtls1_buffer_record, pqueue_insert

\* Type correctness is inductive.
LEMMA TypeStep == TypeOK /\ [Next]_vars => TypeOK'
<1> SUFFICES ASSUME TypeOK, [Next]_vars PROVE TypeOK'
  OBVIOUS
<1> USE RecordFields
<1>1. CASE UNCHANGED vars
  BY <1>1 DEF TypeOK, vars, queues, window, conn
<1>2. CASE \E type \in {"hs", "app", "none"} : dtls1_read_bytes(type)
  BY <1>2 DEF TypeOK, dtls1_read_bytes, queues, window, conn
<1>3. CASE TakeBufferedAppData
  BY <1>3 DEF TypeOK, TakeBufferedAppData, IsFirst, window, conn
<1>4. CASE NeedRecord \/ ReturnInError
  BY <1>4 DEF TypeOK, NeedRecord, ReturnInError, queues, window, conn
<1>5. CASE BeginProcessBuffered
  BY <1>5 DEF TypeOK, BeginProcessBuffered, queues, window, conn
<1>6. CASE ProcessBuffered
  <2>1. PICK item \in unprocessed_rcds :
          /\ unprocessed_rcds' = unprocessed_rcds \ {item}
          /\ \/ /\ MarkReceived(item.rec)
                /\ processed_rcds' = dtls1_buffer_record(processed_rcds, item)
                /\ rbuf' = RbufAfterBuffering(processed_rcds, item.rest)
                /\ UNCHANGED <<pc, err, in_init>>
             \/ /\ pc' \in {"idle", "wire", "drain"}
                /\ err' \in {"error", "unseen", err}
                /\ in_init' \in BOOLEAN
                /\ rbuf' = item.rest
                /\ UNCHANGED <<processed_rcds, window>>
    BY <1>6 DEF ProcessBuffered, TypeOK
  <2>2. item \in Items /\ item.rec \in Records /\ item.rest \in Seq(Records) /\ item.rec.seq \in SeqNums
    BY <2>1 DEF TypeOK
  <2>3. CASE MarkReceived(item.rec) /\ processed_rcds' = dtls1_buffer_record(processed_rcds, item)
             /\ rbuf' = RbufAfterBuffering(processed_rcds, item.rest) /\ UNCHANGED <<pc, err, in_init>>
    <3>1. bitmap' \in Bitmap
      BY <2>2, <2>3, UpdateType DEF MarkReceived, TypeOK
    <3>2. processed_rcds' \subseteq Items
      BY <2>2, <2>3, BufferRecord DEF TypeOK
    <3>3. rbuf' \in Seq(Records)
      BY <2>2, <2>3 DEF RbufAfterBuffering
    <3>4. QED
      BY <1>6, <2>1, <2>2, <2>3, <3>1, <3>2, <3>3 DEF TypeOK, ProcessBuffered, MarkReceived
  <2>4. CASE ~ (MarkReceived(item.rec) /\ processed_rcds' = dtls1_buffer_record(processed_rcds, item)
             /\ rbuf' = RbufAfterBuffering(processed_rcds, item.rest) /\ UNCHANGED <<pc, err, in_init>>)
    BY <1>6, <2>1, <2>2, <2>4 DEF TypeOK, ProcessBuffered, window
  <2>5. QED
    BY <2>3, <2>4
<1>7. CASE SyncEpoch
  BY <1>7 DEF TypeOK, SyncEpoch, window, conn
<1>8. CASE TakeProcessed
  BY <1>8 DEF TypeOK, TakeProcessed, IsFirst, window, conn
<1>9. CASE WouldBlock
  BY <1>9 DEF TypeOK, WouldBlock, WireTurn, queues, window
<1>10. CASE DropRecord
  <2>1. PICK d \in Incoming : \E rest \in {Tail(d), << >>} : Dump(rest)
    BY <1>10 DEF DropRecord
  <2>2. PICK rest \in {Tail(d), << >>} : Dump(rest)
    BY <2>1
  <2>3. rest \in Seq(Records)
    BY <2>2, IncomingType, EmptySeq
  <2>4. QED
    BY <2>2, <2>3 DEF TypeOK, Dump, queues, window, conn
<1>11. CASE BufferNextEpoch
  <2>1. PICK d \in Incoming :
          /\ unprocessed_rcds' = dtls1_buffer_record(unprocessed_rcds, [rec |-> Head(d), rest |-> Tail(d)])
          /\ rbuf' = RbufAfterBuffering(unprocessed_rcds, Tail(d))
    BY <1>11 DEF BufferNextEpoch
  <2>2. Head(d) \in Records /\ Tail(d) \in Seq(Records)
    BY IncomingType
  <2>3. unprocessed_rcds' \subseteq Items
    <3>1. [rec |-> Head(d), rest |-> Tail(d)] \in Items
      BY <2>2 DEF Items
    <3>2. QED
      BY <2>1, <3>1, BufferRecord DEF TypeOK
  <2>4. rbuf' \in Seq(Records)
    BY <2>1, <2>2 DEF RbufAfterBuffering
  <2>5. QED
    BY <1>11, <2>3, <2>4 DEF TypeOK, BufferNextEpoch, window, conn
<1>12. CASE ProcessRecord
  <2>1. PICK d \in Incoming :
          /\ rbuf' = Tail(d)
          /\ \/ /\ MarkReceived(Head(d))
                /\ rrec' = Head(d) /\ pc' = "have" /\ UNCHANGED conn
             \/ /\ err' = "error" /\ in_init' = TRUE /\ pc' = "idle"
                /\ UNCHANGED <<rrec, window, change_cipher_spec, shutdown, alert_count>>
    BY <1>12 DEF ProcessRecord
  <2>2. Head(d) \in Records /\ Tail(d) \in Seq(Records) /\ Head(d).seq \in SeqNums
    BY IncomingType
  <2>3. CASE MarkReceived(Head(d)) /\ rrec' = Head(d) /\ pc' = "have" /\ UNCHANGED conn
    <3>1. bitmap' \in Bitmap
      BY <2>2, <2>3, UpdateType DEF MarkReceived, TypeOK
    <3>2. QED
      BY <1>12, <2>1, <2>2, <2>3, <3>1 DEF TypeOK, ProcessRecord, MarkReceived, queues, conn
  <2>4. CASE err' = "error" /\ in_init' = TRUE /\ pc' = "idle"
                /\ UNCHANGED <<rrec, window, change_cipher_spec, shutdown, alert_count>>
    BY <1>12, <2>1, <2>2, <2>4 DEF TypeOK, ProcessRecord, queues, window
  <2>5. QED
    BY <2>1, <2>3, <2>4
<1>13. CASE HoldAppData
  <2>1. rrec \in Records /\ rbuf \in Seq(Records)
    BY <1>13 DEF TypeOK, HoldAppData
  <2>2. buffered_app_data' \subseteq Items
    BY <1>13, <2>1, BufferRecord DEF HoldAppData, TypeOK, Items
  <2>3. rbuf' \in Seq(Records)
    BY <1>13, <2>1 DEF HoldAppData, RbufAfterBuffering
  <2>4. QED
    BY <1>13, <2>2, <2>3 DEF TypeOK, HoldAppData, CountReset, window
<1>14. CASE DiscardAfterClose
  BY <1>14 DEF TypeOK, DiscardAfterClose, CountReset, queues, window
<1>15. CASE ReadAppData \/ ReadHandshake \/ ReadFinished \/ ReadChangeCipherSpec
  <2>1. rrec \in Records /\ Key(rrec) \in Keys
    BY <1>15 DEF TypeOK, ReadAppData, ReadHandshake, ReadFinished, ReadChangeCipherSpec, Current
  <2>2. HandOver /\ CountReset
    BY <1>15 DEF ReadAppData, ReadHandshake, ReadFinished, ReadChangeCipherSpec
  <2>3. handed' \in [Keys -> Nat]
    BY <2>1, <2>2 DEF HandOver, TypeOK
  <2>4. alert_count' \in Nat
    BY <2>2 DEF CountReset, TypeOK
  <2>5. CASE ReadAppData \/ ReadHandshake \/ ReadFinished
    BY <2>2, <2>3, <2>4, <2>5 DEF TypeOK, ReadAppData, ReadHandshake, ReadFinished, HandOver, queues, window
  <2>6. CASE ReadChangeCipherSpec
    BY <2>2, <2>3, <2>4, <2>6, ZeroBitmapType
       DEF TypeOK, ReadChangeCipherSpec, ResetReadSeqNumbers, HandOver, queues
  <2>7. QED
    BY <1>15, <2>5, <2>6
<1>16. CASE DropChangeCipherSpec
  BY <1>16 DEF TypeOK, DropChangeCipherSpec, CountReset, queues, window
<1>17. CASE ReadWarningAlert
  <2>1. rrec \in Records /\ Key(rrec) \in Keys
    BY <1>17 DEF TypeOK, ReadWarningAlert, Current
  <2>2. alert_count' \in Nat
    BY <1>17, <2>1 DEF TypeOK, ReadWarningAlert
  <2> shutdown' \in {shutdown, shutdown \cup {"received"}}
    BY <1>17 DEF ReadWarningAlert
  <2>3. pc' \in {"idle", "start"} /\ err' \in {err, "error"} /\ in_init' \in {in_init, TRUE}
    BY <1>17 DEF ReadWarningAlert, Fatal
  <2>4. QED
    BY <1>17, <2>1, <2>2, <2>3 DEF TypeOK, ReadWarningAlert, queues, window
<1>18. CASE ReadFatalAlert
  BY <1>18 DEF TypeOK, ReadFatalAlert, CountReset, Fatal, queues, window
<1>19. CASE DiscardAfterShutdown
  BY <1>19 DEF TypeOK, DiscardAfterShutdown, CountReset, queues, window
<1>20. CASE LateHandshakeRecord
  <2>1. /\ pc' \in {"idle", "start"} /\ err' \in {err, "error"} /\ in_init' \in {in_init, TRUE}
        /\ rrec' \in {rrec, NoRecord} /\ want' \in {want, "hs"}
    BY <1>20 DEF LateHandshakeRecord, Fatal
  <2>2. alert_count' \in Nat
    BY <1>20 DEF TypeOK, LateHandshakeRecord, CountReset
  <2>3. QED
    BY <1>20, <2>1, <2>2 DEF TypeOK, LateHandshakeRecord, queues, window
<1>21. CASE UnexpectedAppData
  BY <1>21 DEF TypeOK, UnexpectedAppData, CountReset, Fatal, queues, window
<1>22. CASE tls_shutdown
  BY <1>22 DEF TypeOK, tls_shutdown, queues, window
<1>23. CASE tls_clear
  <2>1. handed' \in [Keys -> Nat]
    BY <1>23 DEF tls_clear
  <2>2. QED
    BY <1>23, <2>1, ZeroBitmapType, EmptySeq DEF TypeOK, tls_clear
<1>24. QED
  BY <1>1, <1>2, <1>3, <1>4, <1>5, <1>6, <1>7, <1>8, <1>9, <1>10, <1>11, <1>12, <1>13, <1>14,
     <1>15, <1>16, <1>17, <1>18, <1>19, <1>20, <1>21, <1>22, <1>23 DEF Next, Step

(***************************************************************************)
(* The window                                                              *)
(***************************************************************************)
\* A record of the read epoch that passes the replay check has not been accepted.
LEMMA PassedIsFresh ==
  ASSUME TypeOK, WindowInv, NEW r \in Records, r.epoch = r_epoch,
         dtls1_record_replay_check(bitmap, r.seq)
  PROVE  Key(r) \notin accepted
<1> DEFINE seen == {n \in SeqNums : <<r_epoch, n>> \in accepted}
<1>1. r.seq \in SeqNums /\ bitmap \in Bitmap /\ seen \in SUBSET SeqNums /\ Blocks(bitmap, seen)
  BY RecordFields DEF TypeOK, WindowInv
<1> HIDE DEF seen
<1>2. r.seq \notin seen
  BY <1>1, ReplayCheckSound
<1>3. QED
  BY <1>1, <1>2 DEF seen, Key

\* Marking a record of the read epoch keeps the window ahead of accepted.
LEMMA MarkKeepsWindow ==
  ASSUME TypeOK, WindowInv, NEW r \in Records, r.epoch = r_epoch, MarkReceived(r)
  PROVE  WindowInv'
<1> DEFINE seen == {n \in SeqNums : <<r_epoch, n>> \in accepted}
<1>1. r.seq \in SeqNums /\ bitmap \in Bitmap /\ seen \in SUBSET SeqNums /\ Blocks(bitmap, seen)
  BY RecordFields DEF TypeOK, WindowInv
<1>2. seen \cup {r.seq} = {n \in SeqNums : <<r_epoch', n>> \in accepted'}
  BY <1>1 DEF MarkReceived, Key
<1> HIDE DEF seen
<1>3. Blocks(bitmap', seen \cup {r.seq})
  BY <1>1, UpdateBlocks DEF MarkReceived
<1>4. next_bitmap' = ZeroBitmap /\ r_epoch' = r_epoch
  BY DEF MarkReceived, WindowInv
<1>5. \A k \in accepted' : k[1] <= r_epoch'
  BY RecordFields DEF MarkReceived, WindowInv, Key, TypeOK
<1>6. QED
  BY <1>2, <1>3, <1>4, <1>5 DEF WindowInv

\* The three ways a step changes the window.
LEMMA WindowChange ==
  ASSUME TypeOK, QueueInv, [Next]_vars
  PROVE  \/ UNCHANGED window
         \/ \E r \in Records : /\ r.epoch = r_epoch /\ dtls1_record_replay_check(bitmap, r.seq)
                               /\ MarkReceived(r)
         \/ ReadChangeCipherSpec
         \/ tls_clear
<1>1. CASE ProcessBuffered
  <2>1. PICK item \in unprocessed_rcds :
          \/ dtls1_record_replay_check(bitmap, item.rec.seq) /\ MarkReceived(item.rec)
          \/ UNCHANGED window
    BY <1>1 DEF ProcessBuffered, ReplayRecheck
  <2>2. item.rec \in Records /\ item.rec.epoch = r_epoch
    BY <1>1, RecordFields DEF ProcessBuffered, QueueInv, TypeOK
  <2>3. QED
    BY <2>1, <2>2
<1>2. CASE ProcessRecord
  <2>1. PICK d \in Incoming :
          \/ /\ HasBitmap(Head(d)) /\ ~ IsNextEpoch(Head(d))
             /\ dtls1_record_replay_check(BitmapOf(Head(d)), Head(d).seq)
             /\ MarkReceived(Head(d))
          \/ UNCHANGED window
    BY <1>2 DEF ProcessRecord, Passes
  <2>2. Head(d) \in Records
    BY IncomingType
  <2>3. QED
    BY <2>1, <2>2 DEF HasBitmap, BitmapOf
<1>3. QED
  BY <1>1, <1>2 DEF Next, Step, vars, dtls1_read_bytes, TakeBufferedAppData, NeedRecord, ReturnInError,
     BeginProcessBuffered, SyncEpoch, TakeProcessed, WouldBlock, DropRecord, Dump, BufferNextEpoch,
     HoldAppData, DiscardAfterClose, ReadAppData, ReadHandshake, ReadFinished, DropChangeCipherSpec,
     ReadWarningAlert, ReadFatalAlert, DiscardAfterShutdown, LateHandshakeRecord, UnexpectedAppData,
     tls_shutdown

\* The window part of ReadInv is inductive.
LEMMA WindowStep ==
  ASSUME TypeOK, WindowInv, QueueInv, [Next]_vars
  PROVE  WindowInv'
<1>1. CASE UNCHANGED window
  BY <1>1 DEF WindowInv, window
<1>2. CASE \E r \in Records : r.epoch = r_epoch /\ MarkReceived(r)
  BY <1>2, MarkKeepsWindow
<1>3. CASE ReadChangeCipherSpec
  <2>1. /\ r_epoch' = r_epoch + 1 /\ bitmap' = ZeroBitmap /\ next_bitmap' = ZeroBitmap
        /\ accepted' = accepted /\ r_epoch \in Nat
    BY <1>3 DEF ReadChangeCipherSpec, ResetReadSeqNumbers, WindowInv, TypeOK
  <2>2. \A k \in accepted : k[1] \in Nat /\ k[1] <= r_epoch
    BY RecordFields DEF TypeOK, WindowInv, Keys, Key
  <2>3. {n \in SeqNums : <<r_epoch', n>> \in accepted'} = {}
    BY <2>1, <2>2
  <2>4. \A k \in accepted' : k[1] <= r_epoch'
    BY <2>1, <2>2
  <2>5. Blocks(bitmap', {n \in SeqNums : <<r_epoch', n>> \in accepted'})
    BY <2>1, <2>3, ZeroBitmapType
  <2>6. QED
    BY <2>1, <2>4, <2>5 DEF WindowInv
<1>4. CASE tls_clear
  BY <1>4, ZeroBitmapType DEF tls_clear, WindowInv, Blocks
<1>5. QED
  BY <1>1, <1>2, <1>3, <1>4, WindowChange

(***************************************************************************)
(* One place for every accepted record                                     *)
(***************************************************************************)
\* PlaceInv is inductive.
LEMMA PlaceStep ==
  ASSUME TypeOK, WindowInv, PlaceInv, QueueInv, PhaseInv, [Next]_vars
  PROVE  PlaceInv'
<1> USE RecordFields
<1>1. CASE /\ UNCHANGED <<handed, accepted, processed_rcds, buffered_app_data>>
           /\ rrec' \in {rrec, NoRecord}
  BY <1>1 DEF PlaceInv
<1>2. CASE TakeBufferedAppData
  <2>1. PICK item \in buffered_app_data :
          /\ buffered_app_data' = buffered_app_data \ {item}
          /\ rrec' = item.rec
    BY <1>2 DEF TakeBufferedAppData
  <2>2. UNCHANGED <<handed, accepted, processed_rcds>>
    BY <1>2 DEF TakeBufferedAppData, window
  <2>3. \A i \in buffered_app_data' : Key(i.rec) # Key(rrec')
    BY <2>1 DEF PlaceInv, Key
  <2>4. QED
    BY <2>1, <2>2, <2>3 DEF PlaceInv
<1>3. CASE ProcessBuffered
  <2>1. PICK item \in unprocessed_rcds :
          \/ /\ dtls1_record_replay_check(bitmap, item.rec.seq) /\ MarkReceived(item.rec)
             /\ processed_rcds' = dtls1_buffer_record(processed_rcds, item)
          \/ UNCHANGED <<processed_rcds, window>>
    BY <1>3 DEF ProcessBuffered, ReplayRecheck
  <2>2. item.rec \in Records /\ item.rec.epoch = r_epoch /\ rrec = NoRecord
    BY <1>3 DEF ProcessBuffered, QueueInv, PhaseInv, TypeOK
  <2>3. UNCHANGED <<handed, buffered_app_data, rrec>>
    BY <1>3 DEF ProcessBuffered
  <2>4. CASE /\ dtls1_record_replay_check(bitmap, item.rec.seq) /\ MarkReceived(item.rec)
             /\ processed_rcds' = dtls1_buffer_record(processed_rcds, item)
    <3>1. Key(item.rec) \notin accepted /\ accepted' = accepted \cup {Key(item.rec)}
      BY <2>2, <2>4, PassedIsFresh DEF MarkReceived
    <3>2. /\ processed_rcds' \subseteq processed_rcds \cup {item}
          /\ \A i, j \in processed_rcds' : i.rec.seq = j.rec.seq => i = j
      BY <2>4, BufferRecord DEF PlaceInv
    <3>3. handed[Key(item.rec)] = 0
      BY <2>2, <3>1 DEF PlaceInv
    <3>4. \A j \in buffered_app_data : Key(item.rec) # Key(j.rec)
      BY <3>1 DEF PlaceInv
    <3>5. QED
      BY <2>2, <2>3, <3>1, <3>2, <3>3, <3>4 DEF PlaceInv
  <2>5. CASE UNCHANGED <<processed_rcds, window>>
    BY <2>3, <2>5 DEF PlaceInv, window
  <2>6. QED
    BY <2>1, <2>4, <2>5
<1>4. CASE TakeProcessed
  <2>1. PICK item \in processed_rcds :
          /\ processed_rcds' = processed_rcds \ {item}
          /\ rrec' = item.rec
    BY <1>4 DEF TakeProcessed
  <2>2. UNCHANGED <<handed, accepted, buffered_app_data>>
    BY <1>4 DEF TakeProcessed, window
  <2>3. \A i \in processed_rcds' : Key(i.rec) # Key(rrec')
    BY <2>1 DEF PlaceInv, Key
  <2>4. QED
    BY <2>1, <2>2, <2>3 DEF PlaceInv
<1>5. CASE ProcessRecord
  <2>1. PICK d \in Incoming :
          \/ /\ HasBitmap(Head(d)) /\ ~ IsNextEpoch(Head(d))
             /\ dtls1_record_replay_check(BitmapOf(Head(d)), Head(d).seq)
             /\ MarkReceived(Head(d)) /\ rrec' = Head(d)
          \/ UNCHANGED <<window, rrec>>
    BY <1>5 DEF ProcessRecord, Passes
  <2>2. UNCHANGED <<handed, processed_rcds, buffered_app_data>>
    BY <1>5 DEF ProcessRecord, queues
  <2>3. CASE UNCHANGED <<window, rrec>>
    BY <2>2, <2>3 DEF PlaceInv, window
  <2>4. CASE /\ HasBitmap(Head(d)) /\ ~ IsNextEpoch(Head(d))
             /\ dtls1_record_replay_check(BitmapOf(Head(d)), Head(d).seq)
             /\ MarkReceived(Head(d)) /\ rrec' = Head(d)
    <3>1. Head(d) \in Records /\ Head(d).epoch = r_epoch /\ dtls1_record_replay_check(bitmap, Head(d).seq)
      BY <2>4, IncomingType DEF HasBitmap, BitmapOf
    <3>2. Key(Head(d)) \notin accepted /\ accepted' = accepted \cup {Key(Head(d))}
      BY <2>4, <3>1, PassedIsFresh DEF MarkReceived
    <3>3. handed[Key(Head(d))] = 0
      BY <3>1, <3>2 DEF PlaceInv
    <3>4. \A i \in processed_rcds \cup buffered_app_data : Key(i.rec) # Key(Head(d))
      BY <3>2 DEF PlaceInv
    <3>5. QED
      BY <2>2, <2>4, <3>2, <3>3, <3>4 DEF PlaceInv
  <2>5. QED
    BY <2>1, <2>3, <2>4
<1>6. CASE HoldAppData
  <2> DEFINE item == [rec |-> rrec, rest |-> rbuf]
  <2>1. /\ buffered_app_data' = dtls1_buffer_record(buffered_app_data, item)
        /\ rrec' = NoRecord /\ rrec # NoRecord /\ UNCHANGED <<handed, accepted, processed_rcds>>
    BY <1>6 DEF HoldAppData, TypeOK, window
  <2>2. item.rec = rrec
    OBVIOUS
  <2> HIDE DEF item
  <2>3. /\ buffered_app_data' \subseteq buffered_app_data \cup {item}
        /\ \A i, j \in buffered_app_data' : i.rec.seq = j.rec.seq => i = j
    BY <2>1, BufferRecord DEF PlaceInv
  <2>4. QED
    BY <2>1, <2>2, <2>3 DEF PlaceInv
<1>7. CASE ReadAppData \/ ReadHandshake \/ ReadFinished \/ ReadChangeCipherSpec
  <2>1. rrec \in Records /\ Key(rrec) \in Keys
    BY <1>7 DEF TypeOK, ReadAppData, ReadHandshake, ReadFinished, ReadChangeCipherSpec, Current
  <2>2. HandOver /\ accepted' = accepted
    BY <1>7 DEF ReadAppData, ReadHandshake, ReadFinished, ReadChangeCipherSpec, ResetReadSeqNumbers, window
  <2>3. /\ rrec' = NoRecord /\ processed_rcds' = processed_rcds /\ buffered_app_data' = buffered_app_data
        /\ handed' = [handed EXCEPT ![Key(rrec)] = handed[Key(rrec)] + 1]
    BY <2>2 DEF HandOver, queues
  <2>4. handed[Key(rrec)] = 0 /\ Key(rrec) \in accepted
    BY <2>1 DEF PlaceInv
  <2>5. \A k \in Keys : handed'[k] = IF k = Key(rrec) THEN 1 ELSE handed[k]
    BY <2>1, <2>3, <2>4 DEF TypeOK
  <2>6. \A k \in Keys : handed'[k] = 0 \/ (handed'[k] = 1 /\ k \in accepted)
    BY <2>4, <2>5 DEF PlaceInv
  <2>7. \A i \in processed_rcds \cup buffered_app_data : Key(i.rec) \in Keys /\ Key(i.rec) # Key(rrec)
    BY <2>1 DEF PlaceInv, TypeOK
  <2>8. \A i \in processed_rcds \cup buffered_app_data : handed'[Key(i.rec)] = 0
    BY <2>5, <2>7 DEF PlaceInv
  <2>9. QED
    BY <2>2, <2>3, <2>6, <2>8 DEF PlaceInv
<1>8. CASE tls_clear
  <2>1. \A k \in Keys : handed'[k] = 0
    BY <1>8 DEF tls_clear
  <2>2. QED
    BY <1>8, <2>1 DEF tls_clear, PlaceInv
<1>9. QED
  BY <1>1, <1>2, <1>3, <1>4, <1>5, <1>6, <1>7, <1>8 DEF Next, Step, vars, dtls1_read_bytes, NeedRecord,
     ReturnInError,
     BeginProcessBuffered, SyncEpoch, WouldBlock, DropRecord, Dump, BufferNextEpoch,
     DiscardAfterClose, DropChangeCipherSpec, ReadWarningAlert, ReadFatalAlert, DiscardAfterShutdown,
     LateHandshakeRecord, UnexpectedAppData, tls_shutdown, queues, window

(***************************************************************************)
(* What the queues hold, and the phases of the handshake                   *)
(***************************************************************************)
\* PhaseInv is inductive.
LEMMA PhaseStep ==
  ASSUME TypeOK, PhaseInv, [Next]_vars
  PROVE  PhaseInv'
<1> USE DEF PhaseInv
<1>1. CASE UNCHANGED vars
  BY <1>1 DEF vars, window, conn
<1>2. CASE \E type \in {"hs", "app", "none"} : dtls1_read_bytes(type)
  BY <1>2 DEF dtls1_read_bytes, window, conn
<1>3. CASE \/ TakeBufferedAppData \/ NeedRecord \/ ReturnInError \/ BeginProcessBuffered \/ SyncEpoch
           \/ TakeProcessed
  BY <1>3 DEF TakeBufferedAppData, NeedRecord, ReturnInError, BeginProcessBuffered, SyncEpoch,
     TakeProcessed, window, conn
<1>4. CASE ProcessBuffered
  <2>1. /\ pc = "drain" /\ pc' \in {"drain", "wire", "idle"}
        /\ r_epoch' = r_epoch /\ UNCHANGED <<want, rrec, change_cipher_spec>>
    BY <1>4 DEF ProcessBuffered, MarkReceived, window
  <2>2. in_init => in_init'
    BY <1>4, Zenon DEF ProcessBuffered
  <2>3. QED
    BY <2>1, <2>2 DEF TypeOK
<1>5. CASE WouldBlock \/ DropRecord \/ BufferNextEpoch
  BY <1>5 DEF WouldBlock, DropRecord, Dump, BufferNextEpoch, WireTurn, window, conn
<1>6. CASE ProcessRecord
  <2>1. /\ pc = "wire" /\ pc' \in {"have", "idle"} /\ (in_init => in_init')
        /\ r_epoch' = r_epoch /\ UNCHANGED <<want, change_cipher_spec>>
    BY <1>6 DEF ProcessRecord, WireTurn, MarkReceived, window, conn
  <2>2. QED
    BY <2>1 DEF TypeOK
<1>7. CASE HoldAppData \/ DiscardAfterClose \/ DropChangeCipherSpec \/ DiscardAfterShutdown
  BY <1>7 DEF HoldAppData, DiscardAfterClose, DropChangeCipherSpec, DiscardAfterShutdown, Current, window
<1>8. CASE ReadAppData \/ ReadHandshake \/ ReadFinished
  BY <1>8 DEF ReadAppData, ReadHandshake, ReadFinished, HandOver, Current, window, TypeOK
<1>9. CASE ReadChangeCipherSpec
  BY <1>9 DEF ReadChangeCipherSpec, ResetReadSeqNumbers, HandOver, Current, TypeOK
<1>10. CASE ReadWarningAlert
  <2>1. pc' \in {"idle", "start"} /\ (in_init => in_init') /\ pc = "have"
    BY <1>10 DEF ReadWarningAlert, Fatal, Current
  <2>2. r_epoch' = r_epoch /\ UNCHANGED <<want, rrec, change_cipher_spec>>
    BY <1>10 DEF ReadWarningAlert, window
  <2>3. QED
    BY <2>1, <2>2 DEF TypeOK
<1>11. CASE ReadFatalAlert \/ UnexpectedAppData
  BY <1>11 DEF ReadFatalAlert, UnexpectedAppData, Fatal, window
<1>12. CASE LateHandshakeRecord
  BY <1>12 DEF LateHandshakeRecord, Fatal, Current, window
<1>13. CASE tls_shutdown \/ tls_clear
  BY <1>13 DEF tls_shutdown, tls_clear, window
<1>14. QED
  BY <1>1, <1>2, <1>3, <1>4, <1>5, <1>6, <1>7, <1>8, <1>9, <1>10, <1>11, <1>12, <1>13 DEF Next, Step

\* QueueInv is inductive.
LEMMA QueueStep ==
  ASSUME TypeOK, PhaseInv, QueueInv, [Next]_vars
  PROVE  QueueInv'
<1> USE RecordFields
<1>1. CASE /\ UNCHANGED <<r_epoch, unprocessed_rcds, unprocessed_epoch, processed_rcds, buffered_app_data>>
           /\ pc' = "drain" => unprocessed_epoch = r_epoch
           /\ rrec' = NoRecord
  BY <1>1 DEF QueueInv, Handshake
<1>2. CASE UNCHANGED vars
  BY <1>2 DEF QueueInv, vars, queues, window
<1>3. CASE (\E type \in {"hs", "app", "none"} : dtls1_read_bytes(type)) \/ tls_shutdown
  BY <1>3 DEF QueueInv, dtls1_read_bytes, tls_shutdown, queues, window
<1>4. CASE TakeBufferedAppData
  BY <1>4 DEF TakeBufferedAppData, QueueInv, PhaseInv, TypeOK, window, conn
<1>5. CASE NeedRecord \/ ReturnInError \/ BeginProcessBuffered
  BY <1>5 DEF NeedRecord, ReturnInError, BeginProcessBuffered, QueueInv, queues, window
<1>6. CASE ProcessBuffered
  <2>1. PICK item \in unprocessed_rcds :
          /\ unprocessed_rcds' = unprocessed_rcds \ {item}
          /\ \/ processed_rcds' = dtls1_buffer_record(processed_rcds, item)
             \/ processed_rcds' = processed_rcds
    BY <1>6 DEF ProcessBuffered
  <2>2. /\ pc = "drain" /\ rrec = NoRecord /\ rrec' = NoRecord
        /\ r_epoch' = r_epoch /\ UNCHANGED <<want, unprocessed_epoch, buffered_app_data>>
    BY <1>6 DEF ProcessBuffered, PhaseInv, MarkReceived, window
  <2>3. processed_rcds' \subseteq processed_rcds \cup {item}
    BY <2>1, BufferRecord
  <2>4. item.rec.epoch = r_epoch /\ item.rec.type \in Handshake \cup Alert
    BY <2>1, <2>2 DEF QueueInv, TypeOK
  <2>5. QED
    BY <2>1, <2>2, <2>3, <2>4 DEF QueueInv, TypeOK, Handshake
<1>7. CASE SyncEpoch
  BY <1>7 DEF SyncEpoch, QueueInv, TypeOK, window
<1>8. CASE TakeProcessed
  <2>1. PICK item \in processed_rcds : processed_rcds' = processed_rcds \ {item} /\ rrec' = item.rec
    BY <1>8 DEF TakeProcessed
  <2>2. item.rec.epoch = r_epoch /\ item.rec.type \in Handshake \cup Alert /\ r_epoch \in Nat
    BY <2>1 DEF QueueInv, TypeOK
  <2>3. rrec'.type # "ccs"
    BY <2>1, <2>2 DEF Handshake, Alert
  <2>4. QED
    BY <1>8, <2>1, <2>2, <2>3 DEF TakeProcessed, QueueInv, window
<1>9. CASE WouldBlock \/ DropRecord
  BY <1>1, <1>9 DEF WouldBlock, DropRecord, Dump, PhaseInv, WireTurn, queues, window
<1>10. CASE BufferNextEpoch
  <2>1. PICK d \in Incoming :
          /\ IsNextEpoch(Head(d))
          /\ unprocessed_rcds' = dtls1_buffer_record(unprocessed_rcds, [rec |-> Head(d), rest |-> Tail(d)])
    BY <1>10 DEF BufferNextEpoch
  <2> DEFINE item == [rec |-> Head(d), rest |-> Tail(d)]
  <2>2. unprocessed_rcds' \subseteq unprocessed_rcds \cup {item} /\ item.rec = Head(d)
    BY <2>1, BufferRecord
  <2>3. /\ item.rec.epoch = r_epoch + 1 /\ unprocessed_epoch # r_epoch
        /\ item.rec.type \in Handshake \cup Alert
    BY <2>1, <2>2 DEF IsNextEpoch
  <2> HIDE DEF item
  <2>4. unprocessed_epoch >= r_epoch => \A i \in unprocessed_rcds' : i.rec.epoch = unprocessed_epoch
    BY <2>2, <2>3 DEF QueueInv, TypeOK
  <2>5. /\ pc' = "again" /\ rrec' = NoRecord
        /\ UNCHANGED <<r_epoch, unprocessed_epoch, processed_rcds, buffered_app_data>>
    BY <1>10 DEF BufferNextEpoch, window
  <2>6. QED
    BY <2>2, <2>3, <2>4, <2>5 DEF QueueInv, Handshake
<1>11. CASE ProcessRecord
  <2>1. PICK d \in Incoming :
          \/ HasBitmap(Head(d)) /\ ~ IsNextEpoch(Head(d)) /\ rrec' = Head(d) /\ pc' = "have" /\ MarkReceived(Head(d))
          \/ rrec' = rrec /\ pc' = "idle" /\ UNCHANGED window
    BY <1>11 DEF ProcessRecord, Passes
  <2>2. Head(d) \in Records /\ processed_rcds = {} /\ rrec = NoRecord /\ UNCHANGED <<want, queues, r_epoch>>
    BY <1>11, <2>1, IncomingType DEF ProcessRecord, WireTurn, PhaseInv, MarkReceived, window
  <2>3. QED
    BY <2>1, <2>2 DEF QueueInv, HasBitmap, TypeOK, queues, Handshake
<1>12. CASE HoldAppData
  <2> DEFINE item == [rec |-> rrec, rest |-> rbuf]
  <2>1. buffered_app_data' \subseteq buffered_app_data \cup {item} /\ item.rec = rrec
    BY <1>12, BufferRecord DEF HoldAppData
  <2>2. rrec # NoRecord /\ rrec.type \notin Handshake /\ r_epoch > 0
    BY <1>12 DEF HoldAppData, Holds, TypeOK, PhaseInv
  <2>3. item.rec.epoch > 0
    BY <2>1, <2>2 DEF QueueInv
  <2> HIDE DEF item
  <2>4. QED
    BY <1>12, <2>1, <2>2, <2>3 DEF HoldAppData, QueueInv, window, Handshake
<1>13. CASE DiscardAfterClose \/ DropChangeCipherSpec \/ DiscardAfterShutdown
  BY <1>1, <1>13 DEF DiscardAfterClose, DropChangeCipherSpec, DiscardAfterShutdown, queues, window
<1>14. CASE ReadAppData \/ ReadHandshake \/ ReadFinished
  BY <1>1, <1>14 DEF ReadAppData, ReadHandshake, ReadFinished, HandOver, queues, window
<1>15. CASE ReadChangeCipherSpec
  <2>1. /\ r_epoch' = r_epoch + 1 /\ rrec' = NoRecord /\ pc' = "idle" /\ processed_rcds = {}
        /\ UNCHANGED <<unprocessed_rcds, unprocessed_epoch, processed_rcds, buffered_app_data>>
    BY <1>15 DEF ReadChangeCipherSpec, ResetReadSeqNumbers, HandOver, Current, QueueInv, queues
  <2>2. QED
    BY <2>1 DEF QueueInv, TypeOK, Handshake
<1>16. CASE ReadWarningAlert
  <2>1. /\ rrec.type # "ccs" /\ pc' # "drain" /\ UNCHANGED <<rrec, want, r_epoch, queues>>
    BY <1>16 DEF ReadWarningAlert, Current, Fatal, window
  <2>2. QED
    BY <2>1 DEF QueueInv, queues
<1>17. CASE ReadFatalAlert \/ UnexpectedAppData
  <2>1. /\ rrec.type # "ccs" /\ pc' # "drain" /\ UNCHANGED <<rrec, want, r_epoch, queues>>
    BY <1>17 DEF ReadFatalAlert, UnexpectedAppData, Current, Fatal, window
  <2>2. QED
    BY <2>1 DEF QueueInv, queues
<1>18. CASE LateHandshakeRecord
  <2>1. rrec.type # "ccs" /\ pc' # "drain" /\ rrec' \in {rrec, NoRecord} /\ UNCHANGED <<r_epoch, queues>>
    BY <1>18 DEF LateHandshakeRecord, Current, Fatal, window, Handshake
  <2>2. QED
    BY <2>1 DEF QueueInv, queues, Handshake
<1>19. CASE tls_clear
  BY <1>19 DEF tls_clear, QueueInv, Handshake
<1>20. QED
  BY <1>2, <1>3, <1>4, <1>5, <1>6, <1>7, <1>8, <1>9, <1>10, <1>11, <1>12, <1>13, <1>14,
     <1>15, <1>16, <1>17, <1>18, <1>19 DEF Next, Step

(***************************************************************************)
(* The theorems                                                            *)
(***************************************************************************)
\* Init establishes ReadInv.
LEMMA InitInv == Init => ReadInv
<1> SUFFICES ASSUME Init PROVE ReadInv
  OBVIOUS
<1> USE RecordFields, ZeroBitmapType, EmptySeq DEF Init
<1>1. TypeOK
  BY DEF TypeOK
<1>2. WindowInv
  BY DEF WindowInv, Blocks
<1>3. PlaceInv
  BY DEF PlaceInv
<1>4. QueueInv /\ PhaseInv
  BY DEF QueueInv, PhaseInv, Handshake
<1>5. QED
  BY <1>1, <1>2, <1>3, <1>4 DEF ReadInv

\* ReadInv holds of every reachable state of the record reader.
THEOREM ReadInvariant == Spec => []ReadInv
<1>1. ReadInv /\ [Next]_vars => ReadInv'
  BY TypeStep, WindowStep, PlaceStep, QueueStep, PhaseStep DEF ReadInv
<1>2. QED
  BY InitInv, <1>1, PTL DEF Spec

\* The state of the reader is always well formed (TypeOK).
THEOREM TypeCorrect == Spec => []TypeOK
  BY ReadInvariant, PTL DEF ReadInv

\* dtls1_read_bytes hands no record over twice (NoReplay).
THEOREM ReplayProtection == Spec => []NoReplay
<1>1. ReadInv => NoReplay
  BY DEF ReadInv, PlaceInv, NoReplay
<1>2. QED
  BY <1>1, ReadInvariant, PTL

\* The branch "Should not happen" of dtls1_process_buffered_records is dead code
\* (BufferedHaveBitmap).
THEOREM ShouldNotHappen == Spec => []BufferedHaveBitmap
<1>1. ReadInv => BufferedHaveBitmap
  BY DEF ReadInv, QueueInv, TypeOK, BufferedHaveBitmap
<1>2. QED
  BY <1>1, ReadInvariant, PTL

\* The state machine gets handshake records of the read epoch only (HandshakeInEpoch).
THEOREM HandshakeEpoch == Spec => []HandshakeInEpoch
<1>1. ReadInv => HandshakeInEpoch
  BY DEF ReadInv, QueueInv, HandshakeInEpoch
<1>2. QED
  BY <1>1, ReadInvariant, PTL

\* Application data that reaches the caller is protected and authenticated
\* (AppDataAuthenticated).
THEOREM AppDataProtected == Spec => AppDataAuthenticated
<1> DEFINE A == \A k \in Keys : handed'[k] > handed[k] /\ rrec.type = "app"
                   => rrec.epoch > 0 /\ ~ change_cipher_spec
<1>1. ReadInv /\ [Next]_vars => [A]_vars
  <2> SUFFICES ASSUME ReadInv, Next, NEW k \in Keys, handed'[k] > handed[k], rrec.type = "app"
               PROVE  rrec.epoch > 0 /\ ~ change_cipher_spec
    BY DEF A
  <2>1. handed[k] \in Nat
    BY DEF ReadInv, TypeOK
  <2>2. ~ (handed' = handed) /\ ~ (handed' = [j \in Keys |-> 0])
    BY <2>1
  <2>3. ReadAppData \/ ReadHandshake \/ ReadFinished \/ ReadChangeCipherSpec
    BY <2>2 DEF Next, Step, dtls1_read_bytes, TakeBufferedAppData, NeedRecord, ReturnInError, BeginProcessBuffered,
       ProcessBuffered, SyncEpoch, TakeProcessed, WouldBlock, DropRecord, Dump, BufferNextEpoch,
       ProcessRecord, HoldAppData, DiscardAfterClose, DropChangeCipherSpec, ReadWarningAlert,
       ReadFatalAlert, DiscardAfterShutdown, LateHandshakeRecord, UnexpectedAppData, tls_shutdown, tls_clear
  <2>4. ReadAppData
    BY <2>3 DEF ReadHandshake, ReadFinished, ReadChangeCipherSpec, Current, Handshake
  <2>5. r_epoch > 0 /\ ~ change_cipher_spec /\ rrec # NoRecord
    BY <2>4 DEF ReadAppData, Current, Holds, Handshake, ReadInv, PhaseInv, TypeOK
  <2>6. QED
    BY <2>5 DEF ReadInv, QueueInv
<1>2. QED
  BY <1>1, ReadInvariant, PTL DEF Spec, AppDataAuthenticated, A

(***************************************************************************)
(* The limit of the queues                                                 *)
(***************************************************************************)
\* A queue within the limit, with one record per sequence number.
Bounded(q) == /\ IsFiniteSet(q) /\ Cardinality(q) <= QueueLimit
              /\ \A i, j \in q : i.rec.seq = j.rec.seq => i = j

\* dtls1_buffer_record and the removal of a record keep a queue within its limit.
LEMMA BoundedQueue ==
  /\ Bounded({})
  /\ \A q, x : Bounded(q) => Bounded(q \ {x}) /\ Bounded(dtls1_buffer_record(q, x))
<1>1. Bounded({})
  BY FS_EmptySet, ReadAssumption DEF Bounded
<1>2. ASSUME NEW q, NEW x, Bounded(q) PROVE Bounded(q \ {x})
  <2>1. IsFiniteSet(q) /\ Cardinality(q) \in Nat /\ QueueLimit \in Nat
    BY <1>2, FS_CardinalityType, ReadAssumption DEF Bounded
  <2>2. /\ IsFiniteSet(q \ {x})
        /\ Cardinality(q \ {x}) = IF x \in q THEN Cardinality(q) - 1 ELSE Cardinality(q)
    BY <2>1, FS_RemoveElement
  <2>3. QED
    BY <1>2, <2>1, <2>2 DEF Bounded
<1>3. ASSUME NEW q, NEW x, Bounded(q) PROVE Bounded(dtls1_buffer_record(q, x))
  <2>1. IsFiniteSet(q) /\ Cardinality(q) \in Nat /\ QueueLimit \in Nat
    BY <1>3, FS_CardinalityType, ReadAssumption DEF Bounded
  <2>2. CASE dtls1_buffer_record(q, x) = q
    BY <1>3, <2>2
  <2>3. CASE Room(q) /\ dtls1_buffer_record(q, x) = q \cup {x}
    <3>1. IsFiniteSet(q \cup {x}) /\ Cardinality(q \cup {x}) <= QueueLimit
      BY <2>1, <2>3, FS_AddElement DEF Room
    <3>2. \A i, j \in dtls1_buffer_record(q, x) : i.rec.seq = j.rec.seq => i = j
      BY <1>3, BufferRecord DEF Bounded
    <3>3. QED
      BY <2>3, <3>1, <3>2 DEF Bounded
  <2>4. QED
    BY <2>2, <2>3 DEF dtls1_buffer_record, pqueue_insert
<1>4. QED
  BY <1>1, <1>2, <1>3

\* Each step adds to a queue only with dtls1_buffer_record.
LEMMA QueueChange ==
  ASSUME [Next]_vars
  PROVE  /\ \/ unprocessed_rcds' \in {unprocessed_rcds, {}}
            \/ \E x : unprocessed_rcds' \in {unprocessed_rcds \ {x}, dtls1_buffer_record(unprocessed_rcds, x)}
         /\ \/ processed_rcds' \in {processed_rcds, {}}
            \/ \E x : processed_rcds' \in {processed_rcds \ {x}, dtls1_buffer_record(processed_rcds, x)}
         /\ \/ buffered_app_data' \in {buffered_app_data, {}}
            \/ \E x : buffered_app_data' \in {buffered_app_data \ {x}, dtls1_buffer_record(buffered_app_data, x)}
<1>1. CASE UNCHANGED queues
  BY <1>1 DEF queues
<1>2. CASE TakeBufferedAppData \/ HoldAppData
  BY <1>2 DEF TakeBufferedAppData, HoldAppData
<1>3. CASE ProcessBuffered
  BY <1>3 DEF ProcessBuffered
<1>4. CASE SyncEpoch \/ TakeProcessed \/ BufferNextEpoch
  BY <1>4 DEF SyncEpoch, TakeProcessed, BufferNextEpoch
<1>5. CASE tls_clear
  BY <1>5 DEF tls_clear
<1>6. QED
  BY <1>1, <1>2, <1>3, <1>4, <1>5 DEF Next, Step, vars, dtls1_read_bytes, NeedRecord, ReturnInError, BeginProcessBuffered,
     WouldBlock, DropRecord, Dump, ProcessRecord, DiscardAfterClose, ReadAppData, ReadHandshake,
     ReadFinished, ReadChangeCipherSpec, HandOver, DropChangeCipherSpec, ReadWarningAlert,
     ReadFatalAlert, DiscardAfterShutdown, LateHandshakeRecord, UnexpectedAppData, tls_shutdown

\* The record queues never outgrow the limit of dtls1_buffer_record (QueuesBounded).
THEOREM QueueLimits == Spec => []QueuesBounded
<1> DEFINE B == Bounded(unprocessed_rcds) /\ Bounded(processed_rcds) /\ Bounded(buffered_app_data)
<1>1. Init => B
  BY BoundedQueue DEF Init
<1>2. B /\ [Next]_vars => B'
  <2> SUFFICES ASSUME B, [Next]_vars PROVE B'
    OBVIOUS
  <2>1. Bounded(unprocessed_rcds')
    <3>1. \/ unprocessed_rcds' = unprocessed_rcds \/ unprocessed_rcds' = {}
          \/ \E x : \/ unprocessed_rcds' = unprocessed_rcds \ {x}
                   \/ unprocessed_rcds' = dtls1_buffer_record(unprocessed_rcds, x)
      BY QueueChange
    <3>2. QED
      BY <3>1, BoundedQueue
  <2>2. Bounded(processed_rcds')
    <3>1. \/ processed_rcds' = processed_rcds \/ processed_rcds' = {}
          \/ \E x : \/ processed_rcds' = processed_rcds \ {x}
                   \/ processed_rcds' = dtls1_buffer_record(processed_rcds, x)
      BY QueueChange
    <3>2. QED
      BY <3>1, BoundedQueue
  <2>3. Bounded(buffered_app_data')
    <3>1. \/ buffered_app_data' = buffered_app_data \/ buffered_app_data' = {}
          \/ \E x : \/ buffered_app_data' = buffered_app_data \ {x}
                   \/ buffered_app_data' = dtls1_buffer_record(buffered_app_data, x)
      BY QueueChange
    <3>2. QED
      BY <3>1, BoundedQueue
  <2>4. QED
    BY <2>1, <2>2, <2>3 DEF Bounded
<1>3. B => QueuesBounded
  BY DEF Bounded, QueuesBounded
<1>4. QED
  BY <1>1, <1>2, <1>3, PTL DEF Spec
=============================================================================
