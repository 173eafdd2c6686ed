---------------------------- MODULE DtlsReassembly ----------------------------
(***************************************************************************)
(* How a DTLS connection puts the peer's handshake messages together again *)
(* (statem_dtls.c: dtls_get_message and what it calls): fragments that     *)
(* come late, twice or out of order, the queue buffered_messages, and the  *)
(* message numbers, which start again with every handshake.                *)
(*                                                                         *)
(* A handshake of the peer is a fixed sequence of messages, the last one   *)
(* its Finished, which follows its ChangeCipherSpec in a new epoch.  What  *)
(* reaches this code is what the record layer lets through: messages of    *)
(* the read epoch, which may be those of the last handshake's Finished.    *)
(***************************************************************************)
EXTENDS Integers, Sequences, FiniteSets

CONSTANTS
  MsgLens,         \* the lengths of the peer's messages, Finished being the last
  ByteBits,        \* 8: the bits in a byte of the reassembly bitmask
  MaxAhead,        \* 10: how far ahead a message is buffered
  MaxMsgLen,       \* dtls1_max_handshake_message_len
  EmptyFragments,  \* does the peer send empty fragments of messages that are not empty?
  HelloRequests,   \* does the peer, a server, send HelloRequest?
  BadFragments,    \* fragments of a peer that does not keep to the protocol
  MaxHandshakes    \* bound: the number of handshakes

\* hm_header_st: the header of a fragment; old marks a message of the last handshake.
Headers == [old : BOOLEAN, seq : Nat, type : {"hello_request", "other", "finished"},
            msg_len : Nat, frag_off : Nat, frag_len : Nat]

ASSUME ReassemblyAssumption ==
  /\ MsgLens \in Seq(Nat) /\ MsgLens # << >>
  /\ ByteBits \in Nat \ {0} /\ MaxAhead \in Nat /\ MaxMsgLen \in Nat
  /\ EmptyFragments \in BOOLEAN /\ HelloRequests \in BOOLEAN
  /\ BadFragments \subseteq Headers /\ MaxHandshakes \in Nat

VARIABLES
  handshake_read_seq,
  buffered_messages,   \* from message numbers to hm_fragments
  in_handshake,        \* the state machine reads; its hand_state is not TLS_ST_OK
  change_cipher_spec,  \* the peer's ChangeCipherSpec has been processed
  error,               \* MSG_FLOW_ERROR
  count,               \* history: how many handshakes are over
  hello_request,       \* history: the peer began this handshake with a HelloRequest
  message              \* history: the last message handed to the state machine

vars == <<handshake_read_seq, buffered_messages, in_handshake, change_cipher_spec, error,
          count, hello_request, message>>
peer == <<count, hello_request>>

NoMessage == [seq |-> -1]

\* dtls1_clear_received_buffer
NoMessages == [s \in {} |-> NoMessage]

(***************************************************************************)
(* What the peer sends                                                     *)
(***************************************************************************)
\* The message numbers of this handshake.
First == IF hello_request THEN 1 ELSE 0
Last  == First + Len(MsgLens) - 1

TypeOf(seq) == IF seq < First THEN "hello_request" ELSE IF seq = Last THEN "finished" ELSE "other"
LenOf(seq)  == IF seq < First THEN 0 ELSE MsgLens[seq - First + 1]

Fragment(old, seq, type, msg_len, off, len) ==
  [old |-> old, seq |-> seq, type |-> type, msg_len |-> msg_len, frag_off |-> off, frag_len |-> len]

\* The ways to cut a message up.
Cuts(n) == {c \in (0..n) \X (0..n) : c[1] + c[2] <= n /\ (c[2] > 0 \/ n = 0 \/ EmptyFragments)}

PartsOf(seq) == {Fragment(FALSE, seq, TypeOf(seq), LenOf(seq), c[1], c[2]) : c \in Cuts(LenOf(seq))}

\* The Finished of the last handshake.
OldFinished == Fragment(TRUE, Len(MsgLens) - 1, "finished", MsgLens[Len(MsgLens)], 0,
                        MsgLens[Len(MsgLens)])

\* The messages of the read epoch.
Sent == {n \in 0..Last : TypeOf(n) = "finished" <=> change_cipher_spec}

\* dtls1_read_bytes returns a fragment of the read epoch: before ChangeCipherSpec the
\* messages before Finished, and the Finished of the last handshake, if it comes again.
Arriving ==
  (UNION {PartsOf(seq) : seq \in Sent})
  \cup (IF count > 0 /\ ~ change_cipher_spec THEN {OldFinished} ELSE {})
  \cup BadFragments

Init ==
  /\ handshake_read_seq = 0 /\ buffered_messages = NoMessages
  /\ in_handshake = TRUE /\ change_cipher_spec = FALSE /\ error = FALSE
  /\ count = 0 /\ hello_request = FALSE /\ message = NoMessage

(***************************************************************************)
(* The reassembly bitmask                                                  *)
(***************************************************************************)
ByteOf(i) == i \div ByteBits

\* bitmask_start_values and bitmask_end_values, as sets of bits.
StartValue(k) == k .. ByteBits - 1
EndValue(k)   == IF k = 0 THEN 0 .. ByteBits - 1 ELSE 0 .. k - 1

EmptyMask(n) == [b \in 0 .. ByteOf(n + ByteBits - 1) - 1 |-> {}]

\* Mutant: the last byte is filled up.
MarkWholeBytes(mask, start, end) ==
  [b \in DOMAIN mask |-> IF b \in ByteOf(start) .. ByteOf(end - 1) THEN 0 .. ByteBits - 1 ELSE mask[b]]

\* RSMBLY_BITMASK_MARK
RSMBLY_BITMASK_MARK(mask, start, end) ==
  [b \in DOMAIN mask |->
     IF end - start <= ByteBits
     THEN mask[b] \cup {i % ByteBits : i \in {j \in start .. end - 1 : ByteOf(j) = b}}
     ELSE IF b > ByteOf(start) /\ b < ByteOf(end - 1) THEN 0 .. ByteBits - 1
     ELSE mask[b] \cup (IF b = ByteOf(start) THEN StartValue(start % ByteBits) ELSE {})
                  \cup (IF b = ByteOf(end - 1) THEN EndValue(end % ByteBits) ELSE {})]

\* Mutant: the last byte is not looked at.
CompleteButLast(mask, n) == \A b \in 0 .. ByteOf(n - 1) - 1 : mask[b] = 0 .. ByteBits - 1

\* RSMBLY_BITMASK_IS_COMPLETE
RSMBLY_BITMASK_IS_COMPLETE(mask, n) ==
  /\ mask[ByteOf(n - 1)] = EndValue(n % ByteBits)
  /\ \A b \in 0 .. ByteOf(n - 1) - 1 : mask[b] = 0 .. ByteBits - 1

(***************************************************************************)
(* The queue                                                               *)
(***************************************************************************)
\* An hm_fragment.  It is under reassembly until reassembly is NULL (complete); filled
\* are the bytes that a fragment was read into.
Frag(f, complete, mask, filled) ==
  [seq |-> f.seq, old |-> f.old, type |-> f.type, msg_len |-> f.msg_len,
   complete |-> complete, reassembly |-> mask, filled |-> filled]

Put(q, seq, frag) == [s \in DOMAIN q \cup {seq} |-> IF s = seq THEN frag ELSE q[s]]

\* Mutant: stale messages stay.
KeepStale(q) == q

\* dtls1_retrieve_buffered_fragment first drops what is stale.
WithoutStale(q) == [s \in {n \in DOMAIN q : n >= handshake_read_seq} |-> q[s]]

\* The head of the queue is the next message, and complete.
IsNextBuffered(q) == /\ handshake_read_seq \in DOMAIN q
                     /\ \A s \in DOMAIN q : handshake_read_seq <= s
                     /\ q[handshake_read_seq].complete

(***************************************************************************)
(* Handing a message over                                                  *)
(***************************************************************************)
\* The rest of dtls_get_message and the read transition of the state machine: a message
\* in order is processed, any other is a fatal error.  The peer's Finished ends the
\* handshake: tls_finish_handshake starts the message numbers again and clears the queue.
HandOver(frag, q) ==
  /\ message' = frag
  /\ IF frag.type = "finished" /\ ~ (change_cipher_spec /\ ~ frag.old)
     THEN /\ error' = TRUE /\ handshake_read_seq' = handshake_read_seq + 1
          /\ buffered_messages' = q
          /\ UNCHANGED <<in_handshake, change_cipher_spec, peer>>
     ELSE IF frag.type = "finished"
     THEN /\ handshake_read_seq' = 0 /\ buffered_messages' = NoMessages
          /\ in_handshake' = FALSE /\ change_cipher_spec' = FALSE
          /\ count' = count + 1 /\ hello_request' \in {FALSE, HelloRequests}
          /\ UNCHANGED error
     ELSE /\ handshake_read_seq' = handshake_read_seq + 1
          /\ buffered_messages' = q /\ in_handshake' = TRUE
          /\ UNCHANGED <<change_cipher_spec, error, peer>>

\* dtls1_retrieve_buffered_fragment: the next message is in the queue, complete.
RetrieveBufferedFragment ==
  LET q == WithoutStale(buffered_messages)
  IN  /\ in_handshake /\ ~ error /\ IsNextBuffered(q)
      /\ HandOver(q[handshake_read_seq],
                  [s \in DOMAIN q \ {handshake_read_seq} |-> q[s]])

(***************************************************************************)
(* Reading a fragment                                                      *)
(***************************************************************************)
\* dtls_get_reassembled_message has read the header of f.  Outside a handshake only a
\* HelloRequest gets here: dtls1_read_bytes answers a repeated Finished itself.
Reads(f) == /\ ~ error
            /\ in_handshake \/ (f.type = "hello_request" /\ count < MaxHandshakes)
            /\ ~ IsNextBuffered(WithoutStale(buffered_messages))

InSequence(f) == f.seq = handshake_read_seq
Malformed(f)  == f.frag_off + f.frag_len > f.msg_len

\* What leaves everything as it is, but for stale messages.
Ignore == /\ buffered_messages' = WithoutStale(buffered_messages)
          /\ UNCHANGED <<handshake_read_seq, in_handshake, change_cipher_spec, error, peer, message>>

\* Mutant: however far ahead, a message is buffered.
DropOnlyStale(f) ==
  \/ f.seq <= handshake_read_seq
  \/ handshake_read_seq = 0 /\ f.type = "finished"

\* dtls1_process_out_of_seq_message drops a message that is stale, too far ahead, in the
\* queue already, or a Finished before the first message.
Dropped(f) ==
  \/ f.seq <= handshake_read_seq
  \/ f.seq > handshake_read_seq + MaxAhead
  \/ f.seq \in DOMAIN WithoutStale(buffered_messages) /\ f.frag_len = f.msg_len
  \/ handshake_read_seq = 0 /\ f.type = "finished"

DropOutOfSeq(f) == Reads(f) /\ ~ InSequence(f) /\ ~ Malformed(f) /\ Dropped(f) /\ Ignore

\* A future message that comes in one piece.
BufferWhole(f) ==
  /\ Reads(f) /\ ~ InSequence(f) /\ ~ Malformed(f) /\ ~ Dropped(f)
  /\ f.frag_len = f.msg_len /\ f.frag_len <= MaxMsgLen
  /\ buffered_messages' = Put(WithoutStale(buffered_messages), f.seq,
                              Frag(f, TRUE, << >>, 0 .. f.msg_len - 1))
  /\ UNCHANGED <<handshake_read_seq, in_handshake, change_cipher_spec, error, peer, message>>

\* dtls1_reassemble_fragment is called for a part of the next message or of a future one.
IsPart(f) == IF InSequence(f) THEN f.frag_len > 0 /\ f.frag_len < f.msg_len
             ELSE ~ Malformed(f) /\ ~ Dropped(f) /\ f.frag_len # f.msg_len

\* The message under reassembly that f belongs to, a new one if f came first.
Begun(q, f) == IF f.seq \in DOMAIN q THEN q[f.seq]
               ELSE Frag(f, FALSE, EmptyMask(f.msg_len), {})

\* With f in its place.  The header kept is that of the fragment that came first.
Filled(frag, f) ==
  LET end  == f.frag_off + f.frag_len
      mask == RSMBLY_BITMASK_MARK(frag.reassembly, f.frag_off, end)
  IN  Frag(frag, RSMBLY_BITMASK_IS_COMPLETE(mask, f.msg_len), mask,
           frag.filled \cup (f.frag_off .. end - 1))

\* A complete message is not touched again.
Reassemble(f) ==
  LET q    == WithoutStale(buffered_messages)
      frag == Begun(q, f)
  IN  /\ Reads(f) /\ IsPart(f)
      /\ ~ Malformed(f) /\ f.msg_len <= MaxMsgLen /\ f.frag_len > 0
      /\ frag.msg_len = f.msg_len /\ ~ frag.complete
      /\ buffered_messages' = Put(q, f.seq, Filled(frag, f))
      /\ UNCHANGED <<handshake_read_seq, in_handshake, change_cipher_spec, error, peer, message>>

\* A fragment of a complete message is read and thrown away.
DropRepeated(f) ==
  LET q == WithoutStale(buffered_messages)
  IN  /\ Reads(f) /\ IsPart(f) /\ ~ Malformed(f)
      /\ f.seq \in DOMAIN q /\ q[f.seq].complete /\ q[f.seq].msg_len = f.msg_len
      /\ Ignore

\* A fragment that does not fit, or not the ones before it: dtls_get_message fails, but
\* the connection does not.  An empty one is passed over.
RefuseFragment(f) ==
  LET q == WithoutStale(buffered_messages)
  IN  /\ Reads(f)
      /\ \/ ~ InSequence(f) /\ Malformed(f)
         \/ ~ InSequence(f) /\ ~ Dropped(f) /\ f.frag_len > MaxMsgLen
         \/ IsPart(f) /\ (\/ Malformed(f) \/ f.msg_len > MaxMsgLen \/ f.frag_len = 0
                          \/ f.seq \in DOMAIN q /\ q[f.seq].msg_len # f.msg_len)
      /\ Ignore

\* A HelloRequest during a handshake is passed over.
IgnoreHelloRequest(f) ==
  /\ Reads(f) /\ InSequence(f) /\ in_handshake /\ f.type = "hello_request"
  /\ Ignore

\* The next message in one piece, with dtls1_preprocess_fragment, goes straight to the
\* state machine.  An empty fragment is taken for one.
ReadMessage(f) ==
  /\ Reads(f) /\ InSequence(f) /\ ~ (f.frag_len > 0 /\ f.frag_len < f.msg_len)
  /\ ~ (in_handshake /\ f.type = "hello_request")
  /\ IF Malformed(f) \/ f.msg_len > MaxMsgLen
     THEN /\ error' = TRUE /\ buffered_messages' = WithoutStale(buffered_messages)
          /\ UNCHANGED <<handshake_read_seq, in_handshake, change_cipher_spec, peer, message>>
     ELSE HandOver(Frag(f, TRUE, << >>, f.frag_off .. f.frag_off + f.frag_len - 1),
                   WithoutStale(buffered_messages))

\* The peer's ChangeCipherSpec, which has no number: the read transition drops it when
\* messages before it are missing.  Otherwise the read epoch changes, and with it
\* dtls1_reset_seq_numbers clears the queue.
ReadChangeCipherSpec ==
  /\ in_handshake /\ ~ error /\ ~ change_cipher_spec
  /\ ~ IsNextBuffered(WithoutStale(buffered_messages))
  /\ change_cipher_spec' = (handshake_read_seq = Last)
  /\ buffered_messages' = IF handshake_read_seq = Last THEN NoMessages
                          ELSE WithoutStale(buffered_messages)
  /\ UNCHANGED <<handshake_read_seq, in_handshake, error, peer, message>>

\* Another handshake begins: a client's own, or with the ClientHello a server finds.
BeginHandshake ==
  /\ ~ in_handshake /\ ~ error /\ count < MaxHandshakes
  /\ in_handshake' = TRUE
  /\ UNCHANGED <<handshake_read_seq, buffered_messages, change_cipher_spec, error, peer, message>>

Next ==
  \/ RetrieveBufferedFragment \/ ReadChangeCipherSpec \/ BeginHandshake
  \/ \E f \in Arriving : DropOutOfSeq(f)
  \/ \E f \in Arriving : BufferWhole(f)
  \/ \E f \in Arriving : Reassemble(f)
  \/ \E f \in Arriving : DropRepeated(f)
  \/ \E f \in Arriving : RefuseFragment(f)
  \/ \E f \in Arriving : IgnoreHelloRequest(f)
  \/ \E f \in Arriving : ReadMessage(f)

Spec == Init /\ [][Next]_vars

(***************************************************************************)
(* Properties                                                              *)
(***************************************************************************)
\* The bitmask of a message under reassembly has exactly the bits of the bytes that were
\* read, and a message counts as complete when, and only when, it has all of them.
MaskExact ==
  \A s \in DOMAIN buffered_messages :
    LET frag == buffered_messages[s]
    IN  /\ frag.complete <=> frag.filled = 0 .. frag.msg_len - 1
        /\ frag.reassembly # << >> =>
             \A i \in 0 .. frag.msg_len - 1 :
               i \in frag.filled <=> (i % ByteBits) \in frag.reassembly[ByteOf(i)]

\* No byte of a message that dtls_get_message hands to the state machine is left over from
\* what init_buf or the allocator had there: a fragment filled each.
DeliveredWhole == message # NoMessage => message.filled = 0 .. message.msg_len - 1

\* However many fragments come, buffered_messages holds no more than MaxAhead messages
\* beyond the next one.
BufferBounded ==
  /\ Cardinality(DOMAIN buffered_messages) <= MaxAhead + 1
  /\ \A s \in DOMAIN buffered_messages : s <= handshake_read_seq + MaxAhead

(***************************************************************************)
(* Liveness                                                                *)
(***************************************************************************)
\* The peer's timer sends a flight until it is answered, and the network does not lose
\* the same part of it for ever: a message comes in two halves, again and again.
Halves(seq) == LET n == LenOf(seq) IN
  {Fragment(FALSE, seq, TypeOf(seq), n, 0, (n + 1) \div 2),
   Fragment(FALSE, seq, TypeOf(seq), n, (n + 1) \div 2, n \div 2)}

ArrivesAgain(seq, half) ==
  /\ seq <= Last
  /\ \E f \in Arriving \cap Halves(seq) :
       /\ (f.frag_off > 0) = half
       /\ DropOutOfSeq(f) \/ BufferWhole(f) \/ Reassemble(f) \/ DropRepeated(f) \/ ReadMessage(f)

FairSpec ==
  /\ Spec
  /\ WF_vars(RetrieveBufferedFragment)
  /\ SF_vars(ReadChangeCipherSpec)
  /\ \A seq \in 0 .. Len(MsgLens), half \in BOOLEAN : SF_vars(ArrivesAgain(seq, half))

\* A HelloRequest that crossed this side's own ClientHello is passed over, and its number
\* with it: the peer's messages then start at 1, and this side waits for 0.
Crossed == hello_request /\ in_handshake /\ handshake_read_seq = 0

\* The first fragment of a message that came lied about its length.
Misled == \E s \in DOMAIN buffered_messages : buffered_messages[s].msg_len # LenOf(s)

\* A handshake whose messages keep coming ends, or fails: no order of the fragments, and
\* nothing the queue holds, keeps them from the state machine for ever.  (The peer's
\* retransmission timer, which gives up after a number of timeouts, is not part of this
\* module.)
HandshakeEnds == in_handshake ~> (~ in_handshake \/ error \/ Crossed \/ Misled)
=============================================================================
