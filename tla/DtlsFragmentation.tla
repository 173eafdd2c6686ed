-------------------------- MODULE DtlsFragmentation --------------------------
(***************************************************************************)
(* dtls1_do_write (statem_dtls.c): how a handshake message in init_buf     *)
(* goes out in fragments.  Each fragment but the first gets its header     *)
(* written over the end of the fragment before it.  The room a record has  *)
(* varies with what the BIO holds already, a write or a flush may fail and *)
(* be tried again by a later call, and the path MTU may turn out to be     *)
(* smaller.  The state machine sends the messages it constructs so, and    *)
(* dtls1_retransmit_message those of the flight, through the same init_buf *)
(* and from wherever init_off was left.                                    *)
(***************************************************************************)
EXTENDS Integers, FiniteSets

CONSTANTS
  HdrLen,       \* DTLS1_HM_HEADER_LENGTH
  MsgLens,      \* the lengths of messages, without their header
  Rooms,        \* what curr_mtu may be
  MaxMtuDrops,  \* how often the path MTU turns out smaller while a message goes out (a
                \* bound); 0 is what tls_OP_NO_QUERY_MTU amounts to
  MaxStart      \* a message is sent again only from a place up to this one (a bound)

\* The loop makes sure of room for a header and a byte.
ASSUME FragmentationAssumption ==
  /\ HdrLen \in Nat \ {0} /\ MsgLens \subseteq Nat
  /\ Rooms \subseteq Nat /\ \A r \in Rooms : r > HdrLen
  /\ MaxMtuDrops \in Nat /\ MaxStart \in Nat

VARIABLES
  sending,          \* the state machine is in WRITE_STATE_SEND
  sent_messages,    \* the lengths of the messages kept by dtls1_buffer_message
  writing,          \* dtls1_do_write runs
  init_off, init_num,
  frag_off, retry,  \* its local variables
  w_msg_hdr,        \* w_msg_hdr.frag_off
  msg_len,          \* w_msg_hdr.msg_len
  retransmitting,
  clobbered,        \* init_buf has no longer the message before this place
  drops,            \* the path MTU's changes since a message was last constructed
  sent,             \* history: the fragments written of the message in init_buf
  start_off,        \* history: init_off when it was put there
  own_len,          \* history: the length of the last message constructed
  interrupted,      \* history: another message was put over it before it was out
  hashed, gap       \* history: how much of it tls3_finish_mac got, and in order?

machine == <<sending, sent_messages, own_len, interrupted>>
locals  == <<frag_off, retry>>
message == <<msg_len, sent, start_off>>
hash    == <<hashed, gap>>
vars    == <<machine, writing, init_off, init_num, locals, w_msg_hdr, message,
             retransmitting, clobbered, drops, hash>>

Init ==
  /\ sending = FALSE /\ sent_messages = {} /\ own_len = 0 /\ interrupted = FALSE
  /\ writing = FALSE /\ init_off = 0 /\ init_num = 0 /\ frag_off = 0 /\ retry = TRUE
  /\ w_msg_hdr = 0 /\ msg_len = 0 /\ retransmitting = FALSE /\ clobbered = 0
  /\ drops = 0 /\ sent = {} /\ start_off = 0 /\ hashed = 0 /\ gap = FALSE

\* dtls1_do_write begins.
BeginWrite == writing' = TRUE /\ frag_off' = 0 /\ retry' = TRUE

\* The state machine has constructed a message (dtls1_close_construct_packet) and goes on to
\* send it.  It is kept with the flight it belongs to, of which it may be the first.
NewMessage(len) ==
  /\ ~ writing /\ ~ sending
  /\ sending' = TRUE /\ sent_messages' \in {{len}, sent_messages \cup {len}}
  /\ init_off' = 0 /\ init_num' = len + HdrLen
  /\ w_msg_hdr' = 0 /\ msg_len' = len /\ clobbered' = 0 /\ sent' = {} /\ start_off' = 0
  /\ own_len' = len /\ interrupted' = FALSE /\ drops' = 0 /\ hashed' = 0 /\ gap' = FALSE
  /\ BeginWrite
  /\ UNCHANGED retransmitting

\* The state machine calls again after a failure.  The call does not go on when all of the
\* message seems left to be written, but its length is another (otls_assert).
Call ==
  /\ ~ writing /\ sending
  /\ init_off = 0 => init_num = msg_len + HdrLen
  /\ BeginWrite
  /\ UNCHANGED <<machine, init_off, init_num, w_msg_hdr, message, retransmitting, clobbered,
                 drops, hash>>

\* Mutant: w_msg_hdr.frag_off is left as it was.
RetransmitOldPlace(len) ==
  /\ ~ writing /\ len \in sent_messages /\ init_off <= MaxStart
  /\ init_num' = len + HdrLen /\ msg_len' = len
  /\ clobbered' = 0 /\ sent' = {} /\ start_off' = init_off
  /\ retransmitting' = TRUE /\ interrupted' = (interrupted \/ sending)
  /\ BeginWrite
  /\ UNCHANGED <<sending, sent_messages, own_len, init_off, w_msg_hdr, drops, hash>>

\* dtls1_retransmit_message, for a timeout, wherever the state machine is: the message is
\* copied to init_buf and written, from where init_off points to.
Retransmit(len) ==
  /\ ~ writing /\ len \in sent_messages /\ init_off <= MaxStart
  /\ init_num' = len + HdrLen /\ w_msg_hdr' = 0 /\ msg_len' = len
  /\ clobbered' = 0 /\ sent' = {} /\ start_off' = init_off
  /\ retransmitting' = TRUE /\ interrupted' = (interrupted \/ sending)
  /\ BeginWrite
  /\ UNCHANGED <<sending, sent_messages, own_len, init_off, drops, hash>>

(***************************************************************************)
(* One turn of the loop                                                    *)
(***************************************************************************)
\* Mutant: room is made at every attempt.
AdjustAlways == init_off # 0

\* A fragment other than the first one, not tried before: its header needs room.
IsNewFragment == init_off # 0 /\ frag_off > 0

\* Mutant: no room is made.
KeepOffset == init_off

\* Where the fragment's header goes, and how much is left to write, with the header.
Off  == IF IsNewFragment THEN init_off - HdrLen ELSE init_off
Num  == IF IsNewFragment THEN init_num + HdrLen ELSE init_num

\* Mutant: a call that goes on with a message starts from its beginning.
LocalOffset == frag_off

\* The offset the header names: in a call that goes on with a message, that of the last
\* attempt.
FragOff == IF init_off # 0 /\ frag_off = 0 THEN w_msg_hdr ELSE frag_off

\* The length of the next fragment.
FragLen(room) == IF Num > room THEN room ELSE Num

\* Mutant: the check is left out.
NeverTooShort == FALSE

\* Each fragment sent before must have had a byte besides its header.
TooShort == IsNewFragment /\ init_off <= HdrLen

\* The call returns, to dtls1_retransmit_message if that made it.
Return == writing' = FALSE /\ retransmitting' = FALSE

\* The call gives up before it changes anything.
ReturnError ==
  /\ writing /\ TooShort /\ Return
  /\ UNCHANGED <<machine, init_off, init_num, locals, w_msg_hdr, message, clobbered, drops, hash>>

\* BIO_flush fails, or leaves too little room: the call returns before the header is
\* written.
FlushFails ==
  /\ writing /\ ~ TooShort /\ Return
  /\ init_off' = Off /\ init_num' = Num /\ frag_off' = FragOff
  /\ UNCHANGED <<machine, retry, w_msg_hdr, message, clobbered, drops, hash>>

\* The header is written into init_buf.
WriteHeader == clobbered' = Off + HdrLen

\* dtls1_write_bytes fails, and so may dtls1_query_mtu then: the call returns.
WriteFails ==
  /\ writing /\ ~ TooShort /\ Return
  /\ init_off' = Off /\ init_num' = Num /\ frag_off' = FragOff
  /\ w_msg_hdr' = FragOff /\ WriteHeader
  /\ UNCHANGED <<machine, retry, message, drops, hash>>

\* It fails because the datagram was too long: the loop has one more go.
MtuExceeded ==
  /\ writing /\ ~ TooShort /\ retry /\ drops < MaxMtuDrops
  /\ retry' = FALSE /\ drops' = drops + 1
  /\ init_off' = Off /\ init_num' = Num /\ frag_off' = FragOff
  /\ w_msg_hdr' = FragOff /\ WriteHeader
  /\ UNCHANGED <<machine, writing, message, retransmitting, hash>>

\* tls3_finish_mac gets the header with the first fragment, and every fragment's bytes.
\* A message that is sent again has been hashed before.  hashed counts up to the first
\* byte that comes out of order.
Hash(len) ==
  IF retransmitting THEN UNCHANGED hash
  ELSE /\ gap' = (gap \/ Off # hashed)
       /\ hashed' = IF gap' THEN hashed ELSE hashed + len

\* The last fragment is out, and with it the message as far as the state machine knows.
LastFragment ==
  /\ Return /\ sending' = (sending /\ retransmitting)
  /\ init_off' = 0 /\ init_num' = 0 /\ frag_off' = FragOff /\ w_msg_hdr' = FragOff

\* The loop goes on behind the fragment.
NextFragment(len) ==
  /\ init_off' = Off + len /\ init_num' = Num - len
  /\ frag_off' = FragOff + len - HdrLen /\ w_msg_hdr' = FragOff + len - HdrLen
  /\ UNCHANGED <<writing, retransmitting, sending>>

\* dtls1_write_bytes succeeds.  from is where in the message the bytes come from, whole
\* whether no header was written over them.
WriteFragment(room) ==
  LET len == FragLen(room)
  IN  /\ writing /\ ~ TooShort
      /\ sent' = sent \cup {[frag_off |-> FragOff, frag_len |-> len - HdrLen, from |-> Off,
                             whole |-> clobbered <= Off + HdrLen]}
      /\ WriteHeader
      /\ Hash(len - HdrLen)
      /\ IF len = Num THEN LastFragment ELSE NextFragment(len)
      /\ UNCHANGED <<sent_messages, own_len, interrupted, retry, msg_len, start_off, drops>>

Next ==
  \/ \E len \in MsgLens : NewMessage(len) \/ Retransmit(len)
  \/ Call \/ ReturnError \/ FlushFails \/ WriteFails \/ MtuExceeded
  \/ \E room \in Rooms : WriteFragment(room)

Spec == Init /\ [][Next]_vars

(***************************************************************************)
(* Properties                                                              *)
(***************************************************************************)
FlagsOK ==
  /\ writing \in BOOLEAN /\ retry \in BOOLEAN /\ retransmitting \in BOOLEAN
  /\ gap \in BOOLEAN /\ sending \in BOOLEAN /\ interrupted \in BOOLEAN

NumbersOK ==
  /\ init_off \in Int /\ init_num \in Nat /\ frag_off \in Int /\ w_msg_hdr \in Int
  /\ msg_len \in Nat /\ clobbered \in Int /\ drops \in Nat /\ hashed \in Int
  /\ start_off \in Nat /\ own_len \in Nat /\ sent_messages \subseteq Nat
  /\ sent \subseteq [frag_off : Int, frag_len : Int, from : Int, whole : BOOLEAN]

\* Every variable has its type.
TypeOK == FlagsOK /\ NumbersOK

\* A fragment carries the bytes of the message that its header says, whatever failed
\* before it, and none of them has been overwritten by the header of another.
FragmentsFaithful ==
  \A f \in sent : f.from = f.frag_off /\ f.whole /\ f.frag_off + f.frag_len <= msg_len

\* The headers of the fragments sent name every byte before this one.
Covered(upto) ==
  \A i \in 0 .. upto - 1 : \E f \in sent : f.frag_off <= i /\ i < f.frag_off + f.frag_len

\* When dtls1_do_write has written the message, its headers have named every byte.
MessageCovered == init_num = 0 => Covered(msg_len)

\* The handshake hash sees every byte of what the state machine sends once and in order,
\* however the message was cut up: what both sides' Finished depends on.
HashedInOrder ==
  /\ ~ gap
  /\ ~ sending => hashed = own_len

\* The fragments of a message are faithful, wherever writing failed and went on, while the
\* path MTU stays the same and unless the message was copied to init_buf, to be sent again,
\* in the middle of another's writing (the run fragmentation_again).
FaithfulWhileSameMtu == drops = 0 /\ start_off = 0 => FragmentsFaithful

\* While the path MTU stays the same, the fragments of a message that is out leave out no
\* byte by their headers, be it constructed or sent again, wherever it starts.
CoveredWhileSameMtu == drops = 0 => MessageCovered

\* While it stays the same, the handshake hash gets the message the state machine sends,
\* once and in order, unless another one is sent again before it is out; messages sent
\* again between it and the next do not disturb the hash.
HashedWhileSameMtu == drops = 0 /\ ~ interrupted => HashedInOrder

\* Whatever fails, and however the path MTU changes, init_off (a size_t) never falls below
\* zero, not even when the loop's second go makes room for a header that has its room
\* already; and dtls1_do_write reads and writes init_buf between the message's first byte
\* and its last one, unless the message was copied there in the middle of another's writing.
WithinBuffer ==
  /\ init_off >= 0
  /\ start_off = 0 =>
       /\ init_num > 0 => init_off + init_num = msg_len + HdrLen
       /\ \A f \in sent : f.from >= 0 /\ f.from + f.frag_len <= msg_len

\* The comment where init_off is not zero, "We must be writing a fragment other than the
\* first one": one of this message has been sent before.
NotTheFirst == writing /\ init_off # 0 => sent # {}

\* The comment where frag_off is not zero, "This is the first attempt at writing out this
\* fragment": the room for its header has not been made yet.
FirstAttempt ==
  writing /\ IsNewFragment /\ start_off = 0 => init_off = w_msg_hdr + HdrLen

(***************************************************************************)
(* The inductive invariants                                                *)
(***************************************************************************)
\* Who made the call: the state machine for the message it sends, or a retransmission,
\* which then interrupts what is being sent.
CallerInv ==
  /\ retransmitting => writing
  /\ writing => retransmitting \/ sending
  /\ retransmitting /\ sending => interrupted
  /\ sending /\ ~ interrupted => msg_len = own_len /\ start_off = 0 /\ init_num > 0

\* What holds whatever the path MTU does: what is left of the message ends where the
\* message would if it began where init_off was.
BufferInv ==
  /\ TypeOK /\ CallerInv
  /\ init_off >= 0 /\ (writing => init_num > 0) /\ (init_num = 0 => init_off = 0)
  /\ init_num > 0 => init_off + init_num = start_off + msg_len + HdrLen
  /\ \A f \in sent : f.from >= 0 /\ f.from + f.frag_len <= start_off + msg_len

\* While it stays the same, w_msg_hdr.frag_off is where the writing of the message has got
\* to, in the message, its fragments and its hash alike; init_off is that much further than
\* where it started, and by a header more until room is made.
PlaceInv ==
  init_num > 0 =>
    /\ w_msg_hdr >= 0 /\ drops = 0
    /\ writing => frag_off \in {0, w_msg_hdr}
    /\ init_off = 0 => w_msg_hdr = 0 /\ start_off = 0
    /\ init_off # 0 =>
         init_off = start_off + w_msg_hdr + (IF writing /\ frag_off > 0 THEN HdrLen ELSE 0)
    /\ start_off = 0 => clobbered <= w_msg_hdr + HdrLen
    /\ sending /\ ~ interrupted => hashed = w_msg_hdr
    /\ Covered(w_msg_hdr)

(***************************************************************************)
(* Progress                                                                *)
(***************************************************************************)
\* dtls1_do_write is called until the message is out, a call that fails returns, and a BIO
\* that keeps being tried takes a fragment in the end.
FairSpec == /\ Spec /\ WF_vars(Call) /\ WF_vars(ReturnError)
            /\ SF_vars(\E room \in Rooms : WriteFragment(room))

\* A message that the state machine sends goes out as a whole in the end, unless another
\* one is sent again before it is: no sequence of failed calls leaves dtls1_do_write at a
\* place from which it makes no progress.
MessageGoesOut == sending ~> ~ sending \/ interrupted

\* The comment of state_machine, "If an NBIO event occurs then we restart at the point we
\* left off when we are recalled": the state machine gets on with its message in any case.
RestartsWhereLeftOff == sending ~> ~ sending
=============================================================================
