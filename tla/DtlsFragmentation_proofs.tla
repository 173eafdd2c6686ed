----------------------- MODULE DtlsFragmentation_proofs -----------------------
(***************************************************************************)
(* Proofs about dtls1_do_write: that it stays within init_buf, and, as     *)
(* long as the path MTU does not change under a message, that the          *)
(* fragments are the message and the hash is the message's.  A message     *)
(* sent again starts wherever init_off was left; what that costs is a      *)
(* hypothesis of the theorems (start_off = 0, ~ interrupted).              *)
(***************************************************************************)
EXTENDS DtlsFragmentation, TLAPS

\* The flags stay flags.
LEMMA FlagsStep == FlagsOK /\ [Next]_vars => FlagsOK'
<1> SUFFICES ASSUME FlagsOK, [Next]_vars PROVE FlagsOK'
  OBVIOUS
<1>1. ASSUME NEW len \in MsgLens, NewMessage(len)
      PROVE  FlagsOK'
  BY <1>1, Zenon DEF NewMessage, BeginWrite, FlagsOK
<1>2. ASSUME NEW len \in MsgLens, Retransmit(len)
      PROVE  FlagsOK'
  <2>1. /\ sending' = sending /\ gap' = gap /\ retransmitting' = TRUE
        /\ interrupted' = (interrupted \/ sending) /\ writing' = TRUE /\ retry' = TRUE
    BY <1>2, Zenon DEF Retransmit, BeginWrite, hash
  <2> QED BY <2>1, Zenon DEF FlagsOK
<1>3. CASE Call
  BY <1>3, Zenon DEF Call, BeginWrite, FlagsOK, machine, hash
<1>4. CASE ReturnError
  BY <1>4, Zenon DEF ReturnError, Return, FlagsOK, machine, locals, hash
<1>5. CASE FlushFails
  BY <1>5, Zenon DEF FlushFails, Return, FlagsOK, machine, hash
<1>6. CASE WriteFails
  BY <1>6, Zenon DEF WriteFails, Return, FlagsOK, machine, hash
<1>7. CASE MtuExceeded
  BY <1>7, Zenon DEF MtuExceeded, FlagsOK, machine, hash
<1>8. ASSUME NEW room \in Rooms, WriteFragment(room)
      PROVE  FlagsOK'
  <2>1. LastFragment \/ NextFragment(FragLen(room))
    BY <1>8, Zenon DEF WriteFragment
  <2>2. /\ writing' = FALSE \/ writing' = writing
        /\ retransmitting' = FALSE \/ retransmitting' = retransmitting
        /\ sending' = (sending /\ retransmitting) \/ sending' = sending
    BY <2>1, Zenon DEF LastFragment, NextFragment, Return
  <2>3. retry' = retry /\ interrupted' = interrupted /\ Hash(FragLen(room) - HdrLen)
    BY <1>8, Zenon DEF WriteFragment
  <2>4. gap' = gap \/ gap' = (gap \/ Off # hashed)
    BY <2>3, Zenon DEF Hash, hash
  <2> QED BY <2>2, <2>3, <2>4, Zenon DEF FlagsOK
<1>9. CASE UNCHANGED vars
  BY <1>9, Zenon DEF vars, machine, locals, hash, FlagsOK
<1> QED BY <1>1, <1>2, <1>3, <1>4, <1>5, <1>6, <1>7, <1>8, <1>9 DEF Next

\* What a turn of the loop works with lies between where the message started and its end.
LEMMA TurnWithin ==
  ASSUME FragmentationAssumption, BufferInv, writing, ~ TooShort
  PROVE  /\ Off \in Int /\ Num \in Int /\ FragOff \in Int
         /\ Off >= 0 /\ Num > 0 /\ Off + Num = start_off + msg_len + HdrLen
  BY FragmentationAssumption
  DEF BufferInv, TypeOK, NumbersOK, TooShort, IsNewFragment, Off, Num, FragOff

\* What the first invariant says of the numbers and of the fragments.
NumbersInv ==
  /\ NumbersOK
  /\ init_off >= 0 /\ (writing => init_num > 0) /\ (init_num = 0 => init_off = 0)
  /\ init_num > 0 => init_off + init_num = start_off + msg_len + HdrLen
  /\ \A f \in sent : f.from >= 0 /\ f.from + f.frag_len <= start_off + msg_len

\* No step leads out of the message, however often the path MTU changes.
LEMMA NumbersStep ==
  ASSUME FragmentationAssumption, BufferInv, [Next]_vars
  PROVE  NumbersInv'
<1>0. HdrLen \in Nat /\ HdrLen > 0
  BY FragmentationAssumption
<1>1. ASSUME NEW len \in MsgLens, NewMessage(len)
      PROVE  NumbersInv'
  <2>1. len \in Nat
    BY FragmentationAssumption
  <2>2. sent_messages' \subseteq Nat
    BY <1>1, <2>1 DEF NewMessage, BufferInv, TypeOK, NumbersOK
  <2> QED BY <1>0, <1>1, <2>1, <2>2 DEF NewMessage, BeginWrite, NumbersInv, NumbersOK
<1>2. ASSUME NEW len \in MsgLens, Retransmit(len)
      PROVE  NumbersInv'
  <2>1. len \in Nat
    BY FragmentationAssumption
  <2>2. /\ sent_messages' = sent_messages /\ own_len' = own_len /\ init_off' = init_off
        /\ drops' = drops /\ hashed' = hashed
    BY <1>2 DEF Retransmit, hash
  <2> QED BY <1>0, <1>2, <2>1, <2>2
      DEF Retransmit, BeginWrite, NumbersInv, BufferInv, TypeOK, NumbersOK
<1>3. CASE Call
  <2>1. /\ init_off' = init_off /\ init_num' = init_num /\ w_msg_hdr' = w_msg_hdr
        /\ msg_len' = msg_len /\ sent' = sent /\ start_off' = start_off
        /\ clobbered' = clobbered /\ drops' = drops /\ hashed' = hashed
        /\ own_len' = own_len /\ sent_messages' = sent_messages /\ frag_off' = 0
        /\ init_off = 0 => init_num = msg_len + HdrLen
    BY <1>3 DEF Call, BeginWrite, machine, message, hash
  <2> QED BY <1>0, <2>1 DEF NumbersInv, BufferInv, TypeOK, NumbersOK
<1>4. CASE ReturnError
  <2>1. /\ init_off' = init_off /\ init_num' = init_num /\ w_msg_hdr' = w_msg_hdr
        /\ msg_len' = msg_len /\ sent' = sent /\ start_off' = start_off
        /\ clobbered' = clobbered /\ drops' = drops /\ hashed' = hashed
        /\ own_len' = own_len /\ sent_messages' = sent_messages /\ frag_off' = frag_off
        /\ ~ writing'
    BY <1>4 DEF ReturnError, Return, machine, locals, message, hash
  <2> QED BY <1>0, <2>1 DEF NumbersInv, BufferInv, TypeOK, NumbersOK
<1>5. CASE FlushFails \/ WriteFails \/ MtuExceeded
  <2>1. writing /\ ~ TooShort
    BY <1>5 DEF FlushFails, WriteFails, MtuExceeded
  <2>2. /\ Off \in Int /\ Num \in Int /\ FragOff \in Int
        /\ Off >= 0 /\ Num > 0 /\ Off + Num = start_off + msg_len + HdrLen
    BY <2>1, TurnWithin, FragmentationAssumption
  <2>3. /\ init_off' = Off /\ init_num' = Num /\ frag_off' = FragOff
        /\ w_msg_hdr' = w_msg_hdr \/ w_msg_hdr' = FragOff
        /\ clobbered' = clobbered \/ clobbered' = Off + HdrLen
        /\ msg_len' = msg_len /\ sent' = sent /\ start_off' = start_off /\ hashed' = hashed
        /\ own_len' = own_len /\ sent_messages' = sent_messages
        /\ drops' \in {drops, drops + 1}
    BY <1>5 DEF FlushFails, WriteFails, MtuExceeded, WriteHeader, machine, message, hash
  <2> QED BY <1>0, <2>2, <2>3 DEF NumbersInv, BufferInv, TypeOK, NumbersOK
<1>6. ASSUME NEW room \in Rooms, WriteFragment(room)
      PROVE  NumbersInv'
  <2> DEFINE len == FragLen(room)
             f == [frag_off |-> FragOff, frag_len |-> len - HdrLen, from |-> Off,
                   whole |-> clobbered <= Off + HdrLen]
  <2>1. /\ writing /\ ~ TooShort
        /\ sent' = sent \cup {f}
        /\ IF len = Num
           THEN writing' = FALSE /\ init_off' = 0 /\ init_num' = 0 /\ frag_off' = FragOff
                /\ w_msg_hdr' = FragOff
           ELSE init_off' = Off + len /\ init_num' = Num - len
                /\ frag_off' = FragOff + len - HdrLen
                /\ w_msg_hdr' = FragOff + len - HdrLen
        /\ clobbered' = Off + HdrLen
        /\ msg_len' = msg_len /\ drops' = drops /\ start_off' = start_off
        /\ own_len' = own_len /\ sent_messages' = sent_messages
    BY <1>6 DEF WriteFragment, WriteHeader, LastFragment, NextFragment, Return
  <2>2. /\ Off \in Int /\ Num \in Int /\ FragOff \in Int
        /\ Off >= 0 /\ Num > 0 /\ Off + Num = start_off + msg_len + HdrLen
    BY <2>1, TurnWithin, FragmentationAssumption
  <2>3. len \in Int /\ len > 0 /\ len <= Num
    BY <2>2, FragmentationAssumption DEF FragLen
  <2> HIDE DEF len
  <2>4. f \in [frag_off : Int, frag_len : Int, from : Int, whole : BOOLEAN]
        /\ f.from >= 0 /\ f.from + f.frag_len <= start_off + msg_len
    BY <1>0, <2>2, <2>3 DEF BufferInv, TypeOK, NumbersOK
  <2> HIDE DEF f
  <2>5. hashed' \in Int
    <3>1. hashed' = hashed \/ hashed' = hashed + (len - HdrLen)
      BY <1>6 DEF WriteFragment, Hash, hash, len
    <3> QED BY <1>0, <2>3, <3>1 DEF BufferInv, TypeOK, NumbersOK
  <2>6. sent' \subseteq [frag_off : Int, frag_len : Int, from : Int, whole : BOOLEAN]
        /\ \A g \in sent' : g.from >= 0 /\ g.from + g.frag_len <= start_off' + msg_len'
    BY <2>1, <2>4 DEF BufferInv, TypeOK, NumbersOK
  <2>7. /\ init_num' > 0 => init_off' + init_num' = start_off' + msg_len' + HdrLen
        /\ writing' => init_num' > 0
        /\ init_off' >= 0 /\ (init_num' = 0 => init_off' = 0)
        /\ init_num' \in Nat /\ init_off' \in Int /\ frag_off' \in Int /\ w_msg_hdr' \in Int
    <3>1. CASE len = Num
      BY <2>1, <2>2, <3>1
    <3>2. CASE len # Num
      BY <1>0, <2>1, <2>2, <2>3, <3>2 DEF BufferInv, TypeOK, NumbersOK
    <3> QED BY <3>1, <3>2
  <2>8. /\ msg_len' \in Nat /\ drops' \in Nat /\ clobbered' \in Int /\ start_off' \in Nat
        /\ own_len' \in Nat /\ sent_messages' \subseteq Nat
    BY <1>0, <2>1, <2>2 DEF BufferInv, TypeOK, NumbersOK
  <2> QED BY <2>5, <2>6, <2>7, <2>8 DEF NumbersInv, NumbersOK
<1>7. CASE UNCHANGED vars
  BY <1>7 DEF vars, machine, locals, message, hash, NumbersInv, BufferInv, TypeOK, NumbersOK
<1> QED BY <1>1, <1>2, <1>3, <1>4, <1>5, <1>6, <1>7 DEF Next

\* Every step keeps who made the call, and that a message which nothing was put over is the
\* one in init_buf.
LEMMA CallerStep ==
  ASSUME FragmentationAssumption, BufferInv, [Next]_vars
  PROVE  CallerInv'
<1>0. /\ CallerInv /\ FlagsOK
      /\ HdrLen \in Nat /\ HdrLen > 0 /\ init_num \in Nat
  BY FragmentationAssumption DEF BufferInv, TypeOK, NumbersOK
<1>1. ASSUME NEW len \in MsgLens, NewMessage(len)
      PROVE  CallerInv'
  <2>1. /\ retransmitting' = retransmitting /\ ~ writing /\ writing' = TRUE /\ sending' = TRUE
        /\ msg_len' = len /\ own_len' = len /\ start_off' = 0 /\ init_num' = len + HdrLen
    BY <1>1 DEF NewMessage, BeginWrite
  <2>2. len \in Nat /\ len + HdrLen > 0
    BY <1>0, FragmentationAssumption
  <2>3. ~ retransmitting'
    BY <1>0, <2>1 DEF CallerInv
  <2> QED BY <2>1, <2>2, <2>3 DEF CallerInv
<1>2. ASSUME NEW len \in MsgLens, Retransmit(len)
      PROVE  CallerInv'
  <2>1. /\ retransmitting' = TRUE /\ writing' = TRUE /\ sending' = sending
        /\ interrupted' = (interrupted \/ sending)
    BY <1>2 DEF Retransmit, BeginWrite
  <2> QED BY <2>1, Zenon DEF CallerInv
<1>3. CASE Call
  BY <1>0, <1>3, Zenon DEF Call, BeginWrite, CallerInv, machine, message
<1>4. CASE ReturnError
  BY <1>0, <1>4, Zenon DEF ReturnError, Return, CallerInv, machine, message
<1>5. CASE FlushFails \/ WriteFails \/ MtuExceeded
  <2>1. /\ sending' = sending /\ interrupted' = interrupted /\ msg_len' = msg_len
        /\ own_len' = own_len /\ start_off' = start_off /\ init_num' = Num
        /\ writing /\ ~ TooShort
        /\ \/ writing' = FALSE /\ retransmitting' = FALSE
           \/ writing' = writing /\ retransmitting' = retransmitting
    BY <1>5, Zenon DEF FlushFails, WriteFails, MtuExceeded, Return, machine, message
  <2>2. init_num' > 0
    BY <2>1, TurnWithin, FragmentationAssumption
  <2>3. CASE writing' = FALSE /\ retransmitting' = FALSE
    BY <1>0, <2>1, <2>2, <2>3, Zenon DEF CallerInv
  <2>4. CASE writing' = writing /\ retransmitting' = retransmitting
    BY <1>0, <2>1, <2>2, <2>4, Zenon DEF CallerInv
  <2> QED BY <2>1, <2>3, <2>4
<1>6. ASSUME NEW room \in Rooms, WriteFragment(room)
      PROVE  CallerInv'
  <2>1. /\ interrupted' = interrupted /\ msg_len' = msg_len /\ own_len' = own_len
        /\ start_off' = start_off /\ writing /\ ~ TooShort
    BY <1>6, Zenon DEF WriteFragment
  <2>2. CASE FragLen(room) = Num
    <3>1. writing' = FALSE /\ retransmitting' = FALSE /\ sending' = (sending /\ retransmitting)
      BY <1>6, <2>2, Zenon DEF WriteFragment, LastFragment, Return
    <3> QED BY <1>0, <2>1, <3>1, Zenon DEF CallerInv
  <2>3. CASE FragLen(room) # Num
    <3>1. /\ writing' = writing /\ retransmitting' = retransmitting /\ sending' = sending
          /\ init_num' = Num - FragLen(room)
      BY <1>6, <2>3, Zenon DEF WriteFragment, NextFragment
    <3>2. init_num' > 0
      <4>1. Num \in Int
        BY <2>1, TurnWithin, FragmentationAssumption
      <4> QED BY <2>3, <3>1, <4>1, FragmentationAssumption DEF FragLen
    <3> QED BY <1>0, <2>1, <3>1, <3>2, Zenon DEF CallerInv
  <2> QED BY <2>2, <2>3
<1>7. CASE UNCHANGED vars
  BY <1>0, <1>7, Zenon DEF vars, machine, message, CallerInv
<1> QED BY <1>1, <1>2, <1>3, <1>4, <1>5, <1>6, <1>7 DEF Next

\* The first invariant holds at the beginning.
LEMMA BufferInit == Init => BufferInv
<1> SUFFICES ASSUME Init PROVE BufferInv
  OBVIOUS
<1>1. FlagsOK /\ CallerInv
  BY Zenon DEF Init, FlagsOK, CallerInv
<1>2. NumbersOK /\ ~ writing /\ init_off = 0 /\ init_num = 0 /\ sent = {}
  BY DEF Init, NumbersOK
<1> QED BY <1>1, <1>2 DEF BufferInv, TypeOK

\* Every step keeps the first invariant.
LEMMA BufferStep == FragmentationAssumption /\ BufferInv /\ [Next]_vars => BufferInv'
<1> SUFFICES ASSUME FragmentationAssumption, BufferInv, [Next]_vars PROVE BufferInv'
  OBVIOUS
<1>1. FlagsOK'
  BY FlagsStep DEF BufferInv, TypeOK
<1>2. NumbersInv'
  BY NumbersStep
<1>3. CallerInv'
  BY CallerStep
<1> QED BY <1>1, <1>2, <1>3 DEF BufferInv, TypeOK, NumbersInv

\* init_off never wraps around, and dtls1_do_write never reads or writes outside a message
\* that was put into init_buf with init_off at zero, for messages and records of any length
\* and any number of failures.  The condition start_off = 0 of WithinBuffer fails only for a
\* message that dtls1_retransmit_message copies over an unfinished one.
THEOREM StaysWithinBuffer == Spec => [](TypeOK /\ WithinBuffer)
<1>1. BufferInv => TypeOK /\ WithinBuffer
  <2> SUFFICES ASSUME BufferInv PROVE WithinBuffer
    BY DEF BufferInv
  <2>1. HdrLen \in Nat /\ msg_len \in Nat /\ init_off >= 0
    BY FragmentationAssumption DEF BufferInv, TypeOK, NumbersOK
  <2> QED BY <2>1 DEF BufferInv, WithinBuffer
<1> QED BY <1>1, BufferInit, BufferStep, FragmentationAssumption, PTL DEF Spec

(***************************************************************************)
(* The path MTU does not change while a message goes out                   *)
(***************************************************************************)
\* A turn of the loop goes on where the writing of the message has got to.
LEMMA TurnPlace ==
  ASSUME FragmentationAssumption, BufferInv, PlaceInv, writing
  PROVE  /\ Off = start_off + w_msg_hdr /\ FragOff = w_msg_hdr /\ ~ TooShort
         /\ w_msg_hdr \in Nat /\ start_off \in Nat
         /\ Num \in Int /\ Num > 0 /\ w_msg_hdr + Num = msg_len + HdrLen
<1>1. /\ init_num > 0 /\ init_off + init_num = start_off + msg_len + HdrLen /\ init_off >= 0
      /\ init_off \in Int /\ init_num \in Int /\ w_msg_hdr \in Int /\ frag_off \in Int
      /\ msg_len \in Int /\ start_off \in Nat /\ HdrLen \in Nat /\ HdrLen > 0
  BY FragmentationAssumption DEF BufferInv, TypeOK, NumbersOK
<1>2. /\ w_msg_hdr >= 0 /\ frag_off \in {0, w_msg_hdr}
      /\ init_off = 0 => w_msg_hdr = 0 /\ start_off = 0
      /\ init_off # 0 =>
           init_off = start_off + w_msg_hdr + (IF frag_off > 0 THEN HdrLen ELSE 0)
  BY <1>1 DEF PlaceInv
<1> QED BY <1>1, <1>2 DEF Off, Num, FragOff, TooShort, IsNewFragment

\* What holds of a message that goes out with the same MTU.
FaithfulInv ==
  /\ PlaceInv /\ MessageCovered
  /\ start_off = 0 => FragmentsFaithful
  /\ ~ interrupted => HashedInOrder

\* A message begins at its beginning, wherever in init_buf that is; sending one again leaves
\* the hash alone.
LEMMA BeginFaithful ==
  ASSUME FragmentationAssumption, BufferInv, NEW len \in MsgLens,
         \/ NewMessage(len)
         \/ Retransmit(len) /\ drops = 0 /\ FaithfulInv
  PROVE  FaithfulInv'
<1>1. len \in Nat /\ HdrLen \in Nat /\ HdrLen > 0 /\ init_off >= 0
      /\ init_off \in Int /\ init_num \in Nat
  BY FragmentationAssumption DEF BufferInv, TypeOK, NumbersOK
<1>2. /\ init_num' = len + HdrLen /\ w_msg_hdr' = 0 /\ msg_len' = len
      /\ clobbered' = 0 /\ drops' = 0 /\ sent' = {} /\ frag_off' = 0
      /\ init_off' = start_off'
  BY DEF NewMessage, Retransmit, BeginWrite
<1>3. init_num' > 0 /\ init_num' # 0
  BY <1>1, <1>2
<1>4. sending' /\ ~ interrupted' => hashed' = 0
  BY DEF NewMessage, Retransmit
<1>5. init_off' \in Int
  BY <1>1 DEF NewMessage, Retransmit
<1>6. PlaceInv'
  <2>1. Covered(w_msg_hdr)'
    BY <1>2 DEF Covered
  <2>2. PICK x \in Int : init_off' = x /\ start_off' = x
    BY <1>2, <1>5, Zenon
  <2>3. ~ (frag_off' > 0)
    BY <1>2
  <2>4. init_off' = start_off' + w_msg_hdr' + (IF writing' /\ frag_off' > 0 THEN HdrLen ELSE 0)
    <3>1. w_msg_hdr' = 0
      BY <1>2
    <3> QED BY <2>2, <2>3, <3>1
  <2>5. /\ w_msg_hdr' >= 0 /\ (writing' => frag_off' \in {0, w_msg_hdr'})
        /\ (init_off' = 0 => w_msg_hdr' = 0 /\ start_off' = 0)
        /\ clobbered' <= w_msg_hdr' + HdrLen
        /\ (sending' /\ ~ interrupted' => hashed' = w_msg_hdr')
    BY <1>1, <1>2, <1>4
  <2> QED BY <1>2, <2>1, <2>4, <2>5 DEF PlaceInv
<1>7. FragmentsFaithful' /\ MessageCovered'
  BY <1>2, <1>3 DEF FragmentsFaithful, MessageCovered
<1>8. ~ interrupted' => HashedInOrder'
  <2>1. CASE NewMessage(len)
    BY <2>1 DEF NewMessage, HashedInOrder
  <2>2. CASE Retransmit(len) /\ FaithfulInv
    <3>1. /\ gap' = gap /\ hashed' = hashed /\ own_len' = own_len /\ sending' = sending
          /\ interrupted' = (interrupted \/ sending)
      BY <2>2 DEF Retransmit, hash
    <3> QED BY <2>2, <3>1 DEF FaithfulInv, HashedInOrder
  <2> QED BY <2>1, <2>2
<1> QED BY <1>6, <1>7, <1>8 DEF FaithfulInv

\* A call begins, or fails, at the place reached.
LEMMA CallFaithful ==
  ASSUME FragmentationAssumption, BufferInv, FaithfulInv, Call \/ FlushFails \/ WriteFails
  PROVE  FaithfulInv'
<1>0. HdrLen \in Nat /\ HdrLen > 0 /\ w_msg_hdr \in Int /\ init_num \in Nat
      /\ start_off \in Nat /\ clobbered \in Int /\ msg_len \in Nat /\ init_off \in Int
  BY FragmentationAssumption DEF BufferInv, TypeOK, NumbersOK
<1>1. /\ msg_len' = msg_len /\ drops' = drops /\ sent' = sent /\ hashed' = hashed /\ gap' = gap
      /\ sending' = sending /\ interrupted' = interrupted /\ own_len' = own_len
      /\ start_off' = start_off
  BY DEF Call, FlushFails, WriteFails, machine, message, hash
<1>2. /\ init_num > 0 /\ init_num' > 0 /\ w_msg_hdr' = w_msg_hdr
      /\ writing' => frag_off' = 0
      /\ init_off' = 0 => w_msg_hdr = 0 /\ start_off = 0
      /\ init_off' # 0 => init_off' = start_off + w_msg_hdr
      /\ clobbered' = clobbered \/ clobbered' = start_off + w_msg_hdr + HdrLen
  <2>1. CASE Call
    <3>1. /\ init_off' = init_off /\ init_num' = init_num /\ w_msg_hdr' = w_msg_hdr
          /\ clobbered' = clobbered /\ ~ writing /\ frag_off' = 0
          /\ init_off = 0 => init_num = msg_len + HdrLen
      BY <2>1 DEF Call, BeginWrite
    <3>2. init_num > 0
      BY <1>0, <3>1 DEF BufferInv
    <3> QED BY <1>0, <3>1, <3>2 DEF FaithfulInv, PlaceInv
  <2>2. CASE FlushFails \/ WriteFails
    <3>1. writing
      BY <2>2 DEF FlushFails, WriteFails
    <3>2. /\ Off = start_off + w_msg_hdr /\ FragOff = w_msg_hdr
          /\ Num \in Int /\ Num > 0
      BY <3>1, TurnPlace DEF FaithfulInv
    <3>3. /\ init_off' = Off /\ init_num' = Num /\ ~ writing'
          /\ w_msg_hdr' = w_msg_hdr \/ w_msg_hdr' = FragOff
          /\ clobbered' = clobbered \/ clobbered' = Off + HdrLen
      BY <2>2 DEF FlushFails, WriteFails, WriteHeader, Return
    <3>4. init_num > 0 /\ w_msg_hdr >= 0
      BY <3>1 DEF BufferInv, FaithfulInv, PlaceInv
    <3> QED BY <1>0, <3>2, <3>3, <3>4
  <2> QED BY <2>1, <2>2
<1>3. PlaceInv'
  <2>1. /\ w_msg_hdr >= 0 /\ drops = 0
        /\ start_off = 0 => clobbered <= w_msg_hdr + HdrLen
        /\ sending /\ ~ interrupted => hashed = w_msg_hdr
        /\ Covered(w_msg_hdr)
    BY <1>2 DEF FaithfulInv, PlaceInv
  <2>2. Covered(w_msg_hdr)'
    BY <1>1, <1>2, <2>1 DEF Covered
  <2>3. writing' /\ frag_off' > 0 => FALSE
    BY <1>2
  <2>4. start_off' = 0 => clobbered' <= w_msg_hdr' + HdrLen
    BY <1>0, <1>1, <1>2, <2>1
  <2>5. init_off' # 0 =>
          init_off' = start_off' + w_msg_hdr' + (IF writing' /\ frag_off' > 0 THEN HdrLen ELSE 0)
    BY <1>0, <1>1, <1>2, <2>3
  <2> QED BY <1>1, <1>2, <2>1, <2>2, <2>4, <2>5 DEF PlaceInv
<1>4. (start_off' = 0 => FragmentsFaithful') /\ MessageCovered'
  BY <1>1, <1>2 DEF FaithfulInv, FragmentsFaithful, MessageCovered
<1>5. ~ interrupted' => HashedInOrder'
  BY <1>1 DEF FaithfulInv, HashedInOrder
<1> QED BY <1>3, <1>4, <1>5 DEF FaithfulInv

\* A fragment takes the place on by its length, in the message, the fragments and the hash.
LEMMA WriteFaithful ==
  ASSUME FragmentationAssumption, BufferInv, FaithfulInv, NEW room \in Rooms,
         WriteFragment(room)
  PROVE  FaithfulInv'
<1> DEFINE len == FragLen(room)
           f == [frag_off |-> FragOff, frag_len |-> len - HdrLen, from |-> Off,
                 whole |-> clobbered <= Off + HdrLen]
<1>0. HdrLen \in Nat /\ HdrLen > 0 /\ room \in Nat /\ room > HdrLen
      /\ msg_len \in Nat /\ clobbered \in Int /\ hashed \in Int
  BY FragmentationAssumption DEF BufferInv, TypeOK, NumbersOK
<1>1. /\ writing
      /\ sent' = sent \cup {f}
      /\ IF len = Num
         THEN ~ writing' /\ init_off' = 0 /\ init_num' = 0
              /\ sending' = (sending /\ retransmitting)
         ELSE init_off' = Off + len /\ init_num' = Num - len
              /\ frag_off' = FragOff + len - HdrLen
              /\ w_msg_hdr' = FragOff + len - HdrLen /\ writing' = writing
              /\ sending' = sending
      /\ clobbered' = Off + HdrLen
      /\ msg_len' = msg_len /\ drops' = drops /\ start_off' = start_off
      /\ interrupted' = interrupted /\ own_len' = own_len
  BY DEF WriteFragment, WriteHeader, LastFragment, NextFragment, Return
<1>2. /\ Off = start_off + w_msg_hdr /\ FragOff = w_msg_hdr
      /\ w_msg_hdr \in Nat /\ start_off \in Nat
      /\ Num \in Int /\ Num > 0 /\ w_msg_hdr + Num = msg_len + HdrLen
  BY <1>1, TurnPlace DEF FaithfulInv
<1>3. len \in Int /\ len <= Num /\ (len # Num => len > HdrLen)
  BY <1>0, <1>2 DEF FragLen
<1>4. /\ start_off = 0 => clobbered <= w_msg_hdr + HdrLen
      /\ drops = 0
      /\ sending /\ ~ interrupted => hashed = w_msg_hdr
      /\ Covered(w_msg_hdr)
  <2>1. init_num > 0
    BY <1>1 DEF BufferInv
  <2> QED BY <2>1 DEF FaithfulInv, PlaceInv
<1>5. /\ sending /\ ~ interrupted =>
           /\ ~ retransmitting /\ start_off = 0 /\ msg_len = own_len
           /\ ~ gap' /\ hashed' = w_msg_hdr + len - HdrLen
      /\ ~ sending /\ ~ interrupted => retransmitting /\ ~ gap' /\ hashed' = own_len
  <2>1. ~ interrupted => ~ gap /\ (~ sending => hashed = own_len)
    BY DEF FaithfulInv, HashedInOrder
  <2>2. /\ sending /\ ~ interrupted => ~ retransmitting /\ start_off = 0 /\ msg_len = own_len
        /\ ~ sending => retransmitting
    BY <1>1 DEF BufferInv, CallerInv
  <2>3. IF retransmitting THEN gap' = gap /\ hashed' = hashed
        ELSE gap' = (gap \/ Off # hashed)
             /\ hashed' = IF gap' THEN hashed ELSE hashed + (len - HdrLen)
    BY DEF WriteFragment, Hash, hash
  <2> HIDE DEF len
  <2>4. CASE sending /\ ~ interrupted
    <3>0. Off = hashed
      BY <1>2, <1>4, <2>2, <2>4
    <3>1. ~ gap'
      BY <2>1, <2>2, <2>3, <2>4, <3>0, Zenon
    <3>2. hashed' = hashed + (len - HdrLen)
      BY <2>2, <2>3, <2>4, <3>1
    <3> QED BY <1>0, <1>2, <1>3, <1>4, <2>2, <2>4, <3>1, <3>2
  <2>5. CASE ~ sending /\ ~ interrupted
    BY <2>1, <2>2, <2>3, <2>5
  <2> QED BY <2>4, <2>5
<1> HIDE DEF len
<1>6. f.frag_off = w_msg_hdr /\ f.frag_len = len - HdrLen
      /\ (start_off = 0 => f.from = w_msg_hdr /\ f.whole)
  <2>1. /\ f.frag_off = FragOff /\ f.frag_len = len - HdrLen /\ f.from = Off
        /\ f.whole = (clobbered <= Off + HdrLen)
    OBVIOUS
  <2> HIDE DEF f
  <2>2. start_off = 0 => Off = w_msg_hdr /\ clobbered <= Off + HdrLen
    BY <1>0, <1>2, <1>4
  <2> QED BY <1>2, <2>1, <2>2
<1> HIDE DEF f
<1>7. start_off' = 0 => FragmentsFaithful'
  <2>1. f.frag_off + f.frag_len <= msg_len
    BY <1>0, <1>2, <1>3, <1>6
  <2> QED BY <1>1, <1>6, <2>1 DEF FaithfulInv, FragmentsFaithful
<1>8. ASSUME NEW upto \in Int, upto = w_msg_hdr + len - HdrLen
      PROVE  \A i \in 0 .. upto - 1 :
               \E g \in sent' : g.frag_off <= i /\ i < g.frag_off + g.frag_len
  <2> SUFFICES ASSUME NEW i \in 0 .. upto - 1
               PROVE  \E g \in sent' : g.frag_off <= i /\ i < g.frag_off + g.frag_len
    OBVIOUS
  <2>1. CASE i < w_msg_hdr
    <3>1. i \in 0 .. w_msg_hdr - 1
      BY <1>2, <2>1
    <3>2. PICK g \in sent : g.frag_off <= i /\ i < g.frag_off + g.frag_len
      BY <1>4, <3>1 DEF Covered
    <3> QED BY <1>1, <3>2
  <2>2. CASE i >= w_msg_hdr
    <3>1. f \in sent'
      BY <1>1
    <3>2. f.frag_off <= i /\ i < f.frag_off + f.frag_len
      BY <1>0, <1>2, <1>3, <1>6, <1>8, <2>2
    <3> QED BY <3>1, <3>2
  <2> QED BY <1>2, <2>1, <2>2
<1>9. CASE len = Num
  <2>1. w_msg_hdr + len - HdrLen = msg_len /\ init_num' = 0 /\ msg_len' = msg_len
    BY <1>0, <1>1, <1>2, <1>9
  <2>2. PlaceInv'
    BY <2>1 DEF PlaceInv
  <2>3. MessageCovered'
    BY <1>0, <1>8, <2>1 DEF MessageCovered, Covered
  <2>4. ~ interrupted' => HashedInOrder'
    BY <1>1, <1>5, <1>9, <2>1 DEF HashedInOrder
  <2> QED BY <1>7, <2>2, <2>3, <2>4 DEF FaithfulInv
<1>10. CASE len # Num
  <2>1. /\ init_off' = start_off + w_msg_hdr + len /\ init_num' = Num - len
        /\ frag_off' = w_msg_hdr + len - HdrLen
        /\ w_msg_hdr' = w_msg_hdr + len - HdrLen /\ writing' /\ sending' = sending
        /\ clobbered' = start_off + w_msg_hdr + HdrLen /\ drops' = 0
    BY <1>1, <1>2, <1>4, <1>10
  <2>2. len > HdrLen /\ init_num' > 0 /\ w_msg_hdr' > 0 /\ w_msg_hdr' \in Int
        /\ init_off' # 0 /\ init_off' = start_off' + w_msg_hdr' + HdrLen
        /\ frag_off' = w_msg_hdr' /\ init_num' # 0
        /\ (start_off' = 0 => clobbered' <= w_msg_hdr' + HdrLen)
    BY <1>0, <1>1, <1>2, <1>3, <1>10, <2>1
  <2>3. Covered(w_msg_hdr)'
    BY <1>8, <2>1, <2>2 DEF Covered
  <2>4. PlaceInv'
    BY <1>1, <1>5, <2>1, <2>2, <2>3 DEF PlaceInv
  <2>5. MessageCovered' /\ (~ interrupted' => HashedInOrder')
    BY <1>1, <1>5, <2>1, <2>2 DEF MessageCovered, HashedInOrder
  <2> QED BY <1>7, <2>4, <2>5 DEF FaithfulInv
<1> QED BY <1>9, <1>10

\* Every step keeps the place in the message, until the path MTU changes; a new message
\* has its own.
LEMMA FaithfulStep ==
  ASSUME FragmentationAssumption, BufferInv, drops = 0 => FaithfulInv, [Next]_vars
  PROVE  drops' = 0 => FaithfulInv'
<1> SUFFICES ASSUME drops' = 0 PROVE FaithfulInv'
  OBVIOUS
<1>1. ASSUME NEW len \in MsgLens, NewMessage(len) \/ Retransmit(len)
      PROVE  FaithfulInv'
  <2>1. Retransmit(len) => drops' = drops
    BY DEF Retransmit
  <2> QED BY <1>1, <2>1, BeginFaithful
<1>2. ~ MtuExceeded
  <2> SUFFICES ASSUME MtuExceeded PROVE FALSE
    OBVIOUS
  <2>1. drops' = drops + 1 /\ drops \in Nat
    BY DEF MtuExceeded, BufferInv, TypeOK, NumbersOK
  <2> QED BY <2>1
<1>3. CASE Call \/ FlushFails \/ WriteFails
  <2>1. drops' = drops
    BY <1>3 DEF Call, FlushFails, WriteFails
  <2> QED BY <1>3, <2>1, CallFaithful
<1>4. ASSUME NEW room \in Rooms, WriteFragment(room)
      PROVE  FaithfulInv'
  <2>1. drops' = drops
    BY <1>4 DEF WriteFragment
  <2> QED BY <1>4, <2>1, WriteFaithful
<1>5. ~ ReturnError
  <2> SUFFICES ASSUME ReturnError PROVE FALSE
    OBVIOUS
  <2>1. drops' = drops /\ writing /\ TooShort
    BY DEF ReturnError
  <2> QED BY <2>1, TurnPlace DEF FaithfulInv
<1>6. CASE UNCHANGED vars
  <2>1. drops' = drops
    BY <1>6 DEF vars
  <2> QED BY <1>6, <2>1 DEF vars, machine, locals, message, hash, FaithfulInv, PlaceInv,
              FragmentsFaithful, HashedInOrder, MessageCovered, Covered
<1> QED BY <1>1, <1>2, <1>3, <1>4, <1>5, <1>6 DEF Next

\* As long as the path MTU does not change under a message: every fragment of a message that
\* started at the beginning of init_buf carries the bytes its header names; the headers
\* leave out no byte of any message; and the handshake hash sees each byte of a message that
\* no other was put over once and in order.  For messages and records of any length,
\* wherever calls fail and are repeated, whatever is sent again in between, and whatever
\* happened to the messages before it.
THEOREM FragmentsAreTheMessage ==
  Spec => [](FaithfulWhileSameMtu /\ CoveredWhileSameMtu /\ HashedWhileSameMtu)
<1> DEFINE Inv == BufferInv /\ (drops = 0 => FaithfulInv)
<1>1. Init => Inv
  <2> SUFFICES ASSUME Init PROVE FaithfulInv
    BY BufferInit
  <2>1. PlaceInv /\ FragmentsFaithful /\ MessageCovered
    BY DEF Init, PlaceInv, FragmentsFaithful, MessageCovered, Covered
  <2>2. HashedInOrder
    BY DEF Init, HashedInOrder
  <2> QED BY <2>1, <2>2 DEF FaithfulInv
<1>2. Inv /\ [Next]_vars => Inv'
  BY BufferStep, FaithfulStep, FragmentationAssumption
<1>3. Inv => FaithfulWhileSameMtu /\ CoveredWhileSameMtu /\ HashedWhileSameMtu
  BY DEF FaithfulInv, FaithfulWhileSameMtu, CoveredWhileSameMtu, HashedWhileSameMtu
<1> QED BY <1>1, <1>2, <1>3, PTL DEF Spec

\* As long as the path MTU does not change under a message, the headers of its fragments
\* leave out no byte of it, also when it is sent again over an unfinished one.
THEOREM FragmentsCover == Spec => []CoveredWhileSameMtu
BY FragmentsAreTheMessage, PTL

\* As long as the path MTU does not change under a message, and no other is sent again
\* before it is out, tls3_finish_mac has been given each of its bytes once and in order,
\* however often the write was taken up again.
THEOREM HashSeesTheMessage == Spec => []HashedWhileSameMtu
BY FragmentsAreTheMessage, PTL
=============================================================================
