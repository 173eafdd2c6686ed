------------------------ MODULE DtlsReassembly_proofs ------------------------
(***************************************************************************)
(* The reassembly of handshake messages of any length, with any number of  *)
(* bits to a byte of the bitmask, from fragments of every size and order.  *)
(*                                                                         *)
(* The heart of it is that the bitmask is the set of bytes read so far:    *)
(* MaskOf writes that set down in the bitmask's form, MarkExact shows that *)
(* RSMBLY_BITMASK_MARK adds a fragment's bytes to it and nothing else, and *)
(* CompleteExact that RSMBLY_BITMASK_IS_COMPLETE finds it complete exactly *)
(* when no byte is missing.                                                *)
(***************************************************************************)
EXTENDS DtlsReassembly, FiniteSetTheorems, TLAPS

\* The bitmask that says that the bytes of F have been read, of a message of n bytes.
MaskOf(F, n) ==
  [b \in 0 .. ByteOf(n + ByteBits - 1) - 1 |-> {k \in 0 .. ByteBits - 1 : b * ByteBits + k \in F}]

(***************************************************************************)
(* Bytes and bits                                                          *)
(***************************************************************************)
\* Multiples are ordered like their factors, and a whole d apart.
LEMMA Multiples ==
  ASSUME NEW a \in Nat, NEW b \in Nat, NEW d \in Nat, a < b
  PROVE  a * d + d <= b * d
<1>1. a * d + d = (a + 1) * d
  OBVIOUS
<1>2. a + 1 <= b
  OBVIOUS
<1> QED BY <1>1, <1>2

\* A number is its byte and its bit.
LEMMA ByteAndBit ==
  ASSUME NEW i \in Nat, ByteBits \in Nat \ {0}
  PROVE  /\ ByteOf(i) \in Nat /\ i % ByteBits \in 0 .. ByteBits - 1
         /\ i = ByteOf(i) * ByteBits + (i % ByteBits)
<1>1. ByteOf(i) \in Int
  BY DEF ByteOf
<1>2. i % ByteBits \in 0 .. ByteBits - 1
  OBVIOUS
<1>3. i = ByteOf(i) * ByteBits + (i % ByteBits)
  BY DEF ByteOf
<1>4. ByteOf(i) >= 0
  BY DEF ByteOf
<1> QED BY <1>1, <1>2, <1>3, <1>4

\* A byte and a bit are one number's only.
LEMMA BitOfByte ==
  ASSUME NEW b \in Nat, NEW k \in 0 .. ByteBits - 1, ByteBits \in Nat \ {0}
  PROVE  /\ b * ByteBits + k \in Nat
         /\ ByteOf(b * ByteBits + k) = b /\ (b * ByteBits + k) % ByteBits = k
<1>1. b * ByteBits \in Nat
  OBVIOUS
<1>2. (b * ByteBits + k) \div ByteBits = b /\ (b * ByteBits + k) % ByteBits = k
  OBVIOUS
<1> QED BY <1>1, <1>2 DEF ByteOf

\* bitmask_end_values has the bits up to that of the last byte.
LEMMA EndValueIs ==
  ASSUME NEW e \in Nat \ {0}, ByteBits \in Nat \ {0}
  PROVE  EndValue(e % ByteBits) = 0 .. (e - 1) % ByteBits
<1> DEFINE q == ByteOf(e - 1)
           r == (e - 1) % ByteBits
<1>0. e - 1 \in Nat
  OBVIOUS
<1>1. q \in Nat /\ r \in 0 .. ByteBits - 1 /\ e - 1 = q * ByteBits + r
  BY <1>0, ByteAndBit
<1> HIDE DEF q, r
<1>2. CASE r + 1 < ByteBits
  <2>1. r + 1 \in 0 .. ByteBits - 1 /\ e = q * ByteBits + (r + 1)
    BY <1>1, <1>2
  <2>2. e % ByteBits = r + 1
    BY <1>1, <2>1, BitOfByte
  <2> QED BY <1>1, <2>2 DEF EndValue, r
<1>3. CASE r + 1 = ByteBits
  <2>1. e = (q + 1) * ByteBits + 0
    BY <1>1, <1>3
  <2>2. e % ByteBits = 0
    BY <1>1, <2>1, BitOfByte
  <2>3. 0 .. ByteBits - 1 = 0 .. r
    BY <1>1, <1>3
  <2> QED BY <2>2, <2>3 DEF EndValue, r
<1> QED BY <1>1, <1>2, <1>3

\* The bytes of the bitmask: the last one is that of the message's last byte.
LEMMA LastByte ==
  ASSUME NEW n \in Nat \ {0}, ByteBits \in Nat \ {0}
  PROVE  ByteOf(n + ByteBits - 1) - 1 = ByteOf(n - 1)
<1> DEFINE q == ByteOf(n - 1)
           r == (n - 1) % ByteBits
<1>0. n - 1 \in Nat
  OBVIOUS
<1>1. q \in Nat /\ r \in 0 .. ByteBits - 1 /\ n - 1 = q * ByteBits + r
  BY <1>0, ByteAndBit
<1> HIDE DEF q, r
<1>2. n + ByteBits - 1 = (q + 1) * ByteBits + r /\ q + 1 \in Nat
  BY <1>1
<1>3. ByteOf(n + ByteBits - 1) = q + 1
  BY <1>1, <1>2, BitOfByte
<1> QED BY <1>1, <1>3 DEF q

(***************************************************************************)
(* The macros                                                              *)
(***************************************************************************)
\* The bits RSMBLY_BITMASK_MARK sets in byte b.
Added(b, start, end) ==
  IF end - start <= ByteBits
  THEN {i % ByteBits : i \in {j \in start .. end - 1 : ByteOf(j) = b}}
  ELSE IF b > ByteOf(start) /\ b < ByteOf(end - 1) THEN 0 .. ByteBits - 1
  ELSE (IF b = ByteOf(start) THEN StartValue(start % ByteBits) ELSE {})
       \cup (IF b = ByteOf(end - 1) THEN EndValue(end % ByteBits) ELSE {})

\* They are those of the fragment's bytes.
LEMMA AddedExact ==
  ASSUME ByteBits \in Nat \ {0}, NEW b \in Nat, NEW start \in Nat, NEW end \in Nat, start < end
  PROVE  Added(b, start, end) = {k \in 0 .. ByteBits - 1 : b * ByteBits + k \in start .. end - 1}
<1> DEFINE R == {k \in 0 .. ByteBits - 1 : b * ByteBits + k \in start .. end - 1}
<1>1. CASE end - start <= ByteBits
  <2> DEFINE A == {i % ByteBits : i \in {j \in start .. end - 1 : ByteOf(j) = b}}
  <2>1. ASSUME NEW k \in A PROVE k \in R
    <3>1. PICK i \in start .. end - 1 : ByteOf(i) = b /\ k = i % ByteBits
      OBVIOUS
    <3>2. i \in Nat
      OBVIOUS
    <3>3. i % ByteBits \in 0 .. ByteBits - 1 /\ i = ByteOf(i) * ByteBits + (i % ByteBits)
      BY <3>2, ByteAndBit
    <3> QED BY <3>1, <3>3
  <2>2. ASSUME NEW k \in R PROVE k \in A
    <3>1. ByteOf(b * ByteBits + k) = b /\ (b * ByteBits + k) % ByteBits = k
      BY BitOfByte
    <3>2. b * ByteBits + k \in {j \in start .. end - 1 : ByteOf(j) = b}
      BY <3>1
    <3> QED BY <3>1, <3>2
  <2>3. Added(b, start, end) = A
    BY <1>1 DEF Added
  <2> HIDE DEF A, R
  <2>4. A = R
    BY <2>1, <2>2
  <2> QED BY <2>3, <2>4 DEF R
<1>2. CASE ~ (end - start <= ByteBits)
  <2> DEFINE sb == ByteOf(start)
             sr == start % ByteBits
             eb == ByteOf(end - 1)
             er == (end - 1) % ByteBits
             B  == ByteBits
  <2>1. sb \in Nat /\ sr \in 0 .. B - 1 /\ start = sb * B + sr
    BY ByteAndBit
  <2>2. eb \in Nat /\ er \in 0 .. B - 1 /\ end - 1 = eb * B + er
    <3>1. end - 1 \in Nat
      OBVIOUS
    <3> QED BY <3>1, ByteAndBit
  <2>3. EndValue(end % B) = 0 .. er /\ StartValue(sr) = sr .. B - 1
    <3>1. end \in Nat \ {0}
      OBVIOUS
    <3> QED BY <3>1, EndValueIs DEF StartValue
  <2>4. Added(b, start, end) =
          IF b > sb /\ b < eb THEN 0 .. B - 1
          ELSE (IF b = sb THEN sr .. B - 1 ELSE {}) \cup (IF b = eb THEN 0 .. er ELSE {})
    BY <1>2, <2>3 DEF Added
  <2> HIDE DEF sb, sr, eb, er, B
  <2>5. B \in Nat \ {0} /\ end - 1 - start >= B
    BY <1>2 DEF B
  <2>6. sb * B \in Nat /\ eb * B \in Nat /\ b * B \in Nat
    BY <2>1, <2>2, <2>5
  <2>7. /\ b < sb => b * B + B <= sb * B
        /\ b > sb => sb * B + B <= b * B
        /\ b < eb => b * B + B <= eb * B
        /\ b > eb => eb * B + B <= b * B
        /\ eb < sb => eb * B + B <= sb * B
    BY <2>1, <2>2, <2>5, Multiples
  <2>8. sb < eb
    <3>1. ~ (eb < sb)
      BY <2>1, <2>2, <2>5, <2>6, <2>7
    <3>2. eb # sb
      BY <2>1, <2>2, <2>5, <2>6
    <3> QED BY <2>1, <2>2, <3>1, <3>2
  <2>9. R = {k \in 0 .. B - 1 : b * B + k \in start .. end - 1}
    BY DEF B
  <2>10. ASSUME NEW k \in 0 .. B - 1
         PROVE  b * B + k \in start .. end - 1 <=> k \in Added(b, start, end)
    <3>1. CASE b < sb
      <4>1. Added(b, start, end) = {}
        BY <2>1, <2>2, <2>4, <2>8, <3>1
      <4>2. b * B + k < start
        BY <2>1, <2>5, <2>6, <2>7, <3>1
      <4> QED BY <2>5, <2>6, <4>1, <4>2
    <3>2. CASE b = sb
      <4>0. ~ (b > sb /\ b < eb) /\ b = sb /\ b # eb
        BY <2>1, <2>2, <2>8, <3>2
      <4>1. Added(b, start, end) = sr .. B - 1
        BY ONLY <2>4, <4>0
      <4>2. b * B + k <= end - 1
        BY <2>1, <2>2, <2>5, <2>6, <2>7, <2>8, <3>2
      <4>3. b * B + k >= start <=> k >= sr
        BY <2>1, <2>5, <2>6, <3>2
      <4> QED BY <2>1, <2>5, <2>6, <4>1, <4>2, <4>3
    <3>3. CASE b > sb /\ b < eb
      <4>1. Added(b, start, end) = 0 .. B - 1
        BY <2>4, <3>3
      <4>2. b * B + k <= end - 1 /\ b * B + k >= start
        BY <2>1, <2>2, <2>5, <2>6, <2>7, <3>3
      <4> QED BY <2>5, <2>6, <4>1, <4>2
    <3>4. CASE b = eb
      <4>0. ~ (b > sb /\ b < eb) /\ b # sb /\ b = eb
        BY <2>1, <2>2, <2>8, <3>4
      <4>1. Added(b, start, end) = 0 .. er
        BY ONLY <2>4, <4>0
      <4>2. b * B + k >= start
        BY <2>1, <2>2, <2>5, <2>6, <2>7, <2>8, <3>4
      <4>3. b * B + k <= end - 1 <=> k <= er
        BY <2>2, <2>5, <2>6, <3>4
      <4> QED BY <2>2, <2>5, <2>6, <4>1, <4>2, <4>3
    <3>5. CASE b > eb
      <4>1. Added(b, start, end) = {}
        BY <2>1, <2>2, <2>4, <2>8, <3>5
      <4>2. b * B + k > end - 1
        BY <2>2, <2>5, <2>6, <2>7, <3>5
      <4> QED BY <2>5, <2>6, <4>1, <4>2
    <3> QED BY <2>1, <2>2, <3>1, <3>2, <3>3, <3>4, <3>5
  <2>11. Added(b, start, end) \subseteq 0 .. B - 1
    BY <2>1, <2>2, <2>4, <2>5
  <2>12. Added(b, start, end) = R
    <3> HIDE DEF R
    <3>1. \A k : k \in Added(b, start, end) <=> k \in R
      BY <2>9, <2>10, <2>11
    <3> QED BY <3>1
  <2> QED BY <2>12
<1> QED BY <1>1, <1>2

\* RSMBLY_BITMASK_MARK adds the bytes of a fragment to those read before.
LEMMA MarkExact ==
  ASSUME ByteBits \in Nat \ {0}, NEW n \in Nat \ {0}, NEW F, NEW start \in Nat, NEW end \in Nat,
         start < end
  PROVE  RSMBLY_BITMASK_MARK(MaskOf(F, n), start, end) = MaskOf(F \cup (start .. end - 1), n)
<1> DEFINE D == 0 .. ByteOf(n + ByteBits - 1) - 1
           Bits(b, G) == {k \in 0 .. ByteBits - 1 : b * ByteBits + k \in G}
           mask == MaskOf(F, n)
           new  == RSMBLY_BITMASK_MARK(mask, start, end)
           goal == MaskOf(F \cup (start .. end - 1), n)
<1>1. /\ mask = [b \in D |-> Bits(b, F)] /\ DOMAIN mask = D
      /\ goal = [b \in D |-> Bits(b, F \cup (start .. end - 1))]
  BY DEF MaskOf
<1>2. D \subseteq Nat
  BY LastByte, ByteAndBit
<1>3. new = [b \in D |->
        IF end - start <= ByteBits
        THEN mask[b] \cup {i % ByteBits : i \in {j \in start .. end - 1 : ByteOf(j) = b}}
        ELSE IF b > ByteOf(start) /\ b < ByteOf(end - 1) THEN 0 .. ByteBits - 1
        ELSE mask[b] \cup (IF b = ByteOf(start) THEN StartValue(start % ByteBits) ELSE {})
                     \cup (IF b = ByteOf(end - 1) THEN EndValue(end % ByteBits) ELSE {})]
  BY <1>1 DEF RSMBLY_BITMASK_MARK
<1> HIDE DEF mask, goal, D
<1>4. ASSUME NEW b \in D PROVE new[b] = goal[b]
  <2>1. mask[b] = Bits(b, F) /\ goal[b] = Bits(b, F \cup (start .. end - 1))
    BY <1>1
  <2>2. Bits(b, F) \subseteq 0 .. ByteBits - 1
    OBVIOUS
  <2>3. new[b] = IF end - start <= ByteBits
        THEN mask[b] \cup {i % ByteBits : i \in {j \in start .. end - 1 : ByteOf(j) = b}}
        ELSE IF b > ByteOf(start) /\ b < ByteOf(end - 1) THEN 0 .. ByteBits - 1
        ELSE mask[b] \cup (IF b = ByteOf(start) THEN StartValue(start % ByteBits) ELSE {})
                     \cup (IF b = ByteOf(end - 1) THEN EndValue(end % ByteBits) ELSE {})
    BY <1>3
  <2> HIDE DEF Bits, new
  <2>4. new[b] = Bits(b, F) \cup Added(b, start, end)
    BY ONLY <2>1, <2>2, <2>3 DEF Added
  <2>5. Added(b, start, end) = Bits(b, start .. end - 1)
    BY <1>2, AddedExact DEF Bits
  <2>6. Bits(b, F \cup (start .. end - 1)) = Bits(b, F) \cup Bits(b, start .. end - 1)
    BY DEF Bits
  <2> QED BY <2>1, <2>4, <2>5, <2>6
<1>5. goal = [b \in D |-> goal[b]] /\ new = [b \in D |-> new[b]]
  BY <1>1, <1>3
<1> HIDE DEF new
<1>6. new = goal
  BY <1>4, <1>5
<1> QED BY <1>6 DEF new, goal, mask

\* RSMBLY_BITMASK_IS_COMPLETE finds out whether a byte is missing.
LEMMA CompleteExact ==
  ASSUME ByteBits \in Nat \ {0}, NEW n \in Nat \ {0}, NEW F, F \subseteq 0 .. n - 1
  PROVE  RSMBLY_BITMASK_IS_COMPLETE(MaskOf(F, n), n) <=> F = 0 .. n - 1
<1> DEFINE B  == ByteBits
           eb == ByteOf(n - 1)
           er == (n - 1) % ByteBits
           mask == MaskOf(F, n)
<1>1. eb \in Nat /\ er \in 0 .. B - 1 /\ n - 1 = eb * B + er
  <2>1. n - 1 \in Nat
    OBVIOUS
  <2> QED BY <2>1, ByteAndBit
<1>2. EndValue(n % ByteBits) = 0 .. er
  BY EndValueIs
<1>3. \A b \in 0 .. eb : mask[b] = {k \in 0 .. B - 1 : b * B + k \in F}
  BY LastByte DEF MaskOf
<1>4. RSMBLY_BITMASK_IS_COMPLETE(mask, n)
        <=> mask[eb] = 0 .. er /\ \A b \in 0 .. eb - 1 : mask[b] = 0 .. B - 1
  BY <1>2 DEF RSMBLY_BITMASK_IS_COMPLETE
<1>5. B \in Nat \ {0}
  OBVIOUS
<1>6. ASSUME NEW i \in 0 .. n - 1
      PROVE  /\ ByteOf(i) \in 0 .. eb /\ i % B \in 0 .. B - 1 /\ i = ByteOf(i) * B + (i % B)
             /\ ByteOf(i) = eb => i % B \in 0 .. er
  <2> DEFINE q == ByteOf(i)
             r == i % ByteBits
  <2>1. q \in Nat /\ r \in 0 .. B - 1 /\ i = q * B + r
    <3>1. i \in Nat
      OBVIOUS
    <3> QED BY <3>1, ByteAndBit
  <2> HIDE DEF q, r, eb, er, B
  <2>2. q * B \in Nat /\ eb * B \in Nat
    BY <1>1, <1>5, <2>1
  <2>3. q > eb => eb * B + B <= q * B
    BY <1>1, <1>5, <2>1, Multiples
  <2>4. ~ (q > eb)
    BY <1>1, <1>5, <2>1, <2>2, <2>3
  <2>5. q = eb => r \in 0 .. er
    BY <1>1, <1>5, <2>1, <2>2
  <2>6. q \in 0 .. eb
    BY <1>1, <2>1, <2>4
  <2> QED BY <2>1, <2>5, <2>6 DEF q, r, B
<1>7. ASSUME NEW b \in 0 .. eb, NEW k \in 0 .. B - 1
      PROVE  /\ b * B + k \in Nat
             /\ b < eb => b * B + k \in 0 .. n - 1
             /\ b = eb => (b * B + k \in 0 .. n - 1 <=> k \in 0 .. er)
  <2> HIDE DEF eb, er, B
  <2>1. b * B \in Nat /\ eb * B \in Nat
    BY <1>1, <1>5
  <2>2. b < eb => b * B + B <= eb * B
    BY <1>1, <1>5, Multiples
  <2> QED BY <1>1, <1>5, <2>1, <2>2
<1> HIDE DEF mask, eb, er, B
<1>8. ASSUME mask[eb] = 0 .. er, \A b \in 0 .. eb - 1 : mask[b] = 0 .. B - 1
      PROVE  F = 0 .. n - 1
  <2> SUFFICES ASSUME NEW i \in 0 .. n - 1 PROVE i \in F
    OBVIOUS
  <2>1. /\ ByteOf(i) \in 0 .. eb /\ i % B \in 0 .. B - 1 /\ i = ByteOf(i) * B + (i % B)
        /\ ByteOf(i) = eb => i % B \in 0 .. er
    BY <1>6
  <2>2. i % B \in mask[ByteOf(i)]
    <3>1. CASE ByteOf(i) = eb
      BY <1>8, <2>1, <3>1
    <3>2. CASE ByteOf(i) # eb
      <4>1. ByteOf(i) \in 0 .. eb - 1
        BY <1>1, <2>1, <3>2
      <4> QED BY <1>8, <2>1, <4>1
    <3> QED BY <3>1, <3>2
  <2> QED BY <1>3, <2>1, <2>2
<1>9. ASSUME F = 0 .. n - 1
      PROVE  mask[eb] = 0 .. er /\ \A b \in 0 .. eb - 1 : mask[b] = 0 .. B - 1
  <2>1. mask[eb] = 0 .. er
    <3>1. mask[eb] = {k \in 0 .. B - 1 : eb * B + k \in 0 .. n - 1}
      BY <1>1, <1>3, <1>9
    <3>2. \A k \in 0 .. B - 1 : eb * B + k \in 0 .. n - 1 <=> k \in 0 .. er
      BY <1>1, <1>7
    <3>3. 0 .. er \subseteq 0 .. B - 1
      BY <1>1, <1>5
    <3> QED BY <3>1, <3>2, <3>3
  <2>2. ASSUME NEW b \in 0 .. eb - 1 PROVE mask[b] = 0 .. B - 1
    <3>1. b \in 0 .. eb /\ b < eb
      BY <1>1
    <3>2. mask[b] = {k \in 0 .. B - 1 : b * B + k \in 0 .. n - 1}
      BY <1>3, <1>9, <3>1
    <3>3. \A k \in 0 .. B - 1 : b * B + k \in 0 .. n - 1
      BY <1>7, <3>1
    <3> QED BY <3>2, <3>3
  <2> QED BY <2>1, <2>2
<1> QED BY <1>4, <1>8, <1>9 DEF mask

(***************************************************************************)
(* The invariant                                                           *)
(***************************************************************************)
\* A buffered message came in one piece, or its bitmask is the set of the bytes read.
FragOK(frag) ==
  /\ frag.msg_len \in Nat /\ frag.filled \subseteq 0 .. frag.msg_len - 1
  /\ frag.complete <=> frag.filled = 0 .. frag.msg_len - 1
  /\ \/ frag.complete /\ frag.reassembly = << >>
     \/ frag.msg_len > 0 /\ frag.reassembly = MaskOf(frag.filled, frag.msg_len)

\* The queue q holds such messages, numbered from lo on and no further than MaxAhead.
QueueOK(q, lo) ==
  /\ DOMAIN q \subseteq lo .. lo + MaxAhead
  /\ \A s \in DOMAIN q : FragOK(q[s])

\* The message just handed over may have left a part of itself in the queue, which is
\* dropped only at the next look.
ReassemblyInv ==
  /\ handshake_read_seq \in Nat /\ hello_request \in BOOLEAN
  /\ \E lo \in {handshake_read_seq - 1, handshake_read_seq} : QueueOK(buffered_messages, lo)

\* What arrives: a part of a message, the Finished of the last handshake, or what a peer
\* sends that does not keep to the protocol.
LEMMA ArrivingCases ==
  ASSUME NEW f, f \in Arriving
  PROVE  (\E seq \in 0 .. Last : f \in PartsOf(seq)) \/ f = OldFinished \/ f \in BadFragments
<1>1. (\E seq \in Sent : f \in PartsOf(seq)) \/ f = OldFinished \/ f \in BadFragments
  BY DEF Arriving
<1>2. Sent \subseteq 0 .. Last
  BY DEF Sent
<1> QED BY <1>1, <1>2

\* What arrives has a header.
LEMMA ArrivingHeaders ==
  ASSUME ReassemblyAssumption, hello_request \in BOOLEAN
  PROVE  Arriving \subseteq Headers
<1>1. Len(MsgLens) \in Nat \ {0} /\ \A i \in 1 .. Len(MsgLens) : MsgLens[i] \in Nat
  BY DEF ReassemblyAssumption
<1>2. First \in 0 .. 1 /\ Last \in Nat /\ Last = First + Len(MsgLens) - 1
  BY <1>1 DEF First, Last
<1>3. ASSUME NEW seq \in 0 .. Last PROVE LenOf(seq) \in Nat /\ seq \in Nat
  <2>1. seq >= First => seq - First + 1 \in 1 .. Len(MsgLens)
    BY <1>1, <1>2
  <2> QED BY <1>1, <1>2, <2>1 DEF LenOf
<1>4. \A seq : TypeOf(seq) \in {"hello_request", "other", "finished"}
  BY DEF TypeOf
<1>5. ASSUME NEW seq \in 0 .. Last, NEW f \in PartsOf(seq) PROVE f \in Headers
  <2>1. PICK c \in Cuts(LenOf(seq)) :
          f = Fragment(FALSE, seq, TypeOf(seq), LenOf(seq), c[1], c[2])
    BY DEF PartsOf
  <2>2. c[1] \in Nat /\ c[2] \in Nat
    BY <1>3 DEF Cuts
  <2> QED BY <1>3, <1>4, <2>1, <2>2 DEF Fragment, Headers
<1>6. OldFinished \in Headers
  <2>1. Len(MsgLens) - 1 \in Nat /\ MsgLens[Len(MsgLens)] \in Nat
    BY <1>1
  <2> QED BY <2>1 DEF OldFinished, Fragment, Headers
<1>7. BadFragments \subseteq Headers
  BY DEF ReassemblyAssumption
<1> QED BY <1>5, <1>6, <1>7, ArrivingCases

\* dtls1_retrieve_buffered_fragment leaves a queue that begins with the next message.
LEMMA StaleGone ==
  ASSUME ReassemblyAssumption, ReassemblyInv
  PROVE  QueueOK(WithoutStale(buffered_messages), handshake_read_seq)
<1> DEFINE q == WithoutStale(buffered_messages)
<1>1. PICK lo \in {handshake_read_seq - 1, handshake_read_seq} : QueueOK(buffered_messages, lo)
  BY DEF ReassemblyInv
<1>2. /\ DOMAIN q = {n \in DOMAIN buffered_messages : n >= handshake_read_seq}
      /\ \A s \in DOMAIN q : q[s] = buffered_messages[s]
  BY DEF WithoutStale
<1>3. handshake_read_seq \in Nat /\ MaxAhead \in Nat
  BY DEF ReassemblyInv, ReassemblyAssumption
<1> HIDE DEF q
<1>4. DOMAIN q \subseteq handshake_read_seq .. handshake_read_seq + MaxAhead
  BY <1>1, <1>2, <1>3 DEF QueueOK
<1>5. \A s \in DOMAIN q : FragOK(q[s])
  BY <1>1, <1>2 DEF QueueOK
<1>6. QueueOK(q, handshake_read_seq)
  BY <1>4, <1>5 DEF QueueOK
<1> QED BY <1>6 DEF q

\* A message within reach joins the queue.
LEMMA PutOK ==
  ASSUME NEW q, NEW lo, QueueOK(q, lo), NEW seq \in lo .. lo + MaxAhead, NEW frag, FragOK(frag)
  PROVE  QueueOK(Put(q, seq, frag), lo)
BY DEF QueueOK, Put

\* A queue without some of its messages is a queue.
LEMMA TakeOK ==
  ASSUME NEW q, NEW lo, QueueOK(q, lo), NEW S
  PROVE  QueueOK([s \in DOMAIN q \ S |-> q[s]], lo)
BY DEF QueueOK

\* A step after which the queue begins with the next message still.
LEMMA QueueStep ==
  ASSUME handshake_read_seq \in Nat, hello_request \in BOOLEAN,
         UNCHANGED <<handshake_read_seq, hello_request>>,
         NEW q, QueueOK(q, handshake_read_seq), buffered_messages' = q
  PROVE  ReassemblyInv'
BY DEF ReassemblyInv

\* No message is buffered.
LEMMA EmptyQueue == ASSUME NEW lo PROVE QueueOK(NoMessages, lo)
BY DEF QueueOK, NoMessages

\* Handing a message over moves on to the next, or to the next handshake.
LEMMA HandOverStep ==
  ASSUME ReassemblyAssumption, ReassemblyInv, NEW frag, NEW q,
         QueueOK(q, handshake_read_seq), HandOver(frag, q)
  PROVE  ReassemblyInv'
<1>1. CASE handshake_read_seq' = 0 /\ buffered_messages' = NoMessages
           /\ hello_request' \in {FALSE, HelloRequests}
  <2>1. hello_request' \in BOOLEAN /\ handshake_read_seq' \in Nat
    BY <1>1 DEF ReassemblyAssumption
  <2>2. QueueOK(buffered_messages', handshake_read_seq')
    BY <1>1, EmptyQueue
  <2> QED BY <2>1, <2>2 DEF ReassemblyInv
<1>2. CASE handshake_read_seq' = handshake_read_seq + 1 /\ buffered_messages' = q
           /\ hello_request' = hello_request
  <2>1. /\ handshake_read_seq' \in Nat /\ hello_request' \in BOOLEAN
        /\ handshake_read_seq' - 1 = handshake_read_seq
    BY <1>2 DEF ReassemblyInv
  <2>2. QueueOK(buffered_messages', handshake_read_seq' - 1)
    BY <1>2, <2>1
  <2> QED BY <2>1, <2>2 DEF ReassemblyInv
<1> QED BY <1>1, <1>2 DEF HandOver, peer

\* A fragment read into its place: the bitmask says so, and says when it was the last.
LEMMA ReassembleStep ==
  ASSUME ReassemblyAssumption, ReassemblyInv, NEW f \in Headers, Reassemble(f)
  PROVE  ReassemblyInv'
<1> DEFINE q    == WithoutStale(buffered_messages)
           frag == Begun(q, f)
           start == f.frag_off
           end   == f.frag_off + f.frag_len
           mask == RSMBLY_BITMASK_MARK(frag.reassembly, start, end)
           n    == f.msg_len
           filled == frag.filled \cup (start .. end - 1)
           new  == Filled(frag, f)
<1>1. /\ f.seq \in Nat /\ n \in Nat /\ f.frag_off \in Nat /\ f.frag_len \in Nat
      /\ ByteBits \in Nat \ {0} /\ MaxAhead \in Nat /\ handshake_read_seq \in Nat
      /\ hello_request \in BOOLEAN
  BY DEF Headers, ReassemblyAssumption, ReassemblyInv
<1>2. /\ IsPart(f) /\ ~ Malformed(f) /\ f.frag_len > 0 /\ frag.msg_len = n /\ ~ frag.complete
      /\ buffered_messages' = Put(q, f.seq, new)
      /\ UNCHANGED <<handshake_read_seq, hello_request>>
  BY DEF Reassemble, peer
<1>3. n \in Nat \ {0} /\ start \in Nat /\ end \in Nat /\ start < end /\ end <= n
  BY <1>1, <1>2 DEF Malformed
<1>4. f.seq \in handshake_read_seq .. handshake_read_seq + MaxAhead
  BY <1>1, <1>2 DEF IsPart, InSequence, Dropped
<1>5. QueueOK(q, handshake_read_seq)
  BY StaleGone
<1>6. frag.filled \subseteq 0 .. n - 1 /\ frag.reassembly = MaskOf(frag.filled, n)
  <2>1. CASE f.seq \in DOMAIN q
    <3>1. FragOK(frag)
      BY <1>5, <2>1 DEF QueueOK, Begun
    <3> HIDE DEF frag, n
    <3> QED BY <1>2, <3>1 DEF FragOK
  <2>2. CASE f.seq \notin DOMAIN q
    <3>1. frag.filled = {} /\ frag.reassembly = EmptyMask(n)
      BY <2>2 DEF Begun, Frag
    <3>2. EmptyMask(n) = MaskOf({}, n)
      BY DEF EmptyMask, MaskOf
    <3> HIDE DEF frag, n
    <3> QED BY <3>1, <3>2
  <2> QED BY <2>1, <2>2
<1>7. /\ new.msg_len = frag.msg_len /\ new.complete = RSMBLY_BITMASK_IS_COMPLETE(mask, n)
      /\ new.reassembly = mask /\ new.filled = filled
  BY DEF Filled, Frag
<1> HIDE DEF q, frag, start, end, n, new
<1>8. mask = MaskOf(filled, n)
  <2>1. \A F : RSMBLY_BITMASK_MARK(MaskOf(F, n), start, end) = MaskOf(F \cup (start .. end - 1), n)
    BY ONLY <1>1, <1>3, MarkExact
  <2> QED BY ONLY <1>6, <2>1
<1>9. filled \subseteq 0 .. n - 1
  BY <1>3, <1>6
<1> HIDE DEF filled, mask
<1>10. RSMBLY_BITMASK_IS_COMPLETE(mask, n) <=> filled = 0 .. n - 1
  BY <1>1, <1>3, <1>8, <1>9, CompleteExact
<1>11. FragOK(new)
  <2>1. new.msg_len > 0 /\ new.msg_len \in Nat /\ new.msg_len = n
    BY <1>2, <1>3, <1>7
  <2> QED BY <1>7, <1>8, <1>9, <1>10, <2>1 DEF FragOK
<1>12. QueueOK(Put(q, f.seq, new), handshake_read_seq)
  BY <1>4, <1>5, <1>11, PutOK
<1> QED BY <1>1, <1>2, <1>12, QueueStep

\* A message that comes in one piece is complete.
LEMMA BufferWholeStep ==
  ASSUME ReassemblyAssumption, ReassemblyInv, NEW f \in Headers, BufferWhole(f)
  PROVE  ReassemblyInv'
<1> DEFINE q   == WithoutStale(buffered_messages)
           new == Frag(f, TRUE, << >>, 0 .. f.msg_len - 1)
<1>1. /\ f.seq \in Nat /\ f.msg_len \in Nat /\ MaxAhead \in Nat /\ handshake_read_seq \in Nat
      /\ hello_request \in BOOLEAN
  BY DEF Headers, ReassemblyAssumption, ReassemblyInv
<1>2. /\ ~ Dropped(f) /\ buffered_messages' = Put(q, f.seq, new)
      /\ UNCHANGED <<handshake_read_seq, hello_request>>
  BY DEF BufferWhole, peer
<1>3. f.seq \in handshake_read_seq .. handshake_read_seq + MaxAhead
  BY <1>1, <1>2 DEF Dropped
<1>4. QueueOK(q, handshake_read_seq)
  BY StaleGone
<1>5. FragOK(new)
  BY <1>1 DEF FragOK, Frag
<1> HIDE DEF q, new
<1>6. QueueOK(Put(q, f.seq, new), handshake_read_seq)
  BY <1>3, <1>4, <1>5, PutOK
<1> QED BY <1>1, <1>2, <1>6, QueueStep

\* Dropping what is stale keeps the invariant.
LEMMA IgnoreStep ==
  ASSUME ReassemblyAssumption, ReassemblyInv, UNCHANGED <<handshake_read_seq, hello_request>>,
         buffered_messages' = WithoutStale(buffered_messages)
  PROVE  ReassemblyInv'
BY StaleGone, QueueStep DEF ReassemblyInv

\* Every step keeps ReassemblyInv.
LEMMA ReassemblyStep == ReassemblyAssumption /\ ReassemblyInv /\ [Next]_vars => ReassemblyInv'
<1> SUFFICES ASSUME ReassemblyAssumption, ReassemblyInv, [Next]_vars PROVE ReassemblyInv'
  OBVIOUS
<1> DEFINE q == WithoutStale(buffered_messages)
<1>1. QueueOK(q, handshake_read_seq)
  BY StaleGone
<1>2. Arriving \subseteq Headers
  BY ArrivingHeaders DEF ReassemblyInv
<1>3. CASE RetrieveBufferedFragment
  <2>1. HandOver(q[handshake_read_seq], [s \in DOMAIN q \ {handshake_read_seq} |-> q[s]])
    BY <1>3 DEF RetrieveBufferedFragment
  <2>2. QueueOK([s \in DOMAIN q \ {handshake_read_seq} |-> q[s]], handshake_read_seq)
    BY <1>1, TakeOK
  <2> HIDE DEF q
  <2> QED BY <2>1, <2>2, HandOverStep
<1>4. CASE ReadChangeCipherSpec
  <2>1. UNCHANGED <<handshake_read_seq, hello_request>>
    BY <1>4 DEF ReadChangeCipherSpec, peer
  <2>2. buffered_messages' = NoMessages \/ buffered_messages' = q
    BY <1>4 DEF ReadChangeCipherSpec
  <2>3. QueueOK(buffered_messages', handshake_read_seq)
    BY <1>1, <2>2, EmptyQueue
  <2> QED BY <2>1, <2>3, QueueStep DEF ReassemblyInv
<1>5. CASE BeginHandshake \/ UNCHANGED vars
  BY <1>5 DEF BeginHandshake, vars, peer, ReassemblyInv
<1>6. CASE \E f \in Arriving : DropOutOfSeq(f) \/ DropRepeated(f) \/ RefuseFragment(f)
                               \/ IgnoreHelloRequest(f)
  BY <1>6, IgnoreStep DEF DropOutOfSeq, DropRepeated, RefuseFragment, IgnoreHelloRequest, Ignore,
                          peer
<1>7. CASE \E f \in Arriving : BufferWhole(f)
  BY <1>2, <1>7, BufferWholeStep
<1>8. CASE \E f \in Arriving : Reassemble(f)
  BY <1>2, <1>8, ReassembleStep
<1>9. CASE \E f \in Arriving : ReadMessage(f)
  <2>1. PICK f \in Arriving : ReadMessage(f)
    BY <1>9
  <2>2. CASE Malformed(f) \/ f.msg_len > MaxMsgLen
    BY <2>1, <2>2, IgnoreStep DEF ReadMessage, peer
  <2>3. CASE ~ (Malformed(f) \/ f.msg_len > MaxMsgLen)
    <3> DEFINE frag == Frag(f, TRUE, << >>, f.frag_off .. f.frag_off + f.frag_len - 1)
    <3>1. HandOver(frag, q)
      BY <2>1, <2>3 DEF ReadMessage
    <3> HIDE DEF frag, q
    <3> QED BY <1>1, <3>1, HandOverStep
  <2> QED BY <2>2, <2>3
<1> QED BY <1>3, <1>4, <1>5, <1>6, <1>7, <1>8, <1>9 DEF Next

(***************************************************************************)
(* The theorems                                                            *)
(***************************************************************************)
\* The queue holds, in reach of the next message, whole messages and exact bitmasks.
THEOREM ReassemblyInvariant == Spec => []ReassemblyInv
<1>1. Init => ReassemblyInv
  <2> SUFFICES ASSUME Init PROVE ReassemblyInv
    OBVIOUS
  <2>1. QueueOK(buffered_messages, handshake_read_seq)
    BY EmptyQueue DEF Init
  <2> QED BY <2>1 DEF Init, ReassemblyInv
<1>2. ReassemblyInv /\ [Next]_vars => ReassemblyInv'
  BY ReassemblyStep, ReassemblyAssumption
<1> QED BY <1>1, <1>2, PTL DEF Spec

\* RSMBLY_BITMASK_MARK and RSMBLY_BITMASK_IS_COMPLETE keep the account of the bytes read
\* exactly, for messages of every length and fragments of every size, order and number.
THEOREM MasksAreExact == Spec => []MaskExact
<1>1. ReassemblyInv => MaskExact
  <2> SUFFICES ASSUME ReassemblyInv, NEW s \in DOMAIN buffered_messages
               PROVE  LET frag == buffered_messages[s]
                      IN  /\ frag.complete <=> frag.filled = 0 .. frag.msg_len - 1
                          /\ frag.reassembly # << >> =>
                               \A i \in 0 .. frag.msg_len - 1 :
                                 i \in frag.filled <=>
                                   (i % ByteBits) \in frag.reassembly[ByteOf(i)]
    BY DEF MaskExact
  <2> DEFINE frag == buffered_messages[s]
             n    == frag.msg_len
  <2>1. FragOK(frag)
    BY DEF ReassemblyInv, QueueOK
  <2> HIDE DEF frag
  <2>2. ASSUME frag.reassembly # << >>, NEW i \in 0 .. n - 1
        PROVE  i \in frag.filled <=> (i % ByteBits) \in frag.reassembly[ByteOf(i)]
    <3>1. n \in Nat \ {0} /\ frag.reassembly = MaskOf(frag.filled, n) /\ ByteBits \in Nat \ {0}
      BY <2>1, <2>2, ReassemblyAssumption DEF FragOK, ReassemblyAssumption
    <3> HIDE DEF n
    <3>2. i \in Nat /\ n - 1 \in Nat
      BY <3>1
    <3>3. /\ ByteOf(i) \in Nat /\ i % ByteBits \in 0 .. ByteBits - 1
          /\ i = ByteOf(i) * ByteBits + (i % ByteBits)
      BY <3>1, <3>2, ByteAndBit
    <3>4. /\ ByteOf(n - 1) \in Nat /\ (n - 1) % ByteBits \in 0 .. ByteBits - 1
          /\ n - 1 = ByteOf(n - 1) * ByteBits + ((n - 1) % ByteBits)
      BY <3>1, <3>2, ByteAndBit
    <3>5. ByteOf(i) <= ByteOf(n - 1)
      <4> DEFINE q == ByteOf(i)
                 r == i % ByteBits
                 eb == ByteOf(n - 1)
                 er == (n - 1) % ByteBits
      <4> HIDE DEF q, r, eb, er
      <4>1. q > eb => eb * ByteBits + ByteBits <= q * ByteBits
        BY <3>1, <3>3, <3>4, Multiples DEF q, eb
      <4>2. q * ByteBits \in Nat /\ eb * ByteBits \in Nat /\ q \in Nat /\ eb \in Nat
        BY <3>1, <3>3, <3>4 DEF q, eb
      <4>3. r \in 0 .. ByteBits - 1 /\ er \in 0 .. ByteBits - 1 /\ i = q * ByteBits + r
            /\ n - 1 = eb * ByteBits + er /\ i <= n - 1
        BY <3>1, <3>3, <3>4 DEF q, r, eb, er
      <4>4. ~ (q > eb)
        BY <3>1, <4>1, <4>2, <4>3
      <4> QED BY <4>2, <4>4 DEF q, eb
    <3>6. ByteOf(i) \in 0 .. ByteOf(n + ByteBits - 1) - 1
      BY <3>1, <3>3, <3>4, <3>5, LastByte
    <3>7. frag.reassembly[ByteOf(i)] =
            {k \in 0 .. ByteBits - 1 : ByteOf(i) * ByteBits + k \in frag.filled}
      BY <3>1, <3>6 DEF MaskOf
    <3> QED BY <3>3, <3>7
  <2>3. frag.complete <=> frag.filled = 0 .. n - 1
    BY <2>1 DEF FragOK
  <2> QED BY <2>2, <2>3 DEF frag
<1> QED BY <1>1, ReassemblyInvariant, PTL

\* However many fragments come, and in whatever order, buffered_messages holds no message
\* beyond MaxAhead and no more than MaxAhead + 1 of them.
THEOREM BufferIsBounded == Spec => []BufferBounded
<1>1. ReassemblyInv => BufferBounded
  <2> SUFFICES ASSUME ReassemblyInv PROVE BufferBounded
    OBVIOUS
  <2>1. PICK lo \in {handshake_read_seq - 1, handshake_read_seq} : QueueOK(buffered_messages, lo)
    BY DEF ReassemblyInv
  <2>2. /\ lo \in Int /\ MaxAhead \in Nat /\ lo + MaxAhead <= handshake_read_seq + MaxAhead
        /\ handshake_read_seq \in Nat /\ lo + MaxAhead \in Int
    BY ReassemblyAssumption DEF ReassemblyInv, ReassemblyAssumption
  <2>3. DOMAIN buffered_messages \subseteq lo .. lo + MaxAhead
    BY <2>1 DEF QueueOK
  <2>4. /\ IsFiniteSet(lo .. lo + MaxAhead)
        /\ Cardinality(lo .. lo + MaxAhead) = MaxAhead + 1
    BY <2>2, FS_Interval
  <2>5. Cardinality(DOMAIN buffered_messages) <= MaxAhead + 1
    BY <2>3, <2>4, FS_Subset
  <2>6. \A s \in DOMAIN buffered_messages : s <= handshake_read_seq + MaxAhead
    BY <2>2, <2>3
  <2> QED BY <2>5, <2>6 DEF BufferBounded
<1> QED BY <1>1, ReassemblyInvariant, PTL

\* A peer that sends no empty fragment of a message that is not empty, be its headers
\* otherwise what they may.
NoEmptyFragments ==
  ~ EmptyFragments /\ \A f \in BadFragments : f.frag_len > 0 \/ f.msg_len = 0

\* No byte of a message handed to the state machine is left over from what the buffer held
\* before, as long as the peer sends no empty fragments of messages that are not empty.
\* Those dtls_get_reassembled_message takes for the whole message.
THEOREM MessagesAreWhole == ASSUME NoEmptyFragments PROVE Spec => []DeliveredWhole
<1>1. Init => DeliveredWhole
  BY DEF Init, DeliveredWhole
<1>2. ReassemblyInv /\ DeliveredWhole /\ [Next]_vars => DeliveredWhole'
  <2> SUFFICES ASSUME ReassemblyInv, DeliveredWhole, [Next]_vars PROVE DeliveredWhole'
    OBVIOUS
  <2>1. Arriving \subseteq Headers
    BY ArrivingHeaders, ReassemblyAssumption DEF ReassemblyInv
  <2>2. CASE RetrieveBufferedFragment
    <3> DEFINE q == WithoutStale(buffered_messages)
               frag == q[handshake_read_seq]
    <3>1. message' = frag /\ IsNextBuffered(q)
      BY <2>2 DEF RetrieveBufferedFragment, HandOver
    <3>2. handshake_read_seq \in DOMAIN q /\ frag.complete
      BY <3>1 DEF IsNextBuffered
    <3>3. FragOK(frag)
      BY <3>2, StaleGone, ReassemblyAssumption DEF QueueOK
    <3> HIDE DEF frag
    <3> QED BY <3>1, <3>2, <3>3 DEF FragOK, DeliveredWhole
  <2>3. CASE \E f \in Arriving : ReadMessage(f)
    <3>1. PICK f \in Arriving : ReadMessage(f)
      BY <2>3
    <3>2. f.frag_len \in Nat /\ f.frag_off \in Nat /\ f.msg_len \in Nat
      BY <2>1 DEF Headers
    <3>3. f.frag_len > 0 \/ f.msg_len = 0
      <4>1. CASE \E seq \in 0 .. Last : f \in PartsOf(seq)
        <5>3. PICK seq \in 0 .. Last : f \in PartsOf(seq)
          BY <4>1
        <5>1. PICK c \in Cuts(LenOf(seq)) :
                f = Fragment(FALSE, seq, TypeOf(seq), LenOf(seq), c[1], c[2])
          BY <5>3 DEF PartsOf
        <5>2. c[2] > 0 \/ LenOf(seq) = 0
          BY DEF Cuts, NoEmptyFragments
        <5> QED BY <5>1, <5>2 DEF Fragment
      <4>2. CASE f = OldFinished
        <5>1. f.frag_len = f.msg_len
          BY <4>2 DEF OldFinished, Fragment
        <5> QED BY <3>2, <5>1
      <4>3. CASE f \in BadFragments
        BY <4>3 DEF NoEmptyFragments
      <4> QED BY <4>1, <4>2, <4>3, ArrivingCases
    <3>4. CASE Malformed(f) \/ f.msg_len > MaxMsgLen
      BY <3>1, <3>4 DEF ReadMessage, DeliveredWhole
    <3>5. CASE ~ (Malformed(f) \/ f.msg_len > MaxMsgLen)
      <4> DEFINE filled == f.frag_off .. f.frag_off + f.frag_len - 1
                 frag == Frag(f, TRUE, << >>, filled)
      <4>1. message' = frag /\ ~ (f.frag_len > 0 /\ f.frag_len < f.msg_len)
        BY <3>1, <3>5 DEF ReadMessage, HandOver
      <4>2. f.frag_off = 0 /\ f.frag_len = f.msg_len
        BY <3>2, <3>3, <3>5, <4>1 DEF Malformed
      <4>3. filled = 0 .. f.msg_len - 1
        BY <3>2, <4>2
      <4> HIDE DEF filled
      <4>4. frag.filled = filled /\ frag.msg_len = f.msg_len
        BY DEF Frag
      <4> HIDE DEF frag
      <4> QED BY <4>1, <4>3, <4>4 DEF DeliveredWhole
    <3> QED BY <3>4, <3>5
  <2>4. CASE UNCHANGED message
    BY <2>4 DEF DeliveredWhole
  <2> QED BY <2>2, <2>3, <2>4 DEF Next, vars, ReadChangeCipherSpec, BeginHandshake, DropOutOfSeq,
        BufferWhole, Reassemble, DropRepeated, RefuseFragment, IgnoreHelloRequest, Ignore
<1> QED BY <1>1, <1>2, ReassemblyInvariant, PTL DEF Spec
=============================================================================
