-------------------------- MODULE DtlsReplayWindow --------------------------
(***************************************************************************)
(* The DTLS anti-replay window (ssl/record/dtls1_bitmap.c): a bit map of   *)
(* the records seen among the last MapBits sequence numbers, and the       *)
(* greatest sequence number seen.  Bit i of the map stands for the record  *)
(* max_seq_num - i; the C word is the set of the positions of its 1 bits.  *)
(***************************************************************************)
EXTENDS Integers

CONSTANTS
  MapBits,      \* sizeof(bitmap->map) * 8, the width of unsigned long
  SatLimit,     \* 128, where satsub64be saturates
  Half          \* 2^63: uint64_t holds 0..2*Half-1, int64_t -Half..Half-1

ASSUME WindowAssumption ==
  /\ MapBits \in Nat \ {0} /\ SatLimit \in Nat /\ Half \in Nat
  /\ MapBits <= SatLimit      \* a saturated distance lies outside the map
  /\ SatLimit < Half

SeqNums == 0 .. (2 * Half - 1)

Bitmap == [map : SUBSET (0 .. MapBits - 1), max_seq_num : SeqNums]

\* The bitmap after the memset of DTLS_RECORD_LAYER_clear and of
\* dtls1_reset_seq_numbers.
ZeroBitmap == [map |-> {}, max_seq_num |-> 0]

\* l1 - l2 in uint64_t, read back as int64_t.
WrappedDifference(l1, l2) ==
  LET d == IF l1 >= l2 THEN l1 - l2 ELSE l1 - l2 + 2 * Half
  IN  IF d >= Half THEN d - 2 * Half ELSE d

satsub64be(l1, l2) ==
  LET ret == WrappedDifference(l1, l2)
  IN  CASE l1 > l2 /\ ret < 0 -> SatLimit
        [] l2 > l1 /\ ret > 0 -> - SatLimit
        [] OTHER -> CASE ret > SatLimit   -> SatLimit
                      [] ret < - SatLimit -> - SatLimit
                      [] OTHER            -> ret

\* TRUE: the record is new or inside the window and not yet seen.
dtls1_record_replay_check(bitmap, seq) ==
  LET cmp == satsub64be(seq, bitmap.max_seq_num)
  IN  cmp > 0 \/ (- cmp < MapBits /\ - cmp \notin bitmap.map)

\* Marks seq as seen; a greater number than any before moves the window.
dtls1_record_bitmap_update(bitmap, seq) ==
  LET cmp == satsub64be(seq, bitmap.max_seq_num)
      shifted == {i \in 0 .. MapBits - 1 : i - cmp \in bitmap.map}
  IN  IF cmp > 0
      THEN [map |-> IF cmp < MapBits THEN shifted \cup {0} ELSE {0},
            max_seq_num |-> seq]
      ELSE [map |-> IF - cmp < MapBits THEN bitmap.map \cup {- cmp} ELSE bitmap.map,
            max_seq_num |-> bitmap.max_seq_num]

\* What the window is for: it refuses every number of seen.
Blocks(bitmap, seen) ==
  \A n \in seen : /\ n <= bitmap.max_seq_num
                  /\ bitmap.max_seq_num - n < MapBits
                       => bitmap.max_seq_num - n \in bitmap.map
=============================================================================
