--------------------------- MODULE MCDtlsReassembly ---------------------------
EXTENDS DtlsReassembly

\* A message of three bytes of the bitmask, and a Finished.
MCMsgLens == <<3, 5, 2>>

\* Fragments that reach beyond the message, or contradict the others in its length.
MCBadFragments ==
  { Fragment(FALSE, 1, "other", 5, 4, 2), Fragment(FALSE, 1, "other", 4, 0, 2),
    Fragment(FALSE, 0, "other", 7, 0, 7), Fragment(FALSE, 2, "other", 7, 0, 7) }
NoFragments == {}
=============================================================================
