\* Two-byte type and length fields (scaled from 4 and 8), two frames with
\* payloads of 2 and 0 bytes; every split of the stream into arrivals.
\* The receiver may end blocked in read() on a sender that stays open and
\* sends nothing more, a state the program really stops in; a constructed
\* channel's parse likewise takes no further step.
\* The configuration strings split() parses: every string of up to six
\* characters over ' ', '=', 'a' and 'b' (5461 strings).
CONSTANTS
  TypeBytes = 2
  LenBytes = 2
  Lens <- MCLens
  Letters <- MCLetters
  MaxConfigLen = 6
SPECIFICATION MCSpec
CHECK_DEADLOCK FALSE
INVARIANT TypeOK
INVARIANT FramesIntact
INVARIANT SplitAgreesWithReference
