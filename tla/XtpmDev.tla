------------------------------ MODULE XtpmDev ------------------------------
(***************************************************************************)
(* The Cray XT power-management device plugin (src/plugins/pwr_xtpmdev.c): *)
(* open, read and close of a device descriptor, and the counter-file       *)
(* parser xtpmdev_read that every read goes through.                       *)
(*                                                                         *)
(* The kernel publishes each counter of /sys/cray/pm_counters as ASCII     *)
(* text: the decimal value, a blank and a unit ("1234 W"); a file of Bare  *)
(* is published without the unit and blank.  Files are byte sequences and  *)
(* xtpmdev_read is the byte loop of the code, so the parse is checked      *)
(* against the value the kernel formatted.  A loop that runs past its      *)
(* 20-byte buffer (BufLen) is undefined behaviour: the model records it    *)
(* and the process is taken to have crashed.                               *)
(***************************************************************************)
EXTENDS Naturals, Integers, Sequences, FiniteSetsExt

CONSTANTS
  Values,   \* counter values the kernel may publish
  BufLen,   \* sizeof strval (20 in the code)
  WBufLen,  \* sizeof strval of xtpmdev_write (20 in the code)
  Bare,     \* counter files published without " unit"
  Missing,  \* counter files absent on this platform
  ArraySize \* elements of the arrays given to readv and writev

Files == {"energy", "power", "power_cap", "generation"}
Attrs == {"energy", "power", "max_power", "other"}

\* the case labels of pwr_xtpmdev_read (:167-189) and their files
AttrFile == [energy |-> "energy", power |-> "power", max_power |-> "power_cap"]
Known    == DOMAIN AttrFile

ASSUME /\ Values \subseteq Nat
       /\ BufLen \in Nat \ {0}
       /\ WBufLen \in Nat \ {0}
       /\ Bare \subseteq Files /\ Missing \subseteq Files
       /\ ArraySize \in Nat \ {0}

Space == 32                       \* ' '
Unit  == 87                       \* 'W'
Digit(d) == 48 + d                \* '0' + d
IsDigit(b) == b \in 48 .. 57

\* the kernel's "%llu": the ASCII digits of v
RECURSIVE Format(_)
Format(v) == IF v < 10 THEN <<Digit(v)>> ELSE Format(v \div 10) \o <<Digit(v % 10)>>

\* the bytes of counter file f when it holds v
Content(f, v) == IF f \in Bare THEN Format(v) ELSE Format(v) \o <<Space, Unit>>

\* variant of AtofAcc: a digit's byte is taken as its value
RECURSIVE AtofAccByteCodes(_, _)
AtofAccByteCodes(s, acc) ==
  IF s = <<>> \/ ~IsDigit(Head(s)) THEN acc
  ELSE AtofAccByteCodes(Tail(s), acc * 10 + Head(s))

\* atof(strval): the value of the leading digits of a byte string
RECURSIVE AtofAcc(_, _)
AtofAcc(s, acc) ==
  IF s = <<>> \/ ~IsDigit(Head(s)) THEN acc
  ELSE AtofAcc(Tail(s), acc * 10 + (Head(s) - 48))
Atof(s) == AtofAcc(s, 0)

\* variant of Scan: atof is given strval + offset, the blank
RECURSIVE ScanAtOffset(_, _)
ScanAtOffset(c, off) ==
  IF off >= BufLen THEN [rc |-> "ub", val |-> 0]
  ELSE IF off < Len(c) /\ c[off + 1] = Space
    THEN [rc |-> "ok", val |-> Atof(SubSeq(c, off + 1, Len(c)))]
  ELSE ScanAtOffset(c, off + 1)

\* The loop of xtpmdev_read (:64-71) from offset off.  read(fd, strval +
\* offset, 1) stores the next byte; at end of file it returns 0, which is
\* not EOF (-1), so the loop goes on with strval[offset] still 0.  A blank
\* ends the loop with atof(strval); an offset that reaches BufLen writes
\* or reads past strval.
RECURSIVE Scan(_, _)
Scan(c, off) ==
  IF off >= BufLen THEN [rc |-> "ub", val |-> 0]
  ELSE IF off < Len(c) /\ c[off + 1] = Space
    THEN [rc |-> "ok", val |-> Atof(SubSeq(c, 1, off))]
  ELSE Scan(c, off + 1)

\* xtpmdev_read (:51-76) of counter file f holding v: "ok" (0), "fail"
\* (-1: open() fails for a missing file, :58-62) or "ub"
XtpmdevRead(f, v) ==
  IF f \in Missing THEN [rc |-> "fail", val |-> 0] ELSE Scan(Content(f, v), 0)

\* sprintf(strval, "%lf", val): the digits, '.' and six zeros
FormatLf(v) == Format(v) \o <<46, 48, 48, 48, 48, 48, 48>>

NoGen  == -1
NoCall == [op |-> "none"]

VARIABLES
  devState, \* the plugin device: "none", "ready" (init) or "final"
  pub,      \* pub[f]: the value the kernel currently publishes in file f
  fdOpen,   \* a pwr_xtpmfd_t is open
  fdGen,    \* its generation field
  last,     \* history: what the read or write call of the step just taken
            \* returned (NoCall after any other step)
  crashed   \* a parse ran past strval

vars == <<devState, pub, fdOpen, fdGen, last, crashed>>

-----------------------------------------------------------------------------
\* pwr_xtpmdev_init (:101-113) allocates the device and its zeroed private
\* data and always returns it; pwr_xtpmdev_final (:115-123) frees both.
\* An open descriptor keeps a pointer to the freed data, which no later
\* call on it reads.
DevInit ==
  /\ devState = "none"
  /\ devState' = "ready"
  /\ last' = NoCall
  /\ UNCHANGED <<pub, fdOpen, fdGen, crashed>>

DevFinal ==
  /\ ~crashed /\ devState = "ready"
  /\ devState' = "final"
  /\ last' = NoCall
  /\ UNCHANGED <<pub, fdOpen, fdGen, crashed>>

\* pwr_xtpmdev_open (:125-141): read the generation counter into the new
\* descriptor; NULL is returned when it cannot be read.
Open ==
  LET g == XtpmdevRead("generation", pub["generation"]) IN
  /\ ~crashed /\ ~fdOpen /\ devState = "ready"
  /\ IF g.rc = "ub" THEN crashed' = TRUE /\ UNCHANGED <<fdOpen, fdGen>>
     ELSE IF g.rc = "fail" THEN UNCHANGED <<fdOpen, fdGen, crashed>>
     ELSE fdOpen' = TRUE /\ fdGen' = g.val /\ UNCHANGED crashed
  /\ last' = NoCall
  /\ UNCHANGED <<devState, pub>>

\* pwr_xtpmdev_read (:154-206) with the descriptor's generation gen: a
\* value size other than sizeof(double) fails (:162-165); a known
\* attribute is parsed from its counter file, and a failed parse fails the
\* read (:167-185); any other attribute only draws a warning and leaves
\* the value alone (:186-188).  Then the generation counter is read: if
\* that fails the read still returns 0 (:193-196); a new generation
\* replaces the descriptor's (:197-200).  crash: a parse ran past strval.
ReadOutcome(attr, lenOk, gen) ==
  LET known == attr \in Known
      r == IF known THEN XtpmdevRead(AttrFile[attr], pub[AttrFile[attr]])
           ELSE [rc |-> "ok", val |-> 0]
      g == XtpmdevRead("generation", pub["generation"])
      out(crash, rc, written, gen2) ==
        [crash |-> crash, rc |-> rc, written |-> written, val |-> r.val,
         expect |-> IF known THEN pub[AttrFile[attr]] ELSE 0, gen |-> gen2]
  IN CASE ~lenOk        -> out(FALSE, -1, FALSE, gen)
       [] r.rc = "ub"   -> out(TRUE, -1, FALSE, gen)
       [] r.rc = "fail" -> out(FALSE, -1, FALSE, gen)
       [] g.rc = "ub"   -> out(TRUE, -1, FALSE, gen)
       [] OTHER         -> out(FALSE, 0, known,
                               IF g.rc = "ok" THEN g.val ELSE gen)

Read(attr, lenOk) ==
  LET o == ReadOutcome(attr, lenOk, fdGen) IN
  /\ ~crashed /\ fdOpen
  /\ IF o.crash
       THEN crashed' = TRUE /\ UNCHANGED <<fdGen, last>>
       ELSE /\ last' = [op |-> "read", attr |-> attr, rc |-> o.rc,
                        written |-> o.written, val |-> o.val,
                        expect |-> o.expect]
            /\ fdGen' = o.gen
            /\ UNCHANGED crashed
  /\ UNCHANGED <<devState, pub, fdOpen>>

\* pwr_xtpmdev_close (:143-152)
Close ==
  /\ ~crashed /\ fdOpen
  /\ fdOpen' = FALSE
  /\ fdGen' = NoGen
  /\ last' = NoCall
  /\ UNCHANGED <<devState, pub, crashed>>

\* pwr_xtpmdev_time (:257-265): the read of the energy counter
TimeRead == Read("energy", TRUE)

\* variant of ReadvFrom: the loop stops at the first element that fails
RECURSIVE ReadvStopAtFailure(_, _)
ReadvStopAtFailure(as, gen) ==
  IF as = <<>> THEN <<>>
  ELSE LET o == ReadOutcome(Head(as), TRUE, gen) IN
       <<o>> \o (IF o.crash \/ o.rc # 0 THEN <<>> ELSE ReadvStopAtFailure(Tail(as), o.gen))

\* the loop of pwr_xtpmdev_readv (:240-241): one pwr_xtpmdev_read per
\* element, each with sizeof(double), until the array ends or a parse
\* crashes the process
RECURSIVE ReadvFrom(_, _)
ReadvFrom(as, gen) ==
  IF as = <<>> THEN <<>>
  ELSE LET o == ReadOutcome(Head(as), TRUE, gen) IN
       <<o>> \o (IF o.crash THEN <<>> ELSE ReadvFrom(Tail(as), o.gen))

\* an element the loop never reached: status[] and values[] as the caller
\* left them
Untouched == [crash |-> FALSE, rc |-> 0, written |-> FALSE, val |-> 0,
              expect |-> 0, gen |-> NoGen]

\* pwr_xtpmdev_readv (:235-244): status[i] is the i-th read's result, and
\* readv itself returns 0.
ReadV(as) ==
  LET os  == ReadvFrom(as, fdGen)
      fin == os[Len(os)]
      el  == [i \in DOMAIN as |-> IF i <= Len(os) THEN os[i] ELSE Untouched]
  IN
  /\ ~crashed /\ fdOpen
  /\ IF fin.crash
       THEN crashed' = TRUE /\ UNCHANGED <<fdGen, last>>
       ELSE /\ last' = [op |-> "readv", attrs |-> as,
                        status  |-> [i \in DOMAIN as |-> el[i].rc],
                        written |-> [i \in DOMAIN as |-> el[i].written],
                        val     |-> [i \in DOMAIN as |-> el[i].val],
                        expect  |-> [i \in DOMAIN as |-> el[i].expect]]
            /\ fdGen' = fin.gen
            /\ UNCHANGED crashed
  /\ UNCHANGED <<devState, pub, fdOpen>>

\* xtpmdev_write (:78-99) of v to counter file f: open(O_WRONLY) fails for
\* a missing file (-1); sprintf(strval, "%lf") runs past strval when the
\* text and its NUL do not fit; write() fails when the kernel refuses
\* the text (accepted = FALSE), and succeeds otherwise.
XtpmdevWrite(f, v, accepted) ==
  CASE f \in Missing                  -> "fail"
    [] Len(FormatLf(v)) + 1 > WBufLen -> "ub"
    [] ~accepted                      -> "fail"
    [] OTHER                          -> "ok"

\* pwr_xtpmdev_write (:208-233): a value size other than sizeof(double)
\* fails; PWR_ATTR_MAX_POWER is written to power_cap, which the kernel
\* then publishes; any other attribute only draws a warning (:225-227)
\* and the write returns 0.
WriteOutcome(attr, v, lenOk, accepted) ==
  LET w == XtpmdevWrite("power_cap", v, accepted)
      out(crash, rc, applied) == [crash |-> crash, rc |-> rc, applied |-> applied]
  IN CASE ~lenOk                -> out(FALSE, -1, FALSE)
       [] attr # "max_power"    -> out(FALSE, 0, FALSE)
       [] w = "ub"              -> out(TRUE, -1, FALSE)
       [] w = "fail"            -> out(FALSE, -1, FALSE)
       [] OTHER                 -> out(FALSE, 0, TRUE)

Write(attr, v, lenOk, accepted) ==
  LET o == WriteOutcome(attr, v, lenOk, accepted) IN
  /\ ~crashed /\ fdOpen
  /\ IF o.crash
       THEN crashed' = TRUE /\ UNCHANGED <<pub, last>>
       ELSE /\ pub' = IF o.applied THEN [pub EXCEPT !["power_cap"] = v] ELSE pub
            /\ last' = [op |-> "write", attr |-> attr, rc |-> o.rc,
                        applied |-> o.applied]
            /\ UNCHANGED crashed
  /\ UNCHANGED <<devState, fdOpen, fdGen>>

\* variant of WritevFrom: every element is written from values[0]
RECURSIVE WritevFirstValue(_, _, _, _)
WritevFirstValue(as, vs, acc, cap) ==
  IF as = <<>> THEN [crash |-> FALSE, status |-> <<>>, cap |-> cap]
  ELSE LET o == WriteOutcome(Head(as), Head(vs), TRUE, Head(acc)) IN
       IF o.crash THEN [crash |-> TRUE, status |-> <<>>, cap |-> cap]
       ELSE LET rest == WritevFirstValue(Tail(as), vs, Tail(acc),
                                         IF o.applied THEN Head(vs) ELSE cap)
            IN [rest EXCEPT !.status = <<o.rc>> \o @]

\* the loop of pwr_xtpmdev_writev (:251-252): one pwr_xtpmdev_write of
\* values + i per element, in order; cap is the power_cap the kernel
\* publishes after the elements written so far
RECURSIVE WritevFrom(_, _, _, _)
WritevFrom(as, vs, acc, cap) ==
  IF as = <<>> THEN [crash |-> FALSE, status |-> <<>>, cap |-> cap]
  ELSE LET o == WriteOutcome(Head(as), Head(vs), TRUE, Head(acc)) IN
       IF o.crash THEN [crash |-> TRUE, status |-> <<>>, cap |-> cap]
       ELSE LET rest == WritevFrom(Tail(as), Tail(vs), Tail(acc),
                                   IF o.applied THEN Head(vs) ELSE cap)
            IN [rest EXCEPT !.status = <<o.rc>> \o @]

\* pwr_xtpmdev_writev (:246-255): status[i] is the i-th write's result,
\* and writev itself returns 0.
WriteV(as, vs, acc) ==
  LET w == WritevFrom(as, vs, acc, pub["power_cap"]) IN
  /\ ~crashed /\ fdOpen
  /\ IF w.crash
       THEN crashed' = TRUE /\ UNCHANGED <<pub, last>>
       ELSE /\ pub' = [pub EXCEPT !["power_cap"] = w.cap]
            /\ last' = [op |-> "writev", attrs |-> as, vals |-> vs,
                        status |-> w.status, capBefore |-> pub["power_cap"],
                        capAfter |-> w.cap]
            /\ UNCHANGED crashed
  /\ UNCHANGED <<devState, fdOpen, fdGen>>

\* the kernel publishes a new value of counter f
Publish(f, v) ==
  /\ ~crashed
  /\ pub[f] # v
  /\ pub' = [pub EXCEPT ![f] = v]
  /\ last' = NoCall
  /\ UNCHANGED <<devState, fdOpen, fdGen, crashed>>

Halted == crashed /\ UNCHANGED vars

Init ==
  /\ devState = "none"
  /\ pub \in [Files -> Values]
  /\ fdOpen = FALSE
  /\ fdGen = NoGen
  /\ last = NoCall
  /\ crashed = FALSE

\* the arrays readv and writev are called with
Arrays(S) == [1 .. ArraySize -> S]

Next ==
  \/ DevInit
  \/ DevFinal
  \/ Open
  \/ \E a \in Attrs, ok \in BOOLEAN : Read(a, ok)
  \/ TimeRead
  \/ \E as \in Arrays(Attrs) : ReadV(as)
  \/ \E a \in Attrs, v \in Values, ok, acc \in BOOLEAN : Write(a, v, ok, acc)
  \/ \E as \in Arrays({"max_power", "other"}), vs \in Arrays(Values),
        acc \in Arrays(BOOLEAN) : WriteV(as, vs, acc)
  \/ Close
  \/ \E f \in Files, v \in Values : Publish(f, v)
  \/ Halted

Spec == Init /\ [][Next]_vars

-----------------------------------------------------------------------------
(* Properties                                                              *)

TypeOK ==
  /\ devState \in {"none", "ready", "final"}
  /\ pub \in [Files -> Values]
  /\ fdOpen \in BOOLEAN
  /\ fdGen \in Values \cup {NoGen}
  /\ last.op \in {"none", "read", "write", "readv", "writev"}
  /\ last.op \in {"read", "write"} => last.rc \in {0, -1}
  /\ last.op \in {"readv", "writev"} => \A i \in 1 .. ArraySize : last.status[i] \in {0, -1}
  /\ crashed \in BOOLEAN

\* spec.md 6 (read returns the attribute's value): a read that succeeds
\* for a known attribute hands back exactly the value the kernel had
\* published in its counter file, through the byte loop and atof of
\* xtpmdev_read (:64-71).
ReadReturnsPublished ==
  last.op = "read" /\ last.rc = 0 /\ last.written => last.val = last.expect

\* spec.md 6 (readv over an attribute array with independent per-element
\* status codes): after pwr_xtpmdev_readv (:240-241) every element has
\* the status of its own counter file, -1 exactly when that file is
\* missing, whatever the other elements did, and every element of a known
\* attribute that reports 0 holds the value its file published.
ReadvElementsIndependent ==
  last.op = "readv" =>
    \A i \in DOMAIN last.attrs :
      LET a == last.attrs[i] IN
      /\ last.status[i] = IF a \in Known /\ AttrFile[a] \in Missing THEN -1 ELSE 0
      /\ last.status[i] = 0 /\ a \in Known =>
           last.written[i] /\ last.val[i] = last.expect[i]

\* spec.md 6 (writev with independent per-element status codes): the
\* elements of pwr_xtpmdev_writev (:251-252) are written in array order,
\* each from its own value, so power_cap afterwards holds the value of
\* the last PWR_ATTR_MAX_POWER element that reported 0, or its old value
\* when none did.
WritevLastWins ==
  last.op = "writev" =>
    LET ok == {i \in DOMAIN last.attrs :
                 last.attrs[i] = "max_power" /\ last.status[i] = 0}
    IN last.capAfter = IF ok = {} THEN last.capBefore ELSE last.vals[Max(ok)]

\* spec.md 6 (plugins never block the dispatch thread indefinitely): the
\* parse loop of xtpmdev_read (:64) never runs past strval.
NoBufferOverrun == ~crashed
====
