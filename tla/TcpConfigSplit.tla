---------------------------- MODULE TcpConfigSplit ----------------------------
(***************************************************************************)
(* split() of src/src/pwr/tcpEventChannel.cc (:311-335): the parser of     *)
(* the configuration string a TcpEventChannel is built from (:23-40), e.g. *)
(* "server=host serverPort=1234" or "listenPort=1234".                     *)
(*                                                                         *)
(* A std::string is a sequence of characters.  The std::string operations  *)
(* split uses are modelled by what they do, with their 0-based positions:  *)
(* find_first_of and find_first_not_of return npos when nothing matches,   *)
(* size_t arithmetic wraps npos + 1 to 0, and substr(p) throws             *)
(* std::out_of_range when p > size().  The std::map is a function from     *)
(* keys to values; foo[key] = v adds or overwrites the key.                *)
(***************************************************************************)
EXTENDS Naturals, Sequences, SequencesExt

CONSTANTS
  Letters,   \* the characters of keys and values other than ' ' and '='
  MaxConfigLen     \* the longest configuration string enumerated

ASSUME MaxConfigLen \in Nat /\ {" ", "="} \cap Letters = {}

Blank == " "
Eq    == "="
Npos  == -1     \* std::string::npos, size_t(-1)

\* size_t arithmetic on a position: npos + 1 wraps to 0 (:322)
PlusOne(p) == IF p = Npos THEN 0 ELSE p + 1

\* s.find_first_of(c) and s.find_first_not_of(c), 0-based, npos when none
FindFirstOf(s, c)    == SelectInSeq(s, LAMBDA x : x = c) - 1
FindFirstNotOf(s, c) == SelectInSeq(s, LAMBDA x : x # c) - 1

\* s.substr(0, n): at most n characters, all of them for n = npos
Prefix(s, n) == SubSeq(s, 1, IF n = Npos \/ n > Len(s) THEN Len(s) ELSE n)

\* s.substr(p) for 0 <= p <= size()
SubstrFrom(s, p) == SubSeq(s, p + 1, Len(s))

\* foo[key] = v on a std::map<std::string,std::string>
Put(foo, key, v) == [k \in DOMAIN foo \cup {key} |-> IF k = key THEN v ELSE foo[k]]

\* a mutant of the loop that keeps the '=' in the value (substr(pos))
RECURSIVE SplitFromKeepingEq(_, _)
SplitFromKeepingEq(tmp, foo) ==
  IF tmp = <<>>
  THEN [thrown |-> FALSE, foo |-> foo]
  ELSE LET start == FindFirstNotOf(tmp, Blank)
       IN IF start = Npos
          THEN [thrown |-> TRUE, foo |-> foo]
          ELSE LET t1   == SubstrFrom(tmp, start)
                   pos  == FindFirstOf(t1, Eq)
                   key  == Prefix(t1, pos)
                   t2   == SubstrFrom(t1, IF pos = Npos THEN 0 ELSE pos)
                   sp   == FindFirstOf(t2, Blank)
                   foo2 == Put(foo, key, Prefix(t2, sp))
               IN IF sp = Npos
                  THEN [thrown |-> FALSE, foo |-> foo2]
                  ELSE SplitFromKeepingEq(SubstrFrom(t2, sp + 1), foo2)

(***************************************************************************)
(* The loop of split (:317-334), one iteration per call, on what is left  *)
(* of the string.  The first substr skips the blanks before a token; on   *)
(* a rest of blanks only, find_first_not_of is npos and substr(npos)      *)
(* throws.  The other substr calls take a position inside the string.     *)
(***************************************************************************)
RECURSIVE SplitFrom(_, _)
SplitFrom(tmp, foo) ==
  IF tmp = <<>>
  THEN [thrown |-> FALSE, foo |-> foo]
  ELSE LET start == FindFirstNotOf(tmp, Blank)
       IN IF start = Npos
          THEN [thrown |-> TRUE, foo |-> foo]
          ELSE LET t1   == SubstrFrom(tmp, start)
                   pos  == FindFirstOf(t1, Eq)
                   key  == Prefix(t1, pos)
                   t2   == SubstrFrom(t1, PlusOne(pos))
                   sp   == FindFirstOf(t2, Blank)
                   foo2 == Put(foo, key, Prefix(t2, sp))
               IN IF sp = Npos
                  THEN [thrown |-> FALSE, foo |-> foo2]
                  ELSE SplitFrom(SubstrFrom(t2, sp + 1), foo2)

\* split(str, foo) on an empty map, as the constructor calls it (:26-28)
Split(str) == SplitFrom(str, <<>>)

-----------------------------------------------------------------------------
(***************************************************************************)
(* The reference: a configuration is words separated by blanks, each word *)
(* key=value with the key up to its first '='; a later key overrides an   *)
(* earlier one.                                                            *)
(***************************************************************************)
RECURSIVE Words(_)
Words(s) ==
  LET b == SelectInSeq(s, LAMBDA x : x = Blank)
  IN IF s = <<>> THEN <<>>
     ELSE IF b = 0 THEN <<s>>
     ELSE (IF b = 1 THEN <<>> ELSE <<SubSeq(s, 1, b - 1)>>)
            \o Words(SubSeq(s, b + 1, Len(s)))

KeyOf(w)   == SubSeq(w, 1, SelectInSeq(w, LAMBDA x : x = Eq) - 1)
ValueOf(w) == SubSeq(w, SelectInSeq(w, LAMBDA x : x = Eq) + 1, Len(w))

Intended(str) ==
  FoldLeft(LAMBDA foo, w : Put(foo, KeyOf(w), ValueOf(w)), <<>>, Words(str))

WellFormed(str) == \A i \in DOMAIN Words(str) : Eq \in ToSet(Words(str)[i])

\* the blanks at the end of str
TrailingBlanks(str) ==
  Len(str) - SelectLastInSeq(str, LAMBDA x : x # Blank)

Configs == BoundedSeq({Blank, Eq} \cup Letters, MaxConfigLen)

-----------------------------------------------------------------------------
(***************************************************************************)
(* The constructor's parse (:26-28): a channel is built once, from one    *)
(* configuration string, and keeps the map split returned, or the         *)
(* exception split threw.                                                  *)
(***************************************************************************)
VARIABLES
  config,   \* the string the channel was built from
  result    \* what split returned, NotBuilt before the constructor ran

cfgVars == <<config, result>>

NotBuilt == [thrown |-> FALSE, built |-> FALSE]

CfgInit == config = <<>> /\ result = NotBuilt

Construct(str) ==
  /\ result = NotBuilt
  /\ config' = str
  /\ result' = Split(str)

CfgNext == \E str \in Configs : Construct(str)

\* split parses every well-formed configuration string to the map of its
\* key=value words, the last of a repeated key winning, except one that
\* ends in two or more blanks (or is blanks only): for that one the substr
\* at :318 is given npos and throws std::out_of_range, which the
\* constructor (:28) does not catch.
SplitAgreesWithReference ==
  result # NotBuilt /\ WellFormed(config) =>
    IF TrailingBlanks(config) >= 2 \/ (config # <<>> /\ TrailingBlanks(config) = Len(config))
    THEN result.thrown
    ELSE result = [thrown |-> FALSE, foo |-> Intended(config)]

====
