---------------------------- MODULE FramingProofs ----------------------------
(***************************************************************************)
(* The safety of Framing for every set of messages and every bound.        *)
(***************************************************************************)
EXTENDS Framing, TLAPS, SequenceTheorems, WellFoundedInduction

-----------------------------------------------------------------------------
(* Positions in a buffer.                                                  *)

(* The operators of Framing choose the first of some positions, ...        *)
LEMMA Least ==
  ASSUME NEW S \in SUBSET Nat, S # {}
  PROVE  \E x \in S : \A y \in S : x <= y
<1>1. \E x \in S : \A y \in S : ~ (<<y, x>> \in OpToRel(<, Nat))
  BY NatLessThanWellFounded, WFMin
<1>2. OpToRel(<, Nat) = {ss \in Nat \X Nat : ss[1] < ss[2]}
  BY DEF OpToRel
<1>3. \A x, y \in Nat : y < x => <<y, x>> \in OpToRel(<, Nat)
  BY <1>2
<1>4. PICK x \in S : \A y \in S : ~ (<<y, x>> \in OpToRel(<, Nat))
  BY <1>1
<1>5. ASSUME NEW y \in S PROVE x <= y
  <2>1. ~ (y < x)
    BY <1>3, <1>4
  <2> QED BY <2>1
<1> QED BY <1>5

(* ... or the last.                                                        *)
LEMMA Greatest ==
  ASSUME NEW n \in Nat, NEW S \in SUBSET (0 .. n), S # {}
  PROVE  \E x \in S : \A y \in S : y <= x
<1> DEFINE T == {n - x : x \in S}
<1>1. T \in SUBSET Nat /\ T # {}
  <2>1. \A x \in S : n - x \in Nat
    OBVIOUS
  <2>2. PICK x \in S : TRUE
    OBVIOUS
  <2>3. n - x \in T
    BY <2>2
  <2> QED BY <2>1, <2>3
<1>2. PICK t \in T : \A u \in T : t <= u
  BY <1>1, Least
<1>3. PICK x \in S : t = n - x
  BY <1>2
<1>4. ASSUME NEW y \in S PROVE y <= x
  <2>1. n - y \in T
    OBVIOUS
  <2>2. n - x <= n - y
    BY <2>1, <1>2, <1>3
  <2> QED BY <2>2
<1> QED BY <1>4

(* A buffer without its beginning.                                         *)
LEMMA Rest ==
  ASSUME NEW S, NEW b \in Seq(S), NEW p \in 1 .. Len(b) + 1
  PROVE  /\ From(b, p) \in Seq(S)
         /\ Len(From(b, p)) = Len(b) - p + 1 /\ Len(b) \in Nat
         /\ DOMAIN From(b, p) = 1 .. Len(b) - p + 1 /\ DOMAIN b = 1 .. Len(b)
         /\ \A k \in 1 .. Len(b) - p + 1 : k + p - 1 \in 1 .. Len(b) /\ From(b, p)[k] = b[k + p - 1]
<1>1. Len(b) \in Nat /\ DOMAIN b = 1 .. Len(b) /\ \A i \in 1 .. Len(b) : b[i] \in S
  BY LenProperties, ElementOfSeq
<1>2. /\ From(b, p) \in Seq(S)
      /\ Len(From(b, p)) = IF p <= Len(b) THEN Len(b) - p + 1 ELSE 0
      /\ \A k \in 1 .. Len(b) - p + 1 : From(b, p)[k] = b[p + k - 1]
  BY <1>1, SubSeqProperties DEF From
<1>3. Len(From(b, p)) = Len(b) - p + 1
  BY <1>1, <1>2
<1> QED BY <1>1, <1>2, <1>3, LenProperties

(* The beginning of a buffer.                                              *)
LEMMA Front ==
  ASSUME NEW S, NEW b \in Seq(S), NEW k \in 0 .. Len(b)
  PROVE  /\ SubSeq(b, 1, k) \in Seq(S)
         /\ Len(SubSeq(b, 1, k)) = k /\ Len(b) \in Nat
         /\ DOMAIN SubSeq(b, 1, k) = 1 .. k
         /\ \A i \in 1 .. k : SubSeq(b, 1, k)[i] = b[i]
<1>1. Len(b) \in Nat /\ DOMAIN b = 1 .. Len(b) /\ \A i \in 1 .. Len(b) : b[i] \in S
  BY LenProperties, ElementOfSeq
<1>2. /\ SubSeq(b, 1, k) \in Seq(S)
      /\ Len(SubSeq(b, 1, k)) = IF 1 <= k THEN k ELSE 0
      /\ \A i \in 1 .. k : SubSeq(b, 1, k)[i] = b[i]
  BY <1>1, SubSeqProperties
<1> QED BY <1>1, <1>2, LenProperties

(* The end of an end of a buffer is an end of the buffer.                  *)
LEMMA RestOfRest ==
  ASSUME NEW S, NEW b \in Seq(S), NEW p \in 1 .. Len(b) + 1, NEW q \in 1 .. Len(b) - p + 2
  PROVE  From(From(b, p), q) = From(b, p + q - 1)
<1>1. /\ From(b, p) \in Seq(S) /\ Len(From(b, p)) = Len(b) - p + 1 /\ Len(b) \in Nat
      /\ \A k \in 1 .. Len(b) - p + 1 : From(b, p)[k] = b[k + p - 1]
  BY Rest
<1>2. q \in 1 .. Len(From(b, p)) + 1 /\ p + q - 1 \in 1 .. Len(b) + 1
  BY <1>1
<1>3. /\ From(From(b, p), q) \in Seq(S) /\ Len(From(From(b, p), q)) = Len(b) - (p + q - 1) + 1
      /\ \A k \in 1 .. Len(b) - (p + q - 1) + 1 : From(From(b, p), q)[k] = From(b, p)[k + q - 1]
  <2>1. Len(From(b, p)) - q + 1 = Len(b) - (p + q - 1) + 1
    BY <1>1
  <2> QED BY ZenonT(30), <1>1, <1>2, <2>1, Rest
<1>4. /\ From(b, p + q - 1) \in Seq(S) /\ Len(From(b, p + q - 1)) = Len(b) - (p + q - 1) + 1
      /\ \A k \in 1 .. Len(b) - (p + q - 1) + 1 : From(b, p + q - 1)[k] = b[k + (p + q - 1) - 1]
  BY <1>2, Rest
<1>5. \A k \in 1 .. Len(b) - (p + q - 1) + 1 : From(From(b, p), q)[k] = From(b, p + q - 1)[k]
  <2> SUFFICES ASSUME NEW k \in 1 .. Len(b) - (p + q - 1) + 1
               PROVE  From(From(b, p), q)[k] = From(b, p + q - 1)[k]
    OBVIOUS
  <2>1. k + q - 1 \in 1 .. Len(b) - p + 1 /\ (k + q - 1) + p - 1 = k + (p + q - 1) - 1
    BY <1>1
  <2>2. From(b, p)[k + q - 1] = b[(k + q - 1) + p - 1]
    BY <1>1, <2>1
  <2>3. From(From(b, p), q)[k] = From(b, p)[k + q - 1]
    BY <1>3
  <2>4. From(b, p + q - 1)[k] = b[k + (p + q - 1) - 1]
    BY <1>4
  <2> QED BY <2>1, <2>2, <2>3, <2>4
<1> QED BY <1>3, <1>4, <1>5, SeqEqual

(* FirstLineFeed chooses a line feed, and no other comes before it.        *)
LEMMA First ==
  ASSUME NEW b \in Seq(Symbol), LineFeeds(b) # {}
  PROVE  /\ FirstLineFeed(b) \in LineFeeds(b) /\ FirstLineFeed(b) \in 1 .. Len(b)
         /\ \A j \in LineFeeds(b) : FirstLineFeed(b) <= j
<1>1. LineFeeds(b) \in SUBSET Nat /\ LineFeeds(b) \subseteq 1 .. Len(b)
  BY LenProperties DEF LineFeeds
<1>2. \E i \in LineFeeds(b) : \A j \in LineFeeds(b) : i <= j
  BY <1>1, Least
<1>3. /\ FirstLineFeed(b) \in LineFeeds(b)
      /\ \A j \in LineFeeds(b) : FirstLineFeed(b) <= j
  BY <1>2 DEF FirstLineFeed
<1> QED BY <1>1, <1>3

(* LastBlankLine chooses the end of a blank line, and no other follows it. *)
LEMMA Last ==
  ASSUME NEW b \in Seq(Symbol), BlankLines(b) # {}
  PROVE  /\ LastBlankLine(b) \in BlankLines(b) /\ LastBlankLine(b) \in 1 .. Len(b)
         /\ \A j \in BlankLines(b) : j <= LastBlankLine(b)
<1>1. Len(b) \in Nat /\ BlankLines(b) \in SUBSET (0 .. Len(b)) /\ BlankLines(b) \subseteq 1 .. Len(b)
  BY LenProperties DEF BlankLines, LineFeeds
<1>2. \E i \in BlankLines(b) : \A j \in BlankLines(b) : j <= i
  BY <1>1, Greatest
<1>3. /\ LastBlankLine(b) \in BlankLines(b)
      /\ \A j \in BlankLines(b) : j <= LastBlankLine(b)
  BY <1>2 DEF LastBlankLine
<1> QED BY <1>1, <1>3

(* A sequence of symbols is still one without its carriage return.         *)
LEMMA Chomped ==
  ASSUME NEW b \in Seq(Symbol) PROVE Chomp(b) \in Seq(Symbol)
<1>1. b # << >> => Len(b) - 1 \in 0 .. Len(b)
  BY EmptySeq
<1> QED BY <1>1, Front DEF Chomp

-----------------------------------------------------------------------------
(* What one call of to_term_nl takes from the front of the buffer: nothing *)
(* but what it drops, or one message with at least its header.             *)
LEMMA Taking ==
  ASSUME more_ \in Seq(Symbol)
  PROVE  \/ /\ ToTermNl.messages = << >>
            /\ \E p \in 1 .. Len(more_) + 1 : ToTermNl.rest = From(more_, p)
         \/ /\ StartsMessage(more_)
            /\ \E p \in 3 .. Len(more_) + 1, body \in Seq(Symbol) :
                 ToTermNl.messages = <<Extracted(body)>> /\ ToTermNl.rest = From(more_, p)
<1>1. Len(more_) \in Nat
  BY LenProperties
<1>n. CASE ToTermNl = NeedMoreData
  <2>1. From(more_, 1) = more_
    BY SubSeqFull DEF From
  <2>2. ToTermNl.messages = << >> /\ ToTermNl.rest = From(more_, 1)
    BY <1>n, <2>1 DEF NeedMoreData, Dropped
  <2> QED BY <1>1, <2>2
<1>d. CASE LineFeeds(more_) # {} /\ ToTermNl = DropLine
  <2>1. FirstLineFeed(more_) + 1 \in 1 .. Len(more_) + 1
    BY <1>d, <1>1, First
  <2> QED BY <1>d, <2>1 DEF DropLine, Dropped
<1>t. ASSUME StartsMessage(more_), NEW p \in 3 .. Len(more_) + 1, NEW body \in Seq(Symbol),
             ToTermNl = Took(Extracted(body), From(more_, p))
      PROVE  /\ StartsMessage(more_)
             /\ \E q \in 3 .. Len(more_) + 1, c \in Seq(Symbol) :
                  ToTermNl.messages = <<Extracted(c)>> /\ ToTermNl.rest = From(more_, q)
  <2>1. ToTermNl.messages = <<Extracted(body)>> /\ ToTermNl.rest = From(more_, p)
    BY <1>t DEF Took
  <2> QED BY <2>1, <1>t
<1>2. CASE LineFeeds(more_) = {} \/ ~StartsMessage(more_)
  BY <1>2, <1>n DEF ToTermNl
<1>3. CASE LineFeeds(more_) # {} /\ StartsMessage(more_)
  <2> DEFINE rest == From(more_, 3)
  <2>1. Len(more_) >= 2 /\ more_[2] \in Symbol
    BY <1>3, <1>1, ElementOfSeq DEF StartsMessage
  <2>2. rest \in Seq(Symbol) /\ Len(rest) = Len(more_) - 2
    BY <2>1, <1>1, Rest
  <2>q. ASSUME NEW i \in 1 .. Len(rest)
        PROVE  From(rest, i + 1) = From(more_, i + 3) /\ i + 3 \in 3 .. Len(more_) + 1
    <3>1. i + 1 \in 1 .. Len(more_) - 3 + 2 /\ 3 \in 1 .. Len(more_) + 1 /\ 3 + (i + 1) - 1 = i + 3
      BY <1>1, <2>1, <2>2
    <3> QED BY <3>1, <2>2, <1>1, RestOfRest
  <2> HIDE DEF rest
  <2>3. CASE more_[2].kind = "recv"
    <3> DEFINE len  == more_[2].len
               ends == PayloadEnds(rest, len)
    <3>1. ToTermNl = NlRcvExtract
      BY <1>3, <2>3 DEF ToTermNl
    <3>2. len \in Nat
      BY <2>1 DEF Symbol
    <3>3. CASE ends # {}
      <4> DEFINE j == CHOOSE x \in ends : TRUE
      <4>1. j \in ends
        BY <3>3
      <4>2. j \in 1 .. Len(rest) /\ j > len
        BY <4>1, <2>2, LenProperties DEF PayloadEnds, LineFeeds
      <4>3. SubSeq(rest, 1, len) \in Seq(Symbol)
        BY <4>2, <3>2, <2>2, Front
      <4>4. ToTermNl = Took(Extracted(SubSeq(rest, 1, len)), From(rest, j + 1))
        BY <3>1, <3>3 DEF NlRcvExtract, rest
      <4> HIDE DEF j
      <4>5. ToTermNl = Took(Extracted(SubSeq(rest, 1, len)), From(more_, j + 3))
            /\ j + 3 \in 3 .. Len(more_) + 1
        BY <4>2, <4>4, <2>q
      <4> QED BY <4>3, <4>5, <1>3, <1>t
    <3>4. CASE ends = {}
      <4>1. ToTermNl = DropLine \/ ToTermNl = NeedMoreData
        BY <3>1, <3>4 DEF NlRcvExtract, rest
      <4> QED BY <4>1, <1>3, <1>n, <1>d
    <3> QED BY <3>3, <3>4
  <2>4. CASE more_[2].kind = "multi"
    <3>1. ToTermNl = Multiline
      BY <1>3, <2>4 DEF ToTermNl
    <3>2. CASE BlankLines(rest) = {}
      BY <3>1, <3>2, <1>n DEF Multiline, rest
    <3>3. CASE BlankLines(rest) # {}
      <4> DEFINE last == LastBlankLine(rest)
                 feed == CHOOSE i \in LineFeeds(rest) : i < last /\ OnlyCR(rest, i + 1, last - 1)
      <4>1. last \in BlankLines(rest) /\ last \in 1 .. Len(rest)
        BY <3>3, <2>2, Last
      <4>2. \E i \in LineFeeds(rest) : i < last /\ OnlyCR(rest, i + 1, last - 1)
        BY <4>1 DEF BlankLines
      <4>3. feed \in LineFeeds(rest)
        BY <4>2
      <4>4. feed \in 1 .. Len(rest)
        BY <4>3, <2>2, LenProperties DEF LineFeeds
      <4>5. ToTermNl = Took(Extracted(Chomp(SubSeq(rest, 1, feed - 1))), From(rest, last + 1))
        BY <3>1, <3>3 DEF Multiline, rest
      <4> HIDE DEF last, feed
      <4>6. Chomp(SubSeq(rest, 1, feed - 1)) \in Seq(Symbol)
        <5>1. feed - 1 \in 0 .. Len(rest)
          BY <4>4, <2>2
        <5> QED BY <5>1, <2>2, Front, Chomped
      <4>7. ToTermNl = Took(Extracted(Chomp(SubSeq(rest, 1, feed - 1))), From(more_, last + 3))
            /\ last + 3 \in 3 .. Len(more_) + 1
        BY <4>1, <4>5, <2>q
      <4> QED BY <4>6, <4>7, <1>3, <1>t
    <3> QED BY <3>2, <3>3
  <2>5. CASE more_[2].kind = "malformed"
    <3>1. ToTermNl = DropLine
      BY <1>3, <2>5 DEF ToTermNl
    <3> QED BY <3>1, <1>3, <1>d
  <2>6. CASE more_[2].kind \notin {"recv", "multi", "malformed"}
    <3> DEFINE i == FirstLineFeed(more_)
    <3>1. ToTermNl = Took(Extracted(Chomp(SubSeq(more_, 3, i - 1))), From(more_, i + 1))
      BY <1>3, <2>6 DEF ToTermNl, OneLine
    <3>2. i \in LineFeeds(more_) /\ i \in 1 .. Len(more_)
      BY <1>3, First
    <3>3. i > 2
      <4>1. more_[1] # LF /\ more_[2] # LF
        BY <1>3 DEF StartsMessage, N, LF, Sym, Kinds
      <4> QED BY <3>2, <4>1 DEF LineFeeds
    <3> HIDE DEF i
    <3>4. SubSeq(more_, 3, i - 1) \in Seq(Symbol)
      <4>1. \A k \in 3 .. i - 1 : more_[k] \in Symbol
        BY <3>2, <1>1, ElementOfSeq
      <4> QED BY <4>1, <3>2, <1>1, SubSeqProperties
    <3>5. Chomp(SubSeq(more_, 3, i - 1)) \in Seq(Symbol)
      BY <3>4, Chomped
    <3>6. i + 1 \in 3 .. Len(more_) + 1
      BY <3>2, <3>3, <1>1
    <3> QED BY <3>1, <3>5, <3>6, <1>3, <1>t
  <2> QED BY <2>3, <2>4, <2>5, <2>6
<1> QED BY <1>2, <1>3

-----------------------------------------------------------------------------
(* The two sequences that the modem fills and the parser empties.          *)

(* Cutting a sequence in two and joining the parts changes nothing.        *)
LEMMA Rejoined ==
  ASSUME NEW S, NEW b \in Seq(S), NEW k \in 0 .. Len(b)
  PROVE  SubSeq(b, 1, k) \o From(b, k + 1) = b
<1>1. Len(b) \in Nat
  BY LenProperties
<1>2. 1 \in 1 .. Len(b) + 1 /\ k \in 1 - 1 .. Len(b) /\ Len(b) \in k .. Len(b)
  BY <1>1
<1>3. SubSeq(b, 1, k) \o SubSeq(b, k + 1, Len(b)) = SubSeq(b, 1, Len(b))
  BY <1>2, ConcatAdjacentSubSeq
<1> QED BY <1>3, SubSeqFull DEF From

(* What is taken from the buffer is taken from the front of the stream.    *)
LEMMA FrontOfTwo ==
  ASSUME NEW S, NEW a \in Seq(S), NEW b \in Seq(S), NEW p \in 1 .. Len(a) + 1
  PROVE  From(a, p) \o b = From(a \o b, p)
<1>1. /\ Len(a) \in Nat /\ Len(b) \in Nat
      /\ a \o b \in Seq(S) /\ Len(a \o b) = Len(a) + Len(b)
      /\ \A i \in 1 .. Len(a) + Len(b) : (a \o b)[i] = IF i <= Len(a) THEN a[i] ELSE b[i - Len(a)]
  BY LenProperties, ConcatProperties
<1>2. /\ From(a, p) \in Seq(S) /\ Len(From(a, p)) = Len(a) - p + 1
      /\ \A k \in 1 .. Len(a) - p + 1 : From(a, p)[k] = a[k + p - 1]
  BY Rest
<1>3. /\ From(a, p) \o b \in Seq(S) /\ Len(From(a, p) \o b) = Len(a) - p + 1 + Len(b)
      /\ \A k \in 1 .. Len(a) - p + 1 + Len(b) :
           (From(a, p) \o b)[k] = IF k <= Len(a) - p + 1 THEN From(a, p)[k] ELSE b[k - (Len(a) - p + 1)]
  <2> DEFINE f == From(a, p)
  <2> HIDE DEF f
  <2>1. f \in Seq(S) /\ Len(f) = Len(a) - p + 1
    BY <1>2 DEF f
  <2>2. /\ f \o b \in Seq(S) /\ Len(f \o b) = Len(f) + Len(b)
        /\ \A k \in 1 .. Len(f) + Len(b) : (f \o b)[k] = IF k <= Len(f) THEN f[k] ELSE b[k - Len(f)]
    BY <2>1, ConcatProperties
  <2> QED BY <2>1, <2>2 DEF f
<1>4. p \in 1 .. Len(a \o b) + 1
  BY <1>1
<1>5. /\ From(a \o b, p) \in Seq(S) /\ Len(From(a \o b, p)) = Len(a \o b) - p + 1
      /\ \A k \in 1 .. Len(a \o b) - p + 1 : From(a \o b, p)[k] = (a \o b)[k + p - 1]
  BY <1>1, <1>4, Rest
<1>6. Len(From(a, p) \o b) = Len(From(a \o b, p))
  BY <1>1, <1>3, <1>5
<1>7. ASSUME NEW k \in 1 .. Len(From(a, p) \o b) PROVE (From(a, p) \o b)[k] = From(a \o b, p)[k]
  <2>1. k \in 1 .. Len(a) - p + 1 + Len(b) /\ k \in 1 .. Len(a \o b) - p + 1
        /\ k + p - 1 \in 1 .. Len(a) + Len(b)
    BY <1>1, <1>3
  <2>2. From(a \o b, p)[k] = (a \o b)[k + p - 1]
    BY <2>1, <1>5
  <2>3. CASE k <= Len(a) - p + 1
    <3>1. (From(a, p) \o b)[k] = a[k + p - 1]
      BY <2>1, <2>3, <1>2, <1>3, <1>1
    <3>2. k + p - 1 <= Len(a)
      BY <2>3, <1>1
    <3> QED BY <2>1, <2>2, <3>1, <3>2, <1>1
  <2>4. CASE k > Len(a) - p + 1
    <3>1. (From(a, p) \o b)[k] = b[k - (Len(a) - p + 1)]
      BY SMTT(30), <2>1, <2>4, <1>3, <1>1
    <3>2. ~(k + p - 1 <= Len(a)) /\ k + p - 1 - Len(a) = k - (Len(a) - p + 1)
      BY <2>4, <1>1
    <3>3. (a \o b)[k + p - 1] = b[k + p - 1 - Len(a)]
      BY <2>1, <3>2, <1>1
    <3> QED BY <2>2, <3>1, <3>2, <3>3
  <2> QED BY <2>3, <2>4, <1>1
<1> QED BY <1>3, <1>5, <1>6, <1>7, SeqEqual

(* A symbol of a longer sequence is one of the sequences it is made of.    *)
LEMMA Joined ==
  ASSUME NEW S, NEW a \in Seq(S), NEW b \in Seq(S)
  PROVE  /\ a \o b \in Seq(S) /\ Len(a) \in Nat /\ Len(b) \in Nat
         /\ Len(a \o b) = Len(a) + Len(b)
         /\ DOMAIN a = 1 .. Len(a) /\ DOMAIN b = 1 .. Len(b)
         /\ DOMAIN (a \o b) = 1 .. Len(a) + Len(b)
         /\ \A i \in 1 .. Len(a) : (a \o b)[i] = a[i]
         /\ \A i \in 1 .. Len(b) : (a \o b)[Len(a) + i] = b[i]
<1>1. /\ Len(a) \in Nat /\ Len(b) \in Nat
      /\ a \o b \in Seq(S) /\ Len(a \o b) = Len(a) + Len(b)
      /\ \A i \in 1 .. Len(a) + Len(b) : (a \o b)[i] = IF i <= Len(a) THEN a[i] ELSE b[i - Len(a)]
  BY LenProperties, ConcatProperties
<1>2. \A i \in 1 .. Len(b) : (a \o b)[Len(a) + i] = b[i]
  <2> SUFFICES ASSUME NEW i \in 1 .. Len(b) PROVE (a \o b)[Len(a) + i] = b[i]
    OBVIOUS
  <2>1. Len(a) + i \in 1 .. Len(a) + Len(b) /\ ~(Len(a) + i <= Len(a)) /\ Len(a) + i - Len(a) = i
    BY <1>1
  <2> QED BY <2>1, <1>1
<1> QED BY <1>1, <1>2, LenProperties

(* A message on the wire, symbol by symbol.                                *)
LEMMA OnTheWire ==
  ASSUME NEW m \in Messages, NEW n \in Nat
  PROVE  /\ m.kind \in Kinds /\ Body(m) \in Seq({Byte, CR, LF}) /\ Body(m) \in Seq(Symbol)
         /\ Encoded(m, n) \in Seq(Symbol) /\ Len(Body(m)) \in Nat
         /\ Len(Encoded(m, n)) = Len(Body(m)) + (IF m.kind = "multi" THEN 6 ELSE 4)
         /\ DOMAIN Encoded(m, n) = 1 .. Len(Encoded(m, n))
         /\ Encoded(m, n)[1] = N
         /\ Encoded(m, n)[2] = [kind |-> Header(m), n |-> n, len |-> Len(m.payload)]
         /\ \A k \in 1 .. Len(Body(m)) : Encoded(m, n)[2 + k] = Body(m)[k]
         /\ Encoded(m, n)[Len(Body(m)) + 3] = CR /\ Encoded(m, n)[Len(Body(m)) + 4] = LF
         /\ m.kind = "multi" => /\ Encoded(m, n)[Len(Body(m)) + 5] = CR
                                /\ Encoded(m, n)[Len(Body(m)) + 6] = LF
<1> DEFINE h == [kind |-> Header(m), n |-> n, len |-> Len(m.payload)]
           B == {Byte, CR, LF}
<1>1. m.kind \in Kinds /\ m.payload \in Seq({Byte, LF})
  BY MessagesAssumption
<1>2. B \subseteq Symbol /\ N \in Symbol
  BY DEF Symbol, Byte, CR, LF, N, Sym
<1>3. h \in Symbol
  <2>1. Header(m) \in Kinds
    BY <1>1 DEF Header, Kinds
  <2>2. Len(m.payload) \in Nat
    BY <1>1, LenProperties
  <2> QED BY <2>1, <2>2 DEF Symbol
<1>4. m.payload \in Seq(B)
  <2>1. {Byte, LF} \subseteq B
    OBVIOUS
  <2> QED BY <1>1, <2>1, SeqMonotonic
<1>5. Eol \in Seq(B) /\ Len(Eol) = 2 /\ Eol[1] = CR /\ Eol[2] = LF
  BY DEF Eol
<1>6. /\ Eol \o Eol \in Seq(B) /\ Len(Eol \o Eol) = 4
      /\ (Eol \o Eol)[1] = CR /\ (Eol \o Eol)[2] = LF
      /\ (Eol \o Eol)[3] = CR /\ (Eol \o Eol)[4] = LF
  <2> DEFINE e == Eol
             f == Eol
  <2>1. e \in Seq(B) /\ Len(e) = 2 /\ e[1] = CR /\ e[2] = LF
    BY <1>5
  <2>2. f \in Seq(B) /\ Len(f) = 2 /\ f[1] = CR /\ f[2] = LF
    BY <1>5
  <2> HIDE DEF e, f, B
  <2>3. /\ e \o f \in Seq(B) /\ Len(e \o f) = Len(e) + Len(f)
        /\ \A i \in 1 .. Len(e) : (e \o f)[i] = e[i]
        /\ \A i \in 1 .. Len(f) : (e \o f)[Len(e) + i] = f[i]
    <3>1. e \in Seq(B) /\ f \in Seq(B)
      BY <2>1, <2>2
    <3> QED BY <3>1, Joined
  <2>4. /\ (e \o f)[1] = CR /\ (e \o f)[2] = LF
        /\ (e \o f)[2 + 1] = CR /\ (e \o f)[2 + 2] = LF
    BY <2>1, <2>2, <2>3
  <2> QED BY <2>1, <2>2, <2>3, <2>4 DEF e, f
<1>7. Body(m) \in Seq(B)
  BY <1>4, <1>5, ConcatProperties DEF Body
<1>8. /\ End(m) \in Seq(B) /\ Len(End(m)) = IF m.kind = "multi" THEN 4 ELSE 2
      /\ End(m)[1] = CR /\ End(m)[2] = LF
      /\ m.kind = "multi" => End(m)[3] = CR /\ End(m)[4] = LF
  BY <1>5, <1>6 DEF End
<1> HIDE DEF B, h
<1>9. Body(m) \in Seq(Symbol) /\ End(m) \in Seq(Symbol)
  BY <1>2, <1>7, <1>8, SeqMonotonic
<1>10. <<N, h>> \in Seq(Symbol) /\ Len(<<N, h>>) = 2 /\ <<N, h>>[1] = N /\ <<N, h>>[2] = h
  BY <1>2, <1>3
<1> DEFINE a == <<N, h>>
           ab == a \o Body(m)
<1> HIDE DEF a
<1>11. /\ ab \in Seq(Symbol) /\ Len(ab) = 2 + Len(Body(m)) /\ Len(Body(m)) \in Nat
       /\ \A i \in 1 .. 2 : ab[i] = a[i]
       /\ \A i \in 1 .. Len(Body(m)) : ab[2 + i] = Body(m)[i]
  BY <1>9, <1>10, Joined DEF a
<1> HIDE DEF ab
<1>12. /\ ab \o End(m) \in Seq(Symbol) /\ Len(ab \o End(m)) = Len(ab) + Len(End(m))
       /\ DOMAIN (ab \o End(m)) = 1 .. Len(ab) + Len(End(m))
       /\ \A i \in 1 .. Len(ab) : (ab \o End(m))[i] = ab[i]
       /\ \A i \in 1 .. Len(End(m)) : (ab \o End(m))[Len(ab) + i] = End(m)[i]
  <2> DEFINE e == End(m)
  <2>1. e \in Seq(Symbol) /\ ab \in Seq(Symbol)
    BY <1>9, <1>11
  <2> HIDE DEF e
  <2>2. /\ ab \o e \in Seq(Symbol) /\ Len(ab \o e) = Len(ab) + Len(e)
        /\ DOMAIN (ab \o e) = 1 .. Len(ab) + Len(e)
        /\ \A i \in 1 .. Len(ab) : (ab \o e)[i] = ab[i]
        /\ \A i \in 1 .. Len(e) : (ab \o e)[Len(ab) + i] = e[i]
    BY <2>1, Joined
  <2> QED BY <2>2 DEF e
<1>13. Encoded(m, n) = ab \o End(m)
  BY DEF Encoded, ab, a, h
<1>14. /\ Encoded(m, n)[1] = N /\ Encoded(m, n)[2] = h
       /\ \A k \in 1 .. Len(Body(m)) : Encoded(m, n)[2 + k] = Body(m)[k]
  <2>1. 1 \in 1 .. Len(ab) /\ 2 \in 1 .. Len(ab) /\ \A k \in 1 .. Len(Body(m)) : 2 + k \in 1 .. Len(ab)
    BY <1>11
  <2> QED BY <2>1, <1>10, <1>11, <1>12, <1>13 DEF a
<1>15. /\ Encoded(m, n)[Len(Body(m)) + 3] = CR /\ Encoded(m, n)[Len(Body(m)) + 4] = LF
       /\ m.kind = "multi" => /\ Encoded(m, n)[Len(Body(m)) + 5] = CR
                              /\ Encoded(m, n)[Len(Body(m)) + 6] = LF
  <2>1. /\ Len(ab) + 1 = Len(Body(m)) + 3 /\ Len(ab) + 2 = Len(Body(m)) + 4
        /\ Len(ab) + 3 = Len(Body(m)) + 5 /\ Len(ab) + 4 = Len(Body(m)) + 6
    BY <1>11
  <2>2. /\ (ab \o End(m))[Len(ab) + 1] = CR /\ (ab \o End(m))[Len(ab) + 2] = LF
        /\ m.kind = "multi" => /\ (ab \o End(m))[Len(ab) + 3] = CR
                               /\ (ab \o End(m))[Len(ab) + 4] = LF
    BY <1>8, <1>12
  <2> QED BY <2>1, <2>2, <1>13
<1>16. Len(Encoded(m, n)) = Len(Body(m)) + (IF m.kind = "multi" THEN 6 ELSE 4)
  BY <1>8, <1>11, <1>12, <1>13
<1> QED BY <1>1, <1>7, <1>9, <1>11, <1>12, <1>13, <1>14, <1>15, <1>16 DEF B, h

(* It has one "N" and one header, and only a multiline answer, or what     *)
(* looks like one, has the header of a multiline answer.                   *)
LEMMA OneHeader ==
  ASSUME NEW m \in Messages, NEW n \in Nat, NEW i \in DOMAIN Encoded(m, n)
  PROVE  /\ Encoded(m, n)[i] = N => i = 1
         /\ Encoded(m, n)[i].kind \in Kinds => i = 2 /\ Encoded(m, n)[i].n = n
         /\ Encoded(m, n)[i].kind = "multi" => m.kind \in {"multi", "refusal"}
<1>1. PICK e \in Seq(Symbol), b \in Nat :
        /\ e = Encoded(m, n) /\ b = Len(Body(m))
        /\ Len(e) = b + (IF m.kind = "multi" THEN 6 ELSE 4) /\ DOMAIN e = 1 .. Len(e)
        /\ e[1] = N /\ e[2] = [kind |-> Header(m), n |-> n, len |-> Len(m.payload)]
        /\ \A k \in 1 .. b : e[2 + k] = Body(m)[k]
        /\ e[b + 3] = CR /\ e[b + 4] = LF
        /\ m.kind = "multi" => e[b + 5] = CR /\ e[b + 6] = LF
        /\ Body(m) \in Seq({Byte, CR, LF}) /\ m.kind \in Kinds
  BY OnTheWire
<1>2. ASSUME NEW k \in 1 .. b PROVE Body(m)[k] \in {Byte, CR, LF}
  <2>1. b = Len(Body(m))
    BY <1>1
  <2> QED BY <2>1, <1>1, ElementOfSeq
<1>3. /\ N.kind \notin Kinds /\ Byte.kind \notin Kinds /\ CR.kind \notin Kinds /\ LF.kind \notin Kinds
      /\ Byte # N /\ CR # N /\ LF # N /\ "multi" \in Kinds
  BY DEF N, Byte, CR, LF, Sym, Kinds
<1>4. i \in Nat /\ i >= 1 /\ i <= Len(e) /\ Len(e) \in Nat
  <2>1. i \in 1 .. Len(e)
    BY <1>1
  <2> QED BY <2>1, LenProperties
<1>5. CASE i = 1
  BY <1>5, <1>1, <1>3
<1>6. CASE i = 2
  <2>1. Header(m) \in Kinds /\ (Header(m) = "multi" => m.kind \in {"multi", "refusal"})
    BY <1>1 DEF Header, Kinds
  <2>2. e[i].kind = Header(m) /\ e[i].n = n
    BY <1>6, <1>1
  <2> QED BY <2>1, <2>2, <1>1, <1>3, <1>6
<1>7. CASE i > 2 /\ i <= b + 2
  <2>1. PICK k \in 1 .. b : i = 2 + k
    <3>1. i - 2 \in 1 .. b
      BY <1>4, <1>7
    <3>2. i = 2 + (i - 2)
      BY <1>4
    <3> QED BY <3>1, <3>2
  <2>2. e[i] \in {Byte, CR, LF}
    BY <2>1, <1>1, <1>2
  <2> QED BY <2>2, <1>1, <1>3
<1>8. CASE i > b + 2
  <2>1. Len(e) = b + (IF m.kind = "multi" THEN 6 ELSE 4)
    BY <1>1
  <2>2. i \in {b + 3, b + 4} \/ (m.kind = "multi" /\ i \in {b + 5, b + 6})
    BY <2>1, <1>4, <1>8
  <2>3. e[i] \in {CR, LF}
    BY <2>2, <1>1
  <2> QED BY <2>3, <1>1, <1>3
<1>9. i = 1 \/ i = 2 \/ (i > 2 /\ i <= b + 2) \/ i > b + 2
  BY <1>4
<1> QED BY <1>5, <1>6, <1>7, <1>8, <1>9

-----------------------------------------------------------------------------
(* Types.                                                                  *)

(* The stream is empty at the start.                                       *)
LEMMA TypeInit == Init => TypeOK
<1>1. << >> \in Seq(Symbol) /\ << >> \in Seq(Message) /\ 0 \in Nat
  OBVIOUS
<1> QED BY <1>1, Zenon DEF Init, TypeOK

(* Every step keeps the types.                                             *)
LEMMA TypeStep == TypeOK /\ [Next]_vars => TypeOK'
<1> SUFFICES ASSUME TypeOK, [Next]_vars PROVE TypeOK'
  OBVIOUS
<1> USE DEF TypeOK
<1>1. CASE ToTerm
  <2>1. PICK k \in 1 .. Len(wire) :
          more_' = more_ \o SubSeq(wire, 1, k) /\ wire' = From(wire, k + 1)
    BY <1>1 DEF ToTerm
  <2>2. Len(wire) \in Nat /\ k \in 0 .. Len(wire) /\ k + 1 \in 1 .. Len(wire) + 1
    BY LenProperties
  <2>3. SubSeq(wire, 1, k) \in Seq(Symbol) /\ From(wire, k + 1) \in Seq(Symbol)
    BY <2>2, Front, Rest
  <2>4. more_' \in Seq(Symbol) /\ wire' \in Seq(Symbol)
    BY <2>1, <2>3, ConcatProperties
  <2> QED BY <2>4, <1>1 DEF ToTerm
<1>2. CASE Parse
  <2>1. CASE ToTermNl.messages = << >>
    <3>1. ToTermNl.rest \in Seq(Symbol)
      BY Taking, <2>1, Rest
    <3>2. extracted' = extracted
      BY <1>2, <2>1, ConcatEmptySeq DEF Parse
    <3> QED BY <3>1, <3>2, <1>2 DEF Parse, Again
  <2>2. CASE ToTermNl.messages # << >>
    <3>1. PICK p \in 3 .. Len(more_) + 1, body \in Seq(Symbol) :
            /\ StartsMessage(more_)
            /\ ToTermNl.messages = <<Extracted(body)>> /\ ToTermNl.rest = From(more_, p)
      BY Taking, <2>2
    <3>2. Len(more_) \in Nat /\ Len(more_) >= 2 /\ more_[2].kind \in Kinds /\ more_[2] \in Symbol
      BY <3>1, LenProperties, ElementOfSeq DEF StartsMessage
    <3>3. Extracted(body) \in Message
      BY <3>2 DEF Extracted, Message, Symbol
    <3>4. p \in 1 .. Len(more_) + 1
      BY <3>2
    <3>5. ToTermNl.rest \in Seq(Symbol)
      BY <3>1, <3>4, Rest
    <3>6. extracted' \in Seq(Message)
      BY <3>1, <3>3, <1>2, ConcatProperties DEF Parse
    <3> QED BY <3>5, <3>6, <1>2 DEF Parse, Again
  <2> QED BY <2>1, <2>2
<1>3. CASE ModemSends
  <2>1. PICK m \in Messages :
          /\ wire' = wire \o Encoded(m, Len(sent) + 1)
          /\ sent' = Append(sent, [kind |-> m.kind, n |-> Len(sent) + 1, body |-> Body(m)])
    BY <1>3 DEF ModemSends, Sends
  <2>2. Len(sent) + 1 \in Nat
    BY LenProperties
  <2>3. /\ Encoded(m, Len(sent) + 1) \in Seq(Symbol)
        /\ [kind |-> m.kind, n |-> Len(sent) + 1, body |-> Body(m)] \in Message
    BY <2>2, OnTheWire DEF Message
  <2>4. wire' \in Seq(Symbol) /\ sent' \in Seq(Message)
    BY <2>1, <2>3, ConcatProperties, AppendProperties
  <2>5. tame' \in BOOLEAN
    BY <1>3 DEF ModemSends, Sends
  <2> QED BY <2>4, <2>5, <1>3 DEF ModemSends, Sends
<1>4. CASE Disconnected
  <2>1. PICK k \in 0 .. Len(wire) : wire' = SubSeq(wire, 1, k)
    BY <1>4 DEF Disconnected
  <2>2. wire' \in Seq(Symbol)
    BY <2>1, Front
  <2>3. losses' \in Nat
    BY <1>4 DEF Disconnected
  <2>4. tame' \in BOOLEAN
    BY <1>4, Zenon DEF Disconnected
  <2> QED BY <2>2, <2>3, <2>4, <1>4 DEF Disconnected
<1>5. CASE UNCHANGED vars
  BY <1>5 DEF vars
<1> QED BY <1>1, <1>2, <1>3, <1>4, <1>5 DEF Next

(* The buffer, the wire and the histories hold what their names say.       *)
THEOREM TypeCorrect == Spec => []TypeOK
  BY TypeInit, TypeStep, PTL DEF Spec

-----------------------------------------------------------------------------
(* The stream: what was sent and is neither taken nor lost.                *)

Untaken == more_ \o wire

(* Reading moves the border between wire and buffer only, ...              *)
LEMMA Read ==
  ASSUME TypeOK, ToTerm PROVE Untaken' = Untaken
<1>1. PICK k \in 1 .. Len(wire) :
        more_' = more_ \o SubSeq(wire, 1, k) /\ wire' = From(wire, k + 1)
  BY DEF ToTerm
<1>2. more_ \in Seq(Symbol) /\ wire \in Seq(Symbol) /\ Len(wire) \in Nat
  BY LenProperties DEF TypeOK
<1>3. k \in 0 .. Len(wire) /\ k + 1 \in 1 .. Len(wire) + 1
  BY <1>2
<1>4. SubSeq(wire, 1, k) \in Seq(Symbol) /\ From(wire, k + 1) \in Seq(Symbol)
  BY <1>2, <1>3, Front, Rest
<1>5. Untaken' = more_ \o (SubSeq(wire, 1, k) \o From(wire, k + 1))
  <2> DEFINE u == SubSeq(wire, 1, k)
             v == From(wire, k + 1)
  <2>1. u \in Seq(Symbol) /\ v \in Seq(Symbol) /\ more_ \in Seq(Symbol)
    BY <1>2, <1>4
  <2>2. Untaken' = (more_ \o u) \o v
    BY <1>1 DEF Untaken
  <2> HIDE DEF u, v
  <2>3. (more_ \o u) \o v = more_ \o (u \o v)
    BY SMTT(30), <2>1, ConcatAssociative
  <2> QED BY <2>2, <2>3 DEF u, v
<1>6. SubSeq(wire, 1, k) \o From(wire, k + 1) = wire
  BY <1>2, <1>3, Rejoined
<1> QED BY <1>5, <1>6 DEF Untaken

(* ... what is parsed is taken from the front, ...                         *)
LEMMA Cut ==
  ASSUME TypeOK, UNCHANGED wire, NEW p \in 1 .. Len(more_) + 1, more_' = From(more_, p)
  PROVE  Untaken' = From(Untaken, p) /\ p \in 1 .. Len(Untaken) + 1
<1>1. more_ \in Seq(Symbol) /\ wire \in Seq(Symbol) /\ Len(wire) \in Nat /\ Len(more_) \in Nat
  BY LenProperties DEF TypeOK
<1>2. Len(Untaken) = Len(more_) + Len(wire)
  BY <1>1, ConcatProperties DEF Untaken
<1>3. From(more_, p) \o wire = From(more_ \o wire, p)
  BY <1>1, FrontOfTwo
<1> QED BY <1>1, <1>2, <1>3 DEF Untaken

(* ... what is sent is added to its end, ...                               *)
LEMMA Added ==
  ASSUME TypeOK, UNCHANGED more_, NEW e \in Seq(Symbol), wire' = wire \o e
  PROVE  Untaken' = Untaken \o e
<1>1. more_ \in Seq(Symbol) /\ wire \in Seq(Symbol)
  BY DEF TypeOK
<1>2. (more_ \o wire) \o e = more_ \o (wire \o e)
  BY SMTT(30), <1>1, ConcatAssociative
<1> QED BY <1>2 DEF Untaken

(* ... and a loss cuts that end off.                                       *)
LEMMA CutOff ==
  ASSUME TypeOK, UNCHANGED more_, NEW k \in 0 .. Len(wire), wire' = SubSeq(wire, 1, k)
  PROVE  /\ Untaken' \in Seq(Symbol) /\ Untaken \in Seq(Symbol)
         /\ DOMAIN Untaken' \subseteq DOMAIN Untaken
         /\ \A i \in DOMAIN Untaken' : Untaken'[i] = Untaken[i]
<1>1. more_ \in Seq(Symbol) /\ wire \in Seq(Symbol) /\ Len(wire) \in Nat /\ Len(more_) \in Nat
  BY LenProperties DEF TypeOK
<1> DEFINE w == SubSeq(wire, 1, k)
<1>2. w \in Seq(Symbol) /\ Len(w) = k /\ \A i \in 1 .. k : w[i] = wire[i]
  BY <1>1, Front
<1>3. Untaken' = more_ \o w
  BY DEF Untaken
<1> HIDE DEF w
<1>4. /\ more_ \o w \in Seq(Symbol) /\ DOMAIN (more_ \o w) = 1 .. Len(more_) + Len(w)
      /\ \A i \in 1 .. Len(more_) : (more_ \o w)[i] = more_[i]
      /\ \A i \in 1 .. Len(w) : (more_ \o w)[Len(more_) + i] = w[i]
  <2>1. more_ \in Seq(Symbol) /\ w \in Seq(Symbol)
    BY <1>1, <1>2
  <2> QED BY <2>1, Joined
<1>5. /\ Untaken \in Seq(Symbol) /\ DOMAIN Untaken = 1 .. Len(more_) + Len(wire)
      /\ \A i \in 1 .. Len(more_) : Untaken[i] = more_[i]
      /\ \A i \in 1 .. Len(wire) : Untaken[Len(more_) + i] = wire[i]
  BY <1>1, Joined DEF Untaken
<1>6. ASSUME NEW i \in DOMAIN Untaken' PROVE Untaken'[i] = Untaken[i]
  <2>1. i \in 1 .. Len(more_) + k
    BY <1>2, <1>3, <1>4
  <2>2. CASE i <= Len(more_)
    BY <2>1, <2>2, <1>1, <1>3, <1>4, <1>5
  <2>3. CASE i > Len(more_)
    <3>1. i - Len(more_) \in 1 .. k /\ i - Len(more_) \in 1 .. Len(wire) /\ i = Len(more_) + (i - Len(more_))
      BY <2>1, <2>3, <1>1
    <3>2. (more_ \o w)[i] = w[i - Len(more_)] /\ Untaken[i] = wire[i - Len(more_)]
      BY <3>1, <1>2, <1>4, <1>5
    <3> QED BY <3>1, <3>2, <1>2, <1>3
  <2> QED BY <2>1, <2>2, <2>3, <1>1
<1>7. DOMAIN Untaken' \subseteq DOMAIN Untaken
  BY <1>1, <1>2, <1>3, <1>4, <1>5
<1> QED BY <1>3, <1>4, <1>5, <1>6, <1>7

-----------------------------------------------------------------------------
(* Order.  The headers of the stream are in the order of the messages, and *)
(* those that were extracted come before all of them.                      *)
Ordered ==
  /\ \A i, j \in DOMAIN Untaken :
       i < j /\ Untaken[i].kind \in Kinds /\ Untaken[j].kind \in Kinds
         => Untaken[i].n < Untaken[j].n
  /\ \A i \in DOMAIN Untaken : Untaken[i].kind \in Kinds => Untaken[i].n \in 1 .. Len(sent)
  /\ \A i \in DOMAIN extracted :
       /\ extracted[i].n \in 1 .. Len(sent)
       /\ \A j \in DOMAIN Untaken :
            Untaken[j].kind \in Kinds => extracted[i].n < Untaken[j].n
  /\ InOrder

(* Nothing is out of order at the start.                                   *)
LEMMA OrderInit == Init => Ordered
<1> SUFFICES ASSUME Init PROVE Ordered
  OBVIOUS
<1>1. Untaken = << >> /\ extracted = << >>
  BY ConcatEmptySeq DEF Init, Untaken
<1>2. DOMAIN Untaken = {} /\ DOMAIN extracted = {}
  BY <1>1
<1> QED BY <1>2 DEF Ordered, InOrder

(* Whatever is left of the stream is as ordered as the whole.              *)
LEMMA OrderOfLess ==
  ASSUME Ordered, UNCHANGED <<sent, extracted>>,
         DOMAIN Untaken' \subseteq DOMAIN Untaken, \A i \in DOMAIN Untaken' : Untaken'[i] = Untaken[i]
  PROVE  Ordered'
BY DEF Ordered, InOrder

(* The positions and the headers of what is left of the stream are those   *)
(* of its end.                                                             *)
LEMMA OrderOfRest ==
  ASSUME TypeOK, Ordered, UNCHANGED sent,
         NEW p \in 1 .. Len(Untaken) + 1, Untaken' = From(Untaken, p)
  PROVE  /\ DOMAIN Untaken = 1 .. Len(Untaken) /\ Len(Untaken) \in Nat
         /\ DOMAIN Untaken' = 1 .. Len(Untaken) - p + 1
         /\ \A i \in DOMAIN Untaken' :
              i + p - 1 \in DOMAIN Untaken /\ Untaken'[i] = Untaken[i + p - 1]
         /\ \A i, j \in DOMAIN Untaken' :
              i < j /\ Untaken'[i].kind \in Kinds /\ Untaken'[j].kind \in Kinds
                => Untaken'[i].n < Untaken'[j].n
         /\ \A i \in DOMAIN Untaken' : Untaken'[i].kind \in Kinds => Untaken'[i].n \in 1 .. Len(sent)
<1>1. Untaken \in Seq(Symbol)
  BY ConcatProperties DEF Untaken, TypeOK
<1>2. /\ DOMAIN Untaken = 1 .. Len(Untaken) /\ Len(Untaken) \in Nat
      /\ DOMAIN Untaken' = 1 .. Len(Untaken) - p + 1
      /\ \A i \in DOMAIN Untaken' :
           i + p - 1 \in DOMAIN Untaken /\ Untaken'[i] = Untaken[i + p - 1]
  BY Zenon, <1>1, Rest
<1>3. \A i, j \in DOMAIN Untaken' : i < j => i + p - 1 < j + p - 1
  BY <1>2
<1> QED BY <1>2, <1>3 DEF Ordered

(* Ordered is inductive, given the types: only new headers are added       *)
(* behind the others, and only the first is taken.                         *)
LEMMA OrderStep == TypeOK /\ Ordered /\ [Next]_vars => Ordered'
<1> SUFFICES ASSUME TypeOK, Ordered, [Next]_vars PROVE Ordered'
  OBVIOUS
<1>s. Untaken \in Seq(Symbol) /\ DOMAIN Untaken = 1 .. Len(Untaken) /\ Len(Untaken) \in Nat
      /\ Len(sent) \in Nat
  BY ConcatProperties, LenProperties DEF Untaken, TypeOK
<1>x. extracted \in Seq(Message) /\ DOMAIN extracted = 1 .. Len(extracted) /\ Len(extracted) \in Nat
  BY LenProperties DEF TypeOK
<1>1. CASE ToTerm
  <2>1. Untaken' = Untaken /\ UNCHANGED <<sent, extracted>>
    BY <1>1, Read DEF ToTerm
  <2> QED BY <2>1, OrderOfLess
<1>2. CASE Parse
  <2>1. Len(more_) \in Nat
    BY LenProperties DEF TypeOK
  <2>2. CASE ToTermNl.messages = << >>
    <3>1. PICK p \in 1 .. Len(more_) + 1 : ToTermNl.rest = From(more_, p)
      BY <2>2, Taking DEF TypeOK
    <3>2. UNCHANGED <<wire, sent, extracted>> /\ more_' = From(more_, p)
      BY <3>1, <2>2, <1>2, <1>x, ConcatEmptySeq DEF Parse
    <3>3. Untaken' = From(Untaken, p) /\ p \in 1 .. Len(Untaken) + 1
      BY <3>2, Cut
    <3> QED BY <3>2, <3>3, OrderOfRest DEF Ordered, InOrder
  <2>3. CASE ToTermNl.messages # << >>
    <3>1. PICK p \in 3 .. Len(more_) + 1, body \in Seq(Symbol) :
            /\ StartsMessage(more_)
            /\ ToTermNl.messages = <<Extracted(body)>> /\ ToTermNl.rest = From(more_, p)
      BY <2>3, Taking DEF TypeOK
    <3> DEFINE m == Extracted(body)
    <3>2. /\ more_' = From(more_, p) /\ UNCHANGED <<wire, sent>>
          /\ extracted' = extracted \o <<m>>
      BY <3>1, <1>2 DEF Parse
    <3>3. p \in 1 .. Len(more_) + 1
      BY <2>1
    <3>4. Untaken' = From(Untaken, p) /\ p \in 1 .. Len(Untaken) + 1
      BY <3>2, <3>3, Cut
    <3>5. 2 \in DOMAIN Untaken /\ m.n = Untaken[2].n /\ Untaken[2].kind \in Kinds /\ m \in Message
      <4>1. Len(more_) >= 2 /\ more_[2].kind \in Kinds /\ more_[2] \in Symbol
        BY <3>1, <2>1, ElementOfSeq DEF StartsMessage, TypeOK
      <4>2. Untaken[2] = more_[2] /\ 2 \in DOMAIN Untaken
        BY <4>1, <2>1, Joined DEF Untaken, TypeOK
      <4>3. m.n = more_[2].n /\ m \in Message
        BY <4>1 DEF Extracted, Message, Symbol
      <4> QED BY <4>1, <4>2, <4>3
    <3> HIDE DEF m
    <3>6. /\ DOMAIN extracted' = 1 .. Len(extracted) + 1
          /\ \A i \in DOMAIN extracted : extracted'[i] = extracted[i]
          /\ extracted'[Len(extracted) + 1] = m
      <4>1. <<m>> \in Seq(Message) /\ Len(<<m>>) = 1 /\ <<m>>[1] = m
        BY <3>5
      <4> DEFINE o == <<m>>
      <4> HIDE DEF o
      <4>2. /\ DOMAIN (extracted \o o) = 1 .. Len(extracted) + Len(o)
            /\ \A i \in 1 .. Len(extracted) : (extracted \o o)[i] = extracted[i]
            /\ \A i \in 1 .. Len(o) : (extracted \o o)[Len(extracted) + i] = o[i]
        BY <4>1, <1>x, Joined DEF o
      <4>3. Len(o) = 1 /\ o[1] = m /\ extracted' = extracted \o o
        BY <4>1, <3>2 DEF o
      <4> QED BY <4>2, <4>3, <1>x
    <3>7. /\ DOMAIN Untaken' = 1 .. Len(Untaken) - p + 1
          /\ \A i \in DOMAIN Untaken' :
               i + p - 1 \in DOMAIN Untaken /\ Untaken'[i] = Untaken[i + p - 1]
          /\ \A i, j \in DOMAIN Untaken' :
               i < j /\ Untaken'[i].kind \in Kinds /\ Untaken'[j].kind \in Kinds
                 => Untaken'[i].n < Untaken'[j].n
          /\ \A i \in DOMAIN Untaken' : Untaken'[i].kind \in Kinds => Untaken'[i].n \in 1 .. Len(sent)
      BY <3>2, <3>4, OrderOfRest
    <3>8. m.n \in 1 .. Len(sent) /\ \A i \in DOMAIN extracted : extracted[i].n < m.n
      BY <3>5 DEF Ordered
    <3>9. \A j \in DOMAIN Untaken' : Untaken'[j].kind \in Kinds => m.n < Untaken'[j].n
      <4> SUFFICES ASSUME NEW j \in DOMAIN Untaken', Untaken'[j].kind \in Kinds
                   PROVE  m.n < Untaken'[j].n
        OBVIOUS
      <4>1. j + p - 1 \in DOMAIN Untaken /\ Untaken'[j] = Untaken[j + p - 1] /\ 2 < j + p - 1
        BY <3>7, <1>s
      <4> QED BY <4>1, <3>5 DEF Ordered
    <3>10. \A i \in DOMAIN extracted' : i \in DOMAIN extracted \/ i = Len(extracted) + 1
      BY <3>6, <1>x
    <3>11. ASSUME NEW i \in DOMAIN extracted'
           PROVE  /\ extracted'[i].n \in 1 .. Len(sent)
                  /\ \A j \in DOMAIN Untaken' :
                       Untaken'[j].kind \in Kinds => extracted'[i].n < Untaken'[j].n
      <4>1. CASE i \in DOMAIN extracted
        BY <4>1, <3>6, <3>7 DEF Ordered
      <4>2. CASE i = Len(extracted) + 1
        BY <4>2, <3>6, <3>8, <3>9
      <4> QED BY <4>1, <4>2, <3>10
    <3>12. InOrder'
      <4> SUFFICES ASSUME NEW i \in DOMAIN extracted', NEW j \in DOMAIN extracted', i < j
                   PROVE  extracted'[i].n < extracted'[j].n
        BY DEF InOrder
      <4>1. i \in DOMAIN extracted
        BY <3>6, <1>x
      <4>2. CASE j \in DOMAIN extracted
        BY <4>1, <4>2, <3>6 DEF Ordered, InOrder
      <4>3. CASE j = Len(extracted) + 1
        BY <4>1, <4>3, <3>6, <3>8
      <4> QED BY <4>2, <4>3, <3>10
    <3> QED BY <3>2, <3>7, <3>11, <3>12 DEF Ordered
  <2> QED BY <2>2, <2>3
<1>3. CASE ModemSends
  <2>1. PICK m \in Messages :
          /\ wire' = wire \o Encoded(m, Len(sent) + 1)
          /\ sent' = Append(sent, [kind |-> m.kind, n |-> Len(sent) + 1, body |-> Body(m)])
    BY <1>3 DEF ModemSends, Sends
  <2> DEFINE e == Encoded(m, Len(sent) + 1)
  <2>2. Len(sent) + 1 \in Nat
    BY <1>s
  <2>3. /\ e \in Seq(Symbol) /\ DOMAIN e = 1 .. Len(e)
        /\ [kind |-> m.kind, n |-> Len(sent) + 1, body |-> Body(m)] \in Message
    BY <2>2, OnTheWire DEF Message
  <2>5. \A i \in DOMAIN e : e[i].kind \in Kinds => i = 2 /\ e[i].n = Len(sent) + 1
    BY <2>2, OneHeader
  <2>6. Untaken' = Untaken \o e
    BY <2>1, <2>3, <1>3, Added DEF ModemSends, Sends
  <2>7. Len(sent') = Len(sent) + 1 /\ UNCHANGED extracted
    BY <2>1, <2>3, <1>3, AppendProperties DEF ModemSends, Sends, TypeOK
  <2> HIDE DEF e
  <2>8. /\ DOMAIN Untaken' = 1 .. Len(Untaken) + Len(e) /\ Len(e) \in Nat
        /\ \A i \in 1 .. Len(Untaken) : Untaken'[i] = Untaken[i]
        /\ \A i \in 1 .. Len(e) : Untaken'[Len(Untaken) + i] = e[i]
    <3>1. e \in Seq(Symbol) /\ Untaken \in Seq(Symbol)
      BY <2>3, <1>s
    <3> QED BY <3>1, <2>6, Joined
  <2>9. ASSUME NEW i \in DOMAIN Untaken', Untaken'[i].kind \in Kinds
        PROVE  \/ i \in DOMAIN Untaken /\ Untaken'[i] = Untaken[i]
               \/ i = Len(Untaken) + 2 /\ Untaken'[i].n = Len(sent) + 1
    <3>1. CASE i <= Len(Untaken)
      BY <3>1, <2>8, <1>s
    <3>2. CASE i > Len(Untaken)
      <4>1. i - Len(Untaken) \in 1 .. Len(e) /\ i = Len(Untaken) + (i - Len(Untaken))
        BY <3>2, <2>8, <1>s
      <4>2. Untaken'[i] = e[i - Len(Untaken)]
        BY <4>1, <2>8
      <4>3. i - Len(Untaken) = 2 /\ Untaken'[i].n = Len(sent) + 1
        BY <4>1, <4>2, <2>3, <2>5, <2>9
      <4> QED BY <4>1, <4>3, <1>s
    <3> QED BY <3>1, <3>2, <2>8, <1>s
  <2>10. /\ \A i \in DOMAIN Untaken : Untaken[i].kind \in Kinds =>
              Untaken[i].n \in 1 .. Len(sent) + 1 /\ Untaken[i].n < Len(sent) + 1
         /\ \A i \in DOMAIN extracted :
              extracted[i].n \in 1 .. Len(sent) + 1 /\ extracted[i].n < Len(sent) + 1
    BY <1>s DEF Ordered
  <2>11. /\ \A i, j \in DOMAIN Untaken' :
              i < j /\ Untaken'[i].kind \in Kinds /\ Untaken'[j].kind \in Kinds
                => Untaken'[i].n < Untaken'[j].n
    <3> SUFFICES ASSUME NEW i \in DOMAIN Untaken', NEW j \in DOMAIN Untaken', i < j,
                        Untaken'[i].kind \in Kinds, Untaken'[j].kind \in Kinds
                 PROVE  Untaken'[i].n < Untaken'[j].n
      OBVIOUS
    <3>1. i \in DOMAIN Untaken /\ Untaken'[i] = Untaken[i]
      BY <2>9, <2>8, <1>s
    <3>2. CASE j \in DOMAIN Untaken /\ Untaken'[j] = Untaken[j]
      BY <3>1, <3>2 DEF Ordered
    <3>3. CASE j = Len(Untaken) + 2 /\ Untaken'[j].n = Len(sent) + 1
      BY <3>1, <3>3, <2>10
    <3> QED BY <3>2, <3>3, <2>9
  <2>12. \A i \in DOMAIN Untaken' : Untaken'[i].kind \in Kinds => Untaken'[i].n \in 1 .. Len(sent')
    <3>1. Len(sent) + 1 \in 1 .. Len(sent')
      BY <2>7, <1>s
    <3> QED BY <3>1, <2>7, <2>9, <2>10
  <2>13. \A i \in DOMAIN extracted' :
            /\ extracted'[i].n \in 1 .. Len(sent')
            /\ \A j \in DOMAIN Untaken' :
                 Untaken'[j].kind \in Kinds => extracted'[i].n < Untaken'[j].n
    BY <2>7, <2>9, <2>10 DEF Ordered
  <2> QED BY <2>7, <2>11, <2>12, <2>13 DEF Ordered, InOrder
<1>4. CASE Disconnected
  <2>1. PICK k \in 0 .. Len(wire) : wire' = SubSeq(wire, 1, k)
    BY <1>4 DEF Disconnected
  <2>2. UNCHANGED <<more_, sent, extracted>>
    BY <1>4 DEF Disconnected
  <2>3. /\ DOMAIN Untaken' \subseteq DOMAIN Untaken
        /\ \A i \in DOMAIN Untaken' : Untaken'[i] = Untaken[i]
    BY <2>1, <2>2, CutOff
  <2> QED BY <2>2, <2>3, OrderOfLess
<1>5. CASE UNCHANGED vars
  <2>1. Untaken' = Untaken /\ UNCHANGED <<sent, extracted>>
    BY <1>5 DEF vars, Untaken
  <2> QED BY <2>1, OrderOfLess
<1> QED BY <1>1, <1>2, <1>3, <1>4, <1>5 DEF Next

(* No message is extracted twice, and none overtakes another, whatever the *)
(* messages are, however they are cut and merged, and whatever is lost.    *)
THEOREM ExtractedInOrder == Spec => []InOrder
<1>1. Init => TypeOK /\ Ordered
  BY TypeInit, OrderInit
<1>2. (TypeOK /\ Ordered) /\ [Next]_vars => (TypeOK /\ Ordered)'
  BY TypeStep, OrderStep
<1>3. TypeOK /\ Ordered => InOrder
  BY DEF Ordered
<1> QED BY <1>1, <1>2, <1>3, PTL DEF Spec

-----------------------------------------------------------------------------
(* The frames of a stream s of which the messages t are the source: an "N" *)
(* begins what was sent of a message, the next one follows its end.        *)
EndAt(s, t, i) ==
  LET m == t[s[i + 1].n] IN i + Len(m.body) + (IF m.kind = "multi" THEN 5 ELSE 3)

Whole(s, t, i) ==
  LET m == t[s[i + 1].n]
      b == Len(m.body)
  IN  /\ s[i + 1].kind = m.kind
      /\ m.kind = "recv" => s[i + 1].len = b
      /\ \A k \in 1 .. b : s[i + 1 + k] = m.body[k]
      /\ s[i + b + 2] = CR /\ s[i + b + 3] = LF
      /\ m.kind = "multi" => s[i + b + 4] = CR /\ s[i + b + 5] = LF

Followed(s, t, i) ==
  LET e == EndAt(s, t, i)
  IN  \/ e = Len(s) /\ s[i + 1].n = Len(t)
      \/ e + 2 <= Len(s) /\ s[e + 1] = N /\ s[e + 2].n = s[i + 1].n + 1

Framed(s, t) ==
  /\ s # << >> => s[1] = N
  /\ \A i \in DOMAIN s :
       s[i] = N =>
         /\ i + 1 \in DOMAIN s /\ s[i + 1].n \in DOMAIN t /\ EndAt(s, t, i) <= Len(s)
         /\ Whole(s, t, i) /\ Followed(s, t, i)
  /\ \A i \in DOMAIN s : \E h \in 1 .. i : s[h] = N /\ i <= EndAt(s, t, h)
  /\ \A i, j \in DOMAIN s : s[i].kind = "multi" /\ s[j].kind = "multi" => i = j

(* Messages that to_term_nl can cope with: no blank line within, and, but  *)
(* for a multiline answer, no line feed.                                   *)
Manageable(t) ==
  \A n \in DOMAIN t :
    /\ t[n].n = n /\ t[n].kind # "refusal" /\ t[n].body \in Seq({Byte, CR, LF})
    /\ IF t[n].kind = "multi"
       THEN BlankLines(t[n].body \o Eol) = {}
       ELSE LineFeeds(t[n].body) = {}

(* The number of the message that is extracted next.                       *)
Oldest(s, t) == IF s = << >> THEN Len(t) + 1 ELSE s[2].n

(* The end of a frame is a number, past its header, ...                    *)
LEMMA Frame ==
  ASSUME NEW s \in Seq(Symbol), NEW t \in Seq(Message), Framed(s, t),
         NEW i \in Nat, i \in DOMAIN s, s[i] = N
  PROVE  \E m \in Message, b \in Nat, e \in Nat :
           /\ m = t[s[i + 1].n] /\ b = Len(m.body) /\ e = EndAt(s, t, i)
           /\ s[i + 1].n \in DOMAIN t /\ DOMAIN m.body = 1 .. b
           /\ i >= 1 /\ Len(s) \in Nat /\ DOMAIN s = 1 .. Len(s)
           /\ e = i + b + (IF m.kind = "multi" THEN 5 ELSE 3) /\ e <= Len(s) /\ e >= i + 3
           /\ s[i + 1].kind = m.kind
           /\ m.kind = "recv" => s[i + 1].len = b
           /\ \A x \in 1 .. b : s[i + 1 + x] = m.body[x]
           /\ s[i + b + 2] = CR /\ s[i + b + 3] = LF
           /\ m.kind = "multi" => s[i + b + 4] = CR /\ s[i + b + 5] = LF
           /\ Followed(s, t, i)
<1> DEFINE m == t[s[i + 1].n]
           b == Len(m.body)
           e == EndAt(s, t, i)
<1>1. /\ i + 1 \in DOMAIN s /\ s[i + 1].n \in DOMAIN t /\ e <= Len(s)
      /\ Whole(s, t, i) /\ Followed(s, t, i)
  BY DEF Framed
<1>2. Len(s) \in Nat /\ DOMAIN s = 1 .. Len(s) /\ i >= 1
  BY LenProperties
<1>3. m \in Message
  BY <1>1, LenProperties, ElementOfSeq
<1>4. m.body \in Seq(Symbol)
  BY <1>3 DEF Message
<1>5. b \in Nat /\ DOMAIN m.body = 1 .. b
  BY <1>4, LenProperties
<1>6. e = i + b + (IF m.kind = "multi" THEN 5 ELSE 3)
  BY DEF EndAt
<1>w. /\ s[i + 1].kind = m.kind
      /\ m.kind = "recv" => s[i + 1].len = b
      /\ \A x \in 1 .. b : s[i + 1 + x] = m.body[x]
      /\ s[i + b + 2] = CR /\ s[i + b + 3] = LF
      /\ m.kind = "multi" => s[i + b + 4] = CR /\ s[i + b + 5] = LF
  BY <1>1 DEF Whole
<1>d. m = t[s[i + 1].n] /\ b = Len(m.body) /\ e = EndAt(s, t, i)
  OBVIOUS
<1> HIDE DEF m, b, e
<1>7. e \in Nat /\ e >= i + 3
  BY <1>5, <1>6
<1> QED BY <1>1, <1>2, <1>3, <1>5, <1>6, <1>7, <1>w, <1>d

(* ... and within it there is no second header, and no line feed before    *)
(* its end but in a multiline answer.                                      *)
LEMMA Inside ==
  ASSUME NEW s \in Seq(Symbol), NEW t \in Seq(Message), Framed(s, t), Manageable(t),
         NEW i \in Nat, i \in DOMAIN s, s[i] = N,
         NEW k \in Nat, i + 1 <= k, k <= EndAt(s, t, i)
  PROVE  /\ k \in DOMAIN s /\ s[k] # N
         /\ s[k].kind \in Kinds => k = i + 1
         /\ s[k] = LF /\ t[s[i + 1].n].kind # "multi" => k = EndAt(s, t, i)
<1>1. PICK m \in Message, b \in Nat, e \in Nat :
        /\ m = t[s[i + 1].n] /\ b = Len(m.body) /\ e = EndAt(s, t, i)
        /\ s[i + 1].n \in DOMAIN t /\ DOMAIN m.body = 1 .. b
        /\ i >= 1 /\ Len(s) \in Nat /\ DOMAIN s = 1 .. Len(s)
        /\ e = i + b + (IF m.kind = "multi" THEN 5 ELSE 3) /\ e <= Len(s) /\ e >= i + 3
        /\ s[i + 1].kind = m.kind
        /\ m.kind = "recv" => s[i + 1].len = b
        /\ \A x \in 1 .. b : s[i + 1 + x] = m.body[x]
        /\ s[i + b + 2] = CR /\ s[i + b + 3] = LF
        /\ m.kind = "multi" => s[i + b + 4] = CR /\ s[i + b + 5] = LF
        /\ Followed(s, t, i)
  BY Frame
<1>2. m.kind \in Kinds
  BY <1>1 DEF Message
<1>3. m.body \in Seq({Byte, CR, LF}) /\ (m.kind # "multi" => LineFeeds(m.body) = {})
  BY <1>1 DEF Manageable
<1>4. \A x \in 1 .. b : m.body[x] \in {Byte, CR, LF}
  <2>1. b = Len(m.body)
    BY <1>1
  <2> QED BY <2>1, <1>3, ElementOfSeq
<1>5. /\ N.kind \notin Kinds /\ Byte.kind \notin Kinds /\ CR.kind \notin Kinds /\ LF.kind \notin Kinds
      /\ Byte # N /\ CR # N /\ LF # N /\ CR # LF
  BY DEF N, Byte, CR, LF, Sym, Kinds
<1>a. /\ b \in Nat /\ i \in Nat /\ i >= 1 /\ Len(s) \in Nat /\ e \in Nat /\ e <= Len(s)
      /\ e = i + b + (IF m.kind = "multi" THEN 5 ELSE 3)
      /\ k \in Nat /\ k >= i + 1 /\ k <= e
  BY <1>1
<1>6. k \in DOMAIN s
  <2>1. k \in 1 .. Len(s)
    BY <1>a
  <2> QED BY <2>1, <1>1
<1>7. CASE k = i + 1
  <2>1. s[k].kind \in Kinds
    BY <1>7, <1>1, <1>2
  <2> QED BY <2>1, <1>5, <1>6, <1>7
<1>8. CASE k > i + 1 /\ k <= i + 1 + b
  <2>1. PICK x \in 1 .. b : k = i + 1 + x
    <3>1. k - i - 1 \in 1 .. b
      BY <1>8, <1>a
    <3>2. k = i + 1 + (k - i - 1)
      BY <1>a
    <3> QED BY <3>1, <3>2
  <2>2. s[k] = m.body[x] /\ s[k] \in {Byte, CR, LF}
    BY <2>1, <1>1, <1>4
  <2>3. m.kind # "multi" => s[k] # LF
    <3>1. m.body[x] = LF => x \in LineFeeds(m.body)
      BY <1>1 DEF LineFeeds
    <3> QED BY <3>1, <2>2, <1>3
  <2> QED BY <2>2, <2>3, <1>1, <1>5, <1>6
<1>9. CASE k > i + 1 + b
  <2>1. k \in {i + b + 2, i + b + 3, i + b + 4, i + b + 5}
        /\ (m.kind # "multi" => k \in {i + b + 2, i + b + 3} /\ e = i + b + 3)
    BY <1>9, <1>a
  <2>2. s[k] \in {CR, LF}
    BY <2>1, <1>1
  <2>3. m.kind # "multi" /\ s[k] = LF => k = e
    BY <2>1, <1>1, <1>5
  <2> QED BY <2>2, <2>3, <1>1, <1>5, <1>6
<1>10. k = i + 1 \/ (k > i + 1 /\ k <= i + 1 + b) \/ k > i + 1 + b
  BY <1>a
<1> QED BY <1>7, <1>8, <1>9, <1>10

(* Without its first frame the stream is one of frames again, ...          *)
LEMMA FramedRest ==
  ASSUME NEW s \in Seq(Symbol), NEW t \in Seq(Message), Framed(s, t), Manageable(t), s # << >>
  PROVE  LET r == From(s, EndAt(s, t, 1) + 1)
         IN  Framed(r, t) /\ Oldest(r, t) = Oldest(s, t) + 1
<1> DEFINE e == EndAt(s, t, 1)
           r == From(s, e + 1)
<1>1. 1 \in DOMAIN s /\ s[1] = N /\ Len(s) \in Nat /\ DOMAIN s = 1 .. Len(s)
  BY LenProperties, EmptySeq DEF Framed
<1>2. e \in Nat /\ e <= Len(s) /\ e >= 4 /\ Followed(s, t, 1)
  BY <1>1, Frame
<1> HIDE DEF e
<1>a. e \in Nat /\ Len(s) \in Nat /\ e <= Len(s) /\ e >= 4
  BY <1>1, <1>2
<1>3. e + 1 \in 1 .. Len(s) + 1
  BY <1>a
<1>4. /\ r \in Seq(Symbol) /\ Len(r) = Len(s) - e /\ DOMAIN r = 1 .. Len(s) - e
      /\ \A k \in 1 .. Len(s) - e : k + e \in 1 .. Len(s) /\ r[k] = s[k + e]
  <2>1. Len(s) - (e + 1) + 1 = Len(s) - e /\ \A k \in Nat : k + (e + 1) - 1 = k + e
    BY <1>1, <1>2
  <2>2. /\ r \in Seq(Symbol) /\ Len(r) = Len(s) - (e + 1) + 1 /\ DOMAIN r = 1 .. Len(s) - (e + 1) + 1
        /\ \A k \in 1 .. Len(s) - (e + 1) + 1 :
             k + (e + 1) - 1 \in 1 .. Len(s) /\ r[k] = s[k + (e + 1) - 1]
    BY <1>3, Rest
  <2> HIDE DEF r
  <2> QED BY <2>1, <2>2
<1>f. /\ e = Len(s) => s[2].n = Len(t)
      /\ e # Len(s) => e + 2 <= Len(s) /\ s[e + 1] = N /\ s[e + 2].n = s[2].n + 1
  BY <1>1, <1>2 DEF Followed, e
<1> HIDE DEF r
<1>5. r # << >> => r[1] = N
  <2> SUFFICES ASSUME r # << >> PROVE r[1] = N
    OBVIOUS
  <2>1. Len(r) # 0
    BY <1>4, EmptySeq
  <2>2. e # Len(s) /\ 1 \in 1 .. Len(s) - e
    <3>1. Len(r) = Len(s) - e
      BY <1>4
    <3> QED BY <2>1, <3>1, <1>a
  <2> QED BY <2>2, <1>4, <1>f, <1>1, <1>2
<1>6. ASSUME NEW i \in Nat, i \in DOMAIN r, r[i] = N
      PROVE  /\ i + 1 \in DOMAIN r /\ r[i + 1].n \in DOMAIN t /\ EndAt(r, t, i) <= Len(r)
             /\ Whole(r, t, i) /\ Followed(r, t, i) /\ EndAt(r, t, i) = EndAt(s, t, i + e) - e
  <2>0. i \in 1 .. Len(s) - e
    BY <1>4, <1>6
  <2>1. PICK j \in Nat : j = i + e /\ j \in DOMAIN s /\ s[j] = N
    BY <2>0, <1>1, <1>2, <1>4, <1>6
  <2>2. PICK m \in Message, b \in Nat, f \in Nat :
          /\ m = t[s[j + 1].n] /\ b = Len(m.body) /\ f = EndAt(s, t, j)
          /\ s[j + 1].n \in DOMAIN t /\ DOMAIN m.body = 1 .. b
          /\ j >= 1 /\ Len(s) \in Nat /\ DOMAIN s = 1 .. Len(s)
          /\ f = j + b + (IF m.kind = "multi" THEN 5 ELSE 3) /\ f <= Len(s) /\ f >= j + 3
          /\ s[j + 1].kind = m.kind
          /\ m.kind = "recv" => s[j + 1].len = b
          /\ \A x \in 1 .. b : s[j + 1 + x] = m.body[x]
          /\ s[j + b + 2] = CR /\ s[j + b + 3] = LF
          /\ m.kind = "multi" => s[j + b + 4] = CR /\ s[j + b + 5] = LF
          /\ Followed(s, t, j)
    BY ZenonT(30), <2>1, Frame
  <2>5. r[i + 1] = s[j + 1] => EndAt(r, t, i) = i + b + (IF m.kind = "multi" THEN 5 ELSE 3)
    BY <2>2 DEF EndAt
  <2>a. /\ i \in Nat /\ i >= 1 /\ j \in Nat /\ j = i + e /\ b \in Nat /\ f \in Nat
        /\ f = j + b + (IF m.kind = "multi" THEN 5 ELSE 3)
        /\ f <= Len(s) /\ f >= j + 3 /\ e \in Nat /\ Len(s) \in Nat /\ e <= Len(s)
    <3>1. /\ f = j + b + (IF m.kind = "multi" THEN 5 ELSE 3)
          /\ f <= Len(s) /\ f >= j + 3
      BY <2>2
    <3>2. i >= 1
      BY <2>0, <1>a
    <3> QED BY <3>1, <3>2, <2>1, <1>a
  <2>3. i + 1 \in 1 .. Len(s) - e /\ i + 1 + e = j + 1
    BY <2>a
  <2>4. r[i + 1] = s[j + 1] /\ i + 1 \in DOMAIN r
    BY <2>3, <1>4
  <2>6. EndAt(r, t, i) = f - e /\ EndAt(r, t, i) <= Len(r)
    <3>1. Len(r) = Len(s) - e
      BY <1>4
    <3> QED BY <3>1, <2>4, <2>5, <2>a
  <2>7. Whole(r, t, i)
    <3>1. ASSUME NEW k \in 1 .. b PROVE r[i + 1 + k] = m.body[k]
      <4>1. i + 1 + k \in 1 .. Len(s) - e /\ i + 1 + k + e = j + 1 + k
        BY <2>a
      <4>2. r[i + 1 + k] = s[j + 1 + k]
        BY <4>1, <1>4
      <4>3. s[j + 1 + k] = m.body[k]
        BY <2>2
      <4> QED BY <4>2, <4>3
    <3>2. r[i + b + 2] = CR /\ r[i + b + 3] = LF
      <4>1. /\ i + b + 2 \in 1 .. Len(s) - e /\ i + b + 2 + e = j + b + 2
            /\ i + b + 3 \in 1 .. Len(s) - e /\ i + b + 3 + e = j + b + 3
        BY <2>a
      <4> QED BY ZenonT(30), <4>1, <2>2, <1>4
    <3>3. m.kind = "multi" => r[i + b + 4] = CR /\ r[i + b + 5] = LF
      <4> SUFFICES ASSUME m.kind = "multi" PROVE r[i + b + 4] = CR /\ r[i + b + 5] = LF
        OBVIOUS
      <4>1. /\ i + b + 4 \in 1 .. Len(s) - e /\ i + b + 4 + e = j + b + 4
            /\ i + b + 5 \in 1 .. Len(s) - e /\ i + b + 5 + e = j + b + 5
        BY <2>a
      <4> QED BY <4>1, <2>2, <1>4
    <3> QED BY <3>1, <3>2, <3>3, <2>2, <2>4 DEF Whole
  <2>8. Followed(r, t, i)
    <3>1. CASE f = Len(s) /\ s[j + 1].n = Len(t)
      <4>1. EndAt(r, t, i) = Len(r)
        <5>1. Len(r) = Len(s) - e
          BY <1>4
        <5> QED BY <5>1, <3>1, <2>6
      <4> QED BY <4>1, <3>1, <2>4 DEF Followed
    <3>2. CASE f + 2 <= Len(s) /\ s[f + 1] = N /\ s[f + 2].n = s[j + 1].n + 1
      <4>1. /\ EndAt(r, t, i) + 2 <= Len(r)
            /\ EndAt(r, t, i) + 1 \in 1 .. Len(s) - e /\ EndAt(r, t, i) + 1 + e = f + 1
            /\ EndAt(r, t, i) + 2 \in 1 .. Len(s) - e /\ EndAt(r, t, i) + 2 + e = f + 2
        <5>1. Len(r) = Len(s) - e
          BY <1>4
        <5>2. f + 2 <= Len(s) /\ f >= e /\ f \in Nat /\ e \in Nat /\ Len(s) \in Nat
          BY SMTT(30), <3>2, <2>a
        <5>3. f - e + 1 \in 1 .. Len(s) - e /\ f - e + 1 + e = f + 1
          BY <5>2
        <5>4. f - e + 2 \in 1 .. Len(s) - e /\ f - e + 2 + e = f + 2 /\ f - e + 2 <= Len(s) - e
          BY <5>2
        <5> QED BY <5>1, <5>3, <5>4, <2>6
      <4>2. r[EndAt(r, t, i) + 1] = N /\ r[EndAt(r, t, i) + 2].n = r[i + 1].n + 1
        BY SMTT(30), <4>1, <3>2, <2>4, <1>4
      <4> QED BY <4>1, <4>2 DEF Followed
    <3> QED BY <3>1, <3>2, <2>2 DEF Followed
  <2> QED BY <2>1, <2>2, <2>4, <2>6, <2>7, <2>8
<1>7. ASSUME NEW i \in DOMAIN r PROVE \E h \in 1 .. i : r[h] = N /\ i <= EndAt(r, t, h)
  <2>1. i + e \in DOMAIN s /\ i \in Nat /\ i >= 1
    BY <1>4, <1>1
  <2>2. PICK h \in 1 .. i + e : s[h] = N /\ i + e <= EndAt(s, t, h)
    BY <2>1 DEF Framed
  <2>3. h > e
    <3> SUFFICES ASSUME h <= e PROVE FALSE
      BY <1>2
    <3>1. h # 1
      BY <2>1, <2>2, <1>2 DEF e
    <3>2. h \in Nat /\ 1 + 1 <= h /\ h <= e
      BY <3>1, <2>1, <1>a
    <3> QED BY <3>2, <2>2, <1>1, Inside DEF e
  <2>4. h - e \in 1 .. i /\ h - e \in 1 .. Len(s) - e /\ h - e + e = h
    BY <2>1, <2>3, <1>1, <1>2
  <2>5. r[h - e] = N /\ h - e \in DOMAIN r
    BY <2>2, <2>4, <1>4
  <2>6. EndAt(r, t, h - e) = EndAt(s, t, h) - e
    BY <2>4, <2>5, <1>6
  <2>7. EndAt(s, t, h) \in Nat
    <3>1. h \in Nat /\ h \in DOMAIN s
      BY <2>1, <2>4, <1>1, <1>4
    <3> QED BY <3>1, <2>2, Frame
  <2>8. i <= EndAt(r, t, h - e)
    BY <2>1, <2>2, <2>6, <2>7, <1>2
  <2> QED BY <2>4, <2>5, <2>8
<1>8. \A i, j \in DOMAIN r : r[i].kind = "multi" /\ r[j].kind = "multi" => i = j
  <2> SUFFICES ASSUME NEW i \in DOMAIN r, NEW j \in DOMAIN r,
                      r[i].kind = "multi", r[j].kind = "multi"
               PROVE  i = j
    OBVIOUS
  <2>1. i + e \in DOMAIN s /\ s[i + e].kind = "multi" /\ j + e \in DOMAIN s /\ s[j + e].kind = "multi"
    BY <1>1, <1>4
  <2>2. i + e = j + e
    BY <2>1 DEF Framed
  <2> QED BY <2>2, <1>2, <1>4
<1>9. Oldest(r, t) = Oldest(s, t) + 1
  <2>1. CASE e = Len(s)
    <3>1. Len(r) = 0
      BY <2>1, <1>1, <1>4
    <3>2. r = << >>
      BY <3>1, <1>4, EmptySeq
    <3> QED BY <3>2, <2>1, <1>f DEF Oldest
  <2>2. CASE e # Len(s)
    <3>1. 2 \in 1 .. Len(s) - e
      BY <2>2, <1>a, <1>f
    <3>2. r # << >>
      BY <3>1, <1>4, EmptySeq
    <3>3. r[2] = s[e + 2]
      BY <3>1, <1>2, <1>4
    <3> QED BY <3>2, <3>3, <2>2, <1>f DEF Oldest
  <2> QED BY <2>1, <2>2
<1> QED BY SMTT(30), <1>5, <1>6, <1>7, <1>8, <1>9 DEF Framed, r, e

(* ... and what is sent adds a frame at its end.                           *)
LEMMA FramedMore ==
  ASSUME NEW s \in Seq(Symbol), NEW t \in Seq(Message), Framed(s, t), Manageable(t),
         NEW m \in Messages, m.kind # "refusal", m.kind = "multi" => ~Pending("multi", s)
  PROVE  Framed(s \o Encoded(m, Len(t) + 1),
                Append(t, [kind |-> m.kind, n |-> Len(t) + 1, body |-> Body(m)]))
<1>a. Len(s) \in Nat /\ DOMAIN s = 1 .. Len(s) /\ Len(t) \in Nat /\ DOMAIN t = 1 .. Len(t)
      /\ Len(t) + 1 \in Nat
  BY LenProperties
<1>h. \A i \in DOMAIN Encoded(m, Len(t) + 1) :
        /\ Encoded(m, Len(t) + 1)[i] = N => i = 1
        /\ Encoded(m, Len(t) + 1)[i].kind \in Kinds => i = 2
        /\ Encoded(m, Len(t) + 1)[i].kind = "multi" => m.kind \in {"multi", "refusal"}
  <2>1. PICK n \in Nat : n = Len(t) + 1
    BY <1>a
  <2>2. \A i \in DOMAIN Encoded(m, n) :
          /\ Encoded(m, n)[i] = N => i = 1
          /\ Encoded(m, n)[i].kind \in Kinds => i = 2
          /\ Encoded(m, n)[i].kind = "multi" => m.kind \in {"multi", "refusal"}
    BY OneHeader
  <2> QED BY <2>1, <2>2
<1>1. PICK e \in Seq(Symbol), c \in Nat, w \in Message :
        /\ e = Encoded(m, Len(t) + 1) /\ c = Len(Body(m))
        /\ w = [kind |-> m.kind, n |-> Len(t) + 1, body |-> Body(m)]
        /\ Len(e) = c + (IF m.kind = "multi" THEN 6 ELSE 4) /\ DOMAIN e = 1 .. Len(e)
        /\ e[1] = N /\ e[2] = [kind |-> Header(m), n |-> Len(t) + 1, len |-> Len(m.payload)]
        /\ \A k \in 1 .. c : e[2 + k] = Body(m)[k]
        /\ e[c + 3] = CR /\ e[c + 4] = LF
        /\ m.kind = "multi" => e[c + 5] = CR /\ e[c + 6] = LF
        /\ m.kind \in Kinds
  <2>1. [kind |-> m.kind, n |-> Len(t) + 1, body |-> Body(m)] \in Message
    BY <1>a, OnTheWire DEF Message
  <2> QED BY <2>1, <1>a, OnTheWire
<1>2. PICK s2 \in Seq(Symbol) :
        /\ s2 = s \o e /\ Len(s2) = Len(s) + Len(e) /\ Len(e) \in Nat
        /\ DOMAIN s2 = 1 .. Len(s) + Len(e)
        /\ \A i \in 1 .. Len(s) : s2[i] = s[i]
        /\ \A i \in 1 .. Len(e) : s2[Len(s) + i] = e[i]
  <2>1. /\ s \o e \in Seq(Symbol) /\ Len(s \o e) = Len(s) + Len(e) /\ Len(e) \in Nat
        /\ DOMAIN (s \o e) = 1 .. Len(s) + Len(e)
        /\ \A i \in 1 .. Len(s) : (s \o e)[i] = s[i]
        /\ \A i \in 1 .. Len(e) : (s \o e)[Len(s) + i] = e[i]
    BY Joined
  <2> QED BY <2>1
<1>3. PICK t2 \in Seq(Message) :
        /\ t2 = Append(t, w) /\ Len(t2) = Len(t) + 1 /\ DOMAIN t2 = 1 .. Len(t) + 1
        /\ \A i \in 1 .. Len(t) : t2[i] = t[i]
        /\ t2[Len(t) + 1] = w
  <2>1. /\ Append(t, w) \in Seq(Message) /\ Len(Append(t, w)) = Len(t) + 1
        /\ \A i \in 1 .. Len(t) : Append(t, w)[i] = t[i]
        /\ Append(t, w)[Len(t) + 1] = w
    BY AppendProperties
  <2>2. DOMAIN Append(t, w) = 1 .. Len(t) + 1
    BY <2>1, LenProperties
  <2> QED BY <2>1, <2>2
<1>b. Len(e) >= 4 /\ Len(e) \in Nat /\ Len(s) \in Nat /\ c \in Nat
      /\ Len(e) = c + (IF m.kind = "multi" THEN 6 ELSE 4)
  BY <1>1, <1>2, <1>a
<1>4. /\ \A i \in 1 .. Len(e) : e[i] = N => i = 1
      /\ \A i \in 1 .. Len(e) : e[i].kind = "multi" => i = 2 /\ m.kind = "multi"
  <2>1. "multi" \in Kinds
    BY DEF Kinds
  <2> SUFFICES ASSUME NEW i \in 1 .. Len(e)
               PROVE  (e[i] = N => i = 1) /\ (e[i].kind = "multi" => i = 2 /\ m.kind = "multi")
    OBVIOUS
  <2>2. i \in DOMAIN Encoded(m, Len(t) + 1)
    BY <1>1
  <2>3. /\ Encoded(m, Len(t) + 1)[i] = N => i = 1
        /\ Encoded(m, Len(t) + 1)[i].kind \in Kinds => i = 2
        /\ Encoded(m, Len(t) + 1)[i].kind = "multi" => m.kind \in {"multi", "refusal"}
    BY <2>2, <1>h
  <2> QED BY <2>1, <2>3, <1>1
<1>5. s2[Len(s) + 1] = N /\ s2[Len(s) + 2] = e[2] /\ e[2].n = Len(t) + 1
  <2>1. 1 \in 1 .. Len(e) /\ 2 \in 1 .. Len(e)
    BY <1>b
  <2>2. s2[Len(s) + 1] = e[1] /\ s2[Len(s) + 2] = e[2]
    BY <2>1, <1>2
  <2>3. e[1] = N /\ e[2].n = Len(t) + 1
    BY <1>1
  <2> QED BY <2>2, <2>3
<1>6. \A i \in 1 .. Len(s) + Len(e) : i \in 1 .. Len(s) \/ \E k \in 1 .. Len(e) : i = Len(s) + k
  <2> SUFFICES ASSUME NEW i \in 1 .. Len(s) + Len(e), i \notin 1 .. Len(s)
               PROVE  \E k \in 1 .. Len(e) : i = Len(s) + k
    OBVIOUS
  <2>1. i - Len(s) \in 1 .. Len(e) /\ i = Len(s) + (i - Len(s))
    BY <1>b
  <2> QED BY <2>1
<1>7. s2 # << >> => s2[1] = N
  <2>1. CASE s = << >>
    <3>1. Len(s) = 0
      BY <2>1
    <3>2. Len(s) + 1 = 1
      BY <3>1
    <3> QED BY <3>2, <1>5
  <2>2. CASE s # << >>
    <3>1. Len(s) \in Nat \ {0}
      BY <2>2, EmptySeq
    <3>2. 1 \in 1 .. Len(s)
      BY <3>1
    <3> QED BY <2>2, <3>2, <1>2 DEF Framed
  <2> QED BY <2>1, <2>2
(* The old frames are the same, ...                                        *)
<1>8. ASSUME NEW i \in Nat, i \in 1 .. Len(s), s[i] = N
      PROVE  /\ i + 1 \in DOMAIN s2 /\ s2[i + 1].n \in DOMAIN t2 /\ EndAt(s2, t2, i) <= Len(s2)
             /\ Whole(s2, t2, i) /\ Followed(s2, t2, i) /\ EndAt(s2, t2, i) = EndAt(s, t, i)
  <2>1. PICK v \in Message, b \in Nat, f \in Nat :
          /\ v = t[s[i + 1].n] /\ b = Len(v.body) /\ f = EndAt(s, t, i)
          /\ s[i + 1].n \in DOMAIN t /\ DOMAIN v.body = 1 .. b
          /\ i >= 1 /\ Len(s) \in Nat /\ DOMAIN s = 1 .. Len(s)
          /\ f = i + b + (IF v.kind = "multi" THEN 5 ELSE 3) /\ f <= Len(s) /\ f >= i + 3
          /\ s[i + 1].kind = v.kind
          /\ v.kind = "recv" => s[i + 1].len = b
          /\ \A x \in 1 .. b : s[i + 1 + x] = v.body[x]
          /\ s[i + b + 2] = CR /\ s[i + b + 3] = LF
          /\ v.kind = "multi" => s[i + b + 4] = CR /\ s[i + b + 5] = LF
          /\ Followed(s, t, i)
    BY <1>8, <1>a, Frame
  <2>a. /\ f = i + b + (IF v.kind = "multi" THEN 5 ELSE 3) /\ f <= Len(s) /\ i >= 1
        /\ f \in Nat /\ b \in Nat /\ f >= i + 3
    BY <2>1
  <2>2. /\ \A k \in 1 .. b : i + 1 + k \in 1 .. Len(s)
        /\ i + 1 \in 1 .. Len(s) /\ i + b + 2 \in 1 .. Len(s) /\ i + b + 3 \in 1 .. Len(s)
    BY <2>a, <1>a
  <2>3. v.kind = "multi" => i + b + 4 \in 1 .. Len(s) /\ i + b + 5 \in 1 .. Len(s)
    BY <2>a, <1>a
  <2>4. s2[i + 1] = s[i + 1] /\ t2[s2[i + 1].n] = v
    BY ZenonT(30), <2>1, <2>2, <1>2, <1>3, <1>a
  <2>5. EndAt(s2, t2, i) = f
    BY <2>1, <2>4 DEF EndAt
  <2>6. Whole(s2, t2, i)
    <3>1. \A k \in 1 .. b : s2[i + 1 + k] = v.body[k]
      <4> SUFFICES ASSUME NEW k \in 1 .. b PROVE s2[i + 1 + k] = v.body[k]
        OBVIOUS
      <4>1. s2[i + 1 + k] = s[i + 1 + k]
        BY <2>2, <1>2
      <4>2. s[i + 1 + k] = v.body[k]
        BY <2>1
      <4> QED BY <4>1, <4>2
    <3>2. s2[i + b + 2] = CR /\ s2[i + b + 3] = LF
      BY <2>1, <2>2, <1>2
    <3>3. v.kind = "multi" => s2[i + b + 4] = CR /\ s2[i + b + 5] = LF
      BY <2>1, <2>3, <1>2
    <3> QED BY <3>1, <3>2, <3>3, <2>1, <2>4 DEF Whole
  <2>7. Followed(s2, t2, i)
    <3>1. CASE f = Len(s) /\ s[i + 1].n = Len(t)
      <4>1. f + 2 <= Len(s2) /\ s2[f + 1] = N /\ s2[f + 2].n = s2[i + 1].n + 1
        <5>1. f + 2 <= Len(s) + Len(e) /\ f = Len(s)
          BY <3>1, <1>b
        <5>2. s2[f + 1] = N /\ s2[f + 2].n = Len(t) + 1
          BY <5>1, <1>5
        <5> QED BY <5>1, <5>2, <3>1, <2>4, <1>2
      <4> QED BY <4>1, <2>5 DEF Followed
    <3>2. CASE f + 2 <= Len(s) /\ s[f + 1] = N /\ s[f + 2].n = s[i + 1].n + 1
      <4>0. f \in Nat /\ f + 2 <= Len(s) /\ Len(s) \in Nat /\ Len(e) \in Nat
        BY <3>2, <2>a, <1>b
      <4>1. f + 1 \in 1 .. Len(s) /\ f + 2 \in 1 .. Len(s)
        BY <4>0
      <4>2. f + 2 <= Len(s2)
        <5>1. f + 2 <= Len(s) + Len(e)
          BY <4>0
        <5> QED BY <5>1, <1>2
      <4> QED BY <3>2, <4>1, <4>2, <2>4, <2>5, <1>2 DEF Followed
    <3> QED BY <3>1, <3>2, <2>1 DEF Followed
  <2>8. i + 1 \in DOMAIN s2 /\ EndAt(s2, t2, i) <= Len(s2)
    <3>1. i + 1 \in 1 .. Len(s) + Len(e) /\ f <= Len(s) + Len(e)
      BY <2>a, <1>b
    <3> QED BY <3>1, <2>5, <1>2
  <2>9. s2[i + 1].n \in DOMAIN t2
    <3>1. s[i + 1].n \in 1 .. Len(t)
      BY <2>1, <1>a
    <3>2. s[i + 1].n \in 1 .. Len(t) + 1
      BY <3>1, <1>a
    <3> QED BY <3>2, <2>4, <1>3
  <2> QED BY <2>1, <2>5, <2>6, <2>7, <2>8, <2>9
(* ... and the new one is that of the message.                             *)
<1>9. LET i == Len(s) + 1
      IN  /\ i + 1 \in DOMAIN s2 /\ s2[i + 1].n \in DOMAIN t2 /\ EndAt(s2, t2, i) = Len(s2)
          /\ Whole(s2, t2, i) /\ Followed(s2, t2, i)
  <2>1. PICK i \in Nat : i = Len(s) + 1
    BY <1>a
  <2>2. i + 1 = Len(s) + 2 /\ i + 1 \in DOMAIN s2 /\ s2[i + 1] = e[2]
    <3>1. i + 1 = Len(s) + 2 /\ i + 1 \in 1 .. Len(s) + Len(e)
      BY <2>1, <1>b
    <3> QED BY <3>1, <1>2, <1>5
  <2>3. s2[i + 1].n = Len(t2) /\ s2[i + 1].n \in DOMAIN t2 /\ t2[s2[i + 1].n] = w
    <3>1. Len(t) + 1 \in 1 .. Len(t) + 1
      BY <1>a
    <3> QED BY <3>1, <2>2, <1>3, <1>5
  <2>4. w.kind = m.kind /\ w.body = Body(m) /\ Len(w.body) = c
    BY <1>1
  <2>5. EndAt(s2, t2, i) = i + c + (IF m.kind = "multi" THEN 5 ELSE 3)
    BY <2>3, <2>4 DEF EndAt
  <2>6. EndAt(s2, t2, i) = Len(s2)
    <3>1. i + c + (IF m.kind = "multi" THEN 5 ELSE 3) = Len(s) + Len(e)
      <4>1. CASE m.kind = "multi"
        BY <4>1, <2>1, <1>b
      <4>2. CASE m.kind # "multi"
        BY <4>2, <2>1, <1>b
      <4> QED BY <4>1, <4>2
    <3> QED BY <3>1, <2>5, <1>2
  <2>7. Whole(s2, t2, i)
    <3>1. \A k \in 1 .. c : s2[i + 1 + k] = w.body[k]
      <4> SUFFICES ASSUME NEW k \in 1 .. c PROVE s2[i + 1 + k] = w.body[k]
        OBVIOUS
      <4>1. i + 1 + k = Len(s) + (2 + k) /\ 2 + k \in 1 .. Len(e)
        BY <2>1, <1>b
      <4> QED BY <4>1, <2>4, <1>1, <1>2
    <3>2. s2[i + c + 2] = CR /\ s2[i + c + 3] = LF
      <4>1. /\ i + c + 2 = Len(s) + (c + 3) /\ c + 3 \in 1 .. Len(e)
            /\ i + c + 3 = Len(s) + (c + 4) /\ c + 4 \in 1 .. Len(e)
        BY <2>1, <1>b
      <4>2. s2[i + c + 2] = e[c + 3] /\ s2[i + c + 3] = e[c + 4]
        BY Zenon, <4>1, <1>2
      <4> QED BY <4>2, <1>1
    <3>3. m.kind = "multi" => s2[i + c + 4] = CR /\ s2[i + c + 5] = LF
      <4> SUFFICES ASSUME m.kind = "multi" PROVE s2[i + c + 4] = CR /\ s2[i + c + 5] = LF
        OBVIOUS
      <4>1. /\ i + c + 4 = Len(s) + (c + 5) /\ c + 5 \in 1 .. Len(e)
            /\ i + c + 5 = Len(s) + (c + 6) /\ c + 6 \in 1 .. Len(e)
        BY <2>1, <1>b
      <4>2. s2[i + c + 4] = e[c + 5] /\ s2[i + c + 5] = e[c + 6]
        BY Zenon, <4>1, <1>2
      <4> QED BY <4>2, <1>1
    <3>4. e[2].kind = m.kind /\ (m.kind = "recv" => e[2].len = c)
      <4>1. Header(m) = m.kind
        BY DEF Header
      <4>2. m.kind = "recv" => Len(m.payload) = c
        BY <1>1 DEF Body
      <4> QED BY SMTT(30), <4>1, <4>2, <1>1
    <3> QED BY <3>1, <3>2, <3>3, <3>4, <2>2, <2>3, <2>4 DEF Whole
  <2>8. Followed(s2, t2, i)
    BY <2>3, <2>6 DEF Followed
  <2> QED BY <2>1, <2>2, <2>3, <2>6, <2>7, <2>8
<1>10. ASSUME NEW i \in DOMAIN s2, s2[i] = N
       PROVE  /\ i + 1 \in DOMAIN s2 /\ s2[i + 1].n \in DOMAIN t2 /\ EndAt(s2, t2, i) <= Len(s2)
              /\ Whole(s2, t2, i) /\ Followed(s2, t2, i)
  <2>1. CASE i \in 1 .. Len(s)
    BY SMTT(30), <2>1, <1>2, <1>8, <1>10
  <2>2. CASE \E k \in 1 .. Len(e) : i = Len(s) + k
    <3>1. PICK k \in 1 .. Len(e) : i = Len(s) + k
      BY <2>2
    <3>2. k = 1
      BY <3>1, <1>2, <1>4, <1>10
    <3>3. Len(s2) \in Nat
      BY <1>2, <1>b
    <3> QED BY <3>1, <3>2, <3>3, <1>9
  <2> QED BY <2>1, <2>2, <1>2, <1>6
<1>11. ASSUME NEW i \in DOMAIN s2 PROVE \E h \in 1 .. i : s2[h] = N /\ i <= EndAt(s2, t2, h)
  <2>1. CASE i \in 1 .. Len(s)
    <3>1. PICK h \in 1 .. i : s[h] = N /\ i <= EndAt(s, t, h)
      BY <2>1, <1>a DEF Framed
    <3>2. h \in 1 .. Len(s) /\ h \in Nat
      BY <2>1, <1>a
    <3>3. s2[h] = N /\ EndAt(s2, t2, h) = EndAt(s, t, h)
      BY <3>1, <3>2, <1>2, <1>8
    <3> QED BY <3>1, <3>3
  <2>2. CASE \E k \in 1 .. Len(e) : i = Len(s) + k
    <3>1. Len(s) + 1 \in 1 .. i /\ i <= Len(s) + Len(e)
      BY <2>2, <1>b
    <3> QED BY <3>1, <1>2, <1>5, <1>9
  <2> QED BY <2>1, <2>2, <1>2, <1>6
<1>12. \A i, j \in DOMAIN s2 : s2[i].kind = "multi" /\ s2[j].kind = "multi" => i = j
  <2> SUFFICES ASSUME NEW i \in DOMAIN s2, NEW j \in DOMAIN s2,
                      s2[i].kind = "multi", s2[j].kind = "multi"
               PROVE  i = j
    OBVIOUS
  <2>1. \A x \in DOMAIN s2 : s2[x].kind = "multi" =>
          (x \in 1 .. Len(s) /\ s[x].kind = "multi") \/ (x = Len(s) + 2 /\ m.kind = "multi")
    <3> SUFFICES ASSUME NEW x \in 1 .. Len(s) + Len(e), s2[x].kind = "multi"
                 PROVE  \/ x \in 1 .. Len(s) /\ s[x].kind = "multi"
                        \/ x = Len(s) + 2 /\ m.kind = "multi"
      BY <1>2
    <3>1. CASE x \in 1 .. Len(s)
      BY <3>1, <1>2
    <3>2. CASE \E k \in 1 .. Len(e) : x = Len(s) + k
      BY <3>2, <1>2, <1>4
    <3> QED BY <3>1, <3>2, <1>6
  <2>2. m.kind = "multi" => \A x \in 1 .. Len(s) : s[x].kind # "multi"
    BY <1>a DEF Pending
  <2>3. \A x, y \in 1 .. Len(s) : s[x].kind = "multi" /\ s[y].kind = "multi" => x = y
    BY <1>a DEF Framed
  <2> QED BY <2>1, <2>2, <2>3
<1>13. Framed(s2, t2)
  BY <1>7, <1>10, <1>11, <1>12 DEF Framed
<1> QED BY <1>1, <1>2, <1>3, <1>13

-----------------------------------------------------------------------------
(* One call of to_term_nl on a stream of frames.                           *)

(* The buffer holds the beginning of the first frame, or all of it.        *)
LEMMA Beginning ==
  ASSUME TypeOK, Framed(Untaken, sent), Manageable(sent), Untaken # << >>
  PROVE  \E m \in Message, b \in Nat, e \in Nat :
           /\ m = sent[Untaken[2].n] /\ b = Len(m.body) /\ e = EndAt(Untaken, sent, 1)
           /\ Untaken[2].n \in DOMAIN sent /\ m.n = Untaken[2].n /\ DOMAIN m.body = 1 .. b
           /\ e = b + (IF m.kind = "multi" THEN 6 ELSE 4) /\ e <= Len(Untaken)
           /\ m.kind \in Kinds \ {"refusal"} /\ m.kind = Untaken[2].kind
           /\ Len(more_) \in Nat /\ DOMAIN more_ = 1 .. Len(more_) /\ Len(Untaken) \in Nat
           /\ DOMAIN Untaken = 1 .. Len(Untaken) /\ Len(more_) <= Len(Untaken)
           /\ \A x \in 1 .. Len(more_) : more_[x] = Untaken[x]
           /\ Untaken[1] = N /\ (m.kind = "recv" => Untaken[2].len = b)
           /\ \A x \in 1 .. b : Untaken[x + 2] = m.body[x]
           /\ Untaken[b + 3] = CR /\ Untaken[b + 4] = LF
           /\ m.kind = "multi" => Untaken[b + 5] = CR /\ Untaken[b + 6] = LF
           /\ IF m.kind = "multi" THEN BlankLines(m.body \o Eol) = {} ELSE LineFeeds(m.body) = {}
<1>1. /\ Untaken \in Seq(Symbol) /\ Len(more_) \in Nat /\ DOMAIN more_ = 1 .. Len(more_)
      /\ Len(Untaken) = Len(more_) + Len(wire) /\ Len(wire) \in Nat
      /\ \A x \in 1 .. Len(more_) : Untaken[x] = more_[x]
  BY Joined DEF TypeOK, Untaken
<1>2. 1 \in DOMAIN Untaken /\ Untaken[1] = N /\ sent \in Seq(Message)
  BY <1>1, LenProperties, EmptySeq DEF Framed, TypeOK
<1>p. PICK s \in Seq(Symbol), t \in Seq(Message), i \in Nat : s = Untaken /\ t = sent /\ i = 1
  BY <1>1, <1>2
<1>f. Framed(s, t) /\ i \in DOMAIN s /\ s[i] = N
  BY <1>p, <1>2
<1>3. PICK m \in Message, b \in Nat, e \in Nat :
        /\ m = t[s[i + 1].n] /\ b = Len(m.body) /\ e = EndAt(s, t, i)
        /\ s[i + 1].n \in DOMAIN t /\ DOMAIN m.body = 1 .. b
        /\ i >= 1 /\ Len(s) \in Nat /\ DOMAIN s = 1 .. Len(s)
        /\ e = i + b + (IF m.kind = "multi" THEN 5 ELSE 3) /\ e <= Len(s) /\ e >= i + 3
        /\ s[i + 1].kind = m.kind
        /\ m.kind = "recv" => s[i + 1].len = b
        /\ \A x \in 1 .. b : s[i + 1 + x] = m.body[x]
        /\ s[i + b + 2] = CR /\ s[i + b + 3] = LF
        /\ m.kind = "multi" => s[i + b + 4] = CR /\ s[i + b + 5] = LF
        /\ Followed(s, t, i)
  BY <1>f, Frame
<1>4. /\ i + 1 = 2 /\ i + b + 2 = b + 3 /\ i + b + 3 = b + 4 /\ i + b + 4 = b + 5 /\ i + b + 5 = b + 6
      /\ \A x \in 1 .. b : i + 1 + x = x + 2
  BY <1>p
<1>5. e = b + (IF m.kind = "multi" THEN 6 ELSE 4)
  <2>1. e = i + b + (IF m.kind = "multi" THEN 5 ELSE 3)
    BY <1>3
  <2> QED BY <2>1, <1>p
<1>6. /\ \A x \in 1 .. b : s[x + 2] = m.body[x]
      /\ s[b + 3] = CR /\ s[b + 4] = LF
      /\ m.kind = "multi" => s[b + 5] = CR /\ s[b + 6] = LF
  BY <1>3, <1>4
<1>e. e = EndAt(Untaken, sent, 1)
  BY <1>3, <1>p
<1>7. /\ m.n = Untaken[2].n /\ m.kind # "refusal"
      /\ IF m.kind = "multi" THEN BlankLines(m.body \o Eol) = {} ELSE LineFeeds(m.body) = {}
  <2>1. m = t[s[2].n] /\ s[2].n \in DOMAIN t
    BY <1>3, <1>4
  <2> QED BY <2>1, <1>p DEF Manageable
<1>8. m.kind \in Kinds
  BY DEF Message
<1>9. Len(more_) <= Len(Untaken)
  BY <1>1
<1>10. /\ m = t[s[2].n] /\ b = Len(m.body)
       /\ s[2].n \in DOMAIN t /\ DOMAIN m.body = 1 .. b
       /\ Len(s) \in Nat /\ DOMAIN s = 1 .. Len(s) /\ e <= Len(s)
       /\ m.kind = s[2].kind /\ (m.kind = "recv" => s[2].len = b)
  BY <1>3, <1>4
<1>11. \A x \in 1 .. Len(more_) : more_[x] = Untaken[x]
  BY <1>1
<1>12. /\ m = sent[Untaken[2].n] /\ b = Len(m.body)
       /\ Untaken[2].n \in DOMAIN sent /\ DOMAIN m.body = 1 .. b
       /\ Len(Untaken) \in Nat /\ DOMAIN Untaken = 1 .. Len(Untaken) /\ e <= Len(Untaken)
       /\ m.kind = Untaken[2].kind /\ (m.kind = "recv" => Untaken[2].len = b)
  BY <1>10, <1>p
<1>13. /\ \A x \in 1 .. b : Untaken[x + 2] = m.body[x]
       /\ Untaken[b + 3] = CR /\ Untaken[b + 4] = LF
       /\ m.kind = "multi" => Untaken[b + 5] = CR /\ Untaken[b + 6] = LF
  BY <1>6, <1>p
<1>14. m.kind \in Kinds \ {"refusal"}
  BY <1>7, <1>8
<1>15. Len(more_) \in Nat /\ DOMAIN more_ = 1 .. Len(more_) /\ Untaken[1] = N
  BY <1>1, <1>2
<1> QED BY <1>5, <1>7, <1>9, <1>11, <1>12, <1>13, <1>14, <1>15, <1>e, Zenon

(* The first line feed of any but a multiline answer is its end.           *)
LEMMA NoEarlyLineFeed ==
  ASSUME TypeOK, Framed(Untaken, sent), Manageable(sent), Untaken # << >>,
         Untaken[2].kind # "multi", NEW x \in LineFeeds(more_)
  PROVE  x >= EndAt(Untaken, sent, 1)
<1>1. PICK m \in Message, b \in Nat, e \in Nat :
        /\ m = sent[Untaken[2].n] /\ e = EndAt(Untaken, sent, 1)
        /\ m.kind = Untaken[2].kind
        /\ Len(more_) \in Nat /\ DOMAIN more_ = 1 .. Len(more_) /\ Len(Untaken) \in Nat
        /\ DOMAIN Untaken = 1 .. Len(Untaken) /\ Len(more_) <= Len(Untaken)
        /\ \A y \in 1 .. Len(more_) : more_[y] = Untaken[y]
        /\ Untaken[1] = N
  BY ZenonT(30), Beginning
<1>2. x \in 1 .. Len(more_) /\ Untaken[x] = LF
  BY <1>1 DEF LineFeeds
<1>3. N # LF
  BY DEF N, LF, Sym
<1>4. x \in Nat /\ x # 1
  BY <1>1, <1>2, <1>3
<1>5. SUFFICES ASSUME x < e PROVE FALSE
  BY <1>1, <1>4
<1>6. 1 + 1 <= x /\ x <= EndAt(Untaken, sent, 1)
  <2>1. 1 + 1 <= x
    BY <1>2, <1>4
  <2>2. x <= e
    BY <1>4, <1>5
  <2> QED BY <2>1, <2>2, <1>1
<1>7. Untaken \in Seq(Symbol) /\ sent \in Seq(Message) /\ 1 \in DOMAIN Untaken
  <2>1. 1 \in 1 .. Len(Untaken)
    BY <1>1, <1>2
  <2> QED BY <2>1, <1>1, Joined DEF TypeOK, Untaken
<1>8. sent[Untaken[1 + 1].n].kind # "multi"
  <2>1. 1 + 1 = 2
    OBVIOUS
  <2> QED BY <2>1, <1>1
<1>9. x = EndAt(Untaken, sent, 1)
  BY <1>1, <1>2, <1>4, <1>6, <1>7, <1>8, Inside
<1> QED BY <1>1, <1>4, <1>5, <1>9

(* The buffer without the header.                                          *)
LEMMA WithoutHeader ==
  ASSUME more_ \in Seq(Symbol), Len(more_) >= 2
  PROVE  \E rest \in Seq(Symbol) :
           /\ rest = From(more_, 3) /\ Len(rest) = Len(more_) - 2 /\ DOMAIN rest = 1 .. Len(rest)
           /\ \A k \in 1 .. Len(rest) : rest[k] = more_[k + 2] /\ k + 2 \in 1 .. Len(more_)
<1>0. Len(more_) \in Nat /\ Len(more_) >= 2
  BY LenProperties
<1>1. 3 \in 1 .. Len(more_) + 1 /\ Len(more_) - 3 + 1 = Len(more_) - 2
  BY <1>0
<1>2. /\ From(more_, 3) \in Seq(Symbol) /\ Len(From(more_, 3)) = Len(more_) - 3 + 1
      /\ DOMAIN From(more_, 3) = 1 .. Len(more_) - 3 + 1
      /\ \A k \in 1 .. Len(more_) - 3 + 1 :
           k + 3 - 1 \in 1 .. Len(more_) /\ From(more_, 3)[k] = more_[k + 3 - 1]
  BY ZenonT(30), <1>1, Rest
<1>3. PICK rest \in Seq(Symbol) : rest = From(more_, 3)
  BY <1>2
<1>4. Len(rest) = Len(more_) - 2 /\ DOMAIN rest = 1 .. Len(rest)
  BY <1>1, <1>2, <1>3
<1>5. \A k \in 1 .. Len(rest) : rest[k] = more_[k + 2] /\ k + 2 \in 1 .. Len(more_)
  <2> SUFFICES ASSUME NEW k \in 1 .. Len(rest)
               PROVE  rest[k] = more_[k + 2] /\ k + 2 \in 1 .. Len(more_)
    OBVIOUS
  <2>1. k + 3 - 1 = k + 2 /\ k \in 1 .. Len(more_) - 3 + 1
    BY <1>1, <1>4
  <2> QED BY <2>1, <1>2, <1>3
<1> QED BY <1>3, <1>4, <1>5

(* Of a message that is not complete nothing is taken.                     *)
LEMMA Incomplete ==
  ASSUME TypeOK, Framed(Untaken, sent), Manageable(sent), Untaken # << >>,
         Len(more_) < EndAt(Untaken, sent, 1)
  PROVE  ToTermNl = NeedMoreData
<1>1. PICK m \in Message, b \in Nat, e \in Nat :
        /\ m = sent[Untaken[2].n] /\ b = Len(m.body) /\ e = EndAt(Untaken, sent, 1)
        /\ DOMAIN m.body = 1 .. b
        /\ e = b + (IF m.kind = "multi" THEN 6 ELSE 4)
        /\ m.kind = Untaken[2].kind
        /\ Len(more_) \in Nat /\ DOMAIN more_ = 1 .. Len(more_)
        /\ \A x \in 1 .. Len(more_) : more_[x] = Untaken[x]
        /\ \A x \in 1 .. b : Untaken[x + 2] = m.body[x]
        /\ Untaken[b + 3] = CR /\ Untaken[b + 4] = LF
        /\ m.kind = "multi" => Untaken[b + 5] = CR /\ Untaken[b + 6] = LF
        /\ IF m.kind = "multi" THEN BlankLines(m.body \o Eol) = {} ELSE LineFeeds(m.body) = {}
  BY ZenonT(30), Beginning
<1>2. CASE LineFeeds(more_) = {} \/ ~StartsMessage(more_)
  BY <1>2 DEF ToTermNl
<1>3. CASE LineFeeds(more_) # {} /\ StartsMessage(more_)
  <2>1. PICK x \in LineFeeds(more_) : TRUE
    BY <1>3
  <2>2. m.kind = "multi"
    <3> SUFFICES ASSUME m.kind # "multi" PROVE FALSE
      OBVIOUS
    <3>1. x >= e /\ x \in 1 .. Len(more_)
      BY <1>1, NoEarlyLineFeed DEF LineFeeds
    <3> QED BY <3>1, <1>1
  <2>3. e = b + 6 /\ Len(more_) < b + 6 /\ Len(more_) \in Nat /\ Len(more_) >= 2 /\ more_[2].kind = "multi"
    <3>1. e = b + 6 /\ Len(more_) < e /\ Len(more_) \in Nat
      BY <2>2, <1>1
    <3>2. Len(more_) >= 2
      BY <1>3 DEF StartsMessage
    <3>3. 2 \in 1 .. Len(more_)
      BY <3>1, <3>2
    <3> QED BY <3>1, <3>2, <3>3, <2>2, <1>1
  <2>4. PICK rest \in Seq(Symbol) :
          /\ rest = From(more_, 3) /\ Len(rest) = Len(more_) - 2 /\ DOMAIN rest = 1 .. Len(rest)
          /\ \A k \in 1 .. Len(rest) : rest[k] = more_[k + 2] /\ k + 2 \in 1 .. Len(more_)
    BY <2>3, WithoutHeader DEF TypeOK
  <2>5. PICK d \in Seq(Symbol) :
          /\ d = m.body \o Eol /\ Len(d) = b + 2 /\ DOMAIN d = 1 .. b + 2
          /\ \A k \in 1 .. b : d[k] = m.body[k]
          /\ d[b + 1] = CR /\ d[b + 2] = LF
    <3>1. m.body \in Seq(Symbol)
      BY DEF Message
    <3>2. Eol \in Seq(Symbol) /\ Len(Eol) = 2 /\ Eol[1] = CR /\ Eol[2] = LF
      BY DEF Eol, CR, LF, Sym, Symbol
    <3> DEFINE l == Eol
    <3> HIDE DEF l
    <3>3. l \in Seq(Symbol)
      BY <3>2 DEF l
    <3>4. /\ m.body \o l \in Seq(Symbol) /\ Len(m.body \o l) = Len(m.body) + Len(l)
          /\ DOMAIN (m.body \o l) = 1 .. Len(m.body) + Len(l)
          /\ \A k \in 1 .. Len(m.body) : (m.body \o l)[k] = m.body[k]
          /\ \A k \in 1 .. Len(l) : (m.body \o l)[Len(m.body) + k] = l[k]
      BY <3>1, <3>3, Joined
    <3>5. Len(l) = 2 /\ l[1] = CR /\ l[2] = LF /\ b = Len(m.body)
      BY <3>2, <1>1 DEF l
    <3>6. (m.body \o l)[b + 1] = CR /\ (m.body \o l)[b + 2] = LF
      BY <3>4, <3>5
    <3> QED BY <3>4, <3>5, <3>6 DEF l
  <2>6. \A k \in 1 .. Len(rest) : k <= b + 2 => rest[k] = d[k] /\ k \in 1 .. b + 2
    <3> SUFFICES ASSUME NEW k \in 1 .. Len(rest), k <= b + 2 PROVE rest[k] = d[k] /\ k \in 1 .. b + 2
      OBVIOUS
    <3>1. rest[k] = Untaken[k + 2]
      BY <2>4, <1>1
    <3>2. k \in 1 .. b + 2 /\ (k \in 1 .. b \/ k = b + 1 \/ k = b + 2)
      OBVIOUS
    <3>3. CASE k \in 1 .. b
      BY <3>1, <3>2, <3>3, <2>5, <1>1
    <3>4. CASE k = b + 1
      <4>1. k + 2 = b + 3
        BY <3>4
      <4> QED BY ZenonT(30), <3>1, <3>2, <3>4, <4>1, <2>5, <1>1
    <3>5. CASE k = b + 2
      <4>1. k + 2 = b + 4
        BY <3>5
      <4> QED BY ZenonT(30), <3>1, <3>2, <3>5, <4>1, <2>5, <1>1
    <3> QED BY <3>2, <3>3, <3>4, <3>5
  <2>7. BlankLines(rest) = {}
    <3> SUFFICES ASSUME NEW j \in BlankLines(rest) PROVE FALSE
      OBVIOUS
    <3>1. /\ j \in 1 .. Len(rest) /\ rest[j] = LF
          /\ \E i \in LineFeeds(rest) : i < j /\ OnlyCR(rest, i + 1, j - 1)
      BY <2>4 DEF BlankLines, LineFeeds
    <3>2. PICK i \in 1 .. Len(rest) : rest[i] = LF /\ i < j /\ OnlyCR(rest, i + 1, j - 1)
      BY <3>1, <2>4 DEF LineFeeds
    <3>3. CR # LF
      BY DEF CR, LF, Sym
    <3>4. j # b + 3
      <4> SUFFICES ASSUME j = b + 3 PROVE FALSE
        OBVIOUS
      <4>1. j + 2 = b + 5
        OBVIOUS
      <4>2. rest[j] = Untaken[j + 2]
        BY ZenonT(30), <3>1, <2>4, <1>1
      <4> QED BY <4>1, <4>2, <3>1, <3>3, <2>2, <1>1
    <3>5. j <= b + 2 /\ j \in Nat /\ i \in Nat /\ i < j /\ i >= 1 /\ j <= Len(rest) /\ Len(rest) \in Nat
      <4>1. Len(rest) < b + 4 /\ Len(rest) \in Nat
        BY <2>3, <2>4
      <4> QED BY <4>1, <3>1, <3>2, <3>4
    <3>6. i <= b + 2
      BY <3>5
    <3>7. d[j] = LF /\ d[i] = LF /\ j \in DOMAIN d /\ i \in DOMAIN d
      BY <3>1, <3>2, <3>5, <3>6, <2>5, <2>6
    <3>8. OnlyCR(d, i + 1, j - 1)
      <4> SUFFICES ASSUME NEW k \in i + 1 .. j - 1 PROVE d[k] = CR
        BY DEF OnlyCR
      <4>1. rest[k] = CR
        BY <3>2 DEF OnlyCR
      <4>2. k \in 1 .. Len(rest) /\ k <= b + 2
        BY <3>5
      <4> QED BY <4>1, <4>2, <2>6
    <3>9. j \in BlankLines(d)
      BY <3>2, <3>7, <3>8 DEF BlankLines, LineFeeds
    <3> QED BY <3>9, <2>2, <2>5, <1>1
  <2>8. ToTermNl = Multiline
    BY <1>3, <2>3 DEF ToTermNl
  <2> QED BY <2>4, <2>7, <2>8 DEF Multiline
<1> QED BY <1>2, <1>3

(* A body that is followed by a carriage return loses that only.           *)
LEMMA ChompsOne ==
  ASSUME NEW q \in Seq(Symbol), NEW body \in Seq(Symbol), Len(q) = Len(body) + 1,
         q[Len(q)] = CR, \A x \in 1 .. Len(body) : q[x] = body[x]
  PROVE  Chomp(q) = body
<1>1. Len(body) \in Nat /\ Len(q) - 1 = Len(body) /\ Len(body) \in 0 .. Len(q) /\ Len(q) # 0
  BY LenProperties
<1>2. q # << >>
  BY <1>1, EmptySeq
<1>3. Chomp(q) = SubSeq(q, 1, Len(body))
  BY <1>1, <1>2 DEF Chomp
<1>4. /\ SubSeq(q, 1, Len(body)) \in Seq(Symbol) /\ Len(SubSeq(q, 1, Len(body))) = Len(body)
      /\ \A x \in 1 .. Len(body) : SubSeq(q, 1, Len(body))[x] = q[x]
  BY <1>1, Front
<1> QED BY <1>3, <1>4, SeqEqual

(* In a stream with one multiline answer, a line feed at its end or after  *)
(* it is the end of a frame.                                               *)
LEMMA LaterLineFeed ==
  ASSUME NEW s \in Seq(Symbol), NEW t \in Seq(Message), Framed(s, t), Manageable(t), s # << >>,
         s[2].kind = "multi", NEW i \in Nat, i \in DOMAIN s, s[i] = LF, i >= EndAt(s, t, 1)
  PROVE  i = Len(s) \/ (i + 1 \in DOMAIN s /\ s[i + 1] = N)
<1>1. 1 \in DOMAIN s /\ s[1] = N /\ Len(s) \in Nat /\ DOMAIN s = 1 .. Len(s)
  BY LenProperties, EmptySeq DEF Framed
<1>2. PICK e \in Nat : e = EndAt(s, t, 1) /\ e <= Len(s) /\ e >= 4 /\ Followed(s, t, 1)
  BY <1>1, Frame
<1>a. i \in Nat /\ i >= e /\ e >= 4 /\ e \in Nat /\ i <= Len(s)
  BY <1>1, <1>2
<1>3. ASSUME NEW h \in Nat, h \in DOMAIN s, i = EndAt(s, t, h), s[h] = N
      PROVE  i = Len(s) \/ (i + 1 \in DOMAIN s /\ s[i + 1] = N)
  <2>1. Followed(s, t, h)
    BY <1>3, Frame
  <2>2. i = Len(s) \/ (i + 2 <= Len(s) /\ s[i + 1] = N)
    BY <2>1, <1>3 DEF Followed
  <2>3. i + 2 <= Len(s) => i + 1 \in 1 .. Len(s)
    BY <1>a, <1>1
  <2> QED BY <2>2, <2>3, <1>1
<1>4. CASE i = e
  BY <1>1, <1>2, <1>3, <1>4
<1>5. CASE i > e
  <2>1. PICK h \in 1 .. i : s[h] = N /\ i <= EndAt(s, t, h)
    BY DEF Framed
  <2>2. h \in Nat /\ h >= 1 /\ h <= i
    BY <1>a
  <2>3. h \in DOMAIN s /\ N # LF
    <3>1. h \in 1 .. Len(s)
      BY <2>2, <1>a, <1>1
    <3> QED BY <3>1, <1>1 DEF N, LF, Sym
  <2>4. h # i /\ h # 1
    BY <2>1, <2>3, <1>2, <1>5, <1>a
  <2>5. h + 1 \in DOMAIN s /\ s[h + 1].kind = t[s[h + 1].n].kind
    BY <2>1, <2>3 DEF Framed, Whole
  <2>6. s[h + 1].kind # "multi"
    <3> SUFFICES ASSUME s[h + 1].kind = "multi" PROVE FALSE
      OBVIOUS
    <3>1. 2 \in DOMAIN s
      <4>1. 2 \in 1 .. Len(s)
        BY <1>a, <1>1
      <4> QED BY <4>1, <1>1
    <3>2. h + 1 = 2
      BY <3>1, <2>5 DEF Framed
    <3> QED BY <3>2, <2>2, <2>4
  <2>7. h + 1 <= i
    BY <2>2, <2>4, <1>a
  <2>8. i = EndAt(s, t, h)
    BY <2>1, <2>2, <2>3, <2>5, <2>6, <2>7, Inside
  <2> QED BY <2>1, <2>2, <2>3, <2>8, <1>3
<1> QED BY <1>4, <1>5, <1>a

(* A message that is complete is taken, and as it was sent; one with a bad *)
(* header is dropped, and nothing else with it.                            *)
LEMMA Complete ==
  ASSUME TypeOK, Framed(Untaken, sent), Manageable(sent), Untaken # << >>,
         Len(more_) >= EndAt(Untaken, sent, 1)
  PROVE  LET m == sent[Untaken[2].n]
             rest == From(more_, EndAt(Untaken, sent, 1) + 1)
         IN  ToTermNl = IF m.kind = "malformed" THEN Dropped(rest) ELSE Took(m, rest)
<1>1. PICK m \in Message, b \in Nat, e \in Nat :
           /\ m = sent[Untaken[2].n] /\ b = Len(m.body) /\ e = EndAt(Untaken, sent, 1)
           /\ Untaken[2].n \in DOMAIN sent /\ m.n = Untaken[2].n /\ DOMAIN m.body = 1 .. b
           /\ e = b + (IF m.kind = "multi" THEN 6 ELSE 4) /\ e <= Len(Untaken)
           /\ m.kind \in Kinds \ {"refusal"} /\ m.kind = Untaken[2].kind
           /\ Len(more_) \in Nat /\ DOMAIN more_ = 1 .. Len(more_) /\ Len(Untaken) \in Nat
           /\ DOMAIN Untaken = 1 .. Len(Untaken) /\ Len(more_) <= Len(Untaken)
           /\ \A x \in 1 .. Len(more_) : more_[x] = Untaken[x]
           /\ Untaken[1] = N /\ (m.kind = "recv" => Untaken[2].len = b)
           /\ \A x \in 1 .. b : Untaken[x + 2] = m.body[x]
           /\ Untaken[b + 3] = CR /\ Untaken[b + 4] = LF
           /\ m.kind = "multi" => Untaken[b + 5] = CR /\ Untaken[b + 6] = LF
           /\ IF m.kind = "multi" THEN BlankLines(m.body \o Eol) = {} ELSE LineFeeds(m.body) = {}
  BY Beginning
<1>a. /\ b \in Nat /\ e = b + (IF m.kind = "multi" THEN 6 ELSE 4) /\ Len(more_) \in Nat
      /\ e <= Len(more_) /\ e \in Nat
  BY <1>1
<1>b. e >= b + 4 /\ e >= 4 /\ 2 \in 1 .. Len(more_) /\ 1 \in 1 .. Len(more_) /\ Len(more_) >= 2
      /\ e \in 1 .. Len(more_)
  BY <1>a
<1>2. more_ \in Seq(Symbol) /\ m.body \in Seq(Symbol)
  BY DEF TypeOK, Message
<1>3. StartsMessage(more_) /\ more_[2].kind = m.kind /\ more_[2].n = m.n
      /\ (m.kind = "recv" => more_[2].len = b)
  BY <1>1, <1>b DEF StartsMessage
<1>4. more_[e] = LF /\ e \in LineFeeds(more_)
  <2>1. e = b + 4 \/ (m.kind = "multi" /\ e = b + 6)
    BY <1>a
  <2> QED BY <2>1, <1>1, <1>b DEF LineFeeds
<1>5. Extracted(m.body) = m
  BY <1>3 DEF Extracted, Message
<1>6. CR # LF /\ CR # N /\ LF # N
  BY DEF CR, LF, N, Sym
<1>7. PICK rest \in Seq(Symbol) :
        /\ rest = From(more_, 3) /\ Len(rest) = Len(more_) - 2 /\ DOMAIN rest = 1 .. Len(rest)
        /\ \A k \in 1 .. Len(rest) : rest[k] = more_[k + 2] /\ k + 2 \in 1 .. Len(more_)
  BY <1>2, <1>b, WithoutHeader
<1>c. Len(rest) = Len(more_) - 2
  BY <1>7
<1>8. ASSUME NEW j \in 1 .. Len(rest) PROVE From(rest, j + 1) = From(more_, j + 3)
  <2>1. j + 1 \in 1 .. Len(more_) - 3 + 2 /\ 3 \in 1 .. Len(more_) + 1 /\ 3 + (j + 1) - 1 = j + 3
    BY <1>a, <1>b, <1>c
  <2>2. From(From(more_, 3), j + 1) = From(more_, 3 + (j + 1) - 1)
    BY <2>1, <1>2, RestOfRest
  <2> QED BY <2>1, <2>2, <1>7
<1>9. /\ \A x \in 1 .. b : rest[x] = m.body[x]
      /\ rest[b + 1] = CR /\ rest[b + 2] = LF /\ b + 1 \in 1 .. Len(rest) /\ b + 2 \in 1 .. Len(rest)
  <2>1. /\ b + 1 \in 1 .. Len(rest) /\ b + 2 \in 1 .. Len(rest) /\ b + 1 + 2 = b + 3 /\ b + 2 + 2 = b + 4
        /\ \A x \in 1 .. b : x \in 1 .. Len(rest)
    BY <1>a, <1>b, <1>c
  <2>2. \A x \in 1 .. Len(rest) : rest[x] = Untaken[x + 2]
    BY <1>1, <1>7
  <2>3. /\ \A x \in 1 .. b : rest[x] = Untaken[x + 2]
        /\ rest[b + 1] = Untaken[b + 3] /\ rest[b + 2] = Untaken[b + 4]
    BY <2>1, <2>2
  <2>4. /\ \A x \in 1 .. b : Untaken[x + 2] = m.body[x]
        /\ Untaken[b + 3] = CR /\ Untaken[b + 4] = LF
    BY Zenon, <1>1
  <2> QED BY Zenon, <2>1, <2>3, <2>4
<1>10. CASE m.kind \notin {"recv", "multi"}
  <2>1. FirstLineFeed(more_) = e
    <3>1. FirstLineFeed(more_) \in LineFeeds(more_) /\ FirstLineFeed(more_) \in 1 .. Len(more_)
          /\ FirstLineFeed(more_) <= e
      BY <1>2, <1>4, First
    <3>2. FirstLineFeed(more_) >= e
      BY <3>1, <1>1, <1>10, NoEarlyLineFeed
    <3> QED BY <3>1, <3>2, <1>a
  <2>2. CASE m.kind = "malformed"
    <3>1. ToTermNl = Dropped(From(more_, e + 1))
      BY <2>1, <2>2, <1>3, <1>4 DEF ToTermNl, DropLine
    <3> QED BY <3>1, <2>2, <1>1
  <2>3. CASE m.kind # "malformed"
    <3>1. ToTermNl = Took(Extracted(Chomp(SubSeq(more_, 3, e - 1))), From(more_, e + 1))
      BY <2>1, <2>3, <1>3, <1>4, <1>10 DEF ToTermNl, OneLine
    <3>2. PICK q \in Seq(Symbol) :
            /\ q = SubSeq(more_, 3, e - 1) /\ Len(q) = b + 1
            /\ \A k \in 1 .. b + 1 : q[k] = rest[k]
      <4>1. e = b + 4 /\ e - 1 = b + 3 /\ 3 \in Int /\ b + 3 \in Int /\ 3 <= b + 3 /\ b + 3 - 3 + 1 = b + 1
        BY <1>a, <1>10
      <4>2. \A k \in 3 .. b + 3 : more_[k] \in Symbol
        <5>1. \A k \in 3 .. b + 3 : k \in 1 .. Len(more_)
          BY <4>1, <1>a
        <5> QED BY <5>1, <1>2, ElementOfSeq
      <4>3. /\ SubSeq(more_, 3, b + 3) \in Seq(Symbol)
            /\ Len(SubSeq(more_, 3, b + 3)) = b + 3 - 3 + 1
            /\ \A k \in 1 .. b + 3 - 3 + 1 : SubSeq(more_, 3, b + 3)[k] = more_[3 + k - 1]
        BY <4>1, <4>2, SubSeqProperties
      <4>4. \A k \in 1 .. b + 1 : more_[3 + k - 1] = rest[k]
        <5> SUFFICES ASSUME NEW k \in 1 .. b + 1 PROVE more_[3 + k - 1] = rest[k]
          OBVIOUS
        <5>1. 3 + k - 1 = k + 2 /\ k \in 1 .. Len(rest)
          BY <1>a, <1>b, <1>c
        <5> QED BY <5>1, <1>7
      <4> QED BY ZenonT(30), <4>1, <4>3, <4>4
    <3>3. Chomp(q) = m.body
      <4>1. Len(q) = Len(m.body) + 1 /\ q[Len(q)] = CR
        <5>1. b + 1 \in 1 .. b + 1
          OBVIOUS
        <5> QED BY ZenonT(30), <5>1, <3>2, <1>1, <1>9
      <4>2. \A x \in 1 .. Len(m.body) : q[x] = m.body[x]
        <5>1. b = Len(m.body) /\ \A x \in 1 .. b : x \in 1 .. b + 1
          BY <1>1
        <5> QED BY <5>1, <3>2, <1>9
      <4> QED BY <4>1, <4>2, <1>2, ChompsOne
    <3>4. ToTermNl = Took(m, From(more_, e + 1))
      BY <3>1, <3>2, <3>3, <1>5
    <3> QED BY <3>4, <2>3, <1>1
  <2> QED BY <2>2, <2>3
<1>11. CASE m.kind = "recv"
  <2>1. ToTermNl = NlRcvExtract
    BY <1>3, <1>4, <1>11 DEF ToTermNl
  <2>2. PayloadEnds(rest, b) = {b + 2}
    <3>1. b + 2 \in PayloadEnds(rest, b)
      <4>1. \A k \in b + 1 .. b + 2 - 1 : k = b + 1
        OBVIOUS
      <4>2. b + 2 > b
        OBVIOUS
      <4> QED BY <4>1, <4>2, <1>7, <1>9 DEF PayloadEnds, LineFeeds, OnlyCR
    <3>2. ASSUME NEW j \in PayloadEnds(rest, b) PROVE j = b + 2
      <4>1. j \in 1 .. Len(rest) /\ rest[j] = LF /\ j > b /\ OnlyCR(rest, b + 1, j - 1)
        BY <1>7 DEF PayloadEnds, LineFeeds
      <4>2. j # b + 1
        BY <4>1, <1>6, <1>9
      <4>3. ~(j > b + 2)
        <5> SUFFICES ASSUME j > b + 2 PROVE FALSE
          OBVIOUS
        <5>1. b + 2 \in b + 1 .. j - 1
          BY <4>1
        <5>2. rest[b + 2] = CR
          BY <5>1, <4>1 DEF OnlyCR
        <5> QED BY <5>2, <1>6, <1>9
      <4> QED BY <4>1, <4>2, <4>3
    <3> QED BY <3>1, <3>2
  <2>3. more_[2].len = b
    BY <1>3, <1>11
  <2>4. ToTermNl = Took(Extracted(SubSeq(rest, 1, b)), From(rest, b + 2 + 1))
    <3>1. (CHOOSE j \in {b + 2} : TRUE) = b + 2
      OBVIOUS
    <3>2. PayloadEnds(From(more_, 3), more_[2].len) = {b + 2} /\ {b + 2} # {}
      BY <2>2, <2>3, <1>7
    <3>3. NlRcvExtract = Took(Extracted(SubSeq(From(more_, 3), 1, more_[2].len)),
                              From(From(more_, 3), (CHOOSE j \in {b + 2} : TRUE) + 1))
      BY <3>2 DEF NlRcvExtract
    <3> QED BY <3>1, <3>3, <2>1, <2>3, <1>7
  <2>5. SubSeq(rest, 1, b) = m.body
    <3>1. b \in 0 .. Len(rest)
      BY <1>a, <1>b, <1>c
    <3>2. /\ SubSeq(rest, 1, b) \in Seq(Symbol) /\ Len(SubSeq(rest, 1, b)) = b
          /\ \A x \in 1 .. b : SubSeq(rest, 1, b)[x] = rest[x]
      BY <3>1, Front
    <3>3. b = Len(m.body)
      BY <1>1
    <3> QED BY <3>2, <3>3, <1>2, <1>9, SeqEqual
  <2>6. From(rest, b + 2 + 1) = From(more_, e + 1)
    <3>1. b + 2 + 3 = e + 1
      BY <1>a, <1>11
    <3> QED BY <3>1, <1>8, <1>9
  <2>7. ToTermNl = Took(m, From(more_, e + 1))
    BY <2>4, <2>5, <2>6, <1>5
  <2> QED BY <2>7, <1>1, <1>11
<1>12. CASE m.kind = "multi"
  <2>1. ToTermNl = Multiline
    BY <1>3, <1>4, <1>12 DEF ToTermNl
  <2>a. e = b + 6 /\ b + 6 <= Len(more_) /\ Len(rest) >= b + 4 /\ Len(rest) \in Nat
    BY <1>a, <1>c, <1>12
  <2>2. rest[b + 3] = CR /\ rest[b + 4] = LF /\ b + 3 \in 1 .. Len(rest) /\ b + 4 \in 1 .. Len(rest)
    <3>1. b + 3 \in 1 .. Len(rest) /\ b + 4 \in 1 .. Len(rest) /\ b + 3 + 2 = b + 5 /\ b + 4 + 2 = b + 6
      BY <2>a
    <3>2. \A x \in 1 .. Len(rest) : rest[x] = Untaken[x + 2]
      BY <1>1, <1>7
    <3> QED BY SMTT(30), <3>1, <3>2, <1>1, <1>12
  <2>3. b + 4 \in BlankLines(rest)
    <3>1. \A k \in b + 2 + 1 .. b + 4 - 1 : k = b + 3
      OBVIOUS
    <3>2. b + 2 < b + 4
      OBVIOUS
    <3>3. OnlyCR(rest, b + 2 + 1, b + 4 - 1)
      BY <3>1, <2>2 DEF OnlyCR
    <3>4. b + 2 \in LineFeeds(rest) /\ b + 4 \in LineFeeds(rest)
      BY <2>2, <1>7, <1>9 DEF LineFeeds
    <3> QED BY <3>2, <3>3, <3>4 DEF BlankLines
  <2>4. ASSUME NEW j \in BlankLines(rest) PROVE j <= b + 4
    <3>1. /\ j \in 1 .. Len(rest) /\ rest[j] = LF
          /\ \E i \in LineFeeds(rest) : i < j /\ OnlyCR(rest, i + 1, j - 1)
      BY <1>7 DEF BlankLines, LineFeeds
    <3>2. PICK i \in 1 .. Len(rest) : rest[i] = LF /\ i < j /\ OnlyCR(rest, i + 1, j - 1)
      BY <3>1, <1>7 DEF LineFeeds
    <3> SUFFICES ASSUME j > b + 4 PROVE FALSE
      BY <3>1, <2>a
    <3>a. j \in Nat /\ i \in Nat /\ i < j /\ j > b + 4 /\ j <= Len(rest) /\ i >= 1
      BY <3>1, <3>2, <2>a
    <3>3. i >= b + 4
      <4> SUFFICES ASSUME i < b + 4 PROVE FALSE
        BY <3>a
      <4>1. b + 4 \in i + 1 .. j - 1
        BY <3>a
      <4>2. rest[b + 4] = CR
        BY <4>1, <3>2 DEF OnlyCR
      <4> QED BY <4>2, <2>2, <1>6
    <3>4. PICK k \in Nat : k = i + 2
      BY <3>a
    <3>5. k \in 1 .. Len(more_) /\ k + 1 \in 1 .. Len(more_) /\ k >= e /\ k + 1 <= Len(Untaken)
          /\ k \in 1 .. Len(Untaken) /\ k + 1 \in 1 .. Len(Untaken)
      <4>1. Len(more_) <= Len(Untaken) /\ Len(Untaken) \in Nat
        BY <1>1
      <4>2. i + 3 <= Len(more_)
        BY <3>a, <1>a, <1>c
      <4> QED BY <4>1, <4>2, <3>3, <3>4, <3>a, <2>a
    <3>6. Untaken[k] = LF
      BY <3>2, <3>4, <3>5, <1>1, <1>7
    <3>7. Untaken[k + 1] = N
      <4>1. k # Len(Untaken)
        <5>1. k + 1 <= Len(Untaken)
          BY <3>5
        <5> QED BY <5>1
      <4>2. Untaken \in Seq(Symbol) /\ sent \in Seq(Message)
        BY ConcatProperties DEF TypeOK, Untaken
      <4>3. k \in DOMAIN Untaken /\ k >= EndAt(Untaken, sent, 1) /\ Untaken[2].kind = "multi"
        BY <3>5, <1>1, <1>12
      <4> QED BY <4>1, <4>2, <4>3, <3>6, LaterLineFeed
    <3>8. rest[i + 1] = N
      <4>1. i + 1 \in 1 .. Len(rest) /\ i + 1 + 2 = k + 1
        BY <3>a, <3>4, <2>a
      <4> QED BY SMTT(30), <4>1, <3>5, <3>7, <1>1, <1>7
    <3>9. CASE j = i + 1
      BY <3>9, <3>1, <3>8, <1>6
    <3>10. CASE j > i + 1
      <4>1. i + 1 \in i + 1 .. j - 1
        BY <3>a, <3>10
      <4>2. rest[i + 1] = CR
        BY <4>1, <3>2 DEF OnlyCR
      <4> QED BY <4>2, <3>8, <1>6
    <3> QED BY <3>9, <3>10, <3>a
  <2>5. LastBlankLine(rest) = b + 4
    <3>1. BlankLines(rest) # {}
      BY <2>3
    <3>2. /\ LastBlankLine(rest) \in BlankLines(rest) /\ LastBlankLine(rest) \in 1 .. Len(rest)
          /\ \A j \in BlankLines(rest) : j <= LastBlankLine(rest)
      BY <3>1, Last
    <3>3. b + 4 <= LastBlankLine(rest) /\ LastBlankLine(rest) <= b + 4 /\ LastBlankLine(rest) \in 1 .. Len(rest)
      BY <3>2, <2>3, <2>4
    <3> QED BY <3>3
  <2> DEFINE all  == From(more_, 3)
             last == LastBlankLine(all)
             feed == CHOOSE i \in LineFeeds(all) : i < last /\ OnlyCR(all, i + 1, last - 1)
  <2>e. all = rest /\ last = b + 4
    BY <2>5, <1>7
  <2>6. feed = b + 2
    <3>1. b + 2 \in LineFeeds(rest) /\ b + 2 < b + 4 /\ OnlyCR(rest, b + 2 + 1, b + 4 - 1)
      <4>1. \A k \in b + 2 + 1 .. b + 4 - 1 : k = b + 3
        OBVIOUS
      <4>2. OnlyCR(rest, b + 2 + 1, b + 4 - 1)
        BY <4>1, <2>2 DEF OnlyCR
      <4>3. b + 2 \in LineFeeds(rest)
        BY <1>7, <1>9 DEF LineFeeds
      <4>4. b + 2 < b + 4
        OBVIOUS
      <4> QED BY <4>2, <4>3, <4>4
    <3>2. feed \in LineFeeds(rest) /\ feed < b + 4 /\ OnlyCR(rest, feed + 1, b + 4 - 1)
      <4> HIDE DEF all, last
      <4>1. \E i \in LineFeeds(all) : i < last /\ OnlyCR(all, i + 1, last - 1)
        BY <3>1, <2>e
      <4>2. feed \in LineFeeds(all) /\ feed < last /\ OnlyCR(all, feed + 1, last - 1)
        BY <4>1
      <4> HIDE DEF feed
      <4> QED BY <4>2, <2>e
    <3> HIDE DEF feed
    <3>3. feed \in 1 .. Len(rest) /\ rest[feed] = LF
      BY <3>2, <1>7 DEF LineFeeds
    <3>4. feed # b + 3
      BY <3>3, <2>2, <1>6
    <3>5. ~(feed < b + 2)
      <4> SUFFICES ASSUME feed < b + 2 PROVE FALSE
        OBVIOUS
      <4>1. b + 2 \in feed + 1 .. b + 4 - 1
        BY <3>3
      <4>2. rest[b + 2] = CR
        BY <4>1, <3>2 DEF OnlyCR
      <4> QED BY <4>2, <1>6, <1>9
    <3> QED BY <3>2, <3>3, <3>4, <3>5
  <2>7. ToTermNl = Took(Extracted(Chomp(SubSeq(rest, 1, feed - 1))), From(rest, b + 4 + 1))
    <3>1. BlankLines(all) # {}
      BY <2>3, <2>e
    <3>2. Multiline = Took(Extracted(Chomp(SubSeq(all, 1, feed - 1))), From(all, last + 1))
      BY <3>1 DEF Multiline
    <3> HIDE DEF all, last, feed
    <3> QED BY <3>2, <2>1, <2>e
  <2> HIDE DEF feed
  <2>8. PICK q \in Seq(Symbol) :
          /\ q = SubSeq(rest, 1, feed - 1) /\ Len(q) = b + 1
          /\ \A x \in 1 .. b + 1 : q[x] = rest[x]
    <3>1. feed - 1 = b + 1 /\ b + 1 \in 0 .. Len(rest)
      BY <2>6, <2>a
    <3>2. /\ SubSeq(rest, 1, b + 1) \in Seq(Symbol) /\ Len(SubSeq(rest, 1, b + 1)) = b + 1
          /\ \A x \in 1 .. b + 1 : SubSeq(rest, 1, b + 1)[x] = rest[x]
      BY <3>1, Front
    <3> QED BY <3>1, <3>2
  <2>9. Chomp(q) = m.body
    <3>1. Len(q) = Len(m.body) + 1 /\ q[Len(q)] = CR
      <4>1. b + 1 \in 1 .. b + 1
        OBVIOUS
      <4> QED BY ZenonT(30), <4>1, <2>8, <1>1, <1>9
    <3>2. \A x \in 1 .. Len(m.body) : q[x] = m.body[x]
      <4>1. b = Len(m.body) /\ \A x \in 1 .. b : x \in 1 .. b + 1
        BY <1>1
      <4> QED BY <4>1, <2>8, <1>9
    <3> QED BY <3>1, <3>2, <1>2, ChompsOne
  <2>10. From(rest, b + 4 + 1) = From(more_, e + 1)
    <3>1. b + 4 + 3 = e + 1
      BY <2>a
    <3> QED BY <3>1, <2>2, <1>8
  <2>11. ToTermNl = Took(m, From(more_, e + 1))
    BY <2>7, <2>8, <2>9, <2>10, <1>5
  <2> QED BY <2>11, <1>1, <1>12
<1> QED BY <1>10, <1>11, <1>12

-----------------------------------------------------------------------------
(* The stream is intact.                                                   *)

(* As long as nothing has happened that to_term_nl cannot cope with, what  *)
(* is under way is what was sent, message by message; the messages before  *)
(* have been extracted; and what is kept between two calls of to_term is   *)
(* less than a message.                                                    *)
Intact ==
  tame =>
    /\ Framed(Untaken, sent) /\ Manageable(sent)
    /\ \A i \in DOMAIN extracted :
         /\ extracted[i].n \in WellFormed /\ extracted[i].n < Oldest(Untaken, sent)
         /\ extracted[i] = sent[extracted[i].n]
    /\ \A n \in WellFormed :
         n < Oldest(Untaken, sent) => \E i \in DOMAIN extracted : extracted[i].n = n
    /\ ~parsing /\ Untaken # << >> => Len(more_) < EndAt(Untaken, sent, 1)

(* The first message of the stream is one that was sent.                   *)
LEMMA OldestSent ==
  ASSUME NEW s \in Seq(Symbol), NEW t \in Seq(Message), Framed(s, t)
  PROVE  /\ Len(s) \in Nat /\ Len(t) \in Nat /\ DOMAIN s = 1 .. Len(s) /\ DOMAIN t = 1 .. Len(t)
         /\ Oldest(s, t) \in 1 .. Len(t) + 1
         /\ s # << >> => /\ 1 \in DOMAIN s /\ 2 \in DOMAIN s /\ s[2].n \in DOMAIN t
                         /\ Oldest(s, t) = s[2].n
                         /\ EndAt(s, t, 1) \in Nat /\ EndAt(s, t, 1) >= 4
                         /\ EndAt(s, t, 1) <= Len(s)
<1>1. Len(s) \in Nat /\ Len(t) \in Nat /\ DOMAIN s = 1 .. Len(s) /\ DOMAIN t = 1 .. Len(t)
  BY LenProperties
<1>2. CASE s = << >>
  BY <1>1, <1>2 DEF Oldest
<1>3. CASE s # << >>
  <2>1. 1 \in Nat /\ 1 \in DOMAIN s /\ s[1] = N
    <3>1. Len(s) >= 1
      BY <1>1, <1>3, EmptySeq
    <3> QED BY <3>1, <1>1, <1>3 DEF Framed
  <2>2. PICK m \in Message, b \in Nat, e \in Nat :
            /\ m = t[s[1 + 1].n] /\ b = Len(m.body) /\ e = EndAt(s, t, 1)
            /\ s[1 + 1].n \in DOMAIN t /\ DOMAIN m.body = 1 .. b
            /\ 1 >= 1 /\ Len(s) \in Nat /\ DOMAIN s = 1 .. Len(s)
            /\ e = 1 + b + (IF m.kind = "multi" THEN 5 ELSE 3) /\ e <= Len(s) /\ e >= 1 + 3
            /\ s[1 + 1].kind = m.kind
            /\ m.kind = "recv" => s[1 + 1].len = b
            /\ \A x \in 1 .. b : s[1 + 1 + x] = m.body[x]
            /\ s[1 + b + 2] = CR /\ s[1 + b + 3] = LF
            /\ m.kind = "multi" => s[1 + b + 4] = CR /\ s[1 + b + 5] = LF
            /\ Followed(s, t, 1)
    BY <2>1, Frame
  <2>3. s[2].n \in DOMAIN t /\ e = EndAt(s, t, 1) /\ e <= Len(s) /\ e >= 4 /\ e \in Nat
    <3>1. 1 + 1 = 2 /\ 1 + 3 = 4
      OBVIOUS
    <3> QED BY <2>2, <3>1
  <2>4. 2 \in DOMAIN s
    <3>1. e <= Len(s) /\ e >= 4 /\ e \in Nat
      BY <2>3
    <3>2. 2 \in 1 .. Len(s)
      BY <3>1, <1>1
    <3> QED BY <3>2, <1>1
  <2>5. Oldest(s, t) = s[2].n
    BY <1>3 DEF Oldest
  <2>6. s[2].n \in 1 .. Len(t) + 1
    <3>1. s[2].n \in 1 .. Len(t)
      BY <2>3, <1>1
    <3> QED BY <3>1, <1>1
  <2>7. EndAt(s, t, 1) \in Nat /\ EndAt(s, t, 1) >= 4 /\ EndAt(s, t, 1) <= Len(s)
    BY <2>3
  <2> QED BY <2>1, <2>3, <2>4, <2>5, <2>6, <2>7, <1>1, <1>3
<1> QED BY <1>2, <1>3

(* Nothing is under way at the start.                                      *)
LEMMA IntactInit == Init => Intact
<1> SUFFICES ASSUME Init PROVE Intact
  OBVIOUS
<1>1. Untaken = << >> /\ sent = << >> /\ extracted = << >>
  BY ConcatEmptySeq, EmptySeq DEF Init, Untaken
<1>2. DOMAIN Untaken = {} /\ DOMAIN sent = {} /\ DOMAIN extracted = {} /\ WellFormed = {}
  BY <1>1, EmptySeq DEF WellFormed
<1> QED BY <1>1, <1>2 DEF Intact, Framed, Manageable

(* A step that leaves the messages alone, and the stream, ...              *)
LEMMA IntactSame ==
  ASSUME Intact, UNCHANGED <<sent, extracted, tame>>, Untaken' = Untaken,
         tame /\ ~parsing' /\ Untaken # << >> => Len(more_') < EndAt(Untaken, sent, 1)
  PROVE  Intact'
BY DEF Intact, WellFormed

(* ... a message of the modem ...                                          *)
LEMMA IntactSends == TypeOK /\ Intact /\ ModemSends => Intact'
<1> SUFFICES ASSUME TypeOK, Intact, ModemSends, tame' PROVE Intact'
  BY DEF Intact
<1>1. PICK m \in Messages :
        /\ wire' = wire \o Encoded(m, Len(sent) + 1)
        /\ sent' = Append(sent, [kind |-> m.kind, n |-> Len(sent) + 1, body |-> Body(m)])
        /\ tame' = /\ tame
                   /\ m.kind # "refusal"
                   /\ IF m.kind = "multi"
                      THEN ~Pending("multi", Untaken) /\ BlankLines(Body(m) \o Eol) = {}
                      ELSE LineFeeds(m.payload) = {}
  BY DEF ModemSends, Sends, Untaken
<1>2. UNCHANGED <<more_, parsing, extracted>>
  BY DEF ModemSends, Sends
<1>3. /\ tame /\ m.kind # "refusal"
      /\ IF m.kind = "multi"
         THEN ~Pending("multi", Untaken) /\ BlankLines(Body(m) \o Eol) = {}
         ELSE LineFeeds(m.payload) = {}
  BY <1>1
<1>4. PICK s \in Seq(Symbol) : s = Untaken
  BY ConcatProperties DEF TypeOK, Untaken
<1>5. PICK t \in Seq(Message) : t = sent
  BY DEF TypeOK
<1>6. Len(t) \in Nat /\ Len(t) + 1 \in Nat
  BY LenProperties
<1>7. PICK e \in Seq(Symbol) :
        /\ e = Encoded(m, Len(t) + 1) /\ e[2].n = Len(t) + 1 /\ 2 \in DOMAIN e /\ Len(e) \in Nat
  <2>1. /\ Encoded(m, Len(t) + 1) \in Seq(Symbol) /\ Len(Body(m)) \in Nat
        /\ Len(Encoded(m, Len(t) + 1)) = Len(Body(m)) + (IF m.kind = "multi" THEN 6 ELSE 4)
        /\ DOMAIN Encoded(m, Len(t) + 1) = 1 .. Len(Encoded(m, Len(t) + 1))
        /\ Encoded(m, Len(t) + 1)[2] = [kind |-> Header(m), n |-> Len(t) + 1, len |-> Len(m.payload)]
    BY <1>6, OnTheWire
  <2>2. 2 \in 1 .. Len(Encoded(m, Len(t) + 1))
    <3>1. Len(Encoded(m, Len(t) + 1)) \in Nat /\ Len(Encoded(m, Len(t) + 1)) >= 4
      BY <2>1
    <3> QED BY <3>1
  <2> QED BY <2>1, <2>2
<1>8. PICK msg \in Message :
        /\ msg = [kind |-> m.kind, n |-> Len(t) + 1, body |-> Body(m)]
        /\ msg.n = Len(t) + 1 /\ msg.kind = m.kind /\ msg.body = Body(m)
        /\ msg.body \in Seq({Byte, CR, LF}) /\ Len(msg.body) \in Nat
  <2>1. m.kind \in Kinds /\ Body(m) \in Seq({Byte, CR, LF}) /\ Body(m) \in Seq(Symbol)
        /\ Len(Body(m)) \in Nat
    BY <1>6, OnTheWire
  <2>2. [kind |-> m.kind, n |-> Len(t) + 1, body |-> Body(m)] \in Message
    BY <2>1, <1>6 DEF Message
  <2>3. PICK msg \in Message : msg = [kind |-> m.kind, n |-> Len(t) + 1, body |-> Body(m)]
    BY <2>2
  <2>4. msg.n = Len(t) + 1 /\ msg.kind = m.kind /\ msg.body = Body(m)
    BY <2>3
  <2> QED BY <2>1, <2>3, <2>4
<1>9. PICK u \in Seq(Message) :
        /\ u = Append(t, msg) /\ Len(u) = Len(t) + 1 /\ DOMAIN u = 1 .. Len(t) + 1
        /\ \A n \in 1 .. Len(t) : u[n] = t[n]
        /\ u[Len(t) + 1] = msg
  <2>1. /\ Append(t, msg) \in Seq(Message) /\ Len(Append(t, msg)) = Len(t) + 1
        /\ \A n \in 1 .. Len(t) : Append(t, msg)[n] = t[n]
        /\ Append(t, msg)[Len(t) + 1] = msg
    BY AppendProperties
  <2>2. DOMAIN Append(t, msg) = 1 .. Len(t) + 1
    BY <2>1, LenProperties
  <2> QED BY <2>1, <2>2
<1>10. sent' = u /\ Untaken' = s \o e
  <2>1. sent' = u
    BY <1>1, <1>5, <1>8, <1>9
  <2>2. wire' = wire \o e
    BY <1>1, <1>5, <1>7
  <2>3. Untaken' = Untaken \o e
    BY <1>2, <2>2, Added
  <2> QED BY <2>1, <2>3, <1>4
<1>11. Framed(s, t) /\ Manageable(t)
  BY <1>3, <1>4, <1>5 DEF Intact
<1>12. Framed(s \o e, u)
  <2>1. m.kind = "multi" => ~Pending("multi", s)
    BY <1>3, <1>4
  <2>2. Framed(s \o Encoded(m, Len(t) + 1),
               Append(t, [kind |-> m.kind, n |-> Len(t) + 1, body |-> Body(m)]))
    BY <2>1, <1>3, <1>11, FramedMore
  <2> QED BY <2>2, <1>7, <1>8, <1>9
<1>13. Manageable(u)
  <2> SUFFICES ASSUME NEW n \in DOMAIN u
               PROVE  /\ u[n].n = n /\ u[n].kind # "refusal" /\ u[n].body \in Seq({Byte, CR, LF})
                      /\ IF u[n].kind = "multi"
                         THEN BlankLines(u[n].body \o Eol) = {}
                         ELSE LineFeeds(u[n].body) = {}
    BY DEF Manageable
  <2>1. n \in 1 .. Len(t) \/ n = Len(t) + 1
    <3>1. n \in 1 .. Len(t) + 1
      BY <1>9
    <3> QED BY <3>1, <1>6
  <2>2. CASE n \in 1 .. Len(t)
    <3>1. u[n] = t[n] /\ n \in DOMAIN t
      BY <2>2, <1>9, LenProperties
    <3> QED BY <3>1, <1>11 DEF Manageable
  <2>3. CASE n = Len(t) + 1
    <3>1. u[n] = msg
      BY <2>3, <1>9
    <3>2. m.kind # "multi" => Body(m) = m.payload
      BY DEF Body
    <3> QED BY <3>1, <3>2, <2>3, <1>3, <1>8
  <2> QED BY <2>1, <2>2, <2>3
<1>14. /\ Len(s) \in Nat /\ DOMAIN s = 1 .. Len(s) /\ DOMAIN t = 1 .. Len(t)
       /\ Oldest(s, t) \in 1 .. Len(t) + 1
       /\ s # << >> => /\ 2 \in DOMAIN s /\ s[2].n \in DOMAIN t
                       /\ EndAt(s, t, 1) \in Nat /\ EndAt(s, t, 1) >= 4 /\ EndAt(s, t, 1) <= Len(s)
  BY <1>11, OldestSent
<1>15. s # << >> => (s \o e)[2] = s[2] /\ s \o e # << >>
  <2>1. s # << >> => 2 \in 1 .. Len(s)
    BY <1>14
  <2>2. Len(s \o e) = Len(s) + Len(e) /\ \A i \in 1 .. Len(s) : (s \o e)[i] = s[i]
    BY Joined
  <2>3. s # << >> => Len(s \o e) # 0
    BY <2>1, <2>2, <1>14, <1>7
  <2> QED BY <2>1, <2>2, <2>3, EmptySeq
<1>16. s = << >> => s \o e = e /\ e # << >>
  BY <1>7, ConcatEmptySeq, EmptySeq
<1>17. Oldest(s \o e, u) = Oldest(s, t)
  BY <1>7, <1>15, <1>16 DEF Oldest
<1>18. \A n \in DOMAIN t : n \in DOMAIN u /\ u[n] = t[n]
  <2>1. \A n \in 1 .. Len(t) : n \in 1 .. Len(t) + 1
    BY <1>6
  <2> QED BY <2>1, <1>9, <1>14
<1>19. ASSUME NEW i \in DOMAIN extracted'
       PROVE  /\ extracted'[i].n \in WellFormed' /\ extracted'[i].n < Oldest(Untaken', sent')
              /\ extracted'[i] = sent'[extracted'[i].n]
  <2>1. PICK x : x = extracted[i]
    OBVIOUS
  <2>2. x.n \in DOMAIN t /\ t[x.n].kind # "malformed" /\ x.n < Oldest(s, t) /\ x = t[x.n]
    BY <2>1, <1>2, <1>3, <1>4, <1>5, <1>19 DEF Intact, WellFormed
  <2>3. x.n \in DOMAIN u /\ u[x.n] = t[x.n]
    BY <2>2, <1>18
  <2> QED BY <2>1, <2>2, <2>3, <1>2, <1>10, <1>17 DEF WellFormed
<1>20. ASSUME NEW n \in WellFormed', n < Oldest(Untaken', sent')
       PROVE  \E i \in DOMAIN extracted' : extracted'[i].n = n
  <2>1. n \in DOMAIN u /\ u[n].kind # "malformed" /\ n < Oldest(s, t)
    BY <1>20, <1>10, <1>17 DEF WellFormed
  <2>2. n \in 1 .. Len(t)
    <3>1. n \in 1 .. Len(t) + 1 /\ n < Oldest(s, t) /\ Oldest(s, t) \in 1 .. Len(t) + 1 /\ Len(t) \in Nat
      BY <2>1, <1>9, <1>14, <1>6
    <3> QED BY <3>1
  <2>3. n \in WellFormed /\ n < Oldest(Untaken, sent)
    BY <2>1, <2>2, <1>4, <1>5, <1>14, <1>18 DEF WellFormed
  <2> QED BY <2>3, <1>2, <1>3 DEF Intact
<1>21. ASSUME ~parsing', Untaken' # << >> PROVE Len(more_') < EndAt(Untaken', sent', 1)
  <2>1. CASE s # << >>
    <3>1. Len(more_) < EndAt(s, t, 1)
      BY <2>1, <1>21, <1>2, <1>3, <1>4, <1>5 DEF Intact
    <3>2. EndAt(s \o e, u, 1) = EndAt(s, t, 1)
      <4>1. (s \o e)[1 + 1] = s[1 + 1] /\ u[s[1 + 1].n] = t[s[1 + 1].n]
        <5>1. 1 + 1 = 2
          OBVIOUS
        <5> QED BY <5>1, <2>1, <1>14, <1>15, <1>18
      <4> QED BY <4>1 DEF EndAt
    <3> QED BY <3>1, <3>2, <1>2, <1>10
  <2>2. CASE s = << >>
    <3>1. Len(more_) = 0
      <4>1. Len(Untaken) = Len(more_) + Len(wire) /\ Len(more_) \in Nat /\ Len(wire) \in Nat
        BY Joined DEF TypeOK, Untaken
      <4>2. Len(Untaken) = 0
        BY <2>2, <1>4, EmptySeq
      <4>3. PICK a, b \in Nat : a = Len(more_) /\ b = Len(wire)
        BY <4>1
      <4>4. a + b = 0
        BY <4>1, <4>2, <4>3
      <4>5. a = 0
        BY <4>4
      <4> QED BY <4>3, <4>5
    <3>2. EndAt(s \o e, u, 1) \in Nat /\ EndAt(s \o e, u, 1) >= 4
      <4>1. s \o e \in Seq(Symbol) /\ s \o e # << >>
        BY <2>2, <1>16
      <4> QED BY <4>1, <1>12, OldestSent
    <3>3. Len(more_) < EndAt(s \o e, u, 1)
      BY <3>1, <3>2
    <3> QED BY <3>3, <1>2, <1>10
  <2> QED BY <2>1, <2>2
<1>22. Framed(Untaken', sent') /\ Manageable(sent')
  BY <1>10, <1>12, <1>13
<1> QED BY <1>19, <1>20, <1>21, <1>22 DEF Intact

(* ... and a call of to_term_nl.                                           *)
LEMMA IntactParse == TypeOK /\ Intact /\ Parse => Intact'
<1> SUFFICES ASSUME TypeOK, Intact, Parse, tame PROVE Intact'
  BY DEF Intact, Parse
<1>1. /\ more_' = ToTermNl.rest /\ extracted' = extracted \o ToTermNl.messages
      /\ parsing' = (Len(more_') > 0 /\ Len(more_') # Len(more_))
      /\ UNCHANGED <<wire, sent, tame>>
  BY DEF Parse, Again
<1>2. /\ Framed(Untaken, sent) /\ Manageable(sent)
  BY DEF Intact
<1>3. Untaken \in Seq(Symbol) /\ sent \in Seq(Message) /\ more_ \in Seq(Symbol) /\ Len(more_) \in Nat
  BY ConcatProperties, LenProperties DEF TypeOK, Untaken
<1>4. ToTermNl = NeedMoreData => UNCHANGED <<more_, sent, extracted, tame>> /\ Untaken' = Untaken
  BY <1>1, ConcatEmptySeq DEF NeedMoreData, Dropped, TypeOK, Untaken
<1>5. CASE Untaken = << >>
  <2>1. Len(more_) = 0
    <3>1. Len(Untaken) = Len(more_) + Len(wire) /\ Len(more_) \in Nat /\ Len(wire) \in Nat
      BY Joined DEF TypeOK, Untaken
    <3>2. Len(Untaken) = 0
      BY <1>5, EmptySeq
    <3>3. PICK a, b \in Nat : a = Len(more_) /\ b = Len(wire)
      BY <3>1
    <3>4. a + b = 0
      BY <3>1, <3>2, <3>3
    <3>5. a = 0
      BY <3>4
    <3> QED BY <3>3, <3>5
  <2>2. LineFeeds(more_) = {}
    BY <2>1, <1>3, EmptySeq DEF LineFeeds
  <2>3. ToTermNl = NeedMoreData
    BY <2>2 DEF ToTermNl
  <2> QED BY <2>3, <1>4, <1>5, IntactSame
<1>6. CASE Untaken # << >> /\ Len(more_) < EndAt(Untaken, sent, 1)
  <2>1. ToTermNl = NeedMoreData
    BY <1>2, <1>6, Incomplete
  <2> QED BY <2>1, <1>4, <1>6, IntactSame
<1>7. CASE Untaken # << >> /\ ~(Len(more_) < EndAt(Untaken, sent, 1))
  <2>1. PICK s \in Seq(Symbol), t \in Seq(Message) : s = Untaken /\ t = sent
    BY <1>3
  <2>2. /\ Len(s) \in Nat /\ DOMAIN s = 1 .. Len(s) /\ DOMAIN t = 1 .. Len(t)
        /\ 2 \in DOMAIN s /\ s[2].n \in DOMAIN t /\ Oldest(s, t) = s[2].n
        /\ Oldest(s, t) \in 1 .. Len(t) + 1
        /\ EndAt(s, t, 1) \in Nat /\ EndAt(s, t, 1) >= 4 /\ EndAt(s, t, 1) <= Len(s)
    BY <2>1, <1>2, <1>7, OldestSent
  <2>3. PICK e \in Nat : e = EndAt(s, t, 1) /\ e >= 4
    BY <2>2
  <2>4. Len(more_) >= e /\ e + 1 \in 1 .. Len(more_) + 1
    <3>1. ~(Len(more_) < e)
      BY <2>1, <2>3, <1>7
    <3>2. Len(more_) >= e
      BY <3>1, <1>3
    <3> QED BY <3>2, <1>3
  <2>5. PICK o \in Nat : o = s[2].n
    <3>1. s[2] \in Symbol
      BY <2>2, ElementOfSeq
    <3> QED BY <3>1 DEF Symbol
  <2>6. PICK m \in Message : m = t[o] /\ m.n = o /\ o \in DOMAIN t
    <3>1. o \in DOMAIN t
      BY <2>2, <2>5
    <3>2. t[o] \in Message
      BY <3>1, <2>2, ElementOfSeq
    <3>3. t[o].n = o
      BY <3>1, <2>1, <1>2 DEF Manageable
    <3> QED BY <3>1, <3>2, <3>3
  <2>7. ToTermNl = IF m.kind = "malformed" THEN Dropped(From(more_, e + 1)) ELSE Took(m, From(more_, e + 1))
    <3>1. Len(more_) >= EndAt(Untaken, sent, 1)
      BY <2>1, <2>3, <2>4
    <3>2. LET mm == sent[Untaken[2].n]
              rest == From(more_, EndAt(Untaken, sent, 1) + 1)
          IN  ToTermNl = IF mm.kind = "malformed" THEN Dropped(rest) ELSE Took(mm, rest)
      BY <3>1, <1>2, <1>7, Complete
    <3> QED BY <3>2, <2>1, <2>3, <2>5, <2>6
  <2>8. more_' = From(more_, e + 1)
    BY <2>7, <1>1 DEF Dropped, Took
  <2>9. Len(more_') = Len(more_) - e
    <3>1. Len(From(more_, e + 1)) = Len(more_) - (e + 1) + 1
      BY <2>4, <1>3, Rest
    <3> QED BY <3>1, <2>8, <1>3
  <2>10. Untaken' = From(s, e + 1) /\ e + 1 \in 1 .. Len(s) + 1
    BY <2>1, <2>4, <2>8, <1>1, Cut
  <2>11. PICK r \in Seq(Symbol) : r = From(s, e + 1)
    BY <2>10, Rest
  <2>12. Framed(r, t) /\ Oldest(r, t) = Oldest(s, t) + 1
    <3>1. s # << >>
      BY <2>1, <1>7
    <3>2. LET q == From(s, EndAt(s, t, 1) + 1)
          IN  Framed(q, t) /\ Oldest(q, t) = Oldest(s, t) + 1
      BY <3>1, <2>1, <1>2, FramedRest
    <3> QED BY <3>2, <2>3, <2>11
  <2>13. Untaken' = r /\ sent' = t /\ tame'
    BY <2>1, <2>10, <2>11, <1>1
  <2>14. Oldest(s, t) = o /\ Oldest(r, t) = o + 1
    BY <2>2, <2>5, <2>12
  <2>15. extracted \in Seq(Message) /\ extracted' = IF m.kind = "malformed" THEN extracted ELSE Append(extracted, m)
    <3>1. extracted \in Seq(Message)
      BY DEF TypeOK
    <3>2. CASE m.kind = "malformed"
      BY <3>1, <3>2, <2>7, <1>1, ConcatEmptySeq DEF Dropped
    <3>3. CASE m.kind # "malformed"
      <4>1. ToTermNl.messages = <<m>>
        BY <3>3, <2>7 DEF Took
      <4>2. extracted \o <<m>> = Append(extracted, m)
        BY <3>1, AppendIsConcat
      <4> QED BY <4>1, <4>2, <3>1, <3>3, <1>1
    <3> QED BY <3>2, <3>3
  <2>16. PICK x \in Seq(Message) : x = extracted
    BY <2>15
  <2>17. /\ Len(x) \in Nat /\ DOMAIN x = 1 .. Len(x)
         /\ Append(x, m) \in Seq(Message) /\ DOMAIN Append(x, m) = 1 .. Len(x) + 1
         /\ \A i \in 1 .. Len(x) : Append(x, m)[i] = x[i]
         /\ Append(x, m)[Len(x) + 1] = m
    <3>1. Append(x, m) \in Seq(Message) /\ Len(Append(x, m)) = Len(x) + 1
      BY AppendProperties
    <3> QED BY <3>1, AppendProperties, LenProperties
  <2>18. \A i \in DOMAIN x : /\ x[i].n \in DOMAIN t /\ t[x[i].n].kind # "malformed"
                             /\ x[i].n < o /\ x[i] = t[x[i].n]
    BY <2>1, <2>14, <2>16 DEF Intact, WellFormed
  <2>19. \A n \in DOMAIN t : t[n].kind # "malformed" /\ n < o => \E i \in DOMAIN x : x[i].n = n
    BY <2>1, <2>14, <2>16 DEF Intact, WellFormed
  <2>20. PICK y \in Seq(Message) : y = extracted' /\ y = IF m.kind = "malformed" THEN x ELSE Append(x, m)
    BY <2>15, <2>16, <2>17
  <2>21. ASSUME NEW i \in DOMAIN y
         PROVE  /\ y[i].n \in DOMAIN t /\ t[y[i].n].kind # "malformed"
                /\ y[i].n < o + 1 /\ y[i] = t[y[i].n]
    <3>1. CASE i \in DOMAIN x /\ y[i] = x[i]
      <4>1. x[i].n \in DOMAIN t /\ t[x[i].n].kind # "malformed" /\ x[i].n < o /\ x[i] = t[x[i].n]
        BY <3>1, <2>18
      <4>2. PICK n \in Nat : n = x[i].n
        BY <4>1, <2>2
      <4>3. n < o + 1
        BY <4>1, <4>2
      <4> QED BY <4>1, <4>2, <4>3, <3>1
    <3>2. CASE m.kind # "malformed" /\ y[i] = m
      BY <3>2, <2>6
    <3>3. CASE m.kind = "malformed"
      BY <3>1, <3>3, <2>20
    <3>4. CASE m.kind # "malformed"
      <4>1. y = Append(x, m)
        BY <3>4, <2>20
      <4>2. i \in 1 .. Len(x) + 1
        BY <4>1, <2>17
      <4>3. i \in 1 .. Len(x) \/ i = Len(x) + 1
        BY <4>2, <2>17
      <4> QED BY <4>1, <4>3, <3>1, <3>2, <3>4, <2>17
    <3> QED BY <3>3, <3>4
  <2>22. ASSUME NEW n \in DOMAIN t, t[n].kind # "malformed", n < o + 1
         PROVE  \E i \in DOMAIN y : y[i].n = n
    <3>1. n \in Nat
      BY <2>2
    <3>2. n < o \/ n = o
      BY <3>1, <2>22
    <3>3. CASE n < o
      <4>1. PICK i \in DOMAIN x : x[i].n = n
        BY <3>3, <2>19, <2>22
      <4>2. i \in DOMAIN y /\ y[i] = x[i]
        <5>1. CASE m.kind = "malformed"
          BY <5>1, <2>20
        <5>2. CASE m.kind # "malformed"
          <6>1. i \in 1 .. Len(x)
            BY <2>17
          <6>2. i \in 1 .. Len(x) + 1
            BY <6>1, <2>17
          <6> QED BY <6>1, <6>2, <5>2, <2>17, <2>20
        <5> QED BY <5>1, <5>2
      <4> QED BY <4>1, <4>2
    <3>4. CASE n = o
      <4>1. m.kind # "malformed" /\ m.n = n
        BY <3>4, <2>6, <2>22
      <4>2. Len(x) + 1 \in 1 .. Len(x) + 1
        BY <2>17
      <4> QED BY <4>1, <4>2, <2>17, <2>20
    <3> QED BY <3>2, <3>3, <3>4
  <2>23. ASSUME ~parsing', r # << >> PROVE Len(more_') < EndAt(r, t, 1)
    <3>1. ~(Len(more_') > 0 /\ Len(more_') # Len(more_))
      BY <2>23, <1>1
    <3>2. Len(more_') = 0
      BY SMTT(30), <3>1, <2>9, <2>3, <2>4, <1>3
    <3>3. EndAt(r, t, 1) \in Nat /\ EndAt(r, t, 1) >= 4
      BY <2>12, <2>23, OldestSent
    <3> QED BY <3>2, <3>3
  <2>24. Framed(Untaken', sent') /\ Manageable(sent')
    BY <2>1, <2>12, <2>13, <1>2
  <2>25. WellFormed' = {n \in DOMAIN t : t[n].kind # "malformed"}
    BY <2>13 DEF WellFormed
  <2>26. \A i \in DOMAIN extracted' :
           /\ extracted'[i].n \in WellFormed' /\ extracted'[i].n < Oldest(Untaken', sent')
           /\ extracted'[i] = sent'[extracted'[i].n]
    BY <2>13, <2>14, <2>20, <2>21, <2>25
  <2>27. \A n \in WellFormed' :
           n < Oldest(Untaken', sent') => \E i \in DOMAIN extracted' : extracted'[i].n = n
    BY <2>13, <2>14, <2>20, <2>22, <2>25
  <2>28. ~parsing' /\ Untaken' # << >> => Len(more_') < EndAt(Untaken', sent', 1)
    BY <2>13, <2>23
  <2> QED BY <2>24, <2>26, <2>27, <2>28 DEF Intact
<1> QED BY <1>5, <1>6, <1>7

(* Intact is inductive, given the types.                                   *)
LEMMA IntactStep == TypeOK /\ Intact /\ [Next]_vars => Intact'
<1> SUFFICES ASSUME TypeOK, Intact, [Next]_vars PROVE Intact'
  OBVIOUS
<1>1. CASE ToTerm
  BY <1>1, Read, IntactSame DEF ToTerm
<1>2. CASE Parse
  BY <1>2, IntactParse
<1>3. CASE ModemSends
  BY <1>3, IntactSends
<1>4. CASE Disconnected
  BY <1>4 DEF Disconnected, Intact
<1>5. CASE UNCHANGED vars
  <2>1. Untaken' = Untaken
    BY <1>5 DEF vars, Untaken
  <2> QED BY <2>1, <1>5, IntactSame DEF vars, Intact
<1> QED BY <1>1, <1>2, <1>3, <1>4, <1>5 DEF Next

(* What has not been extracted is still to come.                           *)
LEMMA IntactSuffices == TypeOK /\ Intact => StreamIntact
<1> SUFFICES ASSUME TypeOK, Intact, tame PROVE StreamIntact
  BY DEF StreamIntact
<1>1. PICK s \in Seq(Symbol), t \in Seq(Message) : s = Untaken /\ t = sent
  BY ConcatProperties DEF TypeOK, Untaken
<1>2. Framed(s, t)
  BY <1>1 DEF Intact
<1>3. PICK o \in Nat : o = Oldest(s, t)
  BY <1>2, OldestSent
<1>4. Len(t) \in Nat /\ DOMAIN t = 1 .. Len(t)
  BY LenProperties
<1>5. ASSUME NEW i \in DOMAIN extracted
      PROVE  extracted[i].n \in WellFormed /\ extracted[i] = sent[extracted[i].n] /\ extracted[i].n < o
  BY <1>1, <1>3 DEF Intact
<1>6. ASSUME NEW n \in WellFormed
      PROVE  \/ \E i \in DOMAIN extracted : extracted[i].n = n
             \/ /\ \A i \in DOMAIN extracted : extracted[i].n < n
                /\ wire # << >> \/ parsing
  <2>1. n \in DOMAIN t /\ n \in 1 .. Len(t) /\ n \in Nat
    BY <1>1, <1>4 DEF WellFormed
  <2>2. CASE n < o
    BY <2>2, <1>1, <1>3 DEF Intact
  <2>3. CASE ~(n < o)
    <3>1. ASSUME NEW i \in DOMAIN extracted PROVE extracted[i].n < n
      <4>1. PICK x \in Nat : x = extracted[i].n
        BY <1>1, <1>4, <1>5 DEF WellFormed
      <4>2. x < o
        BY <4>1, <1>5
      <4>3. x < n
        BY <4>2, <2>1, <2>3
      <4> QED BY <4>1, <4>3
    <3>2. s # << >>
      <4> SUFFICES ASSUME s = << >> PROVE FALSE
        OBVIOUS
      <4>1. o = Len(t) + 1
        BY <1>3 DEF Oldest
      <4> QED BY <4>1, <2>1, <2>3, <1>4
    <3>3. ASSUME wire = << >>, ~parsing PROVE FALSE
      <4>1. s = more_
        BY <3>3, <1>1, ConcatEmptySeq DEF TypeOK, Untaken
      <4>2. Len(more_) < EndAt(s, t, 1)
        BY <3>2, <3>3, <1>1 DEF Intact
      <4>3. EndAt(s, t, 1) \in Nat /\ EndAt(s, t, 1) <= Len(s) /\ Len(s) \in Nat
        BY <3>2, <1>2, OldestSent
      <4> QED BY <4>1, <4>2, <4>3
    <3> QED BY <3>1, <3>3
  <2> QED BY <2>2, <2>3
<1> QED BY <1>5, <1>6 DEF StreamIntact

(* However the stream is cut into chunks, and whatever shares a chunk, the *)
(* extractors are given what the modem sent.                               *)
THEOREM StreamStaysIntact == Spec => []StreamIntact
<1>1. Init => TypeOK /\ Intact
  BY TypeInit, IntactInit
<1>2. (TypeOK /\ Intact) /\ [Next]_vars => (TypeOK /\ Intact)'
  BY TypeStep, IntactStep
<1>3. TypeOK /\ Intact => StreamIntact
  BY IntactSuffices
<1> QED BY <1>1, <1>2, <1>3, PTL DEF Spec

(* The loop of to_term goes on only after it has taken something from the  *)
(* buffer, which nothing fills meanwhile: the measure by which it ends.    *)
THEOREM LoopShrinksBuffer == Spec => [][Parse /\ parsing' => Len(more_') < Len(more_)]_vars
<1>1. TypeOK /\ [Next]_vars => [Parse /\ parsing' => Len(more_') < Len(more_)]_vars
  <2> SUFFICES ASSUME TypeOK, Parse, parsing' PROVE Len(more_') < Len(more_)
    OBVIOUS
  <2>1. more_' = ToTermNl.rest /\ Len(more_') # Len(more_) /\ more_ \in Seq(Symbol)
    BY DEF TypeOK, Parse, Again
  <2>2. Len(more_) \in Nat
    BY <2>1, LenProperties
  <2>3. PICK p \in 1 .. Len(more_) + 1 : more_' = From(more_, p)
    <3>1. \A p \in 3 .. Len(more_) + 1 : p \in 1 .. Len(more_) + 1
      BY <2>2
    <3> QED BY <3>1, <2>1, Taking
  <2>4. Len(more_') = Len(more_) - p + 1
    <3>1. Len(From(more_, p)) = Len(more_) - p + 1
      BY <2>1, Rest
    <3> QED BY <3>1, <2>3
  <2> QED BY <2>1, <2>2, <2>4
<1> QED BY <1>1, TypeCorrect, PTL DEF Spec
=============================================================================
