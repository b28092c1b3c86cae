------------------------------- MODULE Framing -------------------------------
(***************************************************************************)
(* src/src/parser.h: how the byte stream of the modem is cut into          *)
(* messages.  to_term appends each chunk that is read to more_ and calls   *)
(* to_term_nl until that takes nothing more from the front.                *)
(*                                                                         *)
(* A stream is a sequence of symbols.  One symbol stands for the bytes of  *)
(* a message that the regular expressions of the parser do not tell apart  *)
(* and that hold no line feed: the "N" of a header, the rest of a header,  *)
(* one byte of a payload or of an item, a carriage return, a line feed.    *)
(***************************************************************************)
EXTENDS Integers, Sequences

CONSTANTS
  Messages,                \* what the modem sends: [kind, payload]
  MaxMessages, MaxLosses   \* bounds

Kinds == {"short", "line", "multi", "refusal", "recv", "malformed"}

Symbol == [kind : Kinds \cup {"N", "byte", "CR", "LF"}, n : Nat, len : Nat]

Sym(kind) == [kind |-> kind, n |-> 0, len |-> 0]
N    == Sym("N")
Byte == Sym("byte")
CR   == Sym("CR")
LF   == Sym("LF")
Eol  == <<CR, LF>>

ASSUME MessagesAssumption ==
  Messages \subseteq [kind : Kinds, payload : Seq({Byte, LF})]

ASSUME BoundsAssumption == MaxMessages \in Nat /\ MaxLosses \in Nat

VARIABLES
  wire,       \* sent by the modem, not handed to to_term yet
  more_,
  parsing,    \* between two calls of to_term_nl
  sent,       \* history: the messages of the modem
  extracted,  \* history: what was passed to an extractor, or reported
  tame,       \* history: nothing that to_term_nl cannot cope with has happened
  losses      \* for the bound

vars == <<wire, more_, parsing, sent, extracted, tame, losses>>

Message == [kind : Kinds, n : Nat, body : Seq(Symbol)]

TypeOK ==
  /\ wire \in Seq(Symbol) /\ more_ \in Seq(Symbol)
  /\ parsing \in BOOLEAN
  /\ sent \in Seq(Message) /\ extracted \in Seq(Message)
  /\ tame \in BOOLEAN /\ losses \in Nat

-----------------------------------------------------------------------------
(* What the modem sends: a header of two symbols, the body, the end.       *)
(* short: "NL,busy", a report without parameters.  line: "NL,address,5".   *)
(* multi: lines up to a blank one.  refusal: "NL,states,error", one line   *)
(* whose header is that of a multiline answer.  recv: a payload of a       *)
(* length that the header tells.  malformed: a recv with a bad header.     *)
Header(m) == IF m.kind = "refusal" THEN "multi" ELSE m.kind

Body(m) == IF m.kind = "multi" THEN Eol \o m.payload ELSE m.payload

End(m) == IF m.kind = "multi" THEN Eol \o Eol ELSE Eol

Encoded(m, n) ==
  <<N, [kind |-> Header(m), n |-> n, len |-> Len(m.payload)]>> \o Body(m) \o End(m)

-----------------------------------------------------------------------------
(* The regular expressions of to_term_nl and nl_rcv_extract, on a buffer.  *)

LineFeeds(b) == {i \in DOMAIN b : b[i] = LF}

FirstLineFeed(b) == CHOOSE i \in LineFeeds(b) : \A j \in LineFeeds(b) : i <= j

OnlyCR(b, i, j) == \A k \in i .. j : b[k] = CR

(* "\n\r*\n": the ends of blank lines.                                     *)
BlankLines(b) ==
  {j \in LineFeeds(b) : \E i \in LineFeeds(b) : i < j /\ OnlyCR(b, i + 1, j - 1)}

LastBlankLine(b) == CHOOSE i \in BlankLines(b) : \A j \in BlankLines(b) : j <= i

(* ".{len}\r*\n": the ends of lines that begin with len bytes.             *)
PayloadEnds(b, len) == {j \in LineFeeds(b) : j > len /\ OnlyCR(b, len + 1, j - 1)}

From(b, i) == SubSeq(b, i, Len(b))

(* The parameters lose one carriage return at their end.                   *)
Chomp(b) == IF b # << >> /\ b[Len(b)] = CR THEN SubSeq(b, 1, Len(b) - 1) ELSE b

StartsMessage(b) == Len(b) >= 2 /\ b[1] = N /\ b[2].kind \in Kinds

Took(m, rest)  == [messages |-> <<m>>, rest |-> rest]
Dropped(rest)  == [messages |-> << >>, rest |-> rest]
NeedMoreData   == Dropped(more_)
DropLine       == Dropped(From(more_, FirstLineFeed(more_) + 1))

(* Mutation of Extracted: the wrong group of the match.                    *)
ExtractedFirst(body) == [kind |-> more_[1].kind, n |-> more_[2].n, body |-> body]

Extracted(body) == [kind |-> more_[2].kind, n |-> more_[2].n, body |-> body]

-----------------------------------------------------------------------------
(* A payload of the length told, then the end of the line.  If it is not   *)
(* there, the test for its length drops a line when data is missing and    *)
(* waits when it is not: the two branches are the wrong way round.         *)
NlRcvExtract ==
  LET rest == From(more_, 3)
      len  == more_[2].len
      ends == PayloadEnds(rest, len)
  IN  IF ends # {}
      THEN Took(Extracted(SubSeq(rest, 1, len)), From(rest, (CHOOSE j \in ends : TRUE) + 1))
      ELSE IF len + 2 >= Len(rest)
           THEN DropLine
           ELSE NeedMoreData

(* The expression for the parameters is greedy: they end at the last blank *)
(* line of the buffer.                                                     *)
Multiline ==
  LET rest == From(more_, 3)
  IN  IF BlankLines(rest) # {}
      THEN LET last == LastBlankLine(rest)
               feed == CHOOSE i \in LineFeeds(rest) : i < last /\ OnlyCR(rest, i + 1, last - 1)
           IN  Took(Extracted(Chomp(SubSeq(rest, 1, feed - 1))), From(rest, last + 1))
      ELSE NeedMoreData

(* short_regex and general_regex: up to the first line feed.               *)
OneLine ==
  LET i == FirstLineFeed(more_)
  IN  Took(Extracted(Chomp(SubSeq(more_, 3, i - 1))), From(more_, i + 1))

(* One call of to_term_nl.  Every expression is anchored at "NL,", and     *)
(* what does not begin with it is never taken.                             *)
ToTermNl ==
  IF LineFeeds(more_) = {} \/ ~StartsMessage(more_)
  THEN NeedMoreData
  ELSE CASE more_[2].kind = "recv"  -> NlRcvExtract
         [] more_[2].kind = "multi" -> Multiline
         [] more_[2].kind = "malformed" -> DropLine
         [] OTHER                   -> OneLine

(* Mutation of Again: the loop ends only when the buffer is empty.         *)
AgainUnlessEmpty(before, after) == Len(after) > 0

(* The condition of the loop.                                              *)
Again(before, after) == Len(after) > 0 /\ Len(after) # Len(before)

-----------------------------------------------------------------------------
(* Mutation of ToTerm: the buffer is cleared when a chunk is read.         *)
ToTermAnew ==
  /\ ~parsing
  /\ \E k \in 1 .. Len(wire) :
       /\ more_' = SubSeq(wire, 1, k)
       /\ wire' = From(wire, k + 1)
  /\ parsing' = TRUE
  /\ UNCHANGED <<sent, extracted, tame, losses>>

(* A read completes with any part of what was sent, and to_term begins.    *)
ToTerm ==
  /\ ~parsing
  /\ \E k \in 1 .. Len(wire) :
       /\ more_' = more_ \o SubSeq(wire, 1, k)
       /\ wire' = From(wire, k + 1)
  /\ parsing' = TRUE
  /\ UNCHANGED <<sent, extracted, tame, losses>>

(* Mutation of Parse: what was extracted is not erased.                    *)
ParseKeeping ==
  /\ parsing
  /\ more_' = IF ToTermNl.messages # << >> THEN more_ ELSE ToTermNl.rest
  /\ extracted' = extracted \o ToTermNl.messages
  /\ parsing' = Again(more_, more_')
  /\ UNCHANGED <<wire, sent, tame, losses>>

Parse ==
  /\ parsing
  /\ more_' = ToTermNl.rest
  /\ extracted' = extracted \o ToTermNl.messages
  /\ parsing' = Again(more_, more_')
  /\ UNCHANGED <<wire, sent, tame, losses>>

-----------------------------------------------------------------------------
(* The modem and the connection.                                           *)

Pending(kind, stream) == \E i \in DOMAIN stream : stream[i].kind = kind

(* stream is what has been sent and not been taken.  Not tame are two      *)
(* multiline answers that may share the buffer, which the greedy           *)
(* expression merges, refusals of one, which wait for a blank line, blank  *)
(* lines within a multiline answer and line feeds in any other.            *)
Sends(stream) ==
  /\ Len(sent) < MaxMessages
  /\ \E m \in Messages :
       /\ wire' = wire \o Encoded(m, Len(sent) + 1)
       /\ sent' = Append(sent, [kind |-> m.kind, n |-> Len(sent) + 1, body |-> Body(m)])
       /\ tame' = /\ tame
                  /\ m.kind # "refusal"
                  /\ IF m.kind = "multi"
                     THEN ~Pending("multi", stream) /\ BlankLines(Body(m) \o Eol) = {}
                     ELSE LineFeeds(m.payload) = {}
  /\ UNCHANGED <<more_, parsing, extracted, losses>>

ModemSends == Sends(more_ \o wire)

(* The connection is lost with what is under way, except for what had been *)
(* read when it was closed.  more_ stays as it is.                         *)
Disconnected ==
  /\ ~parsing
  /\ losses < MaxLosses
  /\ losses' = losses + 1
  /\ \E k \in 0 .. Len(wire) : wire' = SubSeq(wire, 1, k)
  /\ tame' = FALSE
  /\ UNCHANGED <<more_, parsing, sent, extracted>>

Init ==
  /\ wire = << >> /\ more_ = << >> /\ parsing = FALSE
  /\ sent = << >> /\ extracted = << >> /\ tame = TRUE /\ losses = 0

Next == ToTerm \/ Parse \/ ModemSends \/ Disconnected

Spec == Init /\ [][Next]_vars

(* to_term runs to its end in the I/O thread.                              *)
FairSpec == Spec /\ WF_vars(Parse)

-----------------------------------------------------------------------------
(* Properties.                                                             *)

(* However the stream is cut into chunks and whatever messages share a     *)
(* chunk, the extractors are given what the modem sent: nothing lost,      *)
(* merged or cut, and a message with a bad header is dropped without its   *)
(* neighbours.                                                             *)
WellFormed == {n \in DOMAIN sent : sent[n].kind # "malformed"}

StreamIntact ==
  tame =>
    /\ \A i \in DOMAIN extracted :
         extracted[i].n \in WellFormed /\ extracted[i] = sent[extracted[i].n]
    /\ \A n \in WellFormed :
         \/ \E i \in DOMAIN extracted : extracted[i].n = n
         \/ /\ \A i \in DOMAIN extracted : extracted[i].n < n
            /\ wire # << >> \/ parsing

(* What to_term keeps for want of more data is the beginning of a message, *)
(* so that there is data that completes it.                                *)
MoreDataHelps ==
  ~parsing /\ more_ # << >> => more_[1] = N /\ (Len(more_) > 1 => StartsMessage(more_))

(* Nothing is extracted twice, and nothing overtakes, whatever a loss of   *)
(* the connection or a dropped line has done to the stream.                *)
InOrder ==
  \A i, j \in DOMAIN extracted : i < j => extracted[i].n < extracted[j].n

(* The loop of to_term ends, also on a buffer it cannot take anything from. *)
LoopEnds == []<>~parsing
=============================================================================
