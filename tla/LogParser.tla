------------------------------ MODULE LogParser ------------------------------
(***************************************************************************)
(* From console lines of a core to log frames (log.rs): two streams are    *)
(* read line by line, a line with a header starts a record, an error waits *)
(* for its continuation lines, and every text is cut to its cap here.      *)
(*                                                                         *)
(* A line is a number in the order of arrival.  What a header looks like   *)
(* is left out; a text is its length, and a character one or two bytes     *)
(* wide.  The second part is the date of clash premium, whose lines carry  *)
(* a time of day only.                                                     *)
(***************************************************************************)
EXTENDS Naturals, Integers, Sequences, SequencesExt, FiniteSets

CONSTANTS
  MaxLogLines,      \* bound: lines
  MaxContinuations, \* MAX_CONTINUATION_LINES
  MaxText,          \* MAX_LOG_TEXT_BYTES
  Day,              \* hours of a day, a multiple of 2
  MaxDays           \* bound: days

ASSUME ParserAssumption == MaxText \in Nat /\ MaxText > 1 /\ MaxContinuations \in Nat /\ Day \in Nat /\ Day % 2 = 0

VARIABLES
  lineNo,    \* lines so far
  pendings,  \* record of each stream that waits for continuations
  newest,    \* newest_pending
  out,       \* frames that left the parser
  ended,     \* finish was called
  printed,   \* ghost: stream and level of every line
  premium    \* the clock of premium, and the true one

lvars == <<lineNo, pendings, newest, out, ended, printed, premium>>

Streams == {"stdout", "stderr"}
NoFrame == [root |-> 0, stream |-> "none", level |-> 0, raw |-> 0, message |-> 0, conts |-> <<>>,
            used |-> 0, truncated |-> FALSE]
Levels == [info |-> 2, warning |-> 3, error |-> 4]

(***************************************************************************)
(* Texts                                                                   *)
(***************************************************************************)
(* char_boundary_at_or_below, for characters of one width.                 *)
BoundaryAtOrBelow(bytes, width) == bytes - (bytes % width)

Smaller(a, b) == IF a < b THEN a ELSE b

(* truncate_text                                                           *)
TruncateText(len, width) ==
  IF len <= MaxText THEN [len |-> len, cut |-> FALSE]
  ELSE [len |-> BoundaryAtOrBelow(MaxText, width), cut |-> TRUE]

(* append_bounded: a separator and what fits of the line.                  *)
AppendBounded(text, line, width) ==
  IF text >= MaxText THEN [len |-> text, cut |-> TRUE]
  ELSE IF line = 0 THEN [len |-> text + 1, cut |-> FALSE]
  ELSE LET end == BoundaryAtOrBelow(Smaller(MaxText - text - 1, line), width) IN
    IF end = 0 THEN [len |-> text, cut |-> TRUE] ELSE [len |-> text + 1 + end, cut |-> end < line]

(* Pending::append                                                         *)
Appended(p, n, len, width) ==
  IF p.used = MaxContinuations THEN [p EXCEPT !.truncated = TRUE, !.conts = Append(@, n)]
  ELSE LET r == AppendBounded(p.raw, len, width)
           m == AppendBounded(p.message, len, width) IN
    [p EXCEPT !.raw = r.len, !.message = m.len, !.conts = Append(@, n),
              !.truncated = @ \/ r.cut \/ m.cut,
              !.used = IF r.cut \/ m.cut THEN MaxContinuations ELSE @ + 1]

(***************************************************************************)
(* LogParser                                                               *)
(***************************************************************************)
ParserInit ==
  /\ lineNo = 0 /\ pendings = [s \in Streams |-> NoFrame] /\ newest = "none"
  /\ out = <<>> /\ ended = FALSE /\ printed = <<>>
  /\ premium = [known |-> FALSE, date |-> 0, last |-> 0, hour |-> 0, true |-> 0, unix |-> 0]

Taken(s) == IF pendings[s] = NoFrame THEN <<>> ELSE <<pendings[s]>>

(* emit: a new record of the stream ends the one that waits there.         *)
Emit(s, frame, hold) ==
  IF hold THEN /\ out' = out \o Taken(s) /\ newest' = s
               /\ pendings' = [pendings EXCEPT ![s] = frame]
  ELSE /\ out' = Append(out \o Taken(s), frame)
       /\ pendings' = [pendings EXCEPT ![s] = NoFrame] /\ UNCHANGED newest

Frame(s, level, len, header, width) ==
  LET r == TruncateText(len + header, width)
      m == TruncateText(len, width) IN
  [NoFrame EXCEPT !.root = lineNo + 1, !.stream = s, !.level = level, !.raw = r.len,
                  !.message = m.len, !.truncated = r.cut \/ m.cut]

Arrives(s, level) ==
  /\ lineNo < MaxLogLines /\ ~ended
  /\ lineNo' = lineNo + 1 /\ printed' = Append(printed, [stream |-> s, level |-> level])
  /\ UNCHANGED <<ended, premium>>

(* An error waits for its continuations; a plain "Error:" only on stderr.  *)
Holds(kind, s, level) ==
  IF kind = "header" THEN level >= Levels.error ELSE kind = "Error:" /\ s = "stderr"

(* push_at, a line whose header parses.                                    *)
PushHeader(s, level, len, width) ==
  /\ Arrives(s, level)
  /\ Emit(s, Frame(s, level, len, 1, width), Holds("header", s, level))

(* push_at, a plain line that starts a record of its own.                  *)
PushRoot(kind, s, len) ==
  LET level == IF kind = "Error:" THEN Levels.error ELSE Levels.warning IN
  /\ Arrives(s, level)
  /\ Emit(s, Frame(s, level, len, 0, 1), Holds(kind, s, level))

(* Mutant: a plain line joins whichever record waits.                      *)
OwnerOfNewest(s) == IF newest = "none" THEN s ELSE newest

(* The record a plain line may belong to.                                  *)
Owner(s) == s

(* push_at, a plain line: a continuation if its stream has a record that   *)
(* waits, otherwise a record with the stream's own level.                  *)
PushPlain(s, len, width) ==
  LET level == IF s = "stdout" THEN Levels.info ELSE Levels.warning
      o == Owner(s) IN
  IF pendings[o] # NoFrame
  THEN /\ Arrives(s, 0)
       /\ pendings' = [pendings EXCEPT ![o] = Appended(@, lineNo + 1, len, width)]
       /\ UNCHANGED <<newest, out>>
  ELSE /\ Arrives(s, level) /\ Emit(s, Frame(s, level, len, 0, width), FALSE)

(* finish: what still waits, the older record first.                       *)
Finish == IF newest = "stdout" THEN Taken("stderr") \o Taken("stdout")
          ELSE Taken("stdout") \o Taken("stderr")

PushFinish ==
  /\ ~ended /\ ended' = TRUE
  /\ out' = out \o Finish
  /\ pendings' = [s \in Streams |-> NoFrame] /\ newest' = "none"
  /\ UNCHANGED <<lineNo, printed, premium>>

Severities(frames) == {frames[i].level : i \in DOMAIN frames} \ {0, 1, Levels.info}

(* error_summary: the latest of the most severe frames above info.         *)
ErrorSummary(frames) ==
  IF Severities(frames) = {} THEN 0
  ELSE LET worst == CHOOSE l \in Severities(frames) : \A x \in Severities(frames) : x <= l IN
    frames[SelectLastInSeq(frames, LAMBDA f : f.level = worst)].root

(***************************************************************************)
(* The date of premium                                                     *)
(***************************************************************************)
(* premium_unix_ms                                                         *)
PremiumDate(p, hour, observed) ==
  IF p.known THEN IF p.last - hour > Day \div 2 THEN p.date + 1 ELSE p.date
  ELSE LET today == observed \div Day IN
    IF hour - (observed % Day) > Day \div 2 THEN today - 1 ELSE today

(* A line printed `gap` hours after the last one, seen `delay` later.      *)
PushPremium(gap, delay) ==
  LET true == premium.true + gap
      hour == true % Day
      date == PremiumDate(premium, hour, true + delay) IN
  /\ true >= Day /\ true < Day * MaxDays
  /\ premium' = [known |-> TRUE, date |-> date, last |-> hour, hour |-> hour, true |-> true,
                 unix |-> date * Day + hour]
  /\ UNCHANGED <<lineNo, pendings, newest, out, ended, printed>>

ParserNext ==
  \/ \E s \in Streams : \/ \E l \in {Levels.info, Levels.error} : PushHeader(s, l, 1, 1)
                        \/ PushHeader(s, Levels.error, MaxText + 1, 2)
                        \/ \E k \in {"Error:", "warning:"} : PushRoot(k, s, 2)
                        \/ \E len \in {0, 2}, w \in {1, 2} : PushPlain(s, len, w)
  \/ PushFinish

PremiumNext == \E gap \in 0 .. Day, delay \in 0 .. Day \div 2 - 1 :
                 /\ premium.known => gap < Day \div 2
                 /\ PushPremium(gap, delay)

ParserSteps == (ParserNext /\ ~premium.known) \/ (PremiumNext /\ lineNo = 0)

ParserSpec == ParserInit /\ [][ParserSteps]_lvars

(***************************************************************************)
(* Properties                                                              *)
(***************************************************************************)
Everywhere == out \o Taken("stdout") \o Taken("stderr")
LinesOf(f) == {f.root} \union {f.conts[i] : i \in DOMAIN f.conts}

(* The state is well-typed, and every text is within its cap wherever it   *)
(* is, which is why no consumer cuts it again (bound_frame, append).       *)
ParserTypeOK ==
  /\ newest \in Streams \union {"none"} /\ lineNo = Len(printed)
  /\ \A i \in DOMAIN Everywhere : Everywhere[i].raw <= MaxText /\ Everywhere[i].message <= MaxText

(* Every line is in exactly one frame, which left the parser or waits in   *)
(* it; after finish nothing waits.                                         *)
LinesKept ==
  /\ \A n \in 1 .. lineNo : Cardinality({i \in DOMAIN Everywhere : n \in LinesOf(Everywhere[i])}) = 1
  /\ ended => \A s \in Streams : pendings[s] = NoFrame

(* A continuation belongs to the last record of its own stream, however    *)
(* the two streams are interleaved.                                        *)
OwnContinuations ==
  \A i \in DOMAIN Everywhere : \A n \in LinesOf(Everywhere[i]) \ {Everywhere[i].root} :
    /\ printed[n].stream = Everywhere[i].stream
    /\ \A m \in Everywhere[i].root + 1 .. n :
         printed[m].stream = Everywhere[i].stream => printed[m].level = 0

(* The cause reported for a core that failed is of the worst level any     *)
(* line had, although errors are held back while others pass.              *)
SummaryIsWorst ==
  ended => LET levels == {printed[n].level : n \in 1 .. lineNo} IN
    IF \A l \in levels : l <= Levels.info THEN ErrorSummary(out) = 0
    ELSE /\ ErrorSummary(out) # 0
         /\ \A l \in levels : l <= printed[ErrorSummary(out)].level

(* With lines in order, less than half a day apart and seen within half a  *)
(* day, the inferred date is the true one, across midnight, too.           *)
PremiumDated == premium.known => premium.unix = premium.true
=============================================================================
