----------------------- MODULE ConsoleSettingsProofs -----------------------
(***************************************************************************)
(* The RPC console, its parser and the settings a start finds, for any     *)
(* bounds.  They are parts of MCNodePages, each with an inductive          *)
(* invariant of its own.                                                   *)
(***************************************************************************)
EXTENDS MCNodePages, SequenceTheorems, TLAPS

(***************************************************************************)
(* RpcParser: the positions that stay out of the history                   *)
(***************************************************************************)
line == v1
USE DEF line

ParserStates ==
  {"spaces", "spacesInArg", "spacesInBrackets", "argument", "singleQuoted", "doubleQuoted", "escapeOuter",
   "escapeDoubleQuoted", "executed", "query"}
Words == Parser!Alphabet \cup {""}
Frame == [words : Nat, sensitive : BOOLEAN]
Lines == [state : ParserStates, stack : Seq(Frame), arg : Words, depth : Nat, begin : Nat, pos : Nat,
          blank : BOOLEAN, hidden : SUBSET Nat, secret : SUBSET Nat,
          outcome : {"parsing", "undefined", "error", "accepted", "unbalanced"}]

Secretive(frame) == frame.sensitive
Fresh(frame) == frame.words = 0

\* depth counts the frames from the outermost sensitive one to the innermost.
FramesOK(stack, depth) ==
  /\ \A i \in 1..Len(stack) : ~(Fresh(stack[i]) /\ Secretive(stack[i]))
  /\ depth = 0 => \A i \in 1..Len(stack) : ~Secretive(stack[i])
  /\ depth # 0 => /\ depth <= Len(stack) /\ Secretive(stack[Len(stack) - depth + 1])
                  /\ \A i \in 1..(Len(stack) - depth) : ~Secretive(stack[i])

\* What was typed before n is hidden, or is within the range now open.
RangesOK(p, n) ==
  /\ p.depth # 0 => 0 < p.begin /\ p.begin <= p.pos
  /\ \A x \in p.secret : x \in p.hidden \/ (p.depth # 0 /\ p.begin <= x /\ x < n)

\* No argument is open before the first character.
ParserOK(p, n) ==
  /\ p \in Lines /\ FramesOK(p.stack, p.depth) /\ RangesOK(p, n)
  /\ p.arg # "" => n > 0

\* A command to execute has its frame.
ExecutesFrame(p) == p.state \in {"executed", "query"} => p.stack # << >>

ParserInv == ParserOK(line, line.pos) /\ (line.outcome = "parsing" => ExecutesFrame(line))

LEMMA EmptyFrames == FramesOK(<< >>, 0)
BY DEF FramesOK

LEMMA LastFrame ==
  ASSUME NEW s \in Seq(Frame), s # << >>
  PROVE  /\ Len(s) \in Nat /\ Len(s) > 0 /\ DOMAIN s = 1..Len(s)
         /\ Parser!Last(s) = s[Len(s)] /\ Parser!Last(s) \in Frame
         /\ Parser!Front(s) \in Seq(Frame) /\ Len(Parser!Front(s)) = Len(s) - 1
         /\ \A i \in 1..(Len(s) - 1) : Parser!Front(s)[i] = s[i]
<1>1. Len(s) \in Nat /\ Len(s) > 0 /\ DOMAIN s = 1..Len(s) /\ \A i \in 1..Len(s) : s[i] \in Frame
  BY LenProperties, EmptySeq, ElementOfSeq
<1> QED BY <1>1, SubSeqProperties DEF Parser!Last, Parser!Front

\* add_to_current_stack replaces the innermost frame.
LEMMA WordAdded ==
  ASSUME NEW s \in Seq(Frame), s # << >>, NEW depth \in Nat, FramesOK(s, depth), NEW f \in Frame,
         ~Fresh(f), ~Fresh(s[Len(s)]) => (Secretive(f) <=> Secretive(s[Len(s)])),
         NEW deeper \in Nat, deeper = IF Fresh(s[Len(s)]) /\ depth = 0 /\ Secretive(f) THEN 1 ELSE depth
  PROVE  /\ Append(Parser!Front(s), f) \in Seq(Frame) /\ Append(Parser!Front(s), f) # << >>
         /\ FramesOK(Append(Parser!Front(s), f), deeper)
<1> DEFINE t == Append(Parser!Front(s), f)
           n == Len(s)
<1>1. /\ t \in Seq(Frame) /\ Len(t) = n /\ DOMAIN t = 1..n /\ t # << >>
      /\ \A i \in 1..(n - 1) : t[i] = s[i]
      /\ t[n] = f /\ n \in Nat /\ n > 0 /\ DOMAIN s = 1..n
  <2>1. Parser!Front(s) \in Seq(Frame) /\ Len(Parser!Front(s)) = n - 1 /\ n \in Nat /\ n > 0 /\ DOMAIN s = 1..n
    BY LastFrame
  <2>2. /\ t \in Seq(Frame) /\ Len(t) = n /\ t[n] = f
        /\ \A i \in 1..(n - 1) : t[i] = Parser!Front(s)[i]
    BY <2>1
  <2>3. DOMAIN t = 1..n /\ t # << >>
    BY <2>1, <2>2, LenProperties, EmptySeq
  <2> QED BY <2>1, <2>2, <2>3, LastFrame
<1>2. \A i \in 1..n : ~(Fresh(s[i]) /\ Secretive(s[i]))
  BY <1>1 DEF FramesOK
<1>3. Fresh(s[n]) => ~Secretive(s[n])
  BY <1>1, <1>2
<1> HIDE DEF t, n
<1>4. \A i \in 1..n : ~(Fresh(t[i]) /\ Secretive(t[i]))
  <2> SUFFICES ASSUME NEW i \in 1..n, Secretive(t[i]) PROVE ~Fresh(t[i])
    OBVIOUS
  <2>1. CASE i = n
    BY <1>1, <2>1
  <2>2. CASE i # n
    BY <1>1, <1>2, <2>2
  <2> QED BY <2>1, <2>2
<1>5. ASSUME depth = 0 PROVE FramesOK(t, deeper)
  <2>1. \A i \in 1..n : ~Secretive(s[i])
    BY <1>1, <1>5 DEF FramesOK
  <2>2. CASE deeper = 0
    <3>1. ~Secretive(f)
      BY <1>1, <1>3, <1>5, <2>1, <2>2 DEF n
    <3>2. \A i \in 1..n : ~Secretive(t[i])
      BY <1>1, <2>1, <3>1
    <3> QED BY <1>1, <1>4, <2>2, <3>2 DEF FramesOK
  <2>3. CASE deeper # 0
    <3>1. deeper = 1 /\ Secretive(f)
      BY <1>5, <2>3
    <3> QED BY <1>1, <1>4, <2>1, <3>1 DEF FramesOK
  <2> QED BY <2>2, <2>3
<1>6. ASSUME depth # 0 PROVE FramesOK(t, deeper)
  <2>1. deeper = depth /\ depth <= n /\ Secretive(s[n - depth + 1]) /\ \A i \in 1..(n - depth) : ~Secretive(s[i])
    BY <1>6 DEF FramesOK, n
  <2>2. Secretive(t[n - depth + 1])
    <3>1. CASE depth = 1
      <4>1. Secretive(s[n])
        BY <1>1, <2>1, <3>1
      <4>2. Secretive(f)
        BY <1>3, <4>1 DEF n
      <4> QED BY <1>1, <3>1, <4>2
    <3>2. CASE depth # 1
      BY <1>1, <1>6, <2>1, <3>2
    <3> QED BY <3>1, <3>2
  <2>3. \A i \in 1..(n - depth) : ~Secretive(t[i])
    BY <1>1, <1>6, <2>1
  <2> QED BY <1>1, <1>4, <1>6, <2>1, <2>2, <2>3 DEF FramesOK
<1> QED BY <1>1, <1>5, <1>6 DEF t

LEMMA FramePushed ==
  ASSUME NEW s \in Seq(Frame), NEW depth \in Nat, FramesOK(s, depth), NEW f \in Frame, ~Secretive(f)
  PROVE  /\ Append(s, f) \in Seq(Frame) /\ Append(s, f) # << >>
         /\ FramesOK(Append(s, f), IF depth > 0 THEN depth + 1 ELSE 0)
<1> DEFINE t == Append(s, f)
           n == Len(s)
<1>1. /\ t \in Seq(Frame) /\ Len(t) = n + 1 /\ DOMAIN t = 1..(n + 1) /\ t # << >>
      /\ \A i \in 1..n : t[i] = s[i]
      /\ t[n + 1] = f /\ n \in Nat /\ DOMAIN s = 1..n
  BY LenProperties, EmptySeq
<1>2. \A i \in 1..n : ~(Fresh(s[i]) /\ Secretive(s[i]))
  BY <1>1 DEF FramesOK
<1> HIDE DEF t
<1>3. \A i \in 1..(n + 1) : ~(Fresh(t[i]) /\ Secretive(t[i]))
  <2> SUFFICES ASSUME NEW i \in 1..(n + 1), Secretive(t[i]) PROVE ~Fresh(t[i])
    OBVIOUS
  <2>1. CASE i = n + 1
    BY <1>1, <2>1
  <2>2. CASE i # n + 1
    BY <1>1, <1>2, <2>2
  <2> QED BY <2>1, <2>2
<1>4. ASSUME depth = 0 PROVE FramesOK(t, IF depth > 0 THEN depth + 1 ELSE 0)
  <2>1. \A i \in 1..n : ~Secretive(s[i])
    BY <1>1, <1>4 DEF FramesOK
  <2>2. \A i \in 1..(n + 1) : ~Secretive(t[i])
    BY <1>1, <2>1
  <2> QED BY <1>1, <1>3, <1>4, <2>2 DEF FramesOK
<1>5. ASSUME depth # 0 PROVE FramesOK(t, IF depth > 0 THEN depth + 1 ELSE 0)
  <2>1. depth <= n /\ Secretive(s[n - depth + 1]) /\ \A i \in 1..(n - depth) : ~Secretive(s[i])
    BY <1>5 DEF FramesOK
  <2> QED BY <1>1, <1>3, <1>5, <2>1 DEF FramesOK
<1> QED BY <1>1, <1>4, <1>5 DEF t

LEMMA FramePopped ==
  ASSUME NEW s \in Seq(Frame), s # << >>, NEW depth \in Nat, FramesOK(s, depth)
  PROVE  /\ Parser!Front(s) \in Seq(Frame)
         /\ FramesOK(Parser!Front(s), IF depth > 0 THEN depth - 1 ELSE 0)
<1> DEFINE t == Parser!Front(s)
           n == Len(s)
<1>1. /\ t \in Seq(Frame) /\ Len(t) = n - 1 /\ DOMAIN t = 1..(n - 1) /\ n \in Nat /\ n > 0
      /\ DOMAIN s = 1..n
      /\ \A i \in 1..(n - 1) : t[i] = s[i]
  BY LastFrame, LenProperties
<1>2. \A i \in 1..(n - 1) : ~(Fresh(t[i]) /\ Secretive(t[i]))
  BY <1>1 DEF FramesOK
<1> HIDE DEF t
<1>3. ASSUME depth = 0 PROVE FramesOK(t, IF depth > 0 THEN depth - 1 ELSE 0)
  <2>1. \A i \in 1..n : ~Secretive(s[i])
    BY <1>1, <1>3 DEF FramesOK
  <2> QED BY <1>1, <1>2, <1>3, <2>1 DEF FramesOK
<1>4. ASSUME depth # 0 PROVE FramesOK(t, IF depth > 0 THEN depth - 1 ELSE 0)
  <2>1. depth <= n /\ Secretive(s[n - depth + 1]) /\ \A i \in 1..(n - depth) : ~Secretive(s[i])
    BY <1>4 DEF FramesOK
  <2>2. CASE depth = 1
    <3>1. \A i \in 1..(n - 1) : ~Secretive(t[i])
      BY <1>1, <2>1, <2>2
    <3> QED BY <1>1, <1>2, <2>2, <3>1 DEF FramesOK
  <2>3. CASE depth # 1
    <3>1. Secretive(t[n - 1 - (depth - 1) + 1]) /\ \A i \in 1..(n - 1 - (depth - 1)) : ~Secretive(t[i])
      BY <1>1, <1>4, <2>1, <2>3
    <3>2. depth - 1 # 0 /\ depth > 0 /\ depth - 1 <= n - 1
      BY <1>4, <2>1, <2>3
    <3> QED BY <1>1, <1>2, <3>1, <3>2 DEF FramesOK
  <2> QED BY <2>2, <2>3
<1> QED BY <1>1, <1>3, <1>4 DEF t

LEMMA SensitiveIsDepth ==
  ASSUME NEW p \in Lines, FramesOK(p.stack, p.depth)
  PROVE  Parser!Sensitive(p) <=> p.depth # 0
<1>1. /\ p.stack \in Seq(Frame) /\ p.depth \in Nat
      /\ Len(p.stack) \in Nat /\ DOMAIN p.stack = 1..Len(p.stack)
  BY LenProperties DEF Lines
<1>2. Parser!Sensitive(p) <=> \E i \in 1..Len(p.stack) : Secretive(p.stack[i])
  BY <1>1, Zenon DEF Parser!Sensitive, Secretive
<1>3. CASE p.depth = 0
  BY <1>2, <1>3 DEF FramesOK
<1>4. CASE p.depth # 0
  <2>1. Len(p.stack) - p.depth + 1 \in 1..Len(p.stack) /\ Secretive(p.stack[Len(p.stack) - p.depth + 1])
    BY <1>1, <1>4 DEF FramesOK
  <2> QED BY <1>2, <1>4, <2>1
<1> QED BY <1>3, <1>4

\* What the positions do not depend on: the state, and how the line ends.
LEMMA SameRanges ==
  ASSUME NEW p, NEW n, ParserOK(p, n), NEW r \in Lines, r.stack = p.stack, r.depth = p.depth, r.begin = p.begin,
         r.pos = p.pos, r.hidden = p.hidden, r.secret = p.secret, r.arg \in {p.arg, ""}
  PROVE  ParserOK(r, n)
BY DEF ParserOK, RangesOK

\* The character at p.pos is read.
LEMMA CharacterRead ==
  ASSUME NEW p, ParserOK(p, p.pos)
  PROVE  ParserOK(p, p.pos + 1)
<1>1. p.pos \in Nat /\ p.begin \in Nat /\ \A x \in p.secret : x \in Nat
  BY DEF ParserOK, Lines
<1>2. \A x \in p.secret : x < p.pos => x < p.pos + 1
  BY <1>1
<1>3. RangesOK(p, p.pos + 1)
  BY <1>2 DEF ParserOK, RangesOK
<1>4. p.pos + 1 > 0
  BY <1>1
<1> QED BY <1>3, <1>4 DEF ParserOK

LEMMA StateSet ==
  ASSUME NEW p, NEW n, ParserOK(p, n), NEW s \in ParserStates
  PROVE  /\ ParserOK([p EXCEPT !.state = s], n) /\ [p EXCEPT !.state = s].state = s
         /\ [p EXCEPT !.state = s].stack = p.stack /\ [p EXCEPT !.state = s].outcome = p.outcome
         /\ [p EXCEPT !.state = s].pos = p.pos /\ [p EXCEPT !.state = s].arg = p.arg
<1> DEFINE r == [p EXCEPT !.state = s]
<1>1. /\ r \in Lines /\ r.state = s /\ r.stack = p.stack /\ r.depth = p.depth /\ r.begin = p.begin
      /\ r.pos = p.pos /\ r.hidden = p.hidden /\ r.secret = p.secret /\ r.arg = p.arg /\ r.outcome = p.outcome
  BY DEF ParserOK, Lines
<1> HIDE DEF r
<1>2. ParserOK(r, n)
  BY <1>1, SameRanges
<1> QED BY <1>1, <1>2 DEF r

LEMMA OutcomeSet ==
  ASSUME NEW p, NEW n, ParserOK(p, n), NEW o \in {"undefined", "error", "accepted", "unbalanced"} \cup {"parsing"}
  PROVE  /\ ParserOK([p EXCEPT !.outcome = o], n) /\ [p EXCEPT !.outcome = o].outcome = o
         /\ [p EXCEPT !.outcome = o].state = p.state /\ [p EXCEPT !.outcome = o].stack = p.stack
         /\ [p EXCEPT !.outcome = o].pos = p.pos
<1> DEFINE r == [p EXCEPT !.outcome = o]
<1>1. /\ r \in Lines /\ r.state = p.state /\ r.stack = p.stack /\ r.depth = p.depth /\ r.begin = p.begin
      /\ r.pos = p.pos /\ r.hidden = p.hidden /\ r.secret = p.secret /\ r.arg = p.arg /\ r.outcome = o
  BY DEF ParserOK, Lines
<1> HIDE DEF r
<1>2. ParserOK(r, n)
  BY <1>1, SameRanges
<1> QED BY <1>1, <1>2 DEF r

LEMMA CharAdded ==
  ASSUME NEW p, ParserOK(p, p.pos), NEW ch \in Parser!Alphabet
  PROVE  /\ ParserOK(Parser!AddChar(p, ch), p.pos + 1)
         /\ Parser!AddChar(p, ch).pos = p.pos /\ Parser!AddChar(p, ch).stack = p.stack
         /\ Parser!AddChar(p, ch).state = p.state /\ Parser!AddChar(p, ch).outcome = p.outcome
<1> DEFINE r == Parser!AddChar(p, ch)
           typed == IF p.arg = "" THEN ch ELSE "x"
           kept == IF Parser!Sensitive(p) THEN p.secret \cup {p.pos} ELSE p.secret
<1>1. p \in Lines /\ p.pos \in Nat /\ p.secret \subseteq Nat /\ p.begin \in Nat
  BY DEF ParserOK, Lines
<1>2. typed \in Words /\ kept \subseteq Nat
  BY <1>1 DEF Words, Parser!Alphabet
<1>3. r = [p EXCEPT !.arg = typed, !.secret = kept]
  BY DEF Parser!AddChar
<1> HIDE DEF typed, kept, r
<1>4. /\ r \in Lines /\ r.state = p.state /\ r.stack = p.stack /\ r.depth = p.depth /\ r.begin = p.begin
      /\ r.pos = p.pos /\ r.hidden = p.hidden /\ r.secret = kept /\ r.arg = typed /\ r.outcome = p.outcome
  BY <1>1, <1>2, <1>3 DEF Lines
<1>5. \A x \in kept : x \in p.secret \/ (x = p.pos /\ p.depth # 0)
  BY <1>1, SensitiveIsDepth DEF kept, ParserOK
<1>6. RangesOK(r, p.pos + 1)
  <2>1. RangesOK(p, p.pos)
    BY DEF ParserOK
  <2>2. p.depth # 0 => 0 < p.begin /\ p.begin <= p.pos
    BY <2>1 DEF RangesOK
  <2>3. ASSUME NEW x \in kept
        PROVE  x \in p.hidden \/ (p.depth # 0 /\ p.begin <= x /\ x < p.pos + 1)
    <3>1. CASE x \in p.secret
      <4>1. x \in Nat
        BY <1>1, <3>1
      <4> QED BY <1>1, <2>1, <3>1, <4>1 DEF RangesOK
    <3>2. CASE x = p.pos /\ p.depth # 0
      BY <1>1, <2>2, <3>2
    <3> QED BY <1>5, <3>1, <3>2
  <2> QED BY <1>4, <2>2, <2>3 DEF RangesOK
<1>7. FramesOK(r.stack, r.depth) /\ (r.arg # "" => p.pos + 1 > 0)
  <2>1. p.pos + 1 > 0
    BY <1>1
  <2>2. FramesOK(p.stack, p.depth)
    BY DEF ParserOK
  <2> QED BY <1>4, <2>1, <2>2
<1> QED BY <1>4, <1>6, <1>7 DEF ParserOK, r

LEMMA WordFinished ==
  ASSUME NEW p, ParserOK(p, p.pos), NEW word \in Words, word = "S" => p.pos > 0
  PROVE  /\ ParserOK(Parser!AddToCurrentStack(p, word), p.pos)
         /\ Parser!AddToCurrentStack(p, word).pos = p.pos
         /\ Parser!AddToCurrentStack(p, word).state = p.state
         /\ p.stack # << >> => /\ Parser!AddToCurrentStack(p, word).stack # << >>
                               /\ Parser!AddToCurrentStack(p, word).outcome = p.outcome
<1>1. p \in Lines /\ p.pos \in Nat /\ p.begin \in Nat /\ p.depth \in Nat /\ p.stack \in Seq(Frame) /\ p.secret \subseteq Nat
  BY DEF ParserOK, Lines
<1>2. CASE p.stack = << >>
  BY <1>2, OutcomeSet DEF Parser!AddToCurrentStack
<1>3. CASE p.stack # << >>
  <2> DEFINE r == Parser!AddToCurrentStack(p, word)
             top == Parser!Last(p.stack)
             starts == top.words = 0 /\ p.depth = 0 /\ word = "S"
             f == [words |-> top.words + 1, sensitive |-> IF top.words = 0 THEN word = "S" ELSE top.sensitive]
             t == Append(Parser!Front(p.stack), f)
             d == IF starts THEN 1 ELSE p.depth
             b == IF starts THEN p.pos ELSE p.begin
  <2>1. r = [p EXCEPT !.stack = t, !.arg = "", !.depth = d, !.begin = b]
    BY <1>3 DEF Parser!AddToCurrentStack
  <2>2. top = p.stack[Len(p.stack)] /\ top \in Frame
    BY <1>1, <1>3, LastFrame
  <2>3. f \in Frame /\ ~Fresh(f)
    <3>1. top.words \in Nat /\ top.sensitive \in BOOLEAN
      BY <2>2 DEF Frame
    <3>2. (IF top.words = 0 THEN word = "S" ELSE top.sensitive) \in BOOLEAN
      BY <3>1, Zenon
    <3>3. top.words + 1 \in Nat /\ top.words + 1 # 0
      BY <3>1
    <3> HIDE DEF top
    <3> QED BY <3>2, <3>3 DEF Frame, Fresh
  <2>4. (~Fresh(top) => (Secretive(f) <=> Secretive(top))) /\ (Fresh(top) => (Secretive(f) <=> word = "S"))
    BY <2>2 DEF Frame, Fresh, Secretive
  <2>5. starts <=> Fresh(top) /\ p.depth = 0 /\ Secretive(f)
    BY <2>4 DEF Fresh
  <2>6. d \in Nat /\ b \in Nat
    BY <1>1
  <2> HIDE DEF f, top, starts, r, d, b
  <2>7. /\ t \in Seq(Frame) /\ t # << >> /\ FramesOK(t, d)
    BY <1>1, <1>3, <2>2, <2>3, <2>4, <2>5, <2>6, WordAdded DEF ParserOK, d
  <2> HIDE DEF t
  <2>8. /\ r \in Lines /\ r.state = p.state /\ r.stack = t /\ r.depth = d /\ r.begin = b
        /\ r.pos = p.pos /\ r.hidden = p.hidden /\ r.secret = p.secret /\ r.arg = "" /\ r.outcome = p.outcome
    BY <1>1, <2>1, <2>6, <2>7 DEF Lines, Words
  <2>9. starts => p.pos > 0
    BY DEF starts
  <2>10. RangesOK(r, p.pos)
    <3>1. RangesOK(p, p.pos)
      BY DEF ParserOK
    <3>2. CASE starts
      <4>1. d = 1 /\ b = p.pos /\ p.depth = 0
        BY <2>5, <3>2 DEF d, b
      <4>2. 0 < r.begin /\ r.begin <= r.pos
        <5>1. p.pos > 0
          BY <2>9, <3>2, Zenon
        <5>2. r.begin = p.pos /\ r.pos = p.pos
          BY <2>8, <4>1
        <5> QED BY <1>1, <5>1, <5>2
      <4>3. \A x \in p.secret : x \in p.hidden
        BY <3>1, <4>1 DEF RangesOK
      <4> QED BY <2>8, <4>2, <4>3 DEF RangesOK
    <3>3. CASE ~starts
      BY <2>8, <3>1, <3>3 DEF RangesOK, d, b
    <3> QED BY <3>2, <3>3
  <2> QED BY <2>7, <2>8, <2>10, <1>3 DEF ParserOK, r
<1> QED BY <1>2, <1>3

\* close_out_params: what the innermost frame hides is hidden when it closes.
LEMMA FrameClosed ==
  ASSUME NEW p, NEW n, ParserOK(p, n), n \in Nat, n <= p.pos, p.stack # << >>
  PROVE  /\ ParserOK(Parser!CloseOutParams(p), n)
         /\ Parser!CloseOutParams(p).pos = p.pos /\ Parser!CloseOutParams(p).state = p.state
         /\ Parser!CloseOutParams(p).outcome = p.outcome /\ Parser!CloseOutParams(p).arg = p.arg
<1> DEFINE r == Parser!CloseOutParams(p)
           t == Parser!Front(p.stack)
           d == IF p.depth > 0 THEN p.depth - 1 ELSE 0
           h == IF p.depth = 1 THEN p.hidden \cup p.begin..(p.pos - 1) ELSE p.hidden
           b == IF p.depth = 1 THEN 0 ELSE p.begin
<1>1. /\ p \in Lines /\ p.pos \in Nat /\ p.begin \in Nat /\ p.depth \in Nat /\ p.stack \in Seq(Frame)
      /\ p.hidden \subseteq Nat /\ \A x \in p.secret : x \in Nat
  BY DEF ParserOK, Lines
<1>2. r = [p EXCEPT !.stack = t, !.depth = d, !.hidden = h, !.begin = b]
  BY DEF Parser!CloseOutParams
<1>3. t \in Seq(Frame) /\ FramesOK(t, d)
  BY <1>1, FramePopped DEF ParserOK
<1>4. d \in Nat /\ b \in Nat /\ h \subseteq Nat
  BY <1>1
<1> HIDE DEF r, t, d, h, b
<1>5. /\ r \in Lines /\ r.state = p.state /\ r.stack = t /\ r.depth = d /\ r.begin = b
      /\ r.pos = p.pos /\ r.hidden = h /\ r.secret = p.secret /\ r.arg = p.arg /\ r.outcome = p.outcome
  BY <1>1, <1>2, <1>3, <1>4 DEF Lines
<1>6. RangesOK(p, n) /\ (p.arg # "" => n > 0)
  BY DEF ParserOK
<1>7. RangesOK(r, n)
  <2>1. CASE p.depth = 1
    <3>1. d = 0 /\ h = p.hidden \cup p.begin..(p.pos - 1)
      BY <2>1 DEF d, h
    <3>2. \A x \in p.secret : x \in h
      <4> SUFFICES ASSUME NEW x \in p.secret, x \notin p.hidden PROVE x \in h
        BY <3>1
      <4>1. p.begin <= x /\ x < n
        BY <1>6 DEF RangesOK
      <4>2. x \in p.begin..(p.pos - 1)
        BY <1>1, <4>1
      <4> QED BY <3>1, <4>2
    <3> QED BY <1>5, <3>1, <3>2 DEF RangesOK
  <2>2. CASE p.depth # 1
    <3>1. h = p.hidden /\ b = p.begin /\ (d = 0 <=> p.depth = 0)
      BY <1>1, <2>2 DEF d, h, b
    <3> QED BY <1>5, <1>6, <3>1 DEF RangesOK
  <2> QED BY <2>1, <2>2
<1> QED BY <1>3, <1>5, <1>6, <1>7 DEF ParserOK, r

\* A bracket opens a frame for the command it follows.
LEMMA CallNested ==
  ASSUME NEW p, NEW n, ParserOK(p, n)
  PROVE  LET opened == [p EXCEPT !.depth = IF p.depth > 0 THEN p.depth + 1 ELSE 0,
                                 !.stack = Append(p.stack, [words |-> 0, sensitive |-> FALSE])]
         IN /\ ParserOK(opened, n) /\ opened.pos = p.pos /\ opened.state = p.state /\ opened.stack # << >>
            /\ opened.outcome = p.outcome /\ opened.arg = p.arg
<1> DEFINE f == [words |-> 0, sensitive |-> FALSE]
           t == Append(p.stack, f)
           d == IF p.depth > 0 THEN p.depth + 1 ELSE 0
           r == [p EXCEPT !.depth = d, !.stack = t]
<1>1. p \in Lines /\ p.depth \in Nat /\ p.stack \in Seq(Frame)
  BY DEF ParserOK, Lines
<1>2. f \in Frame /\ f.words = 0 /\ f.sensitive = FALSE
  BY DEF Frame
<1>3. ~Secretive(f)
  BY <1>2, Zenon DEF Secretive
<1> HIDE DEF f
<1>4. t \in Seq(Frame) /\ t # << >> /\ FramesOK(t, d)
  BY <1>1, <1>2, <1>3, FramePushed DEF ParserOK
<1>5. d \in Nat /\ (d = 0 <=> p.depth = 0)
  BY <1>1
<1> HIDE DEF t, d
<1>6. /\ r \in Lines /\ r.state = p.state /\ r.stack = t /\ r.depth = d /\ r.begin = p.begin
      /\ r.pos = p.pos /\ r.hidden = p.hidden /\ r.secret = p.secret /\ r.arg = p.arg /\ r.outcome = p.outcome
  BY <1>1, <1>4, <1>5 DEF Lines
<1> HIDE DEF r
<1>7. RangesOK(r, n)
  BY <1>5, <1>6 DEF ParserOK, RangesOK
<1>8. ParserOK(r, n)
  BY <1>4, <1>6, <1>7 DEF ParserOK
<1> QED BY <1>4, <1>6, <1>8 DEF r, t, d, f

LEMMA ArgumentEnds ==
  ASSUME NEW p, ParserOK(p, p.pos)
  PROVE  p.arg \in Words /\ (p.arg = "S" => p.pos > 0)
<1>1. p.arg \in Words /\ (p.arg # "" => p.pos > 0)
  BY DEF ParserOK, Lines
<1> QED BY <1>1

LEMMA BracketRead ==
  ASSUME NEW p, NEW ch, ParserOK(p, p.pos), p.outcome = "parsing", p.state \notin {"executed", "query"}
  PROVE  /\ ParserOK(Parser!Bracket(p, ch), p.pos) /\ ExecutesFrame(Parser!Bracket(p, ch))
         /\ Parser!Bracket(p, ch).pos = p.pos
<1> DEFINE nests == p.state = "argument" /\ ch = "(" /\ p.stack # << >> /\ Parser!Last(p.stack).words > 0
           deeper == [p EXCEPT !.depth = IF p.depth > 0 THEN p.depth + 1 ELSE 0,
                               !.stack = Append(p.stack, [words |-> 0, sensitive |-> FALSE])]
           opened == IF nests THEN deeper ELSE p
           word == Parser!AddToCurrentStack(opened, p.arg)
           added == IF p.state = "argument" THEN [word EXCEPT !.state = "spacesInBrackets"] ELSE p
           fails == p.state = "spacesInArg" \/ (p.state = "argument" /\ p.stack = << >>)
           runs == ch # "(" /\ added.stack # << >>
           executed == [added EXCEPT !.state = "executed", !.arg = ""]
           r == Parser!Bracket(p, ch)
<1>1. r = IF fails THEN [p EXCEPT !.outcome = "error"] ELSE IF runs THEN executed ELSE added
  BY DEF Parser!Bracket
<1>2. ParserOK(deeper, p.pos) /\ deeper.pos = p.pos /\ deeper.state = p.state /\ deeper.outcome = p.outcome
  BY CallNested
<1> HIDE DEF deeper, nests
<1>3. ParserOK(opened, p.pos) /\ opened.pos = p.pos /\ opened.state = p.state /\ opened.outcome = p.outcome
  BY <1>2
<1> HIDE DEF opened
<1>4. p.arg \in Words /\ (p.arg = "S" => p.pos > 0)
  BY ArgumentEnds
<1>5. ParserOK(word, p.pos) /\ word.pos = p.pos
  BY <1>3, <1>4, WordFinished
<1> HIDE DEF word
<1>6. /\ ParserOK(added, p.pos) /\ added.pos = p.pos /\ added.state \notin {"executed", "query"}
  <2>1. CASE p.state = "argument"
    <3>1. "spacesInBrackets" \in ParserStates
      BY DEF ParserStates
    <3>2. added = [word EXCEPT !.state = "spacesInBrackets"]
      BY <2>1
    <3> HIDE DEF added
    <3>3. ParserOK(added, p.pos) /\ added.pos = word.pos /\ added.state = "spacesInBrackets"
      BY <1>5, <3>1, <3>2, StateSet
    <3> QED BY <1>5, <3>3
  <2>2. CASE p.state # "argument"
    BY <2>2
  <2> QED BY <2>1, <2>2
<1> HIDE DEF added
<1>7. CASE fails
  <2>1. /\ ParserOK([p EXCEPT !.outcome = "error"], p.pos) /\ [p EXCEPT !.outcome = "error"].state = p.state
        /\ [p EXCEPT !.outcome = "error"].pos = p.pos
    BY OutcomeSet
  <2> QED BY <1>1, <1>7, <2>1 DEF ExecutesFrame
<1>8. CASE ~fails /\ runs
  <2>1. added \in Lines
    BY <1>6 DEF ParserOK
  <2>2. /\ executed \in Lines /\ executed.stack = added.stack /\ executed.depth = added.depth /\ executed.begin = added.begin
        /\ executed.pos = added.pos /\ executed.hidden = added.hidden /\ executed.secret = added.secret
        /\ executed.arg = ""
    BY <2>1 DEF Lines, ParserStates, Words
  <2>3. r = executed
    BY <1>1, <1>8
  <2> HIDE DEF executed, r
  <2>4. ParserOK(r, p.pos)
    BY <1>6, <2>2, <2>3, SameRanges
  <2>5. ExecutesFrame(r)
    BY <1>8, <2>2, <2>3 DEF ExecutesFrame
  <2> QED BY <1>6, <2>2, <2>3, <2>4, <2>5 DEF r
<1>9. CASE ~fails /\ ~runs
  <2>1. r = added
    BY <1>1, <1>9
  <2> QED BY <1>6, <2>1 DEF ExecutesFrame
<1> QED BY <1>7, <1>8, <1>9

LEMMA SeparatorRead ==
  ASSUME NEW p, NEW ch, ParserOK(p, p.pos), p.outcome = "parsing", p.state \notin {"executed", "query"}
  PROVE  /\ ParserOK(Parser!Separator(p, ch), p.pos) /\ ExecutesFrame(Parser!Separator(p, ch))
         /\ Parser!Separator(p, ch).pos = p.pos
<1> DEFINE word == Parser!AddToCurrentStack(p, p.arg)
           added == IF p.state = "argument" THEN word ELSE p
           fails == p.state = "spacesInArg" /\ p.arg = "" /\ ch = ","
           s == IF p.state \in {"spacesInBrackets", "argument"} /\ ch = "," THEN "spacesInArg" ELSE "spaces"
           r == Parser!Separator(p, ch)
<1>1. r = IF fails THEN [p EXCEPT !.outcome = "error"] ELSE [added EXCEPT !.state = s]
  BY DEF Parser!Separator
<1>2. p.arg \in Words /\ (p.arg = "S" => p.pos > 0)
  BY ArgumentEnds
<1>3. ParserOK(word, p.pos) /\ word.pos = p.pos
  BY <1>2, WordFinished
<1> HIDE DEF word
<1>4. ParserOK(added, p.pos) /\ added.pos = p.pos
  BY <1>3
<1> HIDE DEF added
<1>5. s \in ParserStates /\ s \notin {"executed", "query"}
  BY DEF ParserStates
<1> HIDE DEF s
<1>6. CASE fails
  <2>1. /\ ParserOK([p EXCEPT !.outcome = "error"], p.pos) /\ [p EXCEPT !.outcome = "error"].state = p.state
        /\ [p EXCEPT !.outcome = "error"].pos = p.pos
    BY OutcomeSet
  <2> QED BY <1>1, <1>6, <2>1 DEF ExecutesFrame
<1>7. CASE ~fails
  <2>1. ParserOK([added EXCEPT !.state = s], p.pos) /\ [added EXCEPT !.state = s].state = s /\ [added EXCEPT !.state = s].pos = p.pos
    BY <1>4, <1>5, StateSet
  <2> QED BY <1>1, <1>5, <1>7, <2>1 DEF ExecutesFrame
<1> QED BY <1>6, <1>7

LEMMA OuterRead ==
  ASSUME NEW p, NEW ch \in Parser!Alphabet, ParserOK(p, p.pos), p.outcome = "parsing",
         p.state \notin {"executed", "query"}
  PROVE  /\ ParserOK(Parser!Outer(p, ch), p.pos + 1) /\ ExecutesFrame(Parser!Outer(p, ch))
         /\ Parser!Outer(p, ch).pos = p.pos
<1> DEFINE r == Parser!Outer(p, ch)
           States == {"singleQuoted", "doubleQuoted", "escapeOuter", "argument"}
<1>1. States \subseteq ParserStates /\ "executed" \notin States /\ "query" \notin States
  BY DEF ParserStates
<1>2. ASSUME NEW s \in States, r = [p EXCEPT !.state = s]
      PROVE  ParserOK(r, p.pos + 1) /\ ExecutesFrame(r) /\ r.pos = p.pos
  <2> HIDE DEF r, States
  <2>1. ParserOK(r, p.pos) /\ r.state = s /\ r.pos = p.pos
    BY <1>1, <1>2, StateSet
  <2> QED BY <1>1, <2>1, CharacterRead DEF ExecutesFrame
<1>3. CASE ch \in {"(", ")", "nl"}
  <2>1. r = Parser!Bracket(p, ch)
    BY <1>3 DEF Parser!Outer
  <2> HIDE DEF r
  <2>2. ParserOK(r, p.pos) /\ ExecutesFrame(r) /\ r.pos = p.pos
    BY <2>1, BracketRead
  <2>3. ParserOK(r, p.pos + 1)
    BY <2>2, CharacterRead
  <2> QED BY <2>2, <2>3 DEF r
<1>4. CASE ch \in {" ", ","}
  <2>1. r = Parser!Separator(p, ch)
    BY <1>4 DEF Parser!Outer
  <2> HIDE DEF r
  <2>2. ParserOK(r, p.pos) /\ ExecutesFrame(r) /\ r.pos = p.pos
    BY <2>1, SeparatorRead
  <2>3. ParserOK(r, p.pos + 1)
    BY <2>2, CharacterRead
  <2> QED BY <2>2, <2>3 DEF r
<1>5. CASE ch \in {"'", "quote", "backslash"}
  <2>1. \E s \in States : r = [p EXCEPT !.state = s]
    BY <1>5 DEF Parser!Outer
  <2> QED BY <1>2, <2>1
<1>6. CASE ch \notin {"(", ")", "nl", " ", ",", "'", "quote", "backslash"}
  <2> DEFINE typed == Parser!AddChar(p, ch)
  <2>1. r = [typed EXCEPT !.state = "argument"]
    BY <1>6 DEF Parser!Outer
  <2>2. ParserOK(typed, p.pos + 1) /\ typed.pos = p.pos
    BY CharAdded
  <2> HIDE DEF typed, r
  <2>3. ParserOK(r, p.pos + 1) /\ r.state = "argument" /\ r.pos = p.pos
    BY <1>1, <2>1, <2>2, StateSet
  <2> QED BY <2>3 DEF ExecutesFrame, r
<1> QED BY <1>3, <1>4, <1>5, <1>6 DEF r

\* The frame of an executed command is closed before the character is read anew.
LEMMA ExecutedRead ==
  ASSUME NEW p, NEW ch \in Parser!Alphabet, ParserOK(p, p.pos), ExecutesFrame(p), p.outcome = "parsing",
         p.state \in {"executed", "query"}
  PROVE  /\ ParserOK(Parser!Executed(p, ch), p.pos + 1) /\ ExecutesFrame(Parser!Executed(p, ch))
         /\ Parser!Executed(p, ch).pos = p.pos
<1> DEFINE r == Parser!Executed(p, ch)
           closed == Parser!CloseOutParams(p)
           resumed == IF closed.stack = << >> THEN closed ELSE Parser!AddToCurrentStack(closed, "x")
           q == [resumed EXCEPT !.state = "spaces"]
<1>1. p.stack # << >> /\ p.pos \in Nat /\ {"spaces", "query", "executed"} \subseteq ParserStates /\ "x" \in Words
  BY DEF ExecutesFrame, ParserOK, Lines, ParserStates, Words, Parser!Alphabet
<1>2. ASSUME NEW s \in {"query", "executed"}, r = [p EXCEPT !.state = s]
      PROVE  ParserOK(r, p.pos + 1) /\ ExecutesFrame(r) /\ r.pos = p.pos
  <2> HIDE DEF r
  <2>1. ParserOK(r, p.pos) /\ r.stack = p.stack /\ r.pos = p.pos
    BY <1>1, <1>2, StateSet
  <2> QED BY <1>1, <2>1, CharacterRead DEF ExecutesFrame
<1>3. CASE ch = "["
  BY <1>2, <1>3 DEF Parser!Executed
<1>4. CASE ch # "[" /\ p.state = "query"
  <2>1. CASE ch = "]"
    BY <1>2, <1>4, <2>1 DEF Parser!Executed
  <2>2. CASE ch # "]"
    <3>1. r = p
      BY <1>4, <2>2 DEF Parser!Executed
    <3> QED BY <3>1, CharacterRead
  <2> QED BY <2>1, <2>2
<1>5. CASE ch # "[" /\ p.state # "query"
  <2>1. r = Parser!Outer(q, ch)
    BY <1>5 DEF Parser!Executed
  <2>2. ParserOK(closed, p.pos) /\ closed.pos = p.pos /\ closed.outcome = "parsing"
    <3>1. p.pos <= p.pos
      BY <1>1
    <3> QED BY <1>1, <3>1, FrameClosed
  <2> HIDE DEF closed
  <2>3. ParserOK(resumed, p.pos) /\ resumed.pos = p.pos /\ resumed.outcome = "parsing"
    BY <1>1, <2>2, WordFinished
  <2> HIDE DEF resumed
  <2>4. ParserOK(q, p.pos) /\ q.pos = p.pos /\ q.outcome = "parsing" /\ q.state = "spaces"
    BY <1>1, <2>3, StateSet
  <2> HIDE DEF q
  <2> QED BY <2>1, <2>4, OuterRead DEF r
<1> QED BY <1>3, <1>4, <1>5

LEMMA QuotedRead ==
  ASSUME NEW p, NEW ch \in Parser!Alphabet, ParserOK(p, p.pos), p.outcome = "parsing",
         p.state \notin {"executed", "query"}
  PROVE  /\ ParserOK(Parser!Quoted(p, ch), p.pos + 1) /\ ExecutesFrame(Parser!Quoted(p, ch))
         /\ Parser!Quoted(p, ch).pos = p.pos
<1> DEFINE r == Parser!Quoted(p, ch)
           typed == Parser!AddChar(p, ch)
           States == {"argument", "doubleQuoted", "escapeDoubleQuoted"}
<1>1. States \subseteq ParserStates /\ "executed" \notin States /\ "query" \notin States
  BY DEF ParserStates
<1>2. \/ \E s \in States : r = [p EXCEPT !.state = s]
      \/ \E s \in States : r = [typed EXCEPT !.state = s]
      \/ r = typed
  BY DEF Parser!Quoted
<1>3. ParserOK(typed, p.pos + 1) /\ typed.pos = p.pos /\ typed.state = p.state
  BY CharAdded
<1> HIDE DEF r, typed, States
<1>4. ASSUME NEW s \in States, r = [p EXCEPT !.state = s]
      PROVE  ParserOK(r, p.pos + 1) /\ ExecutesFrame(r) /\ r.pos = p.pos
  <2>1. ParserOK(r, p.pos) /\ r.state = s /\ r.pos = p.pos
    BY <1>1, <1>4, StateSet
  <2> QED BY <1>1, <2>1, CharacterRead DEF ExecutesFrame
<1>5. ASSUME NEW s \in States, r = [typed EXCEPT !.state = s]
      PROVE  ParserOK(r, p.pos + 1) /\ ExecutesFrame(r) /\ r.pos = p.pos
  <2>1. ParserOK(r, p.pos + 1) /\ r.state = s /\ r.pos = p.pos
    BY <1>1, <1>3, <1>5, StateSet
  <2> QED BY <1>1, <2>1 DEF ExecutesFrame
<1>6. ASSUME r = typed
      PROVE  ParserOK(r, p.pos + 1) /\ ExecutesFrame(r) /\ r.pos = p.pos
  BY <1>3, <1>6 DEF ExecutesFrame
<1> QED BY <1>2, <1>4, <1>5, <1>6 DEF r

LEMMA CharacterParsed ==
  ASSUME NEW p, NEW ch \in Parser!Alphabet, ParserOK(p, p.pos), ExecutesFrame(p), p.outcome = "parsing"
  PROVE  /\ ParserOK(Parser!Parse(p, ch), p.pos + 1) /\ ExecutesFrame(Parser!Parse(p, ch))
         /\ Parser!Parse(p, ch).pos = p.pos + 1
<1> DEFINE r == Parser!Parse(p, ch)
           next == CASE p.state \in {"executed", "query"} -> Parser!Executed(p, ch)
                     [] p.state \in {"spaces", "spacesInArg", "spacesInBrackets", "argument"} -> Parser!Outer(p, ch)
                     [] OTHER -> Parser!Quoted(p, ch)
           blank == ch \in Parser!Blank
<1>1. r = [next EXCEPT !.pos = p.pos + 1, !.blank = blank]
  BY DEF Parser!Parse
<1>2. /\ ParserOK(next, p.pos + 1) /\ ExecutesFrame(next) /\ next.pos = p.pos
  <2>1. CASE p.state \in {"executed", "query"}
    <3>1. next = Parser!Executed(p, ch)
      BY <2>1
    <3> QED BY <2>1, <3>1, ExecutedRead
  <2>2. CASE p.state \in {"spaces", "spacesInArg", "spacesInBrackets", "argument"}
    <3>1. next = Parser!Outer(p, ch) /\ p.state \notin {"executed", "query"}
      BY <2>2
    <3> QED BY <3>1, OuterRead
  <2>3. CASE p.state \notin {"executed", "query", "spaces", "spacesInArg", "spacesInBrackets", "argument"}
    <3>1. next = Parser!Quoted(p, ch) /\ p.state \notin {"executed", "query"}
      BY <2>3
    <3> QED BY <3>1, QuotedRead
  <2> QED BY <2>1, <2>2, <2>3
<1> HIDE DEF next
<1>3. next \in Lines /\ p.pos \in Nat /\ next.begin \in Nat
  BY <1>2 DEF ParserOK, Lines
<1>4. blank \in BOOLEAN
  OBVIOUS
<1> DEFINE moved == [next EXCEPT !.pos = p.pos + 1]
<1> HIDE DEF blank, r
<1>5. /\ r \in Lines /\ r.state = next.state /\ r.stack = next.stack /\ r.depth = next.depth /\ r.begin = next.begin
      /\ r.pos = p.pos + 1 /\ r.hidden = next.hidden /\ r.secret = next.secret /\ r.arg = next.arg
      /\ r.outcome = next.outcome
  <2>1. moved \in Lines /\ moved.pos = p.pos + 1
    BY <1>3 DEF Lines
  <2>2. /\ moved.state = next.state /\ moved.stack = next.stack /\ moved.depth = next.depth
        /\ moved.begin = next.begin /\ moved.hidden = next.hidden /\ moved.secret = next.secret
        /\ moved.arg = next.arg /\ moved.outcome = next.outcome
    BY <1>3 DEF Lines
  <2>3. r = [moved EXCEPT !.blank = blank]
    BY <1>1, <1>3 DEF Lines
  <2> HIDE DEF moved
  <2>4. r \in Lines /\ r.pos = moved.pos
    BY <1>4, <2>1, <2>3 DEF Lines
  <2>5. /\ r.state = moved.state /\ r.stack = moved.stack /\ r.depth = moved.depth
        /\ r.begin = moved.begin /\ r.hidden = moved.hidden /\ r.secret = moved.secret
        /\ r.arg = moved.arg /\ r.outcome = moved.outcome
    BY <2>1, <2>3 DEF Lines
  <2> QED BY <2>1, <2>2, <2>4, <2>5
<1>6. RangesOK(next, p.pos + 1) /\ (next.depth # 0 => next.begin <= p.pos)
  BY <1>2 DEF ParserOK, RangesOK
<1>7. next.begin <= p.pos => next.begin <= p.pos + 1
  BY <1>3
<1>8. RangesOK(r, p.pos + 1)
  BY <1>5, <1>6, <1>7 DEF RangesOK
<1>9. ParserOK(r, p.pos + 1)
  BY <1>2, <1>5, <1>8 DEF ParserOK
<1>10. ExecutesFrame(r)
  BY <1>2, <1>5 DEF ExecutesFrame
<1> QED BY <1>5, <1>9, <1>10 DEF r

LEMMA ParserInitInv == Parser!Init => ParserInv
<1> SUFFICES ASSUME Parser!Init PROVE ParserInv
  OBVIOUS
<1> DEFINE f == [words |-> 0, sensitive |-> FALSE]
           s == <<f>>
<1>1. f \in Frame /\ f.sensitive = FALSE
  BY DEF Frame
<1>2. ~Secretive(f)
  BY <1>1, Zenon DEF Secretive
<1>3. line = [state |-> "spaces", stack |-> s, arg |-> "", depth |-> 0, begin |-> 0,
              pos |-> 0, blank |-> TRUE, hidden |-> {}, secret |-> {}, outcome |-> "parsing"]
  BY DEF Parser!Init
<1> HIDE DEF f
<1>4. s \in Seq(Frame) /\ Len(s) = 1 /\ s[1] = f
  BY <1>1
<1>5. FramesOK(s, 0)
  BY <1>2, <1>4 DEF FramesOK
<1> HIDE DEF s
<1>6. /\ line \in Lines /\ line.stack = s /\ line.depth = 0 /\ line.secret = {} /\ line.arg = ""
      /\ line.state = "spaces"
  <2> HIDE DEF line
  <2> QED BY <1>3, <1>4 DEF Lines, ParserStates, Words
<1> HIDE DEF line
<1>7. RangesOK(line, line.pos)
  BY <1>6 DEF RangesOK
<1> QED BY <1>5, <1>6, <1>7 DEF ParserInv, ParserOK, ExecutesFrame

LEMMA TypeCharacterInv ==
  ASSUME ParserInv, NEW ch \in Parser!Alphabet, Parser!TypeCharacter(ch)
  PROVE  ParserInv'
<1>1. line.outcome = "parsing" /\ line' = Parser!Parse(line, ch) /\ line.pos \in Nat
  BY DEF Parser!TypeCharacter, ParserInv, ParserOK, Lines
<1> HIDE DEF line
<1>2. ParserOK(line', line'.pos) /\ ExecutesFrame(line')
  BY <1>1, CharacterParsed DEF ParserInv
<1> QED BY <1>2 DEF ParserInv, ParserOK, ExecutesFrame, RangesOK

\* The terminator is parsed, and the command it executes is closed.
LEMMA EndOfLineInv ==
  ASSUME ParserInv, Parser!EndOfLine
  PROVE  ParserInv'
<1> DEFINE ended == Parser!Parse(line, "nl")
           closed == IF ended.state = "executed" THEN Parser!CloseOutParams(ended) ELSE ended
           end == IF ended.outcome # "parsing" THEN ended.outcome
                  ELSE IF ended.state \in {"executed", "argument", "spaces"} THEN "accepted" ELSE "unbalanced"
<1>1. line.outcome = "parsing" /\ line' = [closed EXCEPT !.outcome = end] /\ line.pos \in Nat
  BY DEF Parser!EndOfLine, ParserInv, ParserOK, Lines
<1> HIDE DEF line
<1>2. "nl" \in Parser!Alphabet
  BY DEF Parser!Alphabet, Parser!Blank
<1>3. ParserOK(ended, ended.pos) /\ ExecutesFrame(ended)
  BY <1>1, <1>2, CharacterParsed DEF ParserInv
<1>4. ended.pos \in Nat /\ ended.outcome \in {"parsing", "undefined", "error", "accepted", "unbalanced"}
  BY <1>3 DEF ParserOK, Lines
<1> HIDE DEF ended
<1>5. /\ end \in {"undefined", "error", "accepted", "unbalanced"} /\ end # "parsing"
  BY <1>4
<1>6. ParserOK(closed, closed.pos)
  <2>1. CASE ended.state = "executed"
    <3>1. ended.stack # << >> /\ ended.pos <= ended.pos
      BY <1>3, <1>4, <2>1 DEF ExecutesFrame
    <3>2. ParserOK(Parser!CloseOutParams(ended), ended.pos) /\ Parser!CloseOutParams(ended).pos = ended.pos
      BY <1>3, <1>4, <3>1, FrameClosed
    <3> QED BY <2>1, <3>2
  <2>2. CASE ended.state # "executed"
    BY <1>3, <2>2
  <2> QED BY <2>1, <2>2
<1> HIDE DEF closed, end
<1>7. ParserOK(line', line'.pos) /\ line'.outcome # "parsing"
  BY <1>1, <1>5, <1>6, OutcomeSet
<1> QED BY <1>7 DEF ParserInv, ParserOK, ExecutesFrame, RangesOK

LEMMA ParserStepInv ==
  ASSUME part = "parser" => ParserInv, [Next]_vars, part' = "parser"
  PROVE  ParserInv'
<1>1. part = "parser" /\ (Parser!ParserNext \/ UNCHANGED line)
  BY DEF Next, vars, SyncStep, MempoolStep, LogStep, ParserStep, ConsoleStep, SettingsStep, ClockStep,
    TrafficStep, PeersStep, DialStep, SegmentsStep
<1>2. ASSUME UNCHANGED line
      PROVE  ParserInv'
  <2> HIDE DEF line
  <2> QED BY <1>1, <1>2 DEF ParserInv, ParserOK, ExecutesFrame, RangesOK
<1> QED BY <1>1, <1>2, TypeCharacterInv, EndOfLineInv DEF Parser!ParserNext

\* Whatever is typed (RPCParseCommandLine): of an accepted line whose brackets
\* are closed every argument character of a sensitive command is in a filtered
\* range, however the calls are nested, quoted or queried, and a range is open
\* exactly while a sensitive frame is.
THEOREM SecretsStayHidden == Spec => []SecretsAreHidden
<1> DEFINE Inv == part = "parser" => ParserInv
<1>1. Init => Inv
  BY ParserInitInv DEF Init
<1>2. Inv /\ [Next]_vars => Inv'
  BY ParserStepInv
<1>3. Inv => SecretsAreHidden
  <2> SUFFICES ASSUME ParserInv PROVE Parser!SecretsAreHidden
    BY DEF SecretsAreHidden
  <2>1. line \in Lines /\ FramesOK(line.stack, line.depth) /\ RangesOK(line, line.pos)
    BY DEF ParserInv, ParserOK
  <2>2. line.depth \in Nat
    BY <2>1 DEF Lines
  <2>3. line.depth > 0 => line.begin > 0 /\ Parser!Sensitive(line)
    <3>1. line.depth # 0 => Parser!Sensitive(line)
      BY <2>1, SensitiveIsDepth
    <3>2. line.depth # 0 => 0 < line.begin
      BY <2>1 DEF RangesOK
    <3> QED BY <2>2, <3>1, <3>2
  <2>4. line.stack = << >> => line.secret \subseteq line.hidden
    <3>1. line.stack = << >> => line.depth = 0
      BY <2>1, <2>2 DEF FramesOK
    <3> QED BY <2>1, <3>1 DEF RangesOK
  <2> QED BY <2>3, <2>4 DEF Parser!SecretsAreHidden
<1> QED BY <1>1, <1>2, <1>3, PTL DEF Spec

HIDE DEF line

(***************************************************************************)
(* RpcConsole: requests, answers and the history                           *)
(***************************************************************************)
text == v1
output == v2
history == v3
browse == v4
console == v5
rpcWorker == v6
USE DEF text, output, history, browse, console, rpcWorker

Word == Commands \cup {"", "bad", "stop"}
Row == [kind : {"wallet", "request", "reply", "error"}, n : Nat]
Answer == [kind : {"reply", "error"}, n : Nat]

ConsoleType ==
  /\ text \in [shown : Word, draft : Word]
  /\ output \in Seq(Row)
  /\ history \in Seq(Word)
  /\ browse \in [idx : Int, saved : Word]
  /\ console \in [executing : BOOLEAN, stopping : BOOLEAN, wallet : {console.wallet}, submits : Nat, nodeStops : BOOLEAN]
  /\ rpcWorker \in [thread : {"running", "finished"}, queue : Seq(Nat), results : Seq(Answer)]

\* At most one command is queued, executed or answered and not shown yet; it is
\* the last one submitted.
BusyInv ==
  /\ Len(rpcWorker.queue) + Len(rpcWorker.results) <= 1
  /\ ~console.executing => rpcWorker.queue = << >> /\ rpcWorker.results = << >>
  /\ console.executing /\ ~console.stopping => rpcWorker.queue # << >> \/ rpcWorker.results # << >>
  /\ rpcWorker.queue # << >> => Head(rpcWorker.queue) = console.submits
  /\ rpcWorker.results # << >> => Head(rpcWorker.results).n = console.submits

\* Rows of commands are in order, and a command that is not answered has none
\* but its wallet and its request.
Counts(row) == row.kind \in {"request", "reply", "error"} /\ row.n > 0
Precedes(first, second) ==
  first.n < second.n \/ (first.n = second.n /\ first.kind = "request" /\ second.kind # "request")
Ordered(rows) == \A i, j \in 1..Len(rows) : i < j /\ Counts(rows[i]) /\ Counts(rows[j]) => Precedes(rows[i], rows[j])
Fits(row, submits, busy) == row.n <= submits /\ (busy /\ row.n = submits => row.kind \in {"wallet", "request"})

Busy == rpcWorker.queue # << >> \/ rpcWorker.results # << >>
RowsInv ==
  /\ Ordered(output)
  /\ \A i \in 1..Len(output) : Fits(output[i], console.submits, Busy)
  /\ Busy => console.submits > 0

\* While the history is browsed, what was typed is kept to come back to.
BrowseInv ==
  /\ browse.idx = -1 => text.shown = text.draft
  /\ browse.idx # -1 => /\ browse.idx \in 0..Len(history) - 1
                        /\ text.shown = history[Len(history) - browse.idx]
                        /\ browse.saved = text.draft

ConsoleInv == ConsoleType /\ BusyInv /\ RowsInv /\ BrowseInv

\* appendRow drops rows at the top only.
LEMMA AppendRowsOK ==
  ASSUME output \in Seq(Row), NEW rows \in Seq(Row), Console!AppendRows(rows)
  PROVE  /\ output' \in Seq(Row)
         /\ \E d \in Nat : \A i \in 1..Len(output') : i + d \in 1..Len(output \o rows) /\ output'[i] = (output \o rows)[i + d]
<1> DEFINE all == output \o rows
           k == IF Len(all) > MaxRows THEN MaxRows ELSE Len(all)
<1>1. all \in Seq(Row) /\ Len(all) \in Nat
  BY ConcatProperties
<1>2. output' = SubSeq(all, Len(all) - k + 1, Len(all))
  BY DEF Console!AppendRows
<1> HIDE DEF all
<1>3. k \in 0..Len(all)
  BY <1>1, RowsAssumption
<1> HIDE DEF k
<1>4. Len(all) - k \in Nat /\ Len(all) - k + 1 \in 1..Len(all) + 1
  BY <1>1, <1>3
<1>5. /\ output' \in Seq(Row)
      /\ Len(output') = k
      /\ \A i \in 1..k : output'[i] = all[Len(all) - k + i]
  <2> DEFINE m == Len(all) - k + 1
  <2>1. m \in Int /\ Len(all) \in Int /\ \A i \in m..Len(all) : all[i] \in Row
    BY <1>1, <1>4
  <2>2. /\ output' \in Seq(Row)
        /\ Len(output') = IF m <= Len(all) THEN Len(all) - m + 1 ELSE 0
        /\ \A i \in 1..Len(all) - m + 1 : output'[i] = all[m + i - 1]
    BY <1>2, <2>1, SubSeqProperties
  <2>3. Len(all) - m + 1 = k /\ k \in Int
    BY <1>1, <1>3
  <2>4. \A i \in 1..k : m + i - 1 = Len(all) - k + i
    BY <1>1, <1>3
  <2> QED BY <1>1, <1>3, <2>2, <2>3, <2>4
<1>6. \A i \in 1..Len(output') : i + (Len(all) - k) \in 1..Len(all) /\ output'[i] = all[i + (Len(all) - k)]
  BY <1>1, <1>3, <1>5
<1> QED BY <1>4, <1>5, <1>6 DEF all

\* New rows that follow the old ones and one another keep the order.
LEMMA OrderKept ==
  ASSUME output \in Seq(Row), Ordered(output), NEW rows \in Seq(Row), Ordered(rows), Console!AppendRows(rows),
         \A i \in 1..Len(output), j \in 1..Len(rows) :
           Counts(output[i]) /\ Counts(rows[j]) => Precedes(output[i], rows[j])
  PROVE  Ordered(output')
<1> DEFINE all == output \o rows
<1>1. /\ Len(output) \in Nat /\ Len(rows) \in Nat /\ Len(all) = Len(output) + Len(rows)
      /\ \A i \in 1..Len(output) : all[i] = output[i]
      /\ \A i \in 1..Len(all) : i > Len(output) => all[i] = rows[i - Len(output)] /\ i - Len(output) \in 1..Len(rows)
  BY ConcatProperties
<1>2. PICK d \in Nat : \A i \in 1..Len(output') : i + d \in 1..Len(all) /\ output'[i] = all[i + d]
  BY AppendRowsOK
<1>3. Len(output') \in Nat
  BY AppendRowsOK
<1> HIDE DEF all
<1>4. ASSUME NEW i \in 1..Len(all), NEW j \in 1..Len(all), i < j, Counts(all[i]), Counts(all[j])
      PROVE  Precedes(all[i], all[j])
  <2>1. CASE j <= Len(output)
    BY <1>1, <1>4, <2>1 DEF Ordered
  <2>2. CASE i <= Len(output) /\ j > Len(output)
    BY <1>1, <1>4, <2>2
  <2>3. CASE i > Len(output)
    <3>1. i - Len(output) < j - Len(output) /\ j > Len(output)
      BY <1>1, <1>4, <2>3
    <3> QED BY <1>1, <1>4, <2>3, <3>1 DEF Ordered
  <2> QED BY <1>1, <2>1, <2>2, <2>3
<1>5. ASSUME NEW i \in 1..Len(output'), NEW j \in 1..Len(output'), i < j
      PROVE  i + d < j + d
  BY <1>3, <1>5
<1> QED BY <1>2, <1>4, <1>5 DEF Ordered

LEMMA FitKept ==
  ASSUME output \in Seq(Row), NEW rows \in Seq(Row), Console!AppendRows(rows), NEW submits, NEW busy,
         \A i \in 1..Len(output) : Fits(output[i], submits, busy),
         \A i \in 1..Len(rows) : Fits(rows[i], submits, busy)
  PROVE  \A i \in 1..Len(output') : Fits(output'[i], submits, busy)
<1> DEFINE all == output \o rows
<1>1. /\ Len(output) \in Nat /\ Len(rows) \in Nat /\ Len(all) = Len(output) + Len(rows)
      /\ \A i \in 1..Len(output) : all[i] = output[i]
      /\ \A i \in 1..Len(all) : i > Len(output) => all[i] = rows[i - Len(output)] /\ i - Len(output) \in 1..Len(rows)
  BY ConcatProperties
<1>2. PICK d \in Nat : \A i \in 1..Len(output') : i + d \in 1..Len(all) /\ output'[i] = all[i + d]
  BY AppendRowsOK
<1> HIDE DEF all
<1>3. ASSUME NEW i \in 1..Len(all) PROVE Fits(all[i], submits, busy)
  BY <1>1
<1> QED BY <1>2, <1>3

LEMMA ConsoleInitInv == Console!Init => ConsoleInv
<1> SUFFICES ASSUME Console!Init PROVE ConsoleInv
  OBVIOUS
<1>1. /\ text = [shown |-> "", draft |-> ""] /\ output = << >> /\ history = << >>
      /\ browse = [idx |-> -1, saved |-> ""]
      /\ console = [executing |-> FALSE, stopping |-> FALSE, wallet |-> "none", submits |-> 0, nodeStops |-> FALSE]
      /\ rpcWorker = [thread |-> "running", queue |-> << >>, results |-> << >>]
  BY DEF Console!Init
<1>2. << >> \in Seq(Row) /\ << >> \in Seq(Word) /\ << >> \in Seq(Nat) /\ << >> \in Seq(Answer) /\ Len(<< >>) = 0
  OBVIOUS
<1>3. rpcWorker.queue = << >> /\ rpcWorker.results = << >> /\ console.executing = FALSE /\ console.submits = 0
  BY <1>1
<1>4. ConsoleType
  <2>1. text \in [shown : Word, draft : Word] /\ browse \in [idx : Int, saved : Word]
    <3>1. "" \in Word /\ -1 \in Int
      BY DEF Word
    <3> HIDE DEF text, browse
    <3> QED BY <1>1, <3>1
  <2>2. console \in [executing : BOOLEAN, stopping : BOOLEAN, wallet : {console.wallet}, submits : Nat, nodeStops : BOOLEAN]
    BY <1>1
  <2>3. rpcWorker \in [thread : {"running", "finished"}, queue : Seq(Nat), results : Seq(Answer)]
    BY <1>1, <1>2
  <2> QED BY <1>1, <1>2, <2>1, <2>2, <2>3 DEF ConsoleType
<1>5. BusyInv
  BY <1>2, <1>3 DEF BusyInv
<1>6. RowsInv
  <2>1. ~Busy
    BY <1>3 DEF Busy
  <2>2. Len(output) = 0
    BY <1>1, <1>2
  <2>3. \A i \in 1..Len(output) : FALSE
    BY <2>2
  <2> QED BY <2>1, <2>3 DEF RowsInv, Ordered
<1>7. BrowseInv
  BY <1>1 DEF BrowseInv
<1> QED BY <1>4, <1>5, <1>6, <1>7 DEF ConsoleInv

\* submitCommand, once the command was accepted.
LEMMA SubmitCommandInv ==
  ASSUME ConsoleInv, NEW wallet, Console!SubmitCommand(wallet)
  PROVE  ConsoleInv'
<1> USE DEF ConsoleInv
<1> DEFINE n == console.submits + 1
           repeated == history # << >> /\ history[Len(history)] = text.shown
           longer == IF repeated THEN history ELSE Append(history, text.shown)
           w == [kind |-> "wallet", n |-> n]
           r == [kind |-> "request", n |-> n]
           rows == (IF console.wallet # wallet THEN <<w>> ELSE << >>) \o <<r>>
<1>1. /\ text.shown \in Commands /\ Console!MayExecute
      /\ history' = IF Len(longer) > HistoryMax THEN Tail(longer) ELSE longer
      /\ Console!AppendRows(rows)
      /\ console' = [console EXCEPT !.executing = TRUE, !.wallet = wallet, !.submits = n]
      /\ rpcWorker' = [rpcWorker EXCEPT !.queue = Append(@, n)]
      /\ text' = [shown |-> "", draft |-> ""] /\ browse' = [idx |-> -1, saved |-> ""]
      /\ ~console.stopping
  BY DEF Console!SubmitCommand, Console!ClearField, Console!NavigationReset
<1>2. n \in Nat /\ n > 0 /\ console.submits \in Nat /\ n > console.submits
  BY DEF ConsoleType
<1>3. longer \in Seq(Word) /\ longer # << >>
  <2>1. history \in Seq(Word) /\ text.shown \in Word
    BY DEF ConsoleType
  <2>2. Append(history, text.shown) \in Seq(Word) /\ Append(history, text.shown) # << >>
    BY <2>1, AppendProperties, Zenon
  <2> QED BY <2>1, <2>2
<1> HIDE DEF longer
<1>4. history' \in Seq(Word)
  BY <1>1, <1>3, HeadTailProperties
<1>5. /\ rows \in Seq(Row)
      /\ \A i \in 1..Len(rows) : rows[i].n = n /\ rows[i].kind \in {"wallet", "request"}
      /\ \A i, j \in 1..Len(rows) : i < j => rows[i].kind = "wallet"
  <2>1. w \in Row /\ r \in Row /\ w.n = n /\ r.n = n /\ w.kind = "wallet" /\ r.kind = "request"
    BY <1>2 DEF Row
  <2> HIDE DEF w, r
  <2>2. CASE console.wallet # wallet
    <3>1. rows = <<w>> \o <<r>> /\ <<w>> \in Seq(Row) /\ <<r>> \in Seq(Row)
      BY <2>1, <2>2
    <3>2. Len(<<w>>) = 1 /\ Len(<<r>>) = 1 /\ <<w>>[1] = w /\ <<r>>[1] = r
      OBVIOUS
    <3> HIDE DEF rows
    <3>3. /\ rows \in Seq(Row) /\ Len(rows) = 2
          /\ \A i \in 1..2 : rows[i] = IF i <= 1 THEN w ELSE <<r>>[i - 1]
      BY <3>1, <3>2, ConcatProperties
    <3>4. rows[1] = w /\ rows[2] = r
      BY <3>2, <3>3
    <3>5. \A i \in 1..Len(rows) : i = 1 \/ i = 2
      BY <3>3
    <3> QED BY <2>1, <3>3, <3>4, <3>5
  <2>3. CASE console.wallet = wallet
    <3>1. rows = << >> \o <<r>> /\ <<r>> \in Seq(Row)
      BY <2>1, <2>3
    <3>2. rows = <<r>>
      BY <3>1, ConcatEmptySeq, Zenon
    <3> QED BY <2>1, <3>2
  <2> QED BY <2>2, <2>3
<1> HIDE DEF n, rows
<1>6. rpcWorker.queue = << >> /\ rpcWorker.results = << >>
  BY <1>1 DEF BusyInv, Console!MayExecute
<1>7. rpcWorker' = [thread |-> rpcWorker.thread, queue |-> <<n>>, results |-> << >>]
  <2>1. Append(rpcWorker.queue, n) = <<n>>
    BY <1>2, <1>6
  <2> QED BY <1>1, <1>6, <2>1 DEF ConsoleType
<1>8. rpcWorker'.queue = <<n>> /\ rpcWorker'.results = << >> /\ rpcWorker'.thread = rpcWorker.thread
  BY <1>7
<1>9. /\ console'.executing /\ console'.submits = n /\ console'.stopping = console.stopping
      /\ console' \in [executing : BOOLEAN, stopping : BOOLEAN, wallet : {console'.wallet}, submits : Nat, nodeStops : BOOLEAN]
  BY <1>1, <1>2 DEF ConsoleType
<1>10. output' \in Seq(Row)
  BY <1>1, <1>5, AppendRowsOK DEF ConsoleType
<1>11. ConsoleType'
  <2>1. <<n>> \in Seq(Nat) /\ << >> \in Seq(Answer)
    BY <1>2
  <2>2. rpcWorker' \in [thread : {"running", "finished"}, queue : Seq(Nat), results : Seq(Answer)]
    BY <1>7, <2>1 DEF ConsoleType
  <2>3. text' \in [shown : Word, draft : Word] /\ browse' \in [idx : Int, saved : Word]
    <3>1. "" \in Word /\ -1 \in Int
      BY DEF Word
    <3> HIDE DEF text, browse
    <3> QED BY <1>1, <3>1
  <2> QED BY <1>4, <1>9, <1>10, <2>2, <2>3 DEF ConsoleType
<1>12. BusyInv'
  <2>1. Len(<<n>>) = 1 /\ Len(<< >>) = 0 /\ Head(<<n>>) = n /\ <<n>> # << >>
    OBVIOUS
  <2> QED BY <1>2, <1>8, <1>9, <2>1 DEF BusyInv
<1>13. BrowseInv'
  BY <1>1 DEF BrowseInv
<1>14. \A i \in 1..Len(output) : output[i] \in Row /\ output[i].n \in Nat /\ output[i].n < n
  <2>1. \A i \in 1..Len(output) : output[i] \in Row
    BY DEF ConsoleType
  <2> QED BY <1>2, <2>1 DEF RowsInv, Fits, Row
<1>15. Ordered(output')
  <2>1. Ordered(rows)
    BY <1>5 DEF Ordered, Counts
  <2>2. \A i \in 1..Len(output), j \in 1..Len(rows) : Precedes(output[i], rows[j])
    BY <1>5, <1>14 DEF Precedes
  <2> QED BY <1>1, <1>5, <2>1, <2>2, OrderKept DEF RowsInv, ConsoleType
<1>16. \A i \in 1..Len(output') : Fits(output'[i], n, TRUE)
  <2>1. \A i \in 1..Len(output) : Fits(output[i], n, TRUE)
    BY <1>2, <1>14 DEF Fits
  <2>2. \A i \in 1..Len(rows) : Fits(rows[i], n, TRUE)
    BY <1>2, <1>5 DEF Fits
  <2> QED BY <1>1, <1>5, <2>1, <2>2, FitKept DEF ConsoleType
<1>17. RowsInv'
  BY <1>2, <1>9, <1>15, <1>16 DEF RowsInv, Fits
<1> QED BY <1>11, <1>12, <1>13, <1>17

LEMMA OneLeft ==
  ASSUME NEW none \in Nat, NEW one \in Nat \ {0}, none + one <= 1 \/ one + none <= 1
  PROVE  none = 0 /\ one = 1
  OBVIOUS

\* A row of an answer goes below the request it answers (onResultReady).
LEMMA OnResultReadyInv ==
  ASSUME ConsoleInv, Console!OnResultReady
  PROVE  ConsoleInv'
<1> USE DEF ConsoleInv
<1> DEFINE answer == Head(rpcWorker.results)
<1>1. /\ rpcWorker.results # << >> /\ rpcWorker.results \in Seq(Answer) /\ rpcWorker.queue \in Seq(Nat)
      /\ Len(rpcWorker.queue) + Len(rpcWorker.results) <= 1
  BY DEF ConsoleType, BusyInv, Console!OnResultReady
<1>2. rpcWorker.queue = << >> /\ Tail(rpcWorker.results) = << >> /\ answer \in Answer
  <2>1. Len(rpcWorker.results) \in Nat \ {0} /\ Len(rpcWorker.queue) \in Nat
    <3> HIDE DEF rpcWorker
    <3>1. \A s \in Seq(Answer) : s # << >> => Len(s) \in Nat \ {0}
      BY EmptySeq
    <3> QED BY <1>1, <3>1
  <2>2. Len(rpcWorker.queue) = 0 /\ Len(rpcWorker.results) = 1
    <3> HIDE DEF rpcWorker
    <3>1. Len(rpcWorker.queue) + Len(rpcWorker.results) <= 1
      BY <1>1
    <3> QED BY <2>1, <3>1, OneLeft, Zenon
  <2>3. Len(Tail(rpcWorker.results)) = 0 /\ Tail(rpcWorker.results) \in Seq(Answer) /\ answer \in Answer
    BY <1>1, <2>2, HeadTailProperties
  <2>4. rpcWorker.queue = << >> /\ Tail(rpcWorker.results) = << >>
    <3> HIDE DEF rpcWorker
    <3>1. \A s \in Seq(Answer) : s # << >> => Len(s) \in Nat \ {0}
      BY EmptySeq
    <3>2. \A s \in Seq(Nat) : s # << >> => Len(s) \in Nat \ {0}
      BY EmptySeq
    <3> QED BY <1>1, <2>2, <2>3, <3>1, <3>2
  <2> QED BY <2>3, <2>4
<1>3. answer.n = console.submits /\ console.submits > 0 /\ answer.kind \in {"reply", "error"} /\ answer \in Row
      /\ console.submits \in Nat
  <2>1. answer.n = console.submits /\ console.submits > 0
    BY <1>1 DEF BusyInv, RowsInv, Busy
  <2> QED BY <1>2, <2>1 DEF Answer, Row, ConsoleType
<1> HIDE DEF answer
<1>4. /\ rpcWorker' = [rpcWorker EXCEPT !.results = Tail(@)]
      /\ UNCHANGED <<text, history, browse>>
  BY DEF Console!OnResultReady
<1>5. rpcWorker' = [thread |-> rpcWorker.thread, queue |-> << >>, results |-> << >>]
  BY <1>2, <1>4 DEF ConsoleType
<1>6. /\ rpcWorker'.queue = << >> /\ rpcWorker'.results = << >>
      /\ rpcWorker' \in [thread : {"running", "finished"}, queue : Seq(Nat), results : Seq(Answer)]
  <2>1. << >> \in Seq(Nat) /\ << >> \in Seq(Answer)
    OBVIOUS
  <2> QED BY <1>5, <2>1 DEF ConsoleType
<1>7. BrowseInv' /\ text' = text /\ history' = history /\ browse' = browse /\ Len(<< >>) = 0
  BY <1>4 DEF BrowseInv
<1>8. CASE console.stopping
  <2>1. output' = output /\ console' = console
    BY <1>8 DEF Console!OnResultReady
  <2>2. ConsoleType'
    BY <1>6, <1>7, <2>1 DEF ConsoleType
  <2>3. BusyInv'
    BY <1>6, <1>7, <1>8, <2>1 DEF BusyInv
  <2>4. RowsInv'
    BY <1>6, <2>1 DEF RowsInv, Busy, Fits
  <2> QED BY <1>7, <2>2, <2>3, <2>4
<1>9. CASE ~console.stopping
  <2>1. /\ Console!AppendRows(<<answer>>)
        /\ console' = [console EXCEPT !.executing = FALSE]
    BY <1>9 DEF Console!OnResultReady, answer
  <2>2. /\ console'.executing = FALSE /\ console'.submits = console.submits /\ console'.stopping = FALSE
        /\ console' \in [executing : BOOLEAN, stopping : BOOLEAN, wallet : {console'.wallet}, submits : Nat, nodeStops : BOOLEAN]
    BY <1>9, <2>1 DEF ConsoleType
  <2>3. <<answer>> \in Seq(Row) /\ Len(<<answer>>) = 1 /\ <<answer>>[1] = answer
    BY <1>3
  <2>4. output' \in Seq(Row)
    BY <2>1, <2>3, AppendRowsOK DEF ConsoleType
  <2>5. ConsoleType'
    BY <1>6, <1>7, <2>2, <2>4 DEF ConsoleType
  <2>6. BusyInv'
    BY <1>6, <1>7, <2>2 DEF BusyInv
  <2>7. \A i \in 1..Len(output) : /\ output[i] \in Row /\ output[i].n \in Nat /\ output[i].n <= console.submits
                                  /\ output[i].n = console.submits => output[i].kind \in {"wallet", "request"}
    <3>1. \A i \in 1..Len(output) : output[i] \in Row
      BY DEF ConsoleType
    <3> QED BY <1>1, <3>1 DEF RowsInv, Fits, Row, Busy
  <2>8. Ordered(output')
    <3>1. Ordered(<<answer>>)
      BY <2>3 DEF Ordered
    <3>2. \A i \in 1..Len(output), j \in 1..Len(<<answer>>) :
             Counts(output[i]) /\ Counts(<<answer>>[j]) => Precedes(output[i], <<answer>>[j])
      BY <1>3, <2>3, <2>7 DEF Precedes, Counts
    <3>3. output \in Seq(Row) /\ Ordered(output)
      BY DEF RowsInv, ConsoleType
    <3> QED BY <2>1, <2>3, <3>1, <3>2, <3>3, OrderKept
  <2>9. \A i \in 1..Len(output') : Fits(output'[i], console.submits, FALSE)
    <3>1. \A i \in 1..Len(output) : Fits(output[i], console.submits, FALSE)
      BY <2>7 DEF Fits
    <3>2. \A i \in 1..Len(<<answer>>) : Fits(<<answer>>[i], console.submits, FALSE)
      BY <1>3, <2>3 DEF Fits
    <3> QED BY <2>1, <2>3, <3>1, <3>2, FitKept DEF ConsoleType
  <2>10. RowsInv'
    BY <1>6, <2>2, <2>8, <2>9 DEF RowsInv, Busy, Fits
  <2> QED BY <1>7, <2>5, <2>6, <2>10
<1> QED BY <1>8, <1>9

\* Going through the history: what is shown and what is saved.
LEMMA BrowseStepInv ==
  ASSUME ConsoleInv, NEW direction \in {1, -1}, Console!Browse(direction)
  PROVE  ConsoleInv'
<1> USE DEF ConsoleInv
<1> DEFINE idx == IF browse.idx + direction >= Len(history) THEN Len(history) - 1 ELSE browse.idx + direction
           saved == IF browse.idx = -1 THEN text.shown ELSE browse.saved
           shown == IF idx < 0 THEN saved ELSE history[Len(history) - idx]
<1>1. /\ history # << >>
      /\ browse' = [idx |-> IF idx < 0 THEN -1 ELSE idx, saved |-> saved]
      /\ text' = [text EXCEPT !.shown = shown]
      /\ UNCHANGED <<output, history, console, rpcWorker>>
  BY DEF Console!Browse
<1>2. history \in Seq(Word) /\ Len(history) \in Nat /\ Len(history) > 0 /\ \A i \in 1..Len(history) : history[i] \in Word
  <2>1. history \in Seq(Word) /\ \A s \in Seq(Word) : s # << >> => Len(s) \in Nat \ {0}
    BY EmptySeq DEF ConsoleType
  <2> QED BY <1>1, <2>1
<1>3. browse.idx \in Int /\ browse.saved \in Word /\ text.shown \in Word /\ text.draft \in Word
  BY DEF ConsoleType
<1>4. saved = text.draft /\ saved \in Word
  <2>1. browse.idx \in -1..Len(history) - 1
    BY <1>2 DEF BrowseInv
  <2> QED BY <1>3, <2>1 DEF BrowseInv
<1>5. idx \in Int /\ idx <= Len(history) - 1 /\ (idx >= 0 => Len(history) - idx \in 1..Len(history))
  BY <1>2, <1>3
<1>6. shown \in Word
  BY <1>2, <1>4, <1>5
<1>7. text' = [shown |-> shown, draft |-> text.draft]
  BY <1>1 DEF ConsoleType
<1> HIDE DEF idx, saved
<1>8. shown = IF idx < 0 THEN saved ELSE history[Len(history) - idx]
  OBVIOUS
<1> HIDE DEF shown
<1>9. /\ text'.shown = shown /\ text'.draft = text.draft
      /\ browse'.idx = (IF idx < 0 THEN -1 ELSE idx) /\ browse'.saved = saved
  BY <1>1, <1>7
<1>10. text' \in [shown : Word, draft : Word] /\ browse' \in [idx : Int, saved : Word]
  <2>1. text' \in [shown : Word, draft : Word]
    BY <1>3, <1>6, <1>7
  <2>2. (IF idx < 0 THEN -1 ELSE idx) \in Int
    BY <1>5
  <2> QED BY <1>1, <1>4, <2>1, <2>2
<1>11. ConsoleType'
  BY <1>1, <1>10 DEF ConsoleType
<1>12. BusyInv' /\ RowsInv'
  BY <1>1 DEF BusyInv, RowsInv, Busy
<1>13. BrowseInv'
  <2>1. CASE idx < 0
    BY <1>1, <1>4, <1>8, <1>9, <2>1 DEF BrowseInv
  <2>2. CASE idx >= 0
    <3>1. browse'.idx = idx /\ idx # -1 /\ idx \in 0..Len(history) - 1
      BY <1>2, <1>5, <1>9, <2>2
    <3>2. text'.shown = history[Len(history) - idx] /\ history' = history
      BY <1>1, <1>5, <1>8, <1>9, <2>2
    <3> QED BY <1>4, <1>9, <3>1, <3>2 DEF BrowseInv
  <2> QED BY <1>5, <2>1, <2>2
<1> QED BY <1>11, <1>12, <1>13

\* The worker executes the command queued.
LEMMA ExecuteInv ==
  ASSUME ConsoleInv, NEW kind \in {"reply", "error"}, Console!Execute(kind)
  PROVE  ConsoleInv'
<1> USE DEF ConsoleInv
<1> DEFINE answer == [kind |-> kind, n |-> Head(rpcWorker.queue)]
<1>1. /\ rpcWorker.queue # << >>
      /\ rpcWorker' = [rpcWorker EXCEPT !.queue = Tail(@), !.results = Append(@, answer)]
      /\ UNCHANGED <<text, output, history, browse, console>>
  BY DEF Console!Execute
<1>2. /\ rpcWorker.results \in Seq(Answer) /\ rpcWorker.queue \in Seq(Nat)
      /\ Len(rpcWorker.queue) + Len(rpcWorker.results) <= 1
      /\ console.submits \in Nat /\ Head(rpcWorker.queue) = console.submits
  BY <1>1 DEF ConsoleType, BusyInv
<1>3. Tail(rpcWorker.queue) = << >> /\ rpcWorker.results = << >>
  <2> HIDE DEF rpcWorker
  <2>1. \A s \in Seq(Answer) : Len(s) \in Nat /\ (s # << >> => Len(s) \in Nat \ {0})
    BY EmptySeq
  <2>2. \A s \in Seq(Nat) : Len(s) \in Nat /\ (s # << >> => Len(s) \in Nat \ {0})
    BY EmptySeq
  <2>3. Len(rpcWorker.queue) = 1 /\ Len(rpcWorker.results) = 0
    <3>1. Len(rpcWorker.queue) \in Nat \ {0}
      BY <1>1, <1>2, <2>2
    <3>2. Len(rpcWorker.results) \in Nat
      BY <1>2, <2>1
    <3>3. Len(rpcWorker.queue) + Len(rpcWorker.results) <= 1
      BY <1>2
    <3> QED BY <3>1, <3>2, <3>3, OneLeft, Zenon
  <2>4. Tail(rpcWorker.queue) \in Seq(Nat) /\ Len(Tail(rpcWorker.queue)) = 0
    BY <1>1, <1>2, <2>3, HeadTailProperties
  <2> QED BY <1>2, <2>1, <2>2, <2>3, <2>4
<1>4. answer \in Answer /\ answer.n = console.submits
  BY <1>2 DEF Answer
<1> HIDE DEF answer
<1>5. Append(rpcWorker.results, answer) = <<answer>>
  BY <1>3, <1>4
<1>6. rpcWorker' = [thread |-> rpcWorker.thread, queue |-> << >>, results |-> <<answer>>]
  BY <1>1, <1>3, <1>5 DEF ConsoleType
<1>7. /\ rpcWorker'.queue = << >> /\ rpcWorker'.results = <<answer>> /\ <<answer>> # << >>
      /\ Len(<< >>) = 0 /\ Len(<<answer>>) = 1 /\ Head(<<answer>>) = answer
  BY <1>6
<1>8. rpcWorker' \in [thread : {"running", "finished"}, queue : Seq(Nat), results : Seq(Answer)]
  <2>1. << >> \in Seq(Nat) /\ <<answer>> \in Seq(Answer)
    BY <1>4
  <2> QED BY <1>6, <2>1 DEF ConsoleType
<1>9. ConsoleType'
  BY <1>1, <1>8 DEF ConsoleType
<1>10. BusyInv'
  <2>1. console.executing /\ console' = console /\ answer.n = console.submits
    BY <1>1, <1>4 DEF BusyInv
  <2>2. Len(rpcWorker'.queue) + Len(rpcWorker'.results) <= 1
    BY <1>7
  <2>3. rpcWorker'.queue = << >> /\ rpcWorker'.results # << >> /\ Head(rpcWorker'.results).n = console'.submits
    BY <1>7, <2>1
  <2> HIDE DEF rpcWorker, console
  <2> QED BY <2>1, <2>2, <2>3 DEF BusyInv
<1>11. RowsInv' /\ BrowseInv'
  BY <1>1, <1>7 DEF RowsInv, Busy, BrowseInv
<1> QED BY <1>9, <1>10, <1>11

LEMMA ConsoleNextInv ==
  ASSUME ConsoleInv, Console!ConsoleNext \/ UNCHANGED <<v1, v2, v3, v4, v5, v6>>
  PROVE  ConsoleInv'
<1> USE DEF ConsoleInv
<1>1. CASE UNCHANGED <<v1, v2, v3, v4, v5, v6>>
  BY <1>1 DEF ConsoleType, BusyInv, RowsInv, Busy, BrowseInv
<1>2. ASSUME NEW word \in Commands \cup {"bad", "stop"}, Console!Type(word) PROVE ConsoleInv'
  <2>1. /\ text' = [shown |-> word, draft |-> word] /\ browse' = [idx |-> -1, saved |-> ""]
        /\ UNCHANGED <<output, history, console, rpcWorker>>
    BY <1>2 DEF Console!Type, Console!NavigationReset
  <2>2. text' \in [shown : Word, draft : Word] /\ browse' \in [idx : Int, saved : Word]
    <3>1. "" \in Word /\ -1 \in Int
      BY DEF Word
    <3>2. word \in Word
      BY Zenon DEF Word
    <3> HIDE DEF text, browse
    <3> QED BY <2>1, <3>1, <3>2
  <2>3. ConsoleType' /\ BrowseInv'
    BY <2>1, <2>2 DEF ConsoleType, BrowseInv
  <2> QED BY <2>1, <2>3 DEF BusyInv, RowsInv, Busy
<1>3. CASE Console!SubmitInvalid
  <2> DEFINE row == [kind |-> "error", n |-> 0]
  <2>1. /\ Console!AppendRows(<<row>>)
        /\ text' = [shown |-> "", draft |-> ""] /\ browse' = [idx |-> -1, saved |-> ""]
        /\ UNCHANGED <<history, console, rpcWorker>>
    BY <1>3 DEF Console!SubmitInvalid, Console!ClearField, Console!NavigationReset
  <2>2. row \in Row /\ row.n = 0 /\ row.kind = "error"
    BY DEF Row
  <2> HIDE DEF row
  <2>3. <<row>> \in Seq(Row) /\ Len(<<row>>) = 1 /\ <<row>>[1] = row
    BY <2>2
  <2>4. output \in Seq(Row) /\ Ordered(output) /\ console.submits \in Nat
    BY DEF ConsoleType, RowsInv
  <2>5. Ordered(<<row>>)
    BY <2>3 DEF Ordered
  <2>6. Ordered(output')
    <3>1. \A j \in 1..Len(<<row>>) : ~Counts(<<row>>[j])
      BY <2>2, <2>3 DEF Counts
    <3> QED BY <2>1, <2>3, <2>4, <2>5, <3>1, OrderKept
  <2>7. Busy => console.submits > 0
    BY DEF RowsInv
  <2>8. \A i \in 1..Len(<<row>>) : Fits(<<row>>[i], console.submits, Busy)
    BY <2>2, <2>3, <2>4, <2>7 DEF Fits
  <2>9. \A i \in 1..Len(output') : Fits(output'[i], console.submits, Busy)
    <3>1. \A i \in 1..Len(output) : Fits(output[i], console.submits, Busy)
      BY DEF RowsInv
    <3> QED BY <2>1, <2>3, <2>4, <2>8, <3>1, FitKept
  <2>10. RowsInv'
    BY <2>1, <2>6, <2>7, <2>9 DEF RowsInv, Busy, Fits
  <2>11. text' \in [shown : Word, draft : Word] /\ browse' \in [idx : Int, saved : Word]
    <3>1. "" \in Word /\ -1 \in Int
      BY DEF Word
    <3> HIDE DEF text, browse
    <3> QED BY <2>1, <3>1
  <2>12. output' \in Seq(Row)
    BY <2>1, <2>3, <2>4, AppendRowsOK
  <2>13. ConsoleType' /\ BrowseInv'
    BY <2>1, <2>11, <2>12 DEF ConsoleType, BrowseInv
  <2> QED BY <2>1, <2>10, <2>13 DEF BusyInv
<1>4. CASE Console!SubmitStop
  <2>1. /\ console' = [console EXCEPT !.nodeStops = TRUE]
        /\ text' = [shown |-> "", draft |-> ""] /\ browse' = [idx |-> -1, saved |-> ""]
        /\ UNCHANGED <<output, history, rpcWorker>>
    BY <1>4 DEF Console!SubmitStop, Console!ClearField, Console!NavigationReset
  <2>2. /\ console'.executing = console.executing /\ console'.stopping = console.stopping /\ console'.submits = console.submits
        /\ console' \in [executing : BOOLEAN, stopping : BOOLEAN, wallet : {console'.wallet}, submits : Nat, nodeStops : BOOLEAN]
    BY <2>1 DEF ConsoleType
  <2>3. text' \in [shown : Word, draft : Word] /\ browse' \in [idx : Int, saved : Word]
    <3>1. "" \in Word /\ -1 \in Int
      BY DEF Word
    <3> HIDE DEF text, browse
    <3> QED BY <2>1, <3>1
  <2>4. ConsoleType' /\ BrowseInv'
    BY <2>1, <2>2, <2>3 DEF ConsoleType, BrowseInv
  <2> QED BY <2>1, <2>2, <2>4 DEF BusyInv, RowsInv, Busy
<1>5. CASE Console!Clear
  <2>1. output' = << >> /\ UNCHANGED <<text, history, browse, console, rpcWorker>>
    BY <1>5 DEF Console!Clear
  <2>2. output' \in Seq(Row) /\ 1..Len(output') = {}
    BY <2>1
  <2>3. ConsoleType' /\ BusyInv' /\ BrowseInv'
    BY <2>1, <2>2 DEF ConsoleType, BusyInv, BrowseInv
  <2>4. RowsInv'
    BY <2>1, <2>2 DEF RowsInv, Ordered, Busy
  <2> QED BY <2>3, <2>4
<1>6. CASE Console!BeginShutdown
  <2>1. console' = [console EXCEPT !.stopping = TRUE] /\ UNCHANGED <<text, output, history, browse, rpcWorker>>
    BY <1>6 DEF Console!BeginShutdown
  <2>2. /\ console'.executing = console.executing /\ console'.stopping /\ console'.submits = console.submits
        /\ console' \in [executing : BOOLEAN, stopping : BOOLEAN, wallet : {console'.wallet}, submits : Nat, nodeStops : BOOLEAN]
    BY <2>1 DEF ConsoleType
  <2>3. ConsoleType' /\ BrowseInv'
    BY <2>1, <2>2 DEF ConsoleType, BrowseInv
  <2> QED BY <2>1, <2>2, <2>3 DEF BusyInv, RowsInv, Busy
<1>7. CASE Console!ThreadFinishes
  <2>1. rpcWorker' = [rpcWorker EXCEPT !.thread = "finished"] /\ UNCHANGED <<text, output, history, browse, console>>
    BY <1>7 DEF Console!ThreadFinishes
  <2>2. /\ rpcWorker'.queue = rpcWorker.queue /\ rpcWorker'.results = rpcWorker.results
        /\ rpcWorker' \in [thread : {"running", "finished"}, queue : Seq(Nat), results : Seq(Answer)]
    BY <2>1 DEF ConsoleType
  <2>3. ConsoleType' /\ BrowseInv'
    BY <2>1, <2>2 DEF ConsoleType, BrowseInv
  <2> QED BY <2>1, <2>2, <2>3 DEF BusyInv, RowsInv, Busy
<1> QED
  BY <1>1, <1>2, <1>3, <1>4, <1>5, <1>6, <1>7, SubmitCommandInv, OnResultReadyInv, BrowseStepInv, ExecuteInv
  DEF Console!ConsoleNext

LEMMA ConsoleStepInv ==
  ASSUME part = "console" => ConsoleInv, [Next]_vars, part' = "console"
  PROVE  ConsoleInv'
<1>1. part = "console" /\ (Console!ConsoleNext \/ UNCHANGED <<v1, v2, v3, v4, v5, v6>>)
  BY DEF Next, vars, SyncStep, MempoolStep, LogStep, ParserStep, ConsoleStep, SettingsStep, ClockStep,
    TrafficStep, PeersStep, DialStep, SegmentsStep
<1> QED BY <1>1, ConsoleNextInv

\* However commands, answers, "stop", the history and a shutdown interleave
\* (submitCommand, onResultReady, browseHistory, beginShutdown): the console is
\* free exactly when no command is under way, an answer stands below its request
\* and above the next one, and the history gives back the draft.
THEOREM CommandsRunOneByOne == Spec => []ConsoleIsSerial
<1> DEFINE Inv == part = "console" => ConsoleInv
<1>1. Init => Inv
  BY ConsoleInitInv DEF Init
<1>2. Inv /\ [Next]_vars => Inv'
  BY ConsoleStepInv
<1>3. Inv => ConsoleIsSerial
  <2> SUFFICES ASSUME part = "console", ConsoleInv PROVE Console!ConsoleIsSerial
    BY DEF ConsoleIsSerial
  <2>1. ~console.stopping => console.executing = (rpcWorker.queue # << >> \/ rpcWorker.results # << >>)
    <3>1. console.executing \in BOOLEAN
      BY DEF ConsoleInv, ConsoleType
    <3> QED BY <3>1, Zenon DEF ConsoleInv, BusyInv
  <2>2. output \in Seq(Row) /\ DOMAIN output = 1..Len(output)
    BY DEF ConsoleInv, ConsoleType
  <2>3. ASSUME NEW i \in Console!Rows({"request", "reply", "error"}), NEW j \in Console!Rows({"request", "reply", "error"}), i < j
        PROVE  output[i].n < output[j].n \/ (output[i].n = output[j].n /\ output[i].kind = "request" /\ output[j].kind # "request")
    <3>1. i \in 1..Len(output) /\ j \in 1..Len(output) /\ Counts(output[i]) /\ Counts(output[j])
      BY <2>2 DEF Console!Rows, Counts
    <3> QED BY <2>3, <3>1 DEF ConsoleInv, RowsInv, Ordered, Precedes
  <2>4. text.shown = IF browse.idx = -1 THEN text.draft ELSE history[Len(history) - browse.idx]
    BY DEF ConsoleInv, BrowseInv
  <2> QED BY <2>1, <2>3, <2>4 DEF Console!ConsoleIsSerial
<1> QED BY <1>1, <1>2, <1>3, PTL DEF Spec

HIDE DEF text, output, history, browse, console, rpcWorker

(***************************************************************************)
(* StartupSettings: what starts leave on disk                              *)
(***************************************************************************)
disk == v1
program == v2
owed == v3
settled == v4
USE DEF disk, program, owed, settled

Dirs == Settings!Dirs
Setting == Values \cup {"unset"}
SettingsFile == [onboarded : BOOLEAN, setting : Setting]
Disk == [dirs : SUBSET Dirs, json : [Dirs -> SettingsFile], guiDir : Dirs \cup {"unset"}, guiReset : BOOLEAN,
         legacyDir : Dirs \cup {"unset"}, legacyReset : BOOLEAN, stores : [Settings!Stores -> Setting]]
Program == [pc : {"off", "wizard", "ensure", "migrate", "write", "save", "prepare", "rewrite", "running"},
            starts : Nat, options : Dirs \cup {"plain", "choose", "reset"}, dir : Dirs,
            source : {"gui", "legacy", "default", "explicit", "user"}, rw : SettingsFile,
            choice : Values \cup {"untouched"}]
SettingsType == disk \in Disk /\ program \in Program

\* Where the last completed onboarding is found again.
SettledInv ==
  settled # "none" =>
    /\ settled \in disk.dirs /\ disk.json[settled].onboarded
    /\ ~disk.guiReset /\ ~disk.legacyReset
    /\ disk.guiDir = (IF settled = Settings!Default THEN "unset" ELSE settled)
    /\ disk.legacyDir = "unset"

\* rw never has less than the file it was read from.
Keeps(rw, read) == read.setting # "unset" => rw.setting = read.setting
MemoryInv ==
  /\ program.pc = "write" /\ program.options # "reset" => Keeps(program.rw, disk.json[Settings!ActiveDir])
  /\ program.pc = "rewrite" => /\ program.rw.onboarded = disk.json[Settings!ActiveDir].onboarded
                               /\ Keeps(program.rw, disk.json[Settings!ActiveDir])
  /\ program.pc \in {"write", "save"} => disk.stores = Settings!NoStores
  /\ program.pc = "save" => Settings!ActiveDir \in disk.dirs /\ disk.json[Settings!ActiveDir].onboarded

OwedInv ==
  /\ owed \in {"none"} \cup (Values \ {"default"})
  /\ program.options = "reset" => owed = "none"
  /\ Settings!OldValueIsKept

SettingsInv == SettingsType /\ SettledInv /\ MemoryInv /\ OwedInv

LEMMA NoWordIsADirectory ==
  /\ Settings!Default = "default dir" /\ Settings!Default \in Dirs
  /\ \A word \in {"unset", "none", "plain", "choose", "reset"} : word \notin Dirs
  /\ \A word \in {"unset", "none", "untouched"} : word \notin Values
<1>1. Settings!Default = "default dir" /\ Dirs = Customs \cup {"default dir"}
  BY DEF Settings!Default, Settings!Dirs, Dirs
<1>2. \A word \in {"default dir", "unset", "none", "plain", "choose", "reset"} : word \notin Customs
  BY ChoicesAssumption
<1>3. \A word \in {"unset", "none", "untouched"} : word \notin Values
  BY ChoicesAssumption
<1>4. \A word \in {"unset", "none", "plain", "choose", "reset"} : word # "default dir"
  OBVIOUS
<1> QED BY <1>1, <1>2, <1>3, <1>4

LEMMA OldValueOK ==
  /\ Settings!NoStores \in [Settings!Stores -> Setting] /\ Settings!OldValue(Settings!NoStores) = "unset"
  /\ \A stores \in [Settings!Stores -> Setting] : Settings!OldValue(stores) \in Setting
BY DEF Settings!NoStores, Settings!OldValue, Settings!Stores, Setting

\* MigrateSimpleSetting: the file's own value comes first, then the stores'.
LEMMA MigratedOK ==
  ASSUME NEW rw \in SettingsFile, NEW stores \in [Settings!Stores -> Setting]
  PROVE  /\ Settings!Migrated(rw, stores) \in SettingsFile
         /\ Settings!Migrated(rw, stores).onboarded = rw.onboarded
         /\ Keeps(Settings!Migrated(rw, stores), rw)
         /\ rw.setting = "unset" /\ Settings!OldValue(stores) \notin {"unset", "default"}
              => Settings!Migrated(rw, stores).setting = Settings!OldValue(stores)
<1> DEFINE write(settings, value) == IF settings.setting # "unset" \/ value \in {"unset", "default"} THEN settings
                                     ELSE [settings EXCEPT !.setting = value]
           once == write(rw, stores["qml"])
           twice == write(once, stores["qt"])
<1>1. Settings!Migrated(rw, stores) = twice
  BY DEF Settings!Migrated
<1>2. stores["qml"] \in Setting /\ stores["qt"] \in Setting
  BY DEF Settings!Stores
<1>3. ASSUME NEW settings \in SettingsFile, NEW value \in Setting
      PROVE  /\ write(settings, value) \in SettingsFile
             /\ write(settings, value).onboarded = settings.onboarded
             /\ Keeps(write(settings, value), settings)
             /\ settings.setting = "unset" /\ value \notin {"unset", "default"} => write(settings, value).setting = value
             /\ settings.setting = "unset" /\ value \in {"unset", "default"} => write(settings, value).setting = "unset"
  <2>1. CASE settings.setting # "unset" \/ value \in {"unset", "default"}
    BY <1>3, <2>1 DEF Keeps
  <2>2. CASE ~(settings.setting # "unset" \/ value \in {"unset", "default"})
    <3>1. write(settings, value) = [onboarded |-> settings.onboarded, setting |-> value]
      BY <1>3, <2>2 DEF SettingsFile
    <3> HIDE DEF write
    <3> QED BY <1>3, <2>2, <3>1 DEF SettingsFile, Keeps
  <2> QED BY <2>1, <2>2
<1> HIDE DEF write
<1>4. /\ once \in SettingsFile /\ once.onboarded = rw.onboarded /\ Keeps(once, rw)
      /\ twice \in SettingsFile /\ twice.onboarded = rw.onboarded /\ Keeps(twice, once)
  BY <1>2, <1>3
<1>5. ASSUME rw.setting = "unset", Settings!OldValue(stores) \notin {"unset", "default"}
      PROVE  twice.setting = Settings!OldValue(stores)
  <2>1. CASE stores["qml"] # "unset"
    <3>1. Settings!OldValue(stores) = stores["qml"]
      BY <2>1 DEF Settings!OldValue
    <3>2. once.setting = stores["qml"]
      BY <1>2, <1>3, <1>5, <3>1
    <3> QED BY <1>4, <1>5, <3>1, <3>2 DEF Keeps
  <2>2. CASE stores["qml"] = "unset"
    <3>1. Settings!OldValue(stores) = stores["qt"]
      BY <2>2 DEF Settings!OldValue
    <3>2. once.setting = "unset"
      BY <1>2, <1>3, <1>5, <2>2
    <3> QED BY <1>2, <1>3, <1>4, <1>5, <3>1, <3>2
  <2> QED BY <2>1, <2>2
<1>6. Keeps(twice, rw)
  BY <1>4 DEF Keeps
<1> QED BY <1>1, <1>4, <1>5, <1>6

LEMMA ActiveDirOK ==
  ASSUME SettingsType
  PROVE  /\ Settings!ActiveDir \in Dirs
         /\ Settings!GuiOwned => Settings!ActiveDir = program.dir
  BY NoWordIsADirectory DEF SettingsType, Program, Settings!ActiveDir, Settings!AppliedBeforeConfig, Settings!GuiOwned, Dirs

\* A step that only goes on, and the state of memory after it.
LEMMA GotoOK ==
  ASSUME SettingsType, NEW pc \in {"off", "wizard", "ensure", "migrate", "write", "save", "prepare", "rewrite", "running"},
         Settings!Goto(pc)
  PROVE  /\ program' \in Program
         /\ program'.pc = pc /\ program'.rw = program.rw /\ program'.options = program.options
         /\ program'.dir = program.dir /\ program'.source = program.source
         /\ Settings!ActiveDir' = Settings!ActiveDir
<1>1. /\ program' \in Program
      /\ program'.pc = pc /\ program'.rw = program.rw /\ program'.options = program.options
      /\ program'.dir = program.dir /\ program'.source = program.source
  BY DEF Settings!Goto, SettingsType, Program
<1> QED
  BY <1>1 DEF Settings!ActiveDir, Settings!AppliedBeforeConfig, Settings!GuiOwned

LEMMA OffOK ==
  ASSUME NEW n \in Nat
  PROVE  /\ Settings!Off(n) \in Program
         /\ Settings!Off(n).pc = "off" /\ Settings!Off(n).options = "plain"
<1>1. /\ Settings!Off(n) = [pc |-> "off", starts |-> n, options |-> "plain", dir |-> Settings!Default, source |-> "default",
                           rw |-> Settings!Empty, choice |-> "untouched"]
      /\ Settings!Empty \in SettingsFile
  BY DEF Settings!Off, Settings!Empty, SettingsFile, Setting
<1>2. Settings!Off(n).pc = "off" /\ Settings!Off(n).options = "plain"
  BY <1>1
<1>3. "plain" \in Dirs \cup {"plain", "choose", "reset"} /\ "untouched" \in Values \cup {"untouched"}
  OBVIOUS
<1>4. Settings!Default \in Dirs
  BY NoWordIsADirectory
<1>5. Settings!Off(n) \in Program
  BY <1>1, <1>3, <1>4 DEF Program
<1> QED BY <1>2, <1>5

LEMMA ExitOK ==
  ASSUME SettingsType, Settings!Exit
  PROVE  program' \in Program /\ program'.pc = "off" /\ program'.options = "plain"
<1>1. program.starts \in Nat /\ program' = Settings!Off(program.starts)
  BY DEF SettingsType, Program, Settings!Exit
<1> HIDE DEF program
<1> QED BY <1>1, OffOK

LEMMA ResolveOK ==
  ASSUME NEW d \in Disk, NEW options \in Dirs \cup {"plain", "choose", "reset"}
  PROVE  /\ Settings!Resolve(d, options).dir \in Dirs
         /\ Settings!Resolve(d, options).source \in {"gui", "legacy", "default", "explicit"}
<1> DEFINE read == CASE options \in Settings!Dirs   -> [dir |-> options, source |-> "explicit"]
                     [] options = "reset"  -> [dir |-> Settings!Default, source |-> "default"]
                     [] OTHER              -> Settings!ReadGuiDataDir(d)
<1>1. Settings!Resolve(d, options).dir = read.dir /\ Settings!Resolve(d, options).source = read.source
  BY DEF Settings!Resolve
<1>2. /\ Settings!ReadGuiDataDir(d).dir \in Dirs
      /\ Settings!ReadGuiDataDir(d).source \in {"gui", "legacy", "default"}
  BY NoWordIsADirectory DEF Disk, Settings!ReadGuiDataDir
<1>3. read.dir \in Dirs /\ read.source \in {"gui", "legacy", "default", "explicit"}
  <2>1. CASE options \in Dirs
    BY <2>1, NoWordIsADirectory DEF Dirs
  <2>2. CASE options = "reset"
    BY <2>2, NoWordIsADirectory DEF Dirs
  <2>3. CASE options \notin Dirs /\ options # "reset"
    BY <1>2, <2>3 DEF Dirs
  <2> QED BY <2>1, <2>2, <2>3
<1> QED BY <1>1, <1>3

\* A step that leaves the disk alone and has nothing in memory to write.
LEMMA QuietOK ==
  ASSUME SettingsInv, UNCHANGED <<disk, settled>>,
         program' \in Program, program'.pc \notin {"write", "save", "rewrite"},
         program'.options = "reset" => owed' = "none",
         owed' \in {owed, "none"}, program.pc \in {"write", "rewrite"} => owed' = "none"
  PROVE  SettingsInv'
<1> USE DEF SettingsInv
<1>1. SettingsType'
  BY DEF SettingsType
<1>2. SettledInv'
  BY DEF SettledInv
<1>3. MemoryInv'
  BY DEF MemoryInv
<1>4. OwedInv'
  <2>1. owed' \in {"none"} \cup (Values \ {"default"})
    BY DEF OwedInv
  <2>2. Settings!OldValueIsKept'
    <3>1. CASE owed' = "none"
      BY <3>1 DEF Settings!OldValueIsKept
    <3>2. CASE owed' # "none"
      BY <3>2 DEF OwedInv, Settings!OldValueIsKept
    <3> QED BY <3>1, <3>2
  <2> QED BY <2>1, <2>2 DEF OwedInv
<1> QED BY <1>1, <1>2, <1>3, <1>4

LEMMA StartInv ==
  ASSUME SettingsInv, NEW options \in Dirs \cup {"plain", "choose", "reset"}, Settings!Start(options)
  PROVE  SettingsInv'
<1> DEFINE startOn(d) == LET found == Settings!Resolve(d, options)
                         IN [program EXCEPT !.pc = IF found.shown THEN "wizard" ELSE "prepare", !.starts = @ + 1,
                                            !.options = options, !.dir = found.dir, !.source = found.source]
<1>1. program \in Program /\ disk \in Disk /\ program.pc = "off" /\ program.starts \in Nat
  BY DEF SettingsInv, SettingsType, Settings!Start, Program
<1>2. ASSUME NEW d \in Disk
      PROVE  startOn(d) \in Program /\ startOn(d).pc \in {"wizard", "prepare"} /\ startOn(d).options = options
  <2> DEFINE found == Settings!Resolve(d, options)
             going == IF found.shown THEN "wizard" ELSE "prepare"
  <2>1. found.dir \in Dirs /\ found.source \in {"gui", "legacy", "default", "explicit"}
    BY ResolveOK
  <2>2. going \in {"wizard", "prepare"}
    OBVIOUS
  <2> DEFINE zero == [program EXCEPT !.pc = going]
             first == [zero EXCEPT !.starts = program.starts + 1]
             once == [first EXCEPT !.options = options]
             twice == [once EXCEPT !.dir = found.dir, !.source = found.source]
  <2>3. startOn(d) = twice
    OBVIOUS
  <2> HIDE DEF found, going
  <2>4. first \in Program /\ first.pc = going
    <3>1. zero \in Program /\ zero.pc = going
      BY <1>1, <2>2 DEF Program
    <3>2. program.starts + 1 \in Nat
      BY <1>1
    <3> HIDE DEF zero
    <3> QED BY <3>1, <3>2 DEF Program
  <2> HIDE DEF startOn, first
  <2>6. once \in Program /\ once.pc = going /\ once.options = options
    BY <2>4 DEF Program
  <2> HIDE DEF once
  <2>5. twice \in Program /\ twice.pc = going /\ twice.options = options
    BY <2>1, <2>6 DEF Program
  <2> QED BY <2>2, <2>3, <2>5
<1>3. CASE options # "reset"
  <2>1. program' = startOn(disk) /\ UNCHANGED <<disk, owed, settled>>
    BY <1>3 DEF Settings!Start
  <2> HIDE DEF startOn
  <2>2. program' \in Program /\ program'.pc \in {"wizard", "prepare"} /\ program'.options = options
    BY <1>1, <1>2, <2>1
  <2> QED BY <1>1, <1>3, <2>1, <2>2, QuietOK
<1>4. CASE options = "reset"
  <2>1. owed' = "none" /\ settled' = "none"
    BY <1>4 DEF Settings!Start
  <2>2. PICK written \in BOOLEAN :
          /\ disk' = [Settings!ClearLegacyGuiSettings(disk) EXCEPT !.guiDir = "unset", !.guiReset = FALSE,
                        !.json[Settings!Default] = IF written THEN Settings!Empty ELSE @]
          /\ program' = IF written THEN startOn(disk') ELSE Settings!Off(program.starts + 1)
    BY <1>4 DEF Settings!Start
  <2> DEFINE file == IF written THEN Settings!Empty ELSE disk.json[Settings!Default]
  <2>3. Settings!Default \in Dirs /\ Settings!Empty \in SettingsFile
    BY NoWordIsADirectory DEF Settings!Empty, SettingsFile, Setting
  <2>4. file \in SettingsFile
    BY <1>1, <2>3 DEF Disk
  <2>5. disk' = [dirs |-> disk.dirs, json |-> [disk.json EXCEPT ![Settings!Default] = file], guiDir |-> "unset",
                 guiReset |-> FALSE, legacyDir |-> "unset", legacyReset |-> FALSE, stores |-> Settings!NoStores]
    BY <1>1, <2>2 DEF Settings!ClearLegacyGuiSettings, Disk
  <2> HIDE DEF file
  <2>6. [disk.json EXCEPT ![Settings!Default] = file] \in [Dirs -> SettingsFile]
    BY <1>1, <2>3, <2>4 DEF Disk
  <2>7. disk' \in Disk
    BY <1>1, <2>5, <2>6, OldValueOK DEF Disk
  <2> HIDE DEF startOn
  <2>8. program' \in Program /\ program'.pc \in {"off", "wizard", "prepare"}
    <3>1. program.starts + 1 \in Nat
      BY <1>1
    <3>2. /\ startOn(disk') \in Program /\ startOn(disk').pc \in {"wizard", "prepare"}
      BY <1>2, <2>7
    <3>3. Settings!Off(program.starts + 1) \in Program /\ Settings!Off(program.starts + 1).pc = "off"
      BY <3>1, OffOK
    <3> QED BY <2>2, <3>2, <3>3
  <2> QED
    BY <2>1, <2>7, <2>8 DEF SettingsInv, SettingsType, SettledInv, MemoryInv, OwedInv, Settings!OldValueIsKept
<1> QED BY <1>3, <1>4

\* selectCustomDataDir and useDefaultDataDir change memory only.
LEMMA ChooseInv ==
  ASSUME SettingsInv,
         \/ \E dir \in Dirs, choice \in Values \cup {"untouched"} : Settings!Choose(dir, choice)
         \/ \E choice \in Values \cup {"untouched"} : Settings!ConfirmDirectory(choice)
  PROVE  SettingsInv'
<1>1. /\ program \in Program /\ program.pc = "wizard" /\ UNCHANGED <<disk, owed, settled>>
      /\ program.options = "reset" => owed = "none"
  BY DEF SettingsInv, SettingsType, OwedInv, Settings!Choose, Settings!ConfirmDirectory
<1>2. PICK dir \in Dirs, choice \in Values \cup {"untouched"}, source \in {"gui", "legacy", "default", "explicit", "user"} :
        program' = [program EXCEPT !.pc = "ensure", !.dir = dir, !.choice = choice, !.source = source]
  <2>1. program.dir \in Dirs /\ program.source \in {"gui", "legacy", "default", "explicit", "user"}
    BY <1>1 DEF Program
  <2>2. ASSUME NEW dir \in Dirs, NEW choice \in Values \cup {"untouched"}, Settings!Choose(dir, choice)
        PROVE  \E source \in {"gui", "legacy", "default", "explicit", "user"} :
                 program' = [program EXCEPT !.pc = "ensure", !.dir = dir, !.choice = choice, !.source = source]
    BY <2>1, <2>2 DEF Settings!Choose
  <2>3. ASSUME NEW choice \in Values \cup {"untouched"}, Settings!ConfirmDirectory(choice)
        PROVE  program' = [program EXCEPT !.pc = "ensure", !.dir = program.dir, !.choice = choice, !.source = "user"]
    BY <1>1, <2>3 DEF Settings!ConfirmDirectory, Program
  <2> QED BY <2>1, <2>2, <2>3
<1>3. program' \in Program /\ program'.pc = "ensure" /\ program'.options = program.options
  BY <1>1, <1>2 DEF Program
<1> QED BY <1>1, <1>3, QuietOK

\* Where nothing but the directories on disk changes, and they only grow.
LEMMA EnsureDataDirInv ==
  ASSUME SettingsInv, Settings!EnsureDataDir
  PROVE  SettingsInv'
<1> USE DEF SettingsInv
<1>1. disk \in Disk /\ program \in Program /\ program.pc = "ensure" /\ UNCHANGED <<owed, settled>> /\ program.dir \in Dirs
  BY DEF Settings!EnsureDataDir, SettingsType, Program
<1>2. program' \in Program /\ program'.pc = "migrate" /\ program'.options = program.options
  BY GotoOK DEF Settings!EnsureDataDir
<1>3. disk' = disk \/ disk' = [disk EXCEPT !.dirs = @ \cup {program.dir}]
  BY DEF Settings!EnsureDataDir
<1>4. /\ disk' \in Disk /\ disk.dirs \subseteq disk'.dirs
      /\ disk'.json = disk.json /\ disk'.stores = disk.stores
      /\ disk'.guiReset = disk.guiReset /\ disk'.legacyReset = disk.legacyReset
      /\ disk'.guiDir = disk.guiDir /\ disk'.legacyDir = disk.legacyDir
  <2> HIDE DEF disk, program
  <2> QED BY <1>1, <1>3 DEF Disk
<1> HIDE DEF disk, program
<1>5. SettledInv'
  BY <1>1, <1>4 DEF SettledInv
<1>6. MemoryInv'
  BY <1>2 DEF MemoryInv
<1>7. OwedInv'
  BY <1>1, <1>2, <1>4 DEF OwedInv, Settings!OldValueIsKept, disk, program
<1> QED BY <1>2, <1>4, <1>5, <1>6, <1>7 DEF SettingsType

\* The value an old store holds goes to memory with the file's settings, or the
\* file has its own (Superseded).
LEMMA CarriedOver ==
  ASSUME SettingsInv, NEW read \in SettingsFile, owed' = Settings!Superseded(read), owed' # "none"
  PROVE  /\ owed' = owed
         /\ Settings!OldValue(disk.stores) = owed => Settings!Migrated(read, disk.stores).setting = owed
<1>1. owed' = owed /\ (Settings!OldValue(disk.stores) = owed => read.setting = "unset")
  BY DEF Settings!Superseded
<1>2. owed \notin {"unset", "default"}
  BY <1>1, NoWordIsADirectory DEF SettingsInv, OwedInv
<1>3. disk.stores \in [Settings!Stores -> Setting]
  BY DEF SettingsInv, SettingsType, Disk
<1> HIDE DEF disk, owed
<1> QED BY <1>1, <1>2, <1>3, MigratedOK

LEMMA MigrateCoreSettingsInv ==
  ASSUME SettingsInv, Settings!MigrateCoreSettings
  PROVE  SettingsInv'
<1> DEFINE read == disk.json[Settings!ActiveDir]
           migrated == Settings!Migrated(read, disk.stores)
<1>1. disk \in Disk /\ program \in Program /\ program.pc = "migrate" /\ settled' = settled /\ owed' = Settings!Superseded(read)
  BY DEF SettingsInv, SettingsType, Settings!MigrateCoreSettings
<1>2. read \in SettingsFile /\ disk.stores \in [Settings!Stores -> Setting]
  BY <1>1, ActiveDirOK DEF SettingsInv, Disk
<1>3. migrated \in SettingsFile /\ Keeps(migrated, read)
  BY <1>2, MigratedOK
<1>4. owed' \in {owed, "none"} /\ owed' \in {"none"} \cup (Values \ {"default"})
  BY <1>1 DEF Settings!Superseded, SettingsInv, OwedInv
<1>5. ASSUME NEW rw \in SettingsFile, program' = [program EXCEPT !.pc = "write", !.rw = rw]
      PROVE  /\ program' \in Program /\ program'.pc = "write" /\ program'.rw = rw /\ program'.options = program.options
             /\ Settings!ActiveDir' = Settings!ActiveDir
  <2>1. /\ program' \in Program /\ program'.pc = "write" /\ program'.rw = rw /\ program'.options = program.options
        /\ program'.dir = program.dir /\ program'.source = program.source
    BY <1>1, <1>5 DEF Program
  <2> QED BY <2>1 DEF Settings!ActiveDir, Settings!AppliedBeforeConfig, Settings!GuiOwned
<1> HIDE DEF migrated
<1>6. CASE program.options = "reset"
  <2>1. disk' = Settings!ClearLegacyGuiSettings(disk) /\ program' = [program EXCEPT !.pc = "write", !.rw = Settings!Empty]
    BY <1>6 DEF Settings!MigrateCoreSettings
  <2>2. disk' = [dirs |-> disk.dirs, json |-> disk.json, guiDir |-> disk.guiDir, guiReset |-> disk.guiReset,
                 legacyDir |-> "unset", legacyReset |-> FALSE, stores |-> Settings!NoStores]
    BY <1>1, <2>1 DEF Settings!ClearLegacyGuiSettings, Disk
  <2>3. /\ disk' \in Disk /\ disk'.dirs = disk.dirs /\ disk'.json = disk.json /\ disk'.guiDir = disk.guiDir
        /\ disk'.guiReset = disk.guiReset /\ disk'.legacyDir = "unset" /\ disk'.legacyReset = FALSE
        /\ disk'.stores = Settings!NoStores
    BY <1>1, <2>2, OldValueOK DEF Disk
  <2>4. program' \in Program /\ program'.pc = "write" /\ program'.options = "reset"
    <3>1. Settings!Empty \in SettingsFile
      BY DEF Settings!Empty, SettingsFile, Setting
    <3> QED BY <1>5, <1>6, <2>1, <3>1
  <2>5. owed' = "none"
    BY <1>4, <1>6 DEF SettingsInv, OwedInv
  <2> HIDE DEF disk, program, read
  <2>6. SettledInv'
    BY <1>1, <2>3 DEF SettingsInv, SettledInv
  <2>7. MemoryInv'
    BY <2>3, <2>4 DEF MemoryInv
  <2>8. OwedInv'
    BY <2>5 DEF OwedInv, Settings!OldValueIsKept
  <2> QED BY <2>3, <2>4, <2>6, <2>7, <2>8 DEF SettingsInv, SettingsType
<1>7. CASE program.options # "reset"
  <2>1. disk' = [disk EXCEPT !.stores = Settings!NoStores] /\ program' = [program EXCEPT !.pc = "write", !.rw = migrated]
    BY <1>7 DEF Settings!MigrateCoreSettings, migrated
  <2>2. /\ disk' \in Disk /\ disk'.dirs = disk.dirs /\ disk'.json = disk.json /\ disk'.guiDir = disk.guiDir
        /\ disk'.guiReset = disk.guiReset /\ disk'.legacyDir = disk.legacyDir /\ disk'.legacyReset = disk.legacyReset
        /\ disk'.stores = Settings!NoStores
    BY <1>1, <2>1, OldValueOK DEF Disk
  <2>3. /\ program' \in Program /\ program'.pc = "write" /\ program'.rw = migrated /\ program'.options # "reset"
        /\ Settings!ActiveDir' = Settings!ActiveDir
    BY <1>3, <1>5, <1>7, <2>1
  <2>4. ASSUME owed' # "none"
        PROVE  owed' = owed /\ (program'.rw.setting = owed' \/ \E d \in Settings!Dirs : disk'.json[d].setting = owed')
    <3>1. owed' = owed /\ (Settings!OldValue(disk.stores) = owed => migrated.setting = owed)
      BY <1>1, <1>2, <2>4, CarriedOver DEF migrated
    <3>2. Settings!OldValue(disk.stores) = owed \/ \E d \in Settings!Dirs : disk.json[d].setting = owed
      BY <1>1, <2>4, <3>1 DEF SettingsInv, OwedInv, Settings!OldValueIsKept
    <3> HIDE DEF disk, program, owed
    <3> QED BY <2>2, <2>3, <3>1, <3>2
  <2>5. program'.pc = "write" => Keeps(program'.rw, disk'.json[Settings!ActiveDir'])
    BY <1>3, <2>2, <2>3
  <2>6. OwedInv'
    BY <1>4, <2>3, <2>4 DEF OwedInv, Settings!OldValueIsKept
  <2> HIDE DEF disk, program
  <2>7. SettledInv'
    BY <1>1, <2>2 DEF SettingsInv, SettledInv
  <2>8. MemoryInv'
    BY <2>2, <2>3, <2>5 DEF MemoryInv
  <2> QED BY <2>2, <2>3, <2>6, <2>7, <2>8 DEF SettingsInv, SettingsType
<1> QED BY <1>6, <1>7

\* The settings file the core settings are written to (WriteSettingsFile).
LEMMA WriteSettingsFileInv ==
  ASSUME SettingsInv, Settings!WriteSettingsFile
  PROVE  SettingsInv'
<1> DEFINE dir == Settings!ActiveDir
<1>1. /\ disk \in Disk /\ program \in Program /\ program.pc = "write" /\ settled' = settled /\ dir \in Dirs
      /\ disk' = [disk EXCEPT !.json[dir] = Settings!Written, !.dirs = @ \cup {dir}]
      /\ owed' = IF program.choice = "untouched" THEN owed ELSE "none"
      /\ disk.stores = Settings!NoStores
  BY ActiveDirOK DEF SettingsInv, SettingsType, MemoryInv, Settings!WriteSettingsFile
<1>2. /\ program' \in Program /\ program'.pc = "save" /\ program'.options = program.options
      /\ Settings!ActiveDir' = dir
  BY GotoOK DEF SettingsInv, Settings!WriteSettingsFile
<1>3. /\ Settings!Written \in SettingsFile /\ Settings!Written.onboarded
      /\ program.choice = "untouched" => Settings!Written.setting = program.rw.setting
  <2>1. program.rw.setting \in Setting /\ program.choice \in Values \cup {"untouched"}
    BY <1>1 DEF Program, SettingsFile
  <2> QED BY <2>1 DEF Settings!Written, SettingsFile, Setting
<1> HIDE DEF dir
<1>4. disk' = [dirs |-> disk.dirs \cup {dir}, json |-> [disk.json EXCEPT ![dir] = Settings!Written], guiDir |-> disk.guiDir,
               guiReset |-> disk.guiReset, legacyDir |-> disk.legacyDir, legacyReset |-> disk.legacyReset, stores |-> disk.stores]
  BY <1>1 DEF Disk
<1>5. [disk.json EXCEPT ![dir] = Settings!Written] \in [Dirs -> SettingsFile]
  BY <1>1, <1>3 DEF Disk
<1>6. /\ disk' \in Disk /\ disk'.dirs = disk.dirs \cup {dir} /\ disk'.guiDir = disk.guiDir
      /\ disk'.guiReset = disk.guiReset /\ disk'.legacyDir = disk.legacyDir /\ disk'.legacyReset = disk.legacyReset
      /\ disk'.stores = disk.stores
  BY <1>1, <1>4, <1>5 DEF Disk
<1>7. /\ disk'.json[dir] = Settings!Written
      /\ \A d \in Dirs : d # dir => disk'.json[d] = disk.json[d]
  BY <1>1, <1>4 DEF Disk
<1>8. SettledInv'
  <2>1. settled # "none" => settled \in Dirs
    BY <1>1 DEF SettingsInv, SettledInv, Disk
  <2> HIDE DEF disk
  <2> QED BY <1>1, <1>3, <1>6, <1>7, <2>1 DEF SettingsInv, SettledInv
<1>9. MemoryInv'
  BY <1>1, <1>2, <1>3, <1>6, <1>7 DEF MemoryInv
<1>10. OwedInv'
  <2>1. owed' \in {"none"} \cup (Values \ {"default"}) /\ (program'.options = "reset" => owed' = "none")
    BY <1>1, <1>2 DEF SettingsInv, OwedInv
  <2>2. ASSUME owed' # "none"
        PROVE  \E d \in Settings!Dirs : disk'.json[d].setting = owed'
    <3>1. /\ owed' = owed /\ program.options # "reset" /\ Settings!Written.setting = program.rw.setting
          /\ Keeps(program.rw, disk.json[dir])
      BY <1>1, <1>3, <2>2 DEF SettingsInv, OwedInv, MemoryInv, dir
    <3>2. owed # "unset"
      BY <3>1, <2>1, NoWordIsADirectory, <2>2
    <3>3. program.rw.setting = owed \/ \E d \in Dirs : disk.json[d].setting = owed
      <4>1. Settings!OldValue(disk.stores) # owed
        BY <1>1, <3>2, OldValueOK
      <4> QED BY <1>1, <2>2, <3>1, <4>1 DEF SettingsInv, OwedInv, Settings!OldValueIsKept, Dirs
    <3>4. CASE program.rw.setting = owed
      BY <1>1, <1>7, <3>1, <3>4 DEF Dirs
    <3>5. ASSUME NEW d \in Dirs, disk.json[d].setting = owed
          PROVE  disk'.json[d].setting = owed
      <4>1. CASE d = dir
        BY <1>7, <3>1, <3>2, <3>5, <4>1 DEF Keeps
      <4>2. CASE d # dir
        BY <1>7, <3>5, <4>2
      <4> QED BY <4>1, <4>2
    <3> QED BY <3>1, <3>3, <3>4, <3>5 DEF Dirs
  <2> QED BY <2>1, <2>2 DEF OwedInv, Settings!OldValueIsKept
<1> QED BY <1>2, <1>6, <1>8, <1>9, <1>10 DEF SettingsInv, SettingsType

\* A directory of the GUI's own is the one the arguments point to, and it exists
\* and is onboarded when it is saved (SaveDataDirSelection).
LEMMA SaveSelectionInv ==
  ASSUME SettingsInv, Settings!SaveSelection
  PROVE  SettingsInv'
<1>1. /\ disk \in Disk /\ program \in Program /\ program.pc = "save" /\ owed' = owed
      /\ Settings!ActiveDir \in disk.dirs /\ disk.json[Settings!ActiveDir].onboarded /\ disk.stores = Settings!NoStores
  BY DEF SettingsInv, SettingsType, MemoryInv, Settings!SaveSelection
<1>2. program' \in Program /\ program'.pc = "prepare" /\ program'.options = program.options
  BY GotoOK DEF SettingsInv, Settings!SaveSelection
<1>3. CASE Settings!GuiOwned
  <2> DEFINE dir == program.dir
             gui == IF dir = Settings!Default THEN "unset" ELSE dir
  <2>1. disk' = Settings!SaveDataDirSelection(disk, dir) /\ settled' = dir /\ dir = Settings!ActiveDir /\ dir \in Dirs
    BY <1>1, <1>3, ActiveDirOK DEF SettingsInv, Settings!SaveSelection, Program
  <2> HIDE DEF dir
  <2>2. gui \in Dirs \cup {"unset"}
    BY <2>1
  <2>3. disk' = [dirs |-> disk.dirs, json |-> disk.json, guiDir |-> gui, guiReset |-> FALSE,
                 legacyDir |-> "unset", legacyReset |-> FALSE, stores |-> Settings!NoStores]
    BY <1>1, <2>1 DEF Settings!SaveDataDirSelection, Settings!ClearLegacyGuiSettings, Disk
  <2> HIDE DEF gui
  <2>4. /\ disk' \in Disk /\ disk'.dirs = disk.dirs /\ disk'.json = disk.json /\ disk'.guiDir = gui
        /\ disk'.guiReset = FALSE /\ disk'.legacyDir = "unset" /\ disk'.legacyReset = FALSE
        /\ disk'.stores = disk.stores
    BY <1>1, <2>2, <2>3, OldValueOK DEF Disk
  <2> HIDE DEF disk
  <2>5. SettledInv'
    BY <1>1, <2>1, <2>4 DEF SettledInv, gui
  <2>6. MemoryInv'
    BY <1>2 DEF MemoryInv
  <2>7. OwedInv'
    BY <1>1, <1>2, <2>4 DEF SettingsInv, OwedInv, Settings!OldValueIsKept, disk
  <2> QED BY <1>2, <2>4, <2>5, <2>6, <2>7 DEF SettingsInv, SettingsType
<1>4. CASE ~Settings!GuiOwned
  <2>1. UNCHANGED <<disk, settled>>
    BY <1>4 DEF Settings!SaveSelection
  <2>2. program'.options = "reset" => owed' = "none"
    BY <1>1, <1>2 DEF SettingsInv, OwedInv
  <2> QED BY <1>1, <1>2, <2>1, <2>2, QuietOK
<1> QED BY <1>3, <1>4

\* prepare_node reads the file the node will use.
LEMMA PrepareReadsInv ==
  ASSUME SettingsInv, Settings!PrepareReads
  PROVE  SettingsInv'
<1> DEFINE dir == Settings!ActiveDir
           read == disk.json[dir]
           migrated == Settings!Migrated(read, disk.stores)
           going == IF migrated = read THEN "running" ELSE "rewrite"
<1>1. /\ disk \in Disk /\ program \in Program /\ program.pc = "prepare" /\ settled' = settled /\ dir \in Dirs
      /\ disk' = [disk EXCEPT !.stores = Settings!NoStores, !.dirs = @ \cup {dir}]
      /\ owed' = Settings!Superseded(read)
      /\ program' = [program EXCEPT !.pc = going, !.rw = migrated]
  BY ActiveDirOK DEF SettingsInv, SettingsType, Settings!PrepareReads
<1>2. read \in SettingsFile /\ disk.stores \in [Settings!Stores -> Setting]
  BY <1>1 DEF Disk
<1>3. migrated \in SettingsFile /\ Keeps(migrated, read) /\ migrated.onboarded = read.onboarded
  BY <1>2, MigratedOK
<1>4. owed' \in {owed, "none"} /\ owed' \in {"none"} \cup (Values \ {"default"})
  BY <1>1 DEF Settings!Superseded, SettingsInv, OwedInv
<1>5. ASSUME owed' # "none"
      PROVE  owed' = owed /\ (Settings!OldValue(disk.stores) = owed => migrated.setting = owed)
  BY <1>1, <1>2, <1>5, CarriedOver
<1>6. going \in {"running", "rewrite"} /\ (going = "running" => migrated = read)
  OBVIOUS
<1> HIDE DEF migrated, going, dir
<1>7. /\ disk' \in Disk /\ disk'.dirs = disk.dirs \cup {dir} /\ disk'.json = disk.json /\ disk'.guiDir = disk.guiDir
      /\ disk'.guiReset = disk.guiReset /\ disk'.legacyDir = disk.legacyDir /\ disk'.legacyReset = disk.legacyReset
  BY <1>1, OldValueOK DEF Disk
<1>8. /\ program' \in Program /\ program'.pc = going /\ program'.rw = migrated /\ program'.options = program.options
      /\ Settings!ActiveDir' = dir
  <2>1. /\ program' \in Program /\ program'.pc = going /\ program'.rw = migrated /\ program'.options = program.options
        /\ program'.dir = program.dir /\ program'.source = program.source
    <3> DEFINE first == [program EXCEPT !.pc = going]
    <3>1. /\ first \in Program /\ first.pc = going /\ first.options = program.options
          /\ first.dir = program.dir /\ first.source = program.source
      BY <1>1, <1>6 DEF Program
    <3>2. program' = [first EXCEPT !.rw = migrated]
      BY <1>1
    <3> HIDE DEF first
    <3> QED BY <1>3, <3>1, <3>2 DEF Program
  <2> QED BY <2>1 DEF dir, Settings!ActiveDir, Settings!AppliedBeforeConfig, Settings!GuiOwned
<1>9. SettledInv'
  <2> HIDE DEF disk
  <2> QED BY <1>1, <1>7 DEF SettingsInv, SettledInv
<1>10. MemoryInv'
  <2>1. disk'.json[Settings!ActiveDir'] = read
    BY <1>7, <1>8
  <2> HIDE DEF disk, program, read
  <2> QED BY <1>3, <1>6, <1>8, <2>1 DEF MemoryInv
<1>11. OwedInv'
  <2>1. program'.options = "reset" => owed' = "none"
    BY <1>4, <1>8 DEF SettingsInv, OwedInv
  <2>2. ASSUME owed' # "none"
        PROVE  (program'.pc = "rewrite" /\ program'.rw.setting = owed') \/ \E d \in Settings!Dirs : disk'.json[d].setting = owed'
    <3>1. Settings!OldValue(disk.stores) = owed \/ \E d \in Settings!Dirs : disk.json[d].setting = owed
      BY <1>1, <1>5, <2>2 DEF SettingsInv, OwedInv, Settings!OldValueIsKept
    <3>2. CASE Settings!OldValue(disk.stores) = owed /\ going = "rewrite"
      BY <1>5, <1>8, <2>2, <3>2
    <3>3. CASE Settings!OldValue(disk.stores) = owed /\ going = "running"
      <4>1. disk'.json[dir].setting = owed'
        BY <1>5, <1>6, <1>7, <2>2, <3>3
      <4> QED BY <1>1, <4>1 DEF Dirs
    <3> QED BY <1>5, <1>6, <1>7, <2>2, <3>1, <3>2, <3>3
  <2> QED BY <1>4, <2>1, <2>2 DEF OwedInv, Settings!OldValueIsKept
<1> QED BY <1>7, <1>8, <1>9, <1>10, <1>11 DEF SettingsInv, SettingsType

LEMMA PrepareWritesInv ==
  ASSUME SettingsInv, Settings!PrepareWrites
  PROVE  SettingsInv'
<1> DEFINE dir == Settings!ActiveDir
<1>1. /\ disk \in Disk /\ program \in Program /\ program.pc = "rewrite" /\ UNCHANGED <<owed, settled>> /\ dir \in Dirs
      /\ disk' = [disk EXCEPT !.json[dir] = program.rw]
      /\ program.rw \in SettingsFile /\ program.rw.onboarded = disk.json[dir].onboarded /\ Keeps(program.rw, disk.json[dir])
  BY ActiveDirOK DEF SettingsInv, SettingsType, MemoryInv, Program, Settings!PrepareWrites
<1>2. program' \in Program /\ program'.pc = "running" /\ program'.options = program.options
  BY GotoOK DEF SettingsInv, Settings!PrepareWrites
<1> HIDE DEF dir
<1>3. /\ disk' \in Disk /\ disk'.dirs = disk.dirs /\ disk'.guiDir = disk.guiDir
      /\ disk'.guiReset = disk.guiReset /\ disk'.legacyDir = disk.legacyDir /\ disk'.legacyReset = disk.legacyReset
      /\ disk'.stores = disk.stores
  BY <1>1 DEF Disk
<1>4. disk'.json[dir] = program.rw /\ \A d \in Dirs : d # dir => disk'.json[d] = disk.json[d]
  BY <1>1 DEF Disk
<1>5. SettledInv'
  <2>1. settled # "none" => settled \in Dirs
    BY <1>1 DEF SettingsInv, SettledInv, Disk
  <2> HIDE DEF disk
  <2> QED BY <1>1, <1>3, <1>4, <2>1 DEF SettingsInv, SettledInv
<1>6. MemoryInv'
  BY <1>2 DEF MemoryInv
<1>7. OwedInv'
  <2>1. program'.options = "reset" => owed' = "none"
    BY <1>1, <1>2 DEF SettingsInv, OwedInv
  <2>2. ASSUME owed # "none"
        PROVE  Settings!OldValue(disk'.stores) = owed \/ \E d \in Settings!Dirs : disk'.json[d].setting = owed
    <3>1. owed # "unset"
      BY <2>2, NoWordIsADirectory DEF SettingsInv, OwedInv
    <3>2. \/ Settings!OldValue(disk.stores) = owed
          \/ program.rw.setting = owed
          \/ \E d \in Settings!Dirs : disk.json[d].setting = owed
      BY <2>2 DEF SettingsInv, OwedInv, Settings!OldValueIsKept
    <3>3. CASE program.rw.setting = owed
      BY <1>1, <1>4, <3>3 DEF Dirs
    <3>4. ASSUME NEW d \in Dirs, disk.json[d].setting = owed
          PROVE  disk'.json[d].setting = owed
      <4>1. CASE d = dir
        BY <1>1, <1>4, <3>1, <3>4, <4>1 DEF Keeps
      <4>2. CASE d # dir
        BY <1>4, <3>4, <4>2
      <4> QED BY <4>1, <4>2
    <3> QED BY <1>3, <3>2, <3>3, <3>4 DEF Dirs
  <2> QED BY <1>1, <2>1, <2>2 DEF SettingsInv, OwedInv, Settings!OldValueIsKept
<1> QED BY <1>2, <1>3, <1>5, <1>6, <1>7 DEF SettingsInv, SettingsType

LEMMA SettingsNextInv ==
  ASSUME SettingsInv, Settings!StartupNext \/ UNCHANGED <<v1, v2, v3, v4>>
  PROVE  SettingsInv'
<1>1. CASE UNCHANGED <<v1, v2, v3, v4>>
  <2>1. SettingsType' /\ SettledInv'
    BY <1>1 DEF SettingsInv, SettingsType, SettledInv
  <2>2. MemoryInv'
    BY <1>1 DEF SettingsInv, MemoryInv, Settings!ActiveDir, Settings!AppliedBeforeConfig, Settings!GuiOwned
  <2>3. OwedInv'
    BY <1>1 DEF SettingsInv, OwedInv, Settings!OldValueIsKept
  <2> QED BY <2>1, <2>2, <2>3 DEF SettingsInv
<1>2. CASE Settings!WriteFails \/ Settings!SaveFails \/ Settings!Interrupt
  <2>1. /\ Settings!Exit /\ UNCHANGED <<disk, settled>> /\ owed' \in {owed, "none"}
        /\ program.pc \in {"write", "rewrite"} => owed' = "none"
    BY <1>2 DEF Settings!WriteFails, Settings!SaveFails, Settings!Interrupt
  <2>2. program' \in Program /\ program'.pc = "off" /\ program'.options = "plain"
    BY <2>1, ExitOK DEF SettingsInv
  <2> QED BY <2>1, <2>2, QuietOK
<1> QED
  BY <1>1, <1>2, StartInv, ChooseInv, EnsureDataDirInv, MigrateCoreSettingsInv, WriteSettingsFileInv, SaveSelectionInv,
    PrepareReadsInv, PrepareWritesInv
  DEF Settings!StartupNext, Dirs

LEMMA SettingsStepInv ==
  ASSUME part = "settings" => SettingsInv, [Next]_vars, part' = "settings"
  PROVE  SettingsInv'
<1>1. part = "settings" /\ (Settings!StartupNext \/ UNCHANGED <<v1, v2, v3, v4>>)
  BY DEF Next, vars, SyncStep, MempoolStep, LogStep, ParserStep, ConsoleStep, SettingsStep, ClockStep,
    TrafficStep, PeersStep, DialStep, SegmentsStep
<1> QED BY <1>1, SettingsNextInv

LEMMA SettingsInitInv == Settings!Init => SettingsInv
<1> SUFFICES ASSUME Settings!Init PROVE SettingsInv
  OBVIOUS
<1>1. PICK stores \in [Settings!Stores -> Setting], old \in Dirs \cup {"unset"}, reset \in BOOLEAN, dirs \in SUBSET Dirs :
        /\ disk = [dirs |-> dirs, json |-> [d \in Dirs |-> Settings!Empty], guiDir |-> "unset", guiReset |-> FALSE,
                   legacyDir |-> old, legacyReset |-> reset, stores |-> stores]
        /\ owed = IF Settings!OldValue(stores) \in {"unset", "default"} THEN "none" ELSE Settings!OldValue(stores)
  BY DEF Settings!Init, Setting, Dirs
<1>2. program = Settings!Off(0) /\ settled = "none"
  BY DEF Settings!Init
<1>3. program \in Program /\ program.pc = "off" /\ program.options = "plain"
  BY <1>2, OffOK
<1>4. Settings!Empty \in SettingsFile
  BY DEF Settings!Empty, SettingsFile, Setting
<1>5. [d \in Dirs |-> Settings!Empty] \in [Dirs -> SettingsFile]
  BY <1>4
<1>6. disk \in Disk /\ disk.stores = stores
  BY <1>1, <1>5 DEF Disk
<1>7. Settings!OldValue(stores) \in Setting
  BY OldValueOK
<1>8. owed \in {"none"} \cup (Values \ {"default"}) /\ (owed # "none" => Settings!OldValue(disk.stores) = owed)
  BY <1>1, <1>6, <1>7 DEF Setting
<1> HIDE DEF disk, program, owed, settled
<1>9. OwedInv
  BY <1>3, <1>8 DEF OwedInv, Settings!OldValueIsKept, disk, program, owed
<1> QED BY <1>2, <1>3, <1>6, <1>9 DEF SettingsInv, SettingsType, SettledInv, MemoryInv

\* Whatever starts choose, fail or crash at (ApplyToArgs, prepare_node): the
\* directory of the last completed onboarding is found again without a wizard,
\* and a value of an older version reaches a settings file or stays in its store.
THEOREM RestartsKeepChoices == Spec => []ChoicesSurviveRestarts
<1> DEFINE Inv == part = "settings" => SettingsInv
<1>1. Init => Inv
  BY SettingsInitInv DEF Init
<1>2. Inv /\ [Next]_vars => Inv'
  BY SettingsStepInv
<1>3. Inv => ChoicesSurviveRestarts
  <2> SUFFICES ASSUME part = "settings", SettingsInv PROVE Settings!ChoicesSurviveRestarts
    BY DEF ChoicesSurviveRestarts
  <2>1. Settings!OldValueIsKept
    BY DEF SettingsInv, OwedInv
  <2>2. ASSUME settled # "none"
        PROVE  Settings!Resolve(disk, "plain").dir = settled /\ ~Settings!Resolve(disk, "plain").shown
    <3>1. /\ settled \in Dirs /\ settled \in disk.dirs /\ disk.json[settled].onboarded
          /\ ~disk.guiReset /\ ~disk.legacyReset /\ disk.legacyDir = "unset"
          /\ disk.guiDir = (IF settled = Settings!Default THEN "unset" ELSE settled)
      BY <2>2 DEF SettingsInv, SettledInv, SettingsType, Disk
    <3>2. "plain" \notin Settings!Dirs /\ settled # "unset"
      BY <3>1, NoWordIsADirectory DEF Dirs
    <3>3. Settings!ReadGuiDataDir(disk).dir = settled
      BY <3>1, <3>2 DEF Settings!ReadGuiDataDir
    <3>4. ~Settings!ShouldShowDataDirChooser(disk, settled, "plain")
      BY <3>1 DEF Settings!ShouldShowDataDirChooser
    <3> DEFINE read == CASE "plain" \in Settings!Dirs -> [dir |-> "plain", source |-> "explicit"]
                         [] "plain" = "reset" -> [dir |-> Settings!Default, source |-> "default"]
                         [] OTHER -> Settings!ReadGuiDataDir(disk)
    <3>5. read.dir = settled
      BY <3>2, <3>3
    <3>6. /\ Settings!Resolve(disk, "plain").dir = read.dir
          /\ Settings!Resolve(disk, "plain").shown =
               (\/ "plain" = "reset"
                \/ "plain" \notin Settings!Dirs /\ Settings!ShouldShowDataDirChooser(disk, read.dir, "plain")
                \/ ~disk.json[read.dir].onboarded)
      BY DEF Settings!Resolve
    <3> HIDE DEF read, disk
    <3> QED BY <3>1, <3>4, <3>5, <3>6
  <2> QED BY <2>1, <2>2 DEF Settings!ChoicesSurviveRestarts, Settings!OnboardingIsRemembered
<1> QED BY <1>1, <1>2, <1>3, PTL DEF Spec

HIDE DEF disk, program, owed, settled

=============================================================================
