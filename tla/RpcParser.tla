------------------------------ MODULE RpcParser ------------------------------
(***************************************************************************)
(* How the RPC console splits a command line and hides what must not enter *)
(* its history (RPCParseCommandLine, qml/models/rpccommandexecutor.cpp,    *)
(* without executing).  The user types one character at a time; "S" stands *)
(* for the name of a command of HISTORY_FILTER, "x" for any other text.    *)
(***************************************************************************)
EXTENDS Integers, Sequences, SequencesExt

CONSTANT MaxChars \* bound on the characters of a line

VARIABLE line \* the parser: its state, frames, current argument and ranges

parserVars == <<line>>

Blank == {" ", "nl"}
Alphabet == {"S", "x", "(", ")", ",", "'", "quote", "backslash", "[", "]"} \cup Blank

\* stack: per open command [words, sensitive]; arg: "" or what the current
\* argument is; depth, begin: nDepthInsideSensitive and filter_begin_pos;
\* hidden: the positions of filter_ranges; secret: the positions of argument
\* characters of a sensitive command.
Init ==
  line = [state |-> "spaces", stack |-> <<[words |-> 0, sensitive |-> FALSE]>>, arg |-> "", depth |-> 0, begin |-> 0,
          pos |-> 0, blank |-> TRUE, hidden |-> {}, secret |-> {}, outcome |-> "parsing"]

Sensitive(p) == \E i \in DOMAIN p.stack : p.stack[i].sensitive
AddChar(p, ch) ==
  [p EXCEPT !.arg = IF @ = "" THEN ch ELSE "x", !.secret = IF Sensitive(p) THEN @ \cup {p.pos} ELSE @]

\* add_to_current_stack: the first word of a frame may be a sensitive name.  It
\* reads back() of the frames before it looks whether there are any.
AddToCurrentStack(p, word) ==
  IF p.stack = << >> THEN [p EXCEPT !.outcome = "undefined"]
  ELSE LET top == Last(p.stack)
           starts == top.words = 0 /\ p.depth = 0 /\ word = "S"
           frame == [words |-> top.words + 1, sensitive |-> IF top.words = 0 THEN word = "S" ELSE top.sensitive]
       IN [p EXCEPT !.stack = Append(Front(@), frame), !.arg = "",
                    !.depth = IF starts THEN 1 ELSE @, !.begin = IF starts THEN p.pos ELSE @]

CloseOutParamsAtOnce(p) ==
  [p EXCEPT !.stack = Front(@), !.depth = 0,
            !.hidden = IF p.depth > 0 THEN @ \cup p.begin..(p.pos - 1) ELSE @,
            !.begin = 0]
CloseOutParams(p) ==
  [p EXCEPT !.stack = Front(@), !.depth = IF @ > 0 THEN @ - 1 ELSE 0,
            !.hidden = IF p.depth = 1 THEN @ \cup p.begin..(p.pos - 1) ELSE @,
            !.begin = IF p.depth = 1 THEN 0 ELSE @]

\* An opening bracket after a word nests a call; a closing one or the end of
\* the line executes the innermost frame.
Bracket(p, ch) ==
  LET nests == p.state = "argument" /\ ch = "(" /\ p.stack # << >> /\ Last(p.stack).words > 0
      opened == IF nests THEN [p EXCEPT !.depth = IF @ > 0 THEN @ + 1 ELSE 0,
                                        !.stack = Append(@, [words |-> 0, sensitive |-> FALSE])] ELSE p
      added == IF p.state = "argument" THEN [AddToCurrentStack(opened, p.arg) EXCEPT !.state = "spacesInBrackets"] ELSE p
  IN CASE p.state = "spacesInArg" \/ (p.state = "argument" /\ p.stack = << >>) -> [p EXCEPT !.outcome = "error"]
       [] OTHER -> IF ch # "(" /\ added.stack # << >> THEN [added EXCEPT !.state = "executed", !.arg = ""] ELSE added

Separator(p, ch) ==
  LET added == IF p.state = "argument" THEN AddToCurrentStack(p, p.arg) ELSE p
  IN CASE p.state = "spacesInArg" /\ p.arg = "" /\ ch = "," -> [p EXCEPT !.outcome = "error"]
       [] OTHER -> [added EXCEPT !.state = IF p.state \in {"spacesInBrackets", "argument"} /\ ch = ","
                                           THEN "spacesInArg" ELSE "spaces"]

Outer(p, ch) ==
  CASE ch = "'"               -> [p EXCEPT !.state = "singleQuoted"]
    [] ch = "quote"            -> [p EXCEPT !.state = "doubleQuoted"]
    [] ch = "backslash"        -> [p EXCEPT !.state = "escapeOuter"]
    [] ch \in {"(", ")", "nl"} -> Bracket(p, ch)
    [] ch \in {" ", ","}       -> Separator(p, ch)
    [] OTHER                   -> [AddChar(p, ch) EXCEPT !.state = "argument"]

\* After an execution: a result query in square brackets, or its value (null
\* here) becomes a word of the enclosing frame and the character is read anew.
Executed(p, ch) ==
  LET closed == CloseOutParams(p)
      resumed == IF closed.stack = << >> THEN closed ELSE AddToCurrentStack(closed, "x")
  IN CASE ch = "[" -> [p EXCEPT !.state = "query"]
       [] ch # "[" /\ p.state = "query" -> IF ch = "]" THEN [p EXCEPT !.state = "executed"] ELSE p
       [] OTHER -> Outer([resumed EXCEPT !.state = "spaces"], ch)

Quoted(p, ch) ==
  CASE p.state = "escapeOuter"                                           -> [AddChar(p, ch) EXCEPT !.state = "argument"]
    [] p.state = "escapeDoubleQuoted"                                    -> [AddChar(p, ch) EXCEPT !.state = "doubleQuoted"]
    [] <<p.state, ch>> \in {<<"singleQuoted", "'">>, <<"doubleQuoted", "quote">>} -> [p EXCEPT !.state = "argument"]
    [] p.state = "doubleQuoted" /\ ch = "backslash"                      -> [p EXCEPT !.state = "escapeDoubleQuoted"]
    [] OTHER                                                             -> AddChar(p, ch)

Parse(p, ch) ==
  LET next == CASE p.state \in {"executed", "query"} -> Executed(p, ch)
                [] p.state \in {"spaces", "spacesInArg", "spacesInBrackets", "argument"} -> Outer(p, ch)
                [] OTHER -> Quoted(p, ch)
  IN [next EXCEPT !.pos = p.pos + 1, !.blank = ch \in Blank]

\* submitCommand trims the line before it is parsed.
TypeCharacter(ch) ==
  /\ line.outcome = "parsing" /\ line.pos < MaxChars
  /\ line.pos = 0 => ch \notin Blank
  /\ line' = Parse(line, ch)

\* The line terminator is parsed too; a command still open is closed.
EndOfLine ==
  /\ line.outcome = "parsing" /\ ~line.blank
  /\ LET ended == Parse(line, "nl")
         closed == IF ended.state = "executed" THEN CloseOutParams(ended) ELSE ended
     IN line' = [closed EXCEPT !.outcome =
                   IF ended.outcome # "parsing" THEN ended.outcome
                   ELSE IF ended.state \in {"executed", "argument", "spaces"} THEN "accepted" ELSE "unbalanced"]

ParserNext == EndOfLine \/ \E ch \in Alphabet : TypeCharacter(ch)

----------------------------------------------------------------------------
(* Properties *)

\* A line that enters the history shows no character of an argument of a
\* sensitive command, however calls are nested, quoted or queried, if every
\* bracket it opens is closed: of those left open the end of the line closes
\* one.  The ranges never begin at the line's start (the code's assertion).
SecretsAreHidden ==
  /\ line.outcome = "accepted" /\ line.stack = << >> => line.secret \subseteq line.hidden
  /\ line.depth > 0 => line.begin > 0 /\ Sensitive(line)
=============================================================================
