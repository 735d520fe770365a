------------------------------ MODULE SQLText -------------------------------
(***************************************************************************)
(* How the driver reads SQL text: counting markers, turning :name into ?,  *)
(* the package tokenizer, and wrapping an INSERT for its generated keys.   *)
(*                                                                         *)
(* A text is a sequence of characters; "a" stands for the letters, "nl"    *)
(* and "sp" for white space, "dq" for the double quote and "INSERT" for    *)
(* the word.                                                               *)
(***************************************************************************)
EXTENDS Integers, Sequences, SequencesExt

At(q, i) == IF i \in DOMAIN q THEN q[i] ELSE "end"
ScanStates == {"normal", "single", "double", "line", "block"}
Unterminated == {"single", "double", "block"}
NameChars == {"a", "1"}

(* The end (exclusive) of the name that starts at i.                       *)
NameEnd(q, i) == LET k == SelectInSubSeq(q, i, Len(q), LAMBDA c : c \notin NameChars)
                 IN  IF k = 0 THEN Len(q) + 1 ELSE k

Copy(q, i, n, state) ==
  [to |-> i + n, state |-> state, out |-> SubSeq(q, i, i + n - 1), marks |-> 0, names |-> <<>>]

Marker(to, names) ==
  [to |-> to, state |-> "normal", out |-> <<"?">>, marks |-> 1, names |-> names]

(* Inside a quoted literal a doubled quote is one of its characters.       *)
Quoted(q, i, state, quote) ==
  IF q[i] # quote THEN Copy(q, i, 1, state)
  ELSE IF At(q, i + 1) = quote THEN Copy(q, i, 2, state)
  ELSE Copy(q, i, 1, "normal")

(* Mutant: the doubled colon is not skipped.                               *)
Normal_OneColon(q, i) ==
  LET next == At(q, i + 1)
  IN  CASE q[i] = "'" -> Copy(q, i, 1, "single")
        [] q[i] = "dq" -> Copy(q, i, 1, "double")
        [] q[i] = "-" /\ next = "-" -> Copy(q, i, 2, "line")
        [] q[i] = "/" /\ next = "*" -> Copy(q, i, 2, "block")
        [] q[i] = "?" -> Marker(i + 1, <<>>)
        [] q[i] = ":" /\ next = "a" ->
             Marker(NameEnd(q, i + 1), <<SubSeq(q, i + 1, NameEnd(q, i + 1) - 1)>>)
        [] OTHER -> Copy(q, i, 1, "normal")

(* Outside of literals and comments: what opens one, ?, :: and :name.      *)
Normal(q, i) ==
  LET next == At(q, i + 1)
  IN  CASE q[i] = "'" -> Copy(q, i, 1, "single")
        [] q[i] = "dq" -> Copy(q, i, 1, "double")
        [] q[i] = "-" /\ next = "-" -> Copy(q, i, 2, "line")
        [] q[i] = "/" /\ next = "*" -> Copy(q, i, 2, "block")
        [] q[i] = "?" -> Marker(i + 1, <<>>)
        [] q[i] = ":" /\ next = ":" -> Copy(q, i, 2, "normal")
        [] q[i] = ":" /\ next = "a" ->
             Marker(NameEnd(q, i + 1), <<SubSeq(q, i + 1, NameEnd(q, i + 1) - 1)>>)
        [] OTHER -> Copy(q, i, 1, "normal")

ScanStep(q, i, state) ==
  CASE state = "normal" -> Normal(q, i)
    [] state = "single" -> Quoted(q, i, state, "'")
    [] state = "double" -> Quoted(q, i, state, "dq")
    [] state = "line"   -> Copy(q, i, 1, IF q[i] = "nl" THEN "normal" ELSE "line")
    [] state = "block"  -> IF q[i] = "*" /\ At(q, i + 1) = "/" THEN Copy(q, i, 2, "normal")
                           ELSE Copy(q, i, 1, "block")

(* What a step has found before what the rest has.                         *)
Joined(s, r) ==
  [state |-> r.state, out |-> s.out \o r.out, marks |-> s.marks + r.marks,
   names |-> s.names \o r.names]

(* The loop both scanners share, from character 1 in the given state.      *)
Scan(q) ==
  LET run[i \in 1..(Len(q) + 1), state \in ScanStates] ==
        IF i > Len(q) THEN [state |-> state, out |-> <<>>, marks |-> 0, names |-> <<>>]
        ELSE LET s == ScanStep(q, i, state) IN Joined(s, run[s.to, s.state])
  IN  run[1, "normal"]

(* The number of markers, or -1 for an unterminated literal or comment.    *)
countSQLPlaceholders(q) ==
  LET s == Scan(q) IN IF s.state \in Unterminated THEN -1 ELSE s.marks

(* The text with ? for every name, and the names in order.                 *)
rewriteNamedParams(q) ==
  LET s == Scan(q)
  IN  IF ~Contains(q, ":") \/ (s.state \notin Unterminated /\ s.names = <<>>)
      THEN [ok |-> TRUE, text |-> q, names |-> <<>>]
      ELSE IF s.state \in Unterminated THEN [ok |-> FALSE]
      ELSE [ok |-> TRUE, text |-> s.out, names |-> s.names]

(* args is a function from the names given to their values.                *)
reorderNamedArgs(names, args) ==
  IF \E i \in DOMAIN names : names[i] \notin DOMAIN args THEN [ok |-> FALSE]
  ELSE [ok |-> TRUE, args |-> [i \in DOMAIN names |-> args[names[i]]]]

-----------------------------------------------------------------------------
(* The markers the package tokenizer sees: comments nest, a doubled quote  *)
(* is the end of one literal and the start of the next.  mode is 0 outside *)
(* of comments, a nesting depth, or a line comment or literal below 0.     *)
LineMode == -1
QuoteMode(c) == CASE c = "'" -> -2 [] c = "dq" -> -3 [] OTHER -> 0

(* Mutant: a line comment goes on to the end of the text.                  *)
TokenMode_Line(q, i, mode) ==
  CASE mode = LineMode -> LineMode
    [] mode < LineMode -> IF QuoteMode(q[i]) = mode THEN 0 ELSE mode
    [] mode = 0 /\ q[i] = "-" /\ At(q, i + 1) = "-" -> LineMode
    [] OTHER -> IF mode = 0 THEN QuoteMode(q[i]) ELSE mode

TokenMode(q, i, mode) ==
  CASE mode = LineMode -> IF q[i] = "nl" THEN 0 ELSE LineMode
    [] mode < LineMode -> IF QuoteMode(q[i]) = mode THEN 0 ELSE mode
    [] mode = 0 /\ q[i] = "-" /\ At(q, i + 1) = "-" -> LineMode
    [] OTHER -> IF mode = 0 THEN QuoteMode(q[i]) ELSE mode

packageTokens(q) ==
  LET pair(i, a, b) == q[i] = a /\ At(q, i + 1) = b
      count[i \in 1..(Len(q) + 1), mode \in -3..Len(q)] ==
        IF i > Len(q) THEN 0
        ELSE IF mode >= 0 /\ pair(i, "/", "*") THEN count[i + 2, mode + 1]
        ELSE IF mode > 0 /\ pair(i, "*", "/") THEN count[i + 2, mode - 1]
        ELSE (IF mode = 0 /\ q[i] = "?" THEN 1 ELSE 0) + count[i + 1, TokenMode(q, i, mode)]
  IN  count[1, 0]

-----------------------------------------------------------------------------
Space == {"sp", "nl"}
TrimLeftSpace(q) == SubSeq(q, SelectInSeq(Append(q, "end"), LAMBDA c : c \notin Space), Len(q))
TrimRightSpace(q) == Reverse(TrimLeftSpace(Reverse(q)))

(* Leading white space and comments go.                                    *)
skipLeadingSQLNoise(q) ==
  LET rest[i \in 1..(Len(q) + 1)] ==
        LET closing == {j \in (i + 2)..(Len(q) - 1) : q[j] = "*" /\ q[j + 1] = "/"}
            newline == SelectInSubSeq(q, i, Len(q), LAMBDA c : c = "nl")
        IN  CASE i > Len(q) -> <<>>
              [] i <= Len(q) /\ q[i] \in Space -> rest[i + 1]
              [] At(q, i) = "-" /\ At(q, i + 1) = "-" ->
                   IF newline = 0 THEN <<>> ELSE rest[newline + 1]
              [] At(q, i) = "/" /\ At(q, i + 1) = "*" ->
                   IF closing = {} THEN <<>> ELSE rest[(CHOOSE j \in closing : \A k \in closing : j <= k) + 2]
              [] OTHER -> SubSeq(q, i, Len(q))
  IN  rest[1]

isInsertStatement(q) ==
  LET t == skipLeadingSQLNoise(q)
  IN  At(t, 1) = "INSERT" /\ At(t, 2) \in {"sp", "nl", "(", "/", "-", "end"}

(* Mutant: the closing parenthesis follows the text on its line.           *)
wrapInsertForGeneratedKeys_OneLine(q) ==
  IF ~isInsertStatement(q) THEN [ok |-> FALSE]
  ELSE [ok |-> TRUE, text |-> <<"(", "nl">> \o TrimRightSpace(TrimLeftSpace(q)) \o <<")">>]

(* SELECT ... FROM NEW TABLE( and ) around the text, without one trailing  *)
(* semicolon.                                                              *)
wrapInsertForGeneratedKeys(q) ==
  LET body == TrimRightSpace(TrimLeftSpace(q))
      cut  == IF body # <<>> /\ Last(body) = ";" THEN TrimRightSpace(Front(body)) ELSE body
  IN  IF ~isInsertStatement(q) THEN [ok |-> FALSE]
      ELSE [ok |-> TRUE, text |-> <<"(", "nl">> \o cut \o <<"nl", ")">>]
=============================================================================
