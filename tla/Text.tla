-------------------------------- MODULE Text --------------------------------
(***************************************************************************)
(* The functions of src/src/util/sds.c that take a configuration apart:    *)
(* splitting into lines, trimming, quoting and splitting into arguments.   *)
(* A text is the sequence of its bytes.  A byte is a string of the model:  *)
(* a character by itself, a blank as "sp", a double quote as "dq", the     *)
(* control characters by their C names, "ctl" for one that has no escape   *)
(* of its own (0x01).  No text holds a NUL byte: At gives it past the end. *)
(* A loop of the code is the function of what it has after so many turns.  *)
(***************************************************************************)
EXTENDS Integers, Sequences, SequencesExt

Nul == "nul"
At(s, p) == IF p <= Len(s) THEN s[p] ELSE Nul

Space     == {"sp", "nl", "cr", "tab", "vt"}   \* isspace
Separator == {"sp", "nl", "cr", "tab", Nul}    \* what ends a token outside quotes
Digit     == {"0", "1"}
Hex       == Digit \cup {"a", "b"}

----------------------------------------------------------------------------
SplitStart == [start |-> 1, tokens |-> <<>>]

\* One turn of the loop of sdssplitlen, at byte j: b is where the element
\* begins that it is in, and the elements before it.
SplitTurn(s, sep, b, j) ==
    IF s[j] # sep THEN b
    ELSE [start |-> j + 1, tokens |-> Append(b.tokens, SubSeq(s, b.start, j - 1))]

\* sdssplitlen with a separator of one byte, the only one it is used with.
\* The last element is the rest, which may be empty; an empty text has none.
SplitLen(s, sep) ==
    LET split[j \in 0..Len(s)] ==
            IF j = 0 THEN SplitStart ELSE SplitTurn(s, sep, split[j - 1], j)
        last == split[Len(s)]
    IN  IF s = <<>> THEN <<>> ELSE Append(last.tokens, SubSeq(s, last.start, Len(s)))

\* sdstrim.
Trim(s, cset) ==
    LET Kept == {i \in 1..Len(s) : s[i] \notin cset}
    IN  IF Kept = {} THEN <<>> ELSE SubSeq(s, Min(Kept), Max(Kept))

----------------------------------------------------------------------------
\* The control characters with a letter of their own.
Letter == [nl |-> "n", cr |-> "r", tab |-> "t", bel |-> "a", bs |-> "b"]

\* What sdscatrepr writes for a byte.
Escape(c) ==
    CASE c \in {"\\", "dq"}   -> <<"\\", c>>
      [] c \in DOMAIN Letter -> <<"\\", Letter[c]>>
      [] c = "vt"            -> <<"\\", "x", "0", "b">>
      [] c = "ctl"           -> <<"\\", "x", "0", "1">>
      [] OTHER               -> <<c>>

\* Variant with a bug, for the mutants of PROJECT.json: a backslash is copied as it is.
CatReprBackslash(s) ==
    LET repr[i \in 0..Len(s)] ==
            IF i = 0 THEN <<"dq">>
            ELSE repr[i - 1] \o (IF s[i] = "\\" THEN <<"\\">> ELSE Escape(s[i]))
    IN  Append(repr[Len(s)], "dq")

\* sdscatrepr: what it appends for the argument s.
CatRepr(s) ==
    LET repr[i \in 0..Len(s)] == IF i = 0 THEN <<"dq">> ELSE repr[i - 1] \o Escape(s[i])
    IN  Append(repr[Len(s)], "dq")

\* The byte an escape stands for: a letter, or two hex digits.
Unescape(c) ==
    IF \E k \in DOMAIN Letter : Letter[k] = c THEN CHOOSE k \in DOMAIN Letter : Letter[k] = c
    ELSE c

Byte(high, low) ==
    CASE high = "0" /\ low = "1" -> "ctl"
      [] high = "0" /\ low = "b" -> "vt"
      [] OTHER                   -> high \o low

TokenStart(p) == [p |-> p, quote |-> "", current |-> <<>>, state |-> "more"]

\* One turn of the loop of sdssplitargs over the bytes of a token: t is where
\* it is in s, the quote it is in, what the token has so far, and whether it
\* is done or err, which unbalanced quotes are and a closing quote that
\* something follows.
TokenTurn(s, t) ==
    LET c == At(s, t.p)  d == At(s, t.p + 1)
        Keep(byte, n)  == [t EXCEPT !.p = @ + n, !.current = Append(@, byte)]
        Leave(state, n) == [t EXCEPT !.p = @ + n, !.state = state]
    IN  IF t.state # "more" THEN t
        ELSE CASE t.quote # "" /\ c = Nul -> Leave("err", 0)
               [] t.quote # "" /\ c = t.quote ->
                     Leave(IF d \in Space \cup {Nul} THEN "done" ELSE "err", 1)
               [] t.quote = "dq" /\ c = "\\" /\ d # Nul ->
                     IF d = "x" /\ At(s, t.p + 2) \in Hex /\ At(s, t.p + 3) \in Hex
                     THEN Keep(Byte(At(s, t.p + 2), At(s, t.p + 3)), 4)
                     ELSE Keep(Unescape(d), 2)
               [] t.quote = "'" /\ c = "\\" /\ d = "'" -> Keep("'", 2)
               [] t.quote = "" /\ c \in Separator -> Leave("done", IF c = Nul THEN 0 ELSE 1)
               [] t.quote = "" /\ c \in {"dq", "'"} -> [t EXCEPT !.p = @ + 1, !.quote = c]
               [] OTHER -> Keep(c, 1)

\* One token from position p of s.  No text has more turns than bytes and one.
Token(s, p) ==
    LET turn[n \in 0..(Len(s) + 1)] ==
            IF n = 0 THEN TokenStart(p) ELSE TokenTurn(s, turn[n - 1])
    IN  turn[Len(s) + 1]

ArgsStart == [p |-> 1, argv |-> <<>>, state |-> "more"]

\* One turn of its outer loop: a blank is skipped or a token put into argv.
ArgsTurn(s, a) ==
    LET c == At(s, a.p) IN
    CASE a.state # "more" -> a
      [] a.state = "more" /\ c \in Space -> [a EXCEPT !.p = @ + 1]
      [] a.state = "more" /\ c = Nul -> [a EXCEPT !.state = "done"]
      [] OTHER ->
            LET t == Token(s, a.p)
            IN  IF t.state = "done"
                THEN [a EXCEPT !.p = t.p, !.argv = Append(@, t.current)]
                ELSE [a EXCEPT !.state = "err"]

\* What it returns then: ok is FALSE for NULL.
ArgsEnd(a) ==
    IF a.state = "done" THEN [ok |-> TRUE, argv |-> a.argv] ELSE [ok |-> FALSE, argv |-> <<>>]

\* sdssplitargs.
SplitArgs(s) ==
    LET turn[n \in 0..(Len(s) + 1)] ==
            IF n = 0 THEN ArgsStart ELSE ArgsTurn(s, turn[n - 1])
    IN  ArgsEnd(turn[Len(s) + 1])

\* sdstolower, for the one capital letter the model has.
ToLower(s) == [i \in 1..Len(s) |-> IF s[i] = "P" THEN "p" ELSE s[i]]
=============================================================================
