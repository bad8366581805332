--------------------------- MODULE EvdJsonFilter ---------------------------
(***************************************************************************)
(* The splitter of a stream of JSON texts (evd-json-filter.c): an          *)
(* automaton over characters with a stack of modes, fed with buffers that  *)
(* may end anywhere.  One character stands for each of the 31 classes of   *)
(* the source, "#" for the control characters that have none, and Byte for *)
(* the bytes above 127, of which UTF-8 makes its other characters.         *)
(***************************************************************************)
EXTENDS Integers, Sequences, TLC

CONSTANTS
  MAX_DEPTH,
  Chars,        \* all characters that are fed
  MaxBuffer,    \* characters of a buffer at most
  MaxText,      \* characters of a JSON text considered
  Streams       \* [chars, fed, errors]: the characters of a stream, how many of
                \* them at most, and after how many errors it still goes on

VARIABLE filter

Space == " "
Quote == "\""
Back == "\\"
Byte == "~"
Hex == {"0", "1", "a", "b", "c", "d", "e", "f", "A", "E"}
AllChars == {" ", "\t", "{", "}", "[", "]", ":", ",", Quote, Back, "/", "+", "-", ".", "0", "1",
             "a", "b", "c", "d", "e", "f", "l", "n", "r", "s", "t", "u", "A", "E", "*"}

(***************************************************************************)
(* state_transition_table: what each state makes of a character; what is   *)
(* not there is an error.  "-9" to "-2" are the actions of the source.     *)
(***************************************************************************)

To(chars, state) == [c \in chars |-> state]
Blank(state) == To({" ", "\t"}, state)
Value == To({"{"}, "-6") @@ To({"["}, "-5") @@ To({Quote}, "ST") @@ To({"-"}, "MI")
         @@ To({"0"}, "ZE") @@ To({"1"}, "INT") @@ To({"f"}, "F1") @@ To({"n"}, "N1") @@ To({"t"}, "T1")
Follow == To({"}"}, "-8") @@ To({"]"}, "-7") @@ To({","}, "-3")
Digits(state) == To({"0", "1"}, state)

state_transition_table ==
  [ GO |-> Blank("GO") @@ To({"{"}, "-6") @@ To({"["}, "-5"),
    OK |-> Blank("OK") @@ Follow,
    OB |-> Blank("OB") @@ To({"}"}, "-9") @@ To({Quote}, "ST"),
    KE |-> Blank("KE") @@ To({Quote}, "ST"),
    CO |-> Blank("CO") @@ To({":"}, "-2"),
    VA |-> Blank("VA") @@ Value,
    AR |-> Blank("AR") @@ Value @@ To({"]"}, "-7"),
    ST |-> To({Quote}, "-4") @@ To({Back}, "ES") @@ To(AllChars \ {"\t"}, "ST"),
    ES |-> To({Quote, Back, "/", "b", "f", "n", "r", "t"}, "ST") @@ To({"u"}, "U1"),
    U1 |-> To(Hex, "U2"), U2 |-> To(Hex, "U3"), U3 |-> To(Hex, "U4"), U4 |-> To(Hex, "ST"),
    MI |-> To({"0"}, "ZE") @@ To({"1"}, "INT"),
    ZE |-> Blank("OK") @@ Follow @@ To({"."}, "FR"),
    INT |-> Blank("OK") @@ Follow @@ To({"."}, "FR") @@ Digits("INT") @@ To({"e", "E"}, "E1"),
    FR |-> Blank("OK") @@ Follow @@ Digits("FR") @@ To({"e", "E"}, "E1"),
    E1 |-> To({"+", "-"}, "E2") @@ Digits("E3"),
    E2 |-> Digits("E3"),
    E3 |-> Blank("OK") @@ Follow @@ Digits("E3"),
    T1 |-> To({"r"}, "T2"), T2 |-> To({"u"}, "T3"), T3 |-> To({"e"}, "OK"),
    F1 |-> To({"a"}, "F2"), F2 |-> To({"l"}, "F3"), F3 |-> To({"s"}, "F4"), F4 |-> To({"e"}, "OK"),
    N1 |-> To({"u"}, "N2"), N2 |-> To({"l"}, "N3"), N3 |-> To({"l"}, "OK") ]

(***************************************************************************)
(* A filter: f.error tells that the last character was refused.  The       *)
(* stack's top is its last mode.                                           *)
(***************************************************************************)

Top(f) == f.stack[Len(f.stack)]

evd_json_filter_reset(f) ==
  [f EXCEPT !.state = "GO", !.stack = <<"DONE">>, !.content_start = -1]

evd_json_filter_error(f) == [evd_json_filter_reset(f) EXCEPT !.error = TRUE]

evd_json_filter_push(f, mode, state) ==
  IF Len(f.stack) >= MAX_DEPTH THEN evd_json_filter_error(f)
  ELSE [f EXCEPT !.stack = Append(@, mode), !.state = state]

evd_json_filter_pop(f, mode, state) ==
  IF Top(f) # mode THEN evd_json_filter_error(f)
  ELSE [f EXCEPT !.stack = SubSeq(@, 1, Len(@) - 1), !.state = state]

\* Pops one mode and pushes another.
Flip(f, from, to, state) ==
  LET g == evd_json_filter_pop(f, from, state)
  IN IF g.error THEN g ELSE evd_json_filter_push(g, to, state)

\* One of the actions.
Act(f, action) ==
  CASE action = "-9" -> evd_json_filter_pop(f, "KEY", "OK")
    [] action = "-8" -> evd_json_filter_pop(f, "OBJECT", "OK")
    [] action = "-7" -> evd_json_filter_pop(f, "ARRAY", "OK")
    [] action = "-6" -> evd_json_filter_push(f, "KEY", "OB")
    [] action = "-5" -> evd_json_filter_push(f, "ARRAY", "AR")
    [] action = "-4" -> IF Top(f) = "DONE" THEN evd_json_filter_error(f)
                        ELSE [f EXCEPT !.state = IF Top(f) = "KEY" THEN "CO" ELSE "OK"]
    [] action = "-3" -> IF Top(f) = "OBJECT" THEN Flip(f, "OBJECT", "KEY", "KE")
                        ELSE IF Top(f) = "ARRAY" THEN [f EXCEPT !.state = "VA"]
                        ELSE evd_json_filter_error(f)
    [] action = "-2" -> Flip(f, "KEY", "OBJECT", "VA")

\* A Byte is negative as a gint where char is signed, and refused before its
\* class, C_ETC, is asked for.
evd_json_filter_process(f, c, offset) ==
  LET row == state_transition_table[f.state]
      begun == [f EXCEPT !.content_start = IF @ = -1 THEN offset ELSE @]
  IN IF c \notin DOMAIN row THEN evd_json_filter_error(f)
     ELSE IF row[c] \in DOMAIN state_transition_table THEN [f EXCEPT !.state = row[c]]
     ELSE Act(begun, row[c])

\* packet_cb and the reset, at the i-th character.  Of the buffer the part from
\* content_start on is the packet's, or all when the packet began in an earlier
\* one.
Packet(f, buffer, i) ==
  LET text == IF f.cache # <<>> THEN f.cache \o SubSeq(buffer, 1, i)
              ELSE SubSeq(buffer, f.content_start + 1, i)
  IN evd_json_filter_reset([f EXCEPT !.packets = Append(@, text), !.cache = <<>>])

\* Deviation: a packet ends with the first mode that is closed.
EndsEarly(f, buffer, i) ==
  LET g == evd_json_filter_process([f EXCEPT !.text = Append(@, buffer[i])], buffer[i], i - 1)
  IN IF f.error THEN f
     ELSE IF ~g.error /\ g.content_start >= 0 /\ g.state = "OK" THEN Packet(g, buffer, i) ELSE g

\* One turn of the loop; none after a character was refused.
Turn(f, buffer, i) ==
  LET g == evd_json_filter_process([f EXCEPT !.text = Append(@, buffer[i])], buffer[i], i - 1)
  IN IF f.error THEN f
     ELSE IF ~g.error /\ g.content_start >= 0 /\ Top(g) = "DONE" THEN Packet(g, buffer, i) ELSE g

\* A packet that has begun is kept for the next buffer.
KeepRest(f, buffer) ==
  IF f.error \/ f.content_start < 0 THEN f
  ELSE [f EXCEPT !.cache = @ \o SubSeq(buffer, f.content_start + 1, Len(buffer)),
                 !.content_start = 0]

evd_json_filter_feed_len(f, buffer) ==
  LET Run[i \in 0..Len(buffer)] == IF i = 0 THEN f ELSE Turn(Run[i - 1], buffer, i)
  IN KeepRest(Run[Len(buffer)], buffer)

(***************************************************************************)
(* A stream in buffers of any size up to MaxBuffer.  text is               *)
(* what was fed since the last error and packets what was notified since   *)
(* then; stale: an earlier error left something in the cache.              *)
(***************************************************************************)

evd_json_filter_init ==
  [ state |-> "GO", stack |-> <<"DONE">>, content_start |-> -1, cache |-> <<>>,
    error |-> FALSE, packets |-> <<>>, text |-> <<>>, errors |-> 0, stale |-> FALSE,
    stream |-> {} ]

FilterInit == \E s \in Streams : filter = [evd_json_filter_init EXCEPT !.stream = s]

Feed ==
  \E n \in 1..MaxBuffer : \E buffer \in [1..n -> filter.stream.chars] :
    LET old == IF filter.error
               THEN [filter EXCEPT !.error = FALSE, !.text = <<>>, !.packets = <<>>,
                                   !.stale = @ \/ filter.cache # <<>>]
               ELSE filter
        new == evd_json_filter_feed_len(old, buffer)
    IN /\ filter.errors <= filter.stream.errors /\ Len(old.text) + n <= filter.stream.fed
       /\ filter' = [new EXCEPT !.errors = IF new.error THEN @ + 1 ELSE @]

FilterNext == Feed

FilterSpec == FilterInit /\ [][FilterNext]_filter

(***************************************************************************)
(* JSON texts of up to MaxText characters: what the filter is to accept.   *)
(* Within their brackets there is room for two characters less.  A string  *)
(* may hold any Byte.  The digits after a point may be missing, and zero   *)
(* has no exponent: this the table has of its own.                         *)
(***************************************************************************)

OneOf(S) == {<<c>> : c \in S \cap Chars}
Then(A, B) == {w[1] \o w[2] : w \in {p \in A \X B : Len(p[1]) + Len(p[2]) <= MaxText - 2}}
Maybe(A) == A \cup {<<>>}
Many(A) ==
  LET Times[n \in Nat] == IF n = 0 THEN {<<>>} ELSE LET fewer == Times[n - 1] IN Maybe(Then(A, fewer))
  IN Times[MaxText - 2]

Blanks == Many(OneOf({" ", "\t"}))
Digit == OneOf({"0", "1"})
StringChar == OneOf((AllChars \cup {Byte}) \ {Quote, Back, "\t"})
              \cup Then(OneOf({Back}), OneOf({Quote, Back, "/", "b", "f", "n", "r", "t"}))
String == Then(OneOf({Quote}), Then(Many(StringChar), OneOf({Quote})))
Fraction == Then(OneOf({"."}), Many(Digit))
Exponent == Then(OneOf({"e", "E"}), Then(Maybe(OneOf({"+", "-"})), Then(Digit, Many(Digit))))
Number ==
  Then(Maybe(OneOf({"-"})),
       Then(OneOf({"0"}), Maybe(Then(Fraction, Maybe(Exponent))))
       \cup Then(OneOf({"1"}), Then(Many(Digit), Then(Maybe(Fraction), Maybe(Exponent)))))
Literal == {<<"t", "r", "u", "e">>, <<"f", "a", "l", "s", "e">>, <<"n", "u", "l", "l">>}
Scalar == String \cup Number \cup Literal

Padded(A) == Then(Blanks, Then(A, Blanks))
List(A) == Then(A, Many(Then(OneOf({","}), A)))

\* Arrays and objects, with others in them up to d deep.
Nested[d \in Nat] ==
  LET V == Padded(IF d = 0 THEN Scalar ELSE Scalar \cup Nested[d - 1])
      Members == List(Then(Padded(String), Then(OneOf({":"}), V)))
  IN {<<"[">> \o w \o <<"]">> : w \in Blanks \cup List(V)}
     \cup {<<"{">> \o w \o <<"}">> : w \in Blanks \cup Members}
Texts == Nested[MAX_DEPTH - 2]
Beginnings == {SubSeq(x[1], 1, x[2]) : x \in {<<t, n>> \in Texts \X (0..MaxText) : n <= Len(t)}}

\* A stream as packets, each the first text from where the last one ended, and
\* the characters that are left.
RECURSIVE Split(_, _)
Split(packets, s) ==
  LET ends == {n \in 1..Len(s) : SubSeq(s, 1, n) \in Texts}
      end == CHOOSE n \in ends : \A m \in ends : n <= m
  IN IF s # <<>> /\ s[1] \in {" ", "\t"} THEN Split(packets, Tail(s))
     ELSE IF ends = {} THEN [packets |-> packets, rest |-> s]
     ELSE Split(Append(packets, SubSeq(s, 1, end)), SubSeq(s, end + 1, Len(s)))

(***************************************************************************)
(* Properties.                                                             *)
(***************************************************************************)

Modes == {"DONE", "KEY", "OBJECT", "ARRAY"}

\* The stack has room, its bottom alone is MODE_DONE, and the state goes with
\* the mode on top: stack[top] is always an element of it.
FilterTypeOK ==
  /\ filter.state \in DOMAIN state_transition_table
  /\ Len(filter.stack) \in 1..MAX_DEPTH
  /\ \A i \in 1..Len(filter.stack) : filter.stack[i] \in Modes /\ (filter.stack[i] = "DONE") = (i = 1)
  /\ filter.state \in {"OB", "KE", "CO"} => Top(filter) = "KEY"
  /\ filter.content_start \in {-1, 0} /\ (filter.state = "GO") = (Top(filter) = "DONE")

\* However a stream is cut into buffers, the packets are its JSON texts, each
\* whole and none left out (evd_json_filter_feed_len).
SplitsTexts == ~filter.stale => filter.packets = Split(<<>>, filter.text).packets

\* A sequence is malformed only when no text begins with it, as far as MaxText
\* goes, or when its last character is a Byte: "It can accept UTF-8" does not
\* hold of any of these, in a string or elsewhere (evd_json_filter_process).
RefusesNoText ==
  /\ filter.error /\ ~filter.stale =>
       \/ Split(<<>>, filter.text).rest \notin Beginnings
       \/ filter.text[Len(filter.text)] = Byte
  /\ ~filter.error => \A i \in 1..Len(filter.text) : filter.text[i] # Byte

\* The filter cuts a stream exactly into its texts.
FilterExact == SplitsTexts /\ RefusesNoText
=============================================================================
