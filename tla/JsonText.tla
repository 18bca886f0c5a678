-------------------------------- MODULE JsonText -------------------------------
(***************************************************************************)
(* The texts of json-c: a value is written by json_object_to_json_string   *)
(* (json_object.c) and read by the tokener (json_tokener.c), which may be  *)
(* given the text in pieces and keeps its state between them.              *)
(*                                                                         *)
(* A character is a string; NUL ends a text.  Words are shortened (see     *)
(* Word), letters have no case, and the code of an escape has two digits.  *)
(* A value is [k |-> kind, s |-> characters, e |-> elements with a key     *)
(* (empty in an array)], a null being a NULL pointer; a                    *)
(* double keeps the text it was read from (json_object_new_double_s).      *)
(***************************************************************************)
EXTENDS Integers, Sequences, SequencesExt

CONSTANTS
  Samples,     \* [value, flags, strict] to write and read
  JsonTexts,   \* other texts: [text, strict, err, value, others]
  MaxDepth     \* of the tokener

VARIABLES
  sample,      \* the text: [text, strict, err, value, others]; others are the
               \* outcomes [err, value] it may have besides when it comes in pieces
  pieced,      \* it came in more than one piece (history)
  pos,         \* characters consumed of it
  limit,       \* where the piece of the call ends
  tok,         \* the tokener
  loc,         \* local variables of json_tokener_parse_ex
  calling,     \* inside json_tokener_parse_ex
  outcome          \* what the last call gave: [err, value]
jsonVars == <<sample, pieced, pos, limit, tok, loc, calling, outcome>>

Json(kind, s) == [k |-> kind, s |-> s, e |-> <<>>]
Holding(kind, e) == [k |-> kind, s |-> <<>>, e |-> e]
Null == Json("null", <<>>)

--------------------------------------------------------------------------------
(* Writing *)

Word == [null |-> <<"n", "u", "l">>, nan |-> <<"n", "a">>, true |-> <<"t", "e">>,
         false |-> <<"f", "s", "e">>, inf |-> <<"i", "n", "y">>]

\* json_escape_str; "q" is the quotation mark, "lf" stands for the characters with
\* an escape of their own, "ctl" for the other control characters.
Escape(c) ==
  IF c = "lf" THEN <<"\\", "n">>
  ELSE IF c \in {"q", "\\", "/"} THEN <<"\\", c>>
  ELSE IF c = "ctl" THEN <<"\\", "u", "0", "1">>
  ELSE <<c>>

Quoted(s) == <<"q">> \o FlattenSeq([i \in 1..Len(s) |-> Escape(s[i])]) \o <<"q">>

\* What the flags put around the children, and before the closing bracket.
Spaced(flags) == IF flags = "plain" THEN <<>> ELSE <<" ">>
Line(flags) == IF flags = "pretty" THEN <<"lf">> ELSE <<>>
Listing(open, parts, close, flags) ==
  <<open>> \o Line(flags)
  \o FlattenSeq([i \in 1..Len(parts) |-> (IF i = 1 THEN <<>> ELSE <<",">> \o Line(flags)) \o Spaced(flags) \o parts[i]])
  \o (IF parts = <<>> THEN <<>> ELSE Line(flags)) \o Spaced(flags) \o <<close>>

RECURSIVE to_json_string(_, _)

json_object_object_to_json_string(v, flags) ==
  Listing("{", [i \in 1..Len(v) |-> Quoted(v[i].key) \o <<":">> \o (IF flags = "spaced" THEN <<" ">> ELSE <<>>) \o to_json_string(v[i].val, flags)], "}", flags)

json_object_array_to_json_string(v, flags) == Listing("[", [i \in 1..Len(v) |-> to_json_string(v[i].val, flags)], "]", flags)

to_json_string(j, flags) ==
  CASE j.k = "null" -> Word.null
    [] j.k = "bool" -> Word[j.s[1]]
    [] j.k \in {"int", "double"} -> j.s
    [] j.k = "nan" -> Word.nan
    [] j.k = "inf" -> j.s \o Word.inf
    [] j.k = "string" -> Quoted(j.s)
    [] j.k = "array" -> json_object_array_to_json_string(j.e, flags)
    [] j.k = "object" -> json_object_object_to_json_string(j.e, flags)

--------------------------------------------------------------------------------
(* The tokener *)

Level == [state |-> "eatws", saved |-> "start", current |-> Null, field |-> <<>>]
Tokener == [stack |-> <<Level>>, pb |-> <<>>, st_pos |-> 0, quote |-> "q", isDouble |-> FALSE, ucs |-> <<>>, err |-> "success"]
Locals == [obj |-> Null, hi |-> FALSE, caseLen |-> 0, exponent |-> FALSE, minusAt |-> 1]

Depth(t) == Len(t.stack)
Top(t) == t.stack[Len(t.stack)]
SetTop(t, level) == [t EXCEPT !.stack[Len(t.stack)] = level]
State(t, s) == [t EXCEPT !.stack[Len(t.stack)].state = s]
\* saved_state = next; state = eatws.
Then(t, next) == [t EXCEPT !.stack[Len(t.stack)].state = "eatws", !.stack[Len(t.stack)].saved = next]
Finished(t, value) == SetTop(Then(t, "finish"), [Top(Then(t, "finish")) EXCEPT !.current = value])

\* How a character leaves the switch: consumed, looked at again, or the call ends.
Eat(t, l) == [tok |-> t, loc |-> l, by |-> 1, out |-> FALSE]
Redo(t, l) == [tok |-> t, loc |-> l, by |-> 0, out |-> FALSE]
Fail(t, l, err) == [tok |-> [t EXCEPT !.err = err], loc |-> l, by |-> 0, out |-> TRUE]

Space == {" ", "lf"}
Digits == {"0", "1", "2"}
NumberChars == Digits \cup {"-", ".", "e"}
Hex == {"0", "1", "4", "8", "c", "d"}

eatws(t, l, c, strict) ==
  IF c \in Space THEN Eat(t, l)
  ELSE IF c = "/" /\ ~strict THEN Eat(State([t EXCEPT !.pb = <<c>>], "comment_start"), l)
  ELSE Redo(State(t, Top(t).saved), l)

start(t, l, c, strict) ==
  LET clean == [t EXCEPT !.pb = <<>>, !.st_pos = 0]
  IN CASE c = "{" -> Eat(SetTop(t, [Level EXCEPT !.saved = "field_start", !.current = Json("object", <<>>)]), l)
       [] c = "[" -> Eat(SetTop(t, [Level EXCEPT !.saved = "array", !.current = Json("array", <<>>)]), l)
       [] c = "i" -> Redo(State(clean, "inf"), l)
       [] c = "n" -> Redo(State(clean, "null"), l)
       [] c \in {"t", "f"} -> Redo(State(clean, "boolean"), l)
       [] c = "q" \/ (c = "'" /\ ~strict) -> Eat(State([clean EXCEPT !.quote = c], "string"), l)
       [] c \in Digits \cup {"-"} -> Redo(State([clean EXCEPT !.isDouble = FALSE], "number"), l)
       [] OTHER -> Fail(t, l, "unexpected")

\* A value is complete: it becomes obj, and the level below goes on with it.
finish(t, l) ==
  IF Depth(t) = 1 THEN Fail(t, l, t.err)
  ELSE Redo([t EXCEPT !.stack = Front(@)], [l EXCEPT !.obj = Top(t).current])

inf(t, l, c) ==
  IF t.st_pos = Len(Word.inf) THEN Redo(Finished(t, Json("inf", IF t.pb # <<>> /\ t.pb[1] = "-" THEN <<"-">> ELSE <<>>)), l)
  ELSE IF c = Word.inf[t.st_pos + 1] THEN Eat([t EXCEPT !.st_pos = @ + 1], l)
  ELSE Fail(t, l, "unexpected")

\* The first n characters of the buffer are those of the word, n at most its length.
SpellsPart(word, t) == LET n == IF t.st_pos + 1 < Len(word) THEN t.st_pos + 1 ELSE Len(word) IN SubSeq(t.pb, 1, n) = SubSeq(word, 1, n)

\* null, nan, true and false: a word is complete when the character after it comes.
word(t, l, c, first, second, ofFirst, ofSecond, err) ==
  LET u == [t EXCEPT !.pb = Append(@, c)]
      next == Eat([u EXCEPT !.st_pos = @ + 1], l)
  IN IF SpellsPart(first, u) THEN IF t.st_pos = Len(first) THEN Redo(Finished(u, ofFirst), l) ELSE next
     ELSE IF SpellsPart(second, u) THEN IF t.st_pos = Len(second) THEN Redo(Finished(u, ofSecond), l) ELSE next
     ELSE Fail(u, l, err)

comment(t, l, c) ==
  CASE Top(t).state = "comment_start" ->
         IF c = "*" THEN Eat(State(t, "comment"), l) ELSE IF c = "/" THEN Eat(State(t, "comment_eol"), l) ELSE Fail(t, l, "comment")
    [] Top(t).state = "comment" -> Eat(IF c = "*" THEN State(t, "comment_end") ELSE t, l)
    [] Top(t).state = "comment_eol" -> Eat(IF c = "lf" THEN State(t, "eatws") ELSE t, l)
    [] Top(t).state = "comment_end" -> Eat(State(t, IF c = "/" THEN "eatws" ELSE "comment"), l)

\* A string, or the name of a field.
string(t, l, c) ==
  IF c = t.quote
  THEN IF Top(t).state = "string" THEN Eat(Finished(t, Json("string", t.pb)), l)
       ELSE Eat(SetTop(Then(t, "field_end"), [Top(Then(t, "field_end")) EXCEPT !.field = t.pb]), l)
  ELSE IF c = "\\" THEN Eat(SetTop(t, [Top(t) EXCEPT !.saved = Top(t).state, !.state = "escape"]), l)
  ELSE Eat([t EXCEPT !.pb = Append(@, c)], l)

escape(t, l, c) ==
  LET back == State(t, Top(t).saved)
  IN CASE c \in {"q", "\\", "/"} -> Eat([back EXCEPT !.pb = Append(@, c)], l)
       [] c = "n" -> Eat([back EXCEPT !.pb = Append(@, "lf")], l)
       [] c = "u" -> Eat(State([t EXCEPT !.ucs = <<>>, !.st_pos = 0], "unicode"), l)
       [] OTHER -> Fail(t, l, "string")

\* The character of a code; surrogates stand for themselves.
Coded(ucs) == IF ucs = <<"0", "1">> THEN "ctl" ELSE IF ucs = <<"d", "8">> THEN "high" ELSE IF ucs = <<"d", "c">> THEN "low" ELSE "other"

\* A code is complete.  A high one waits for a second code if "\u" follows in
\* this piece; without it, and for a low one alone, the replacement is taken.  When
\* the piece ends behind the "\u", the code that is complete is kept as it is.
coded(t, l, ahead) ==
  LET ch == Coded(t.ucs)
      u == IF l.hi /\ ch # "low" THEN [t EXCEPT !.pb = Append(@, "repl")] ELSE t
      put(x) == Eat(State([u EXCEPT !.pb = Append(@, x)], Top(t).saved), [l EXCEPT !.hi = FALSE])
  IN IF l.hi /\ ch = "low" THEN put("pair")
     ELSE IF ch = "high" /\ ~IsPrefix(<<"\\", "u">>, ahead) THEN put("repl")
     ELSE IF ch = "high"
     THEN [Eat(IF Len(ahead) = 2 THEN u ELSE [u EXCEPT !.ucs = <<>>, !.st_pos = 0], [l EXCEPT !.hi = TRUE]) EXCEPT !.by = 3]
     ELSE put(IF ch = "low" THEN "repl" ELSE ch)

unicode(t, l, c, ahead) ==
  LET u == [t EXCEPT !.ucs = Append(@, c), !.st_pos = @ + 1]
  IN IF c \notin Hex THEN Fail(t, l, "string")
     ELSE IF u.st_pos = 2 THEN coded(u, l, ahead)
     ELSE Eat(u, l)

\* json_parse_int64 and json_parse_double: the longest number the text begins with,
\* none if there is no digit (with the number characters of this model that means:
\* a sign alone, or nothing after it but an exponent).
HasDigit(s) == s # <<>> /\ (s[1] \in Digits \/ (Len(s) > 1 /\ s[1] = "-" /\ s[2] \in Digits))

\* What strtoll takes of it: an optional sign and the digits.
Integral(s) == SubSeq(s, 1, CHOOSE n \in 1..Len(s) : (\A i \in 2..n : s[i] \in Digits) /\ (n < Len(s) => s[n + 1] \notin Digits))

number(t, l, c, strict) ==
  LET n == l.caseLen + 1
  IN IF c \in NumberChars
     THEN IF \/ c = "." /\ t.isDouble
             \/ c = "e" /\ l.exponent
             \/ c = "-" /\ n # l.minusAt
          THEN Fail(t, l, "number")
          ELSE Eat([t EXCEPT !.pb = Append(@, c), !.isDouble = @ \/ c \in {".", "e"}],
                   [l EXCEPT !.caseLen = n, !.exponent = @ \/ c = "e", !.minusAt = IF c = "e" THEN n + 1 ELSE @])
     ELSE IF t.pb[1] = "-" /\ l.caseLen <= 1 /\ c = "i" THEN Redo(State([t EXCEPT !.st_pos = 0], "inf"), l)
     ELSE IF ~HasDigit(t.pb) THEN Fail(t, l, "number")
     ELSE IF t.isDouble THEN Redo(Finished(t, Json("double", t.pb)), l)
     ELSE IF strict /\ t.pb[1] = "0" /\ ToSet(Integral(t.pb)) # {"0"} THEN Fail(t, l, "number")
     ELSE Redo(Finished(t, Json("int", Integral(t.pb))), l)

\* One level more, for an element or a member; the level starts from nothing.
Nested(t, l, state) ==
  IF Depth(t) >= MaxDepth THEN Fail(t, l, "depth")
  ELSE Redo([State(t, state) EXCEPT !.stack = Append(State(t, state).stack, Level)], l)

array(t, l, c, strict) ==
  CASE Top(t).state \in {"array", "array_after_sep"} ->
         IF c # "]" THEN Nested(t, l, "array_add")
         ELSE IF strict /\ Top(t).state = "array_after_sep" THEN Fail(t, l, "unexpected")
         ELSE Eat(Then(t, "finish"), l)
    [] Top(t).state = "array_add" ->
         Redo(SetTop(Then(t, "array_sep"), [Top(Then(t, "array_sep")) EXCEPT !.current.e = Append(@, [key |-> <<>>, val |-> l.obj])]), l)
    [] Top(t).state = "array_sep" ->
         IF c = "]" THEN Eat(Then(t, "finish"), l) ELSE IF c = "," THEN Eat(Then(t, "array_after_sep"), l) ELSE Fail(t, l, "array")

\* json_object_object_add: a key that is there keeps its place.
object_add(members, key, val) ==
  IF \E i \in DOMAIN members : members[i].key = key
  THEN [i \in DOMAIN members |-> IF members[i].key = key THEN [key |-> key, val |-> val] ELSE members[i]]
  ELSE Append(members, [key |-> key, val |-> val])

object(t, l, c, strict) ==
  CASE Top(t).state \in {"field_start", "field_start_after_sep"} ->
         IF c = "}" THEN IF strict /\ Top(t).state = "field_start_after_sep" THEN Fail(t, l, "unexpected") ELSE Eat(Then(t, "finish"), l)
         ELSE IF c \in {"q", "'"} THEN Eat(State([t EXCEPT !.quote = c, !.pb = <<>>], "field"), l)
         ELSE Fail(t, l, "key_name")
    [] Top(t).state = "field_end" -> IF c = ":" THEN Eat(Then(t, "value"), l) ELSE Fail(t, l, "key_sep")
    [] Top(t).state = "value" -> Nested(t, l, "value_add")
    [] Top(t).state = "value_add" ->
         Redo(SetTop(Then(t, "sep"), [Top(Then(t, "sep")) EXCEPT !.current.e = object_add(@, Top(t).field, l.obj), !.field = <<>>]), l)
    [] Top(t).state = "sep" ->
         IF c = "}" THEN Eat(Then(t, "finish"), l) ELSE IF c = "," THEN Eat(Then(t, "field_start_after_sep"), l) ELSE Fail(t, l, "value_sep")

\* The switch over the states.
Handle(t, l, c, ahead, strict) ==
  CASE Top(t).state = "eatws" -> eatws(t, l, c, strict)
    [] Top(t).state = "start" -> start(t, l, c, strict)
    [] Top(t).state = "finish" -> finish(t, l)
    [] Top(t).state = "inf" -> inf(t, l, c)
    [] Top(t).state = "null" -> word(t, l, c, Word.null, Word.nan, Null, Json("nan", <<>>), "null")
    [] Top(t).state = "boolean" -> word(t, l, c, Word.true, Word.false, Json("bool", <<"true">>), Json("bool", <<"false">>), "boolean")
    [] Top(t).state \in {"comment_start", "comment", "comment_eol", "comment_end"} -> comment(t, l, c)
    [] Top(t).state \in {"string", "field"} -> string(t, l, c)
    [] Top(t).state = "escape" -> escape(t, l, c)
    [] Top(t).state = "unicode" -> unicode(t, l, c, ahead)
    [] Top(t).state = "number" -> number(t, l, c, strict)
    [] Top(t).state \in {"array", "array_after_sep", "array_add", "array_sep"} -> array(t, l, c, strict)
    [] OTHER -> object(t, l, c, strict)

\* Mutant: a nested value that is complete is taken for the whole.
AtEnd_anyDepth(t) == IF Top(t).state = "eatws" /\ Top(t).saved = "finish" THEN "success" ELSE "continue"

\* PEEK_CHAR with nothing left: a value may be complete.
AtEnd(t) == IF Depth(t) = 1 /\ Top(t).state = "eatws" /\ Top(t).saved = "finish" THEN "success" ELSE "continue"

\* After "out": trailing characters and the end of the text; on success the value
\* is handed over and every level reset.
Ended(t, c, strict) ==
  IF c # "NUL" /\ Top(t).state = "finish" /\ Depth(t) = 1 /\ strict THEN "unexpected"
  ELSE IF c = "NUL" /\ Top(t).state # "finish" /\ Top(t).saved # "finish" THEN "eof"
  ELSE t.err

Return(t, c) ==
  LET err == Ended(t, c, sample.strict)
  IN /\ calling' = FALSE
     /\ outcome' = [err |-> err, value |-> IF err = "success" THEN <<t.stack[Len(t.stack)].current>> ELSE <<>>]
     /\ tok' = IF err = "success" THEN [t EXCEPT !.stack = <<Level>>, !.err = err] ELSE [t EXCEPT !.err = err]
     /\ loc' = Locals
     /\ UNCHANGED <<sample, pieced, limit>>

--------------------------------------------------------------------------------
(* The program *)

Item(s) == [text |-> to_json_string(s.value, s.flags) \o <<"NUL">>, strict |-> s.strict,
            err |-> "success", value |-> <<s.value>>, others |-> {}]

JsonInputs == {Item(s) : s \in Samples} \cup JsonTexts

JsonInit ==
  /\ sample \in JsonInputs
  /\ pieced = FALSE /\ pos = 0 /\ limit = 0 /\ tok = Tokener /\ loc = Locals /\ calling = FALSE
  /\ outcome = [err |-> "continue", value |-> <<>>]

\* json_tokener_parse_ex is called with the next piece, after a call that asked
\* for more.
parse_ex(n) ==
  /\ ~calling /\ outcome.err = "continue" /\ n > pos
  /\ pieced' = (pieced \/ n < Len(sample.text)) /\ limit' = n /\ calling' = TRUE /\ loc' = Locals
  /\ tok' = [tok EXCEPT !.err = "success"]
  /\ UNCHANGED <<sample, pos, outcome>>

\* The main loop, one character or one look at it; a high code that still waits at
\* the end of the piece is replaced.
Scan ==
  LET c == sample.text[pos + 1]
      r == Handle(tok, loc, c, SubSeq(sample.text, pos + 2, IF pos + 4 <= limit THEN pos + 4 ELSE limit), sample.strict)
  IN /\ calling
     /\ \/ /\ pos = limit
           /\ Return([tok EXCEPT !.err = AtEnd(tok), !.pb = IF loc.hi THEN Append(@, "repl") ELSE @], "more") /\ UNCHANGED pos
        \/ /\ pos < limit /\ (r.out \/ (c = "NUL" /\ r.by > 0))
           /\ Return(r.tok, c) /\ UNCHANGED pos
        \/ /\ pos < limit /\ ~r.out /\ ~(c = "NUL" /\ r.by > 0)
           /\ tok' = r.tok /\ loc' = r.loc /\ pos' = pos + r.by
           /\ UNCHANGED <<sample, pieced, limit, calling, outcome>>

JsonNext == (\E n \in 1..Len(sample.text) : parse_ex(n)) \/ Scan

--------------------------------------------------------------------------------
(* Properties *)

\* Whatever json-c writes it reads back, in whatever pieces the text arrives and
\* with every layout; no beginning of a text is taken for another value, and the
\* other texts (comments, escapes, surrogates, numbers, depth) give what they say.
\* Two things are read otherwise when they are cut: a code that waits for its second
\* half, and a number whose rest would not be a number.
JsonRoundTrip ==
  /\ outcome.err # "continue" =>
       \/ outcome = [err |-> sample.err, value |-> sample.value]
       \/ pieced /\ outcome \in sample.others
  /\ ~calling /\ limit = Len(sample.text) => outcome.err # "continue"
================================================================================
