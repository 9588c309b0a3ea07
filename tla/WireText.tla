------------------------------ MODULE WireText ------------------------------
(***************************************************************************)
(* The texts the daemon sends and how the package takes them apart: an     *)
(* event message (events.py), a table and a block of variables             *)
(* (replies.py).  A dictionary is a set of pairs of texts, at most one to  *)
(* a key.                                                                  *)
(***************************************************************************)
EXTENDS Ssid

Tab == 9
Newline == 10
Space == 32
Less == 60
Equals == 61
Greater == 62

(* What is kept of a sequence: SelectSeq, of positions.                    *)
Kept(seq, keep) ==
    LET kept[i \in 0 .. Len(seq)] ==
            IF i = 0 THEN << >>
            ELSE IF i \in keep THEN Append(kept[i - 1], seq[i]) ELSE kept[i - 1]
    IN  kept[Len(seq)]

(* str.partition() at one character, and str.split().                      *)
Places(text, c) == {i \in DOMAIN text : text[i] = c}
Before(text, c) == SubSeq(text, 1, Min(Places(text, c) \cup {Len(text) + 1}) - 1)
After(text, c) == From(text, Len(Before(text, c)) + 2)
Lengthened(parts, c) == [parts EXCEPT ![Len(parts)] = Append(@, c)]
Split(text, c) ==
    LET parts[i \in 0 .. Len(text)] ==
            IF i = 0 THEN << << >> >>
            ELSE IF text[i] = c THEN Append(parts[i - 1], << >>)
            ELSE Lengthened(parts[i - 1], text[i])
    IN  parts[Len(text)]

(* str.join(), with one character. *)
JoinedBy(c, parts) == Tail(FlattenSeq([i \in DOMAIN parts |-> <<c>> \o parts[i]]))

(* str.rstrip(), of newlines, as request() does with replies. *)
WithoutNewlines(text) ==
    SubSeq(text, 1, Max({0} \cup {i \in DOMAIN text : text[i] # Newline}))

(* A line or token that is key=value, put into a dictionary. *)
Put(pairs, key, value) == {p \in pairs : p[1] # key} \cup {<<key, value>>}
Get(pairs, key) == (CHOOSE p \in pairs : p[1] = key)[2]
Keys(pairs) == {p[1] : p \in pairs}

-----------------------------------------------------------------------------
(* Events *)

IsEventText(message) == IsPrefix(<<Less>>, message)

(* parse_event(): what stands before the > must be a number. *)
ParseEvent(message) ==
    LET priority == Tail(Before(message, Greater))
        prefixed == IsEventText(message) /\ Contains(message, Greater)
                    /\ priority # << >> /\ \A i \in DOMAIN priority : priority[i] \in 48 .. 57
        body == WithoutNewlines(IF prefixed THEN After(message, Greater) ELSE message)
    IN  [name |-> Before(body, Space), params |-> After(body, Space)]

(* _split_params(), one character after the other: the tokens so far, the  *)
(* one begun, whether inside quotes, and whether just behind a backslash.  *)
ScanBlind(s, c) ==                              \* mutant: no escapes inside quotes
    CASE c = Quote -> [s EXCEPT !.current = Append(@, c), !.quoted = ~@]
      [] c = Space /\ ~s.quoted ->
            IF s.current = << >> THEN s
            ELSE [s EXCEPT !.tokens = Append(@, s.current), !.current = << >>]
      [] OTHER -> [s EXCEPT !.current = Append(@, c)]
Scan(s, c) ==
    CASE s.escaped -> [s EXCEPT !.current = Append(@, c), !.escaped = FALSE]
      [] ~s.escaped /\ s.quoted /\ c = Backslash ->
            [s EXCEPT !.current = Append(@, c), !.escaped = TRUE]
      [] ~s.escaped /\ c = Quote ->
            [s EXCEPT !.current = Append(@, c), !.quoted = ~@]
      [] ~s.escaped /\ c = Space /\ ~s.quoted ->
            IF s.current = << >> THEN s
            ELSE [s EXCEPT !.tokens = Append(@, s.current), !.current = << >>]
      [] OTHER -> [s EXCEPT !.current = Append(@, c)]

SplitParams(text) ==
    LET start == [tokens |-> << >>, current |-> << >>, quoted |-> FALSE, escaped |-> FALSE]
        scan[i \in 0 .. Len(text)] ==
            IF i = 0 THEN start ELSE Scan(scan[i - 1], text[i])
        end == scan[Len(text)]
    IN  IF end.current = << >> THEN end.tokens ELSE Append(end.tokens, end.current)

(* parse_params(): the quotes around a value go, what is in them stays.    *)
Bare(value) ==
    IF Len(value) >= 2 /\ Head(value) = Quote /\ Last(value) = Quote
    THEN SubSeq(value, 2, Len(value) - 1) ELSE value

ParseParams(text) ==
    LET tokens == SplitParams(text)
        pairs[i \in 0 .. Len(tokens)] ==
            IF i = 0 THEN {}
            ELSE IF ~Contains(tokens[i], Equals) \/ Before(tokens[i], Equals) = << >>
            THEN pairs[i - 1]
            ELSE Put(pairs[i - 1], Before(tokens[i], Equals), Bare(After(tokens[i], Equals)))
    IN  pairs[Len(tokens)]

-----------------------------------------------------------------------------
(* Replies *)

Lines(text) == Split(WithoutNewlines(text), Newline)

(* parse_table(): the header goes, and blank and short rows; what the last *)
(* column has too much stays in it.                                        *)
ParseTable(text, columns) ==
    LET lines == Lines(text)
        rows == [i \in 1 .. Len(lines) - 1 |-> Split(lines[i + 1], Tab)]
        Blank(fields) == \A j \in DOMAIN fields : ToSet(fields[j]) \subseteq {Space}
        long == Kept(rows, {i \in DOMAIN rows : ~Blank(rows[i]) /\ Len(rows[i]) >= columns})
    IN  [i \in DOMAIN long |->
            [j \in 1 .. columns |->
                IF j < columns THEN long[i][j]
                ELSE JoinedBy(Tab, From(long[i], columns))]]

(* parse_variables(): lines without = are left out. *)
ParseVariables(text) ==
    LET lines == Lines(text)
        keyed == Kept(lines, {i \in DOMAIN lines : Contains(lines[i], Equals)})
        pairs[i \in 0 .. Len(keyed)] ==
            IF i = 0 THEN {}
            ELSE Put(pairs[i - 1], Before(keyed[i], Equals), After(keyed[i], Equals))
    IN  pairs[Len(keyed)]
=============================================================================
