---------------------------- MODULE ConfigManager ---------------------------
(***************************************************************************)
(* The configuration file: PropertiesParse reads lines key=value, and      *)
(* ConfigManager answers queries for a value or a list of values.          *)
(***************************************************************************)
EXTENDS NetAddr

CONSTANT LINE_LENGTH    \* a line this long ends the reading (10240 characters)

Trim(s) == Reverse(SkipSpaces(Reverse(SkipSpaces(s))))

\* A line without an equals sign is its own key and value.
KeyOf(line) ==
    LET eq == Find(line, Equals)
    IN Trim(IF eq = 0 THEN line ELSE SubSeq(line, 1, eq - 1))

ValueOf(line) == Trim(SubSeq(line, Find(line, Equals) + 1, Len(line)))

\* getline fails for a line that does not fit the buffer and the loop ends.
LinesRead(lines) ==
    LET long == SelectInSeq(lines, LAMBDA l : Len(l) >= LINE_LENGTH)
    IN IF long = 0 THEN lines ELSE SubSeq(lines, 1, long - 1)

\* The last line with a key wins.
PropertiesParse(lines) ==
    FoldLeft(LAMBDA p, l : (KeyOf(l) :> ValueOf(l)) @@ p, << >>, LinesRead(lines))

Query(properties, key) == IF key \in DOMAIN properties THEN properties[key] ELSE <<>>

Pieces(value) ==
    FoldLeft(LAMBDA l, t : IF t = Comma THEN Append(l, <<>>)
                           ELSE [l EXCEPT ![Len(l)] = Append(@, t)],
             << <<>> >>, value)

\* queryList: the pieces between commas, blanks and empty ones included; only
\* an empty piece after the last comma is left out.
QueryList(properties, key) ==
    LET value == Query(properties, key)
    IN IF value = <<>> THEN <<>>
       ELSE IF Last(Pieces(value)) = <<>> THEN Front(Pieces(value)) ELSE Pieces(value)
=============================================================================
