------------------------------- MODULE Tables -------------------------------
(***************************************************************************)
(* The pure functions of the table editor (DocInlineEditor.tsx): cells of  *)
(* typed columns, the form every table is brought to, and its CSV export   *)
(* and import. A text is a sequence of symbols: the four characters the    *)
(* CSV code looks for, digits, and words that matter as a whole.           *)
(***************************************************************************)
EXTENDS Integers, Sequences, SequencesExt, FiniteSetsExt

CONSTANTS
    MinRows, MinColumns,    \* 5 and 3 in normalizeTablePayload
    Symbols                 \* what texts consist of

ASSUME SymbolAssumption == {"true", "false", "1", "0", "x"} \subseteq Symbols
ASSUME MinAssumption == MinRows \in Nat /\ MinColumns \in Nat

Types == {"text", "number", "boolean"}
Digits == {"0", "1"}
Blanks == {"\n", "\r"}

Cell(type, text) == [type |-> type, text |-> text]
Column(name, type) == [name |-> name, type |-> type]
Undefined == Cell("undefined", <<>>)
NoMeta == [columns |-> <<>>, rowCount |-> 0]

(* TableMeta, TableData and the payload of both.                           *)
Columns == [name : Seq(Symbols), type : Types]
Cells == [type : Types, text : Seq(Symbols)]
Metas == [columns : Seq(Columns), rowCount : Nat]
Grids == Seq(Seq(Cells))
Payloads == [columns : Seq(Columns), rows : Grids]

Trim(t) ==
    LET ink == {i \in 1..Len(t) : t[i] \notin Blanks}
    IN  IF ink = {} THEN <<>> ELSE SubSeq(t, Min(ink), Max(ink))

(* Number(text) is finite, and what String makes of it.                    *)
IsNumber(t) == \A i \in 1..Len(Trim(t)) : Trim(t)[i] \in Digits
NumberText(t) ==
    LET s == Trim(t)
        ones == {i \in 1..Len(s) : s[i] = "1"}
    IN  IF ones = {} THEN <<"0">> ELSE SubSeq(s, Min(ones), Len(s))
-----------------------------------------------------------------------------
normalizeCellForType(c, type) ==
    Cell(type,
         CASE type = "boolean" -> IF c.text = <<"true">> THEN <<"true">> ELSE <<"false">>
           [] type = "number" ->
                IF c.type = "boolean" THEN IF c.text = <<"true">> THEN <<"1">> ELSE <<"0">>
                ELSE IF c.text # <<>> /\ IsNumber(c.text) THEN NumberText(c.text) ELSE <<>>
           [] type = "text" -> c.text)

(* Cells of a row for these columns, missing ones made up.                 *)
Fit(row, columns) ==
    [j \in 1..Len(columns) |->
        normalizeCellForType(IF j <= Len(row) THEN row[j] ELSE Undefined, columns[j].type)]

(* normalizeTablePayload: at least so many rows and columns, and every     *)
(* cell of its column's type, whatever is stored.                          *)
normalizeTablePayload(meta, rows) ==
    LET width == Max({Len(meta.columns), MinColumns, IF rows = <<>> THEN 0 ELSE Len(rows[1])})
        columns == [j \in 1..width |-> IF j <= Len(meta.columns) THEN meta.columns[j]
                                       ELSE Column(<<"x">>, "text")]
    IN  [columns |-> columns,
         rows |-> [i \in 1..Max({meta.rowCount, MinRows}) |->
                      Fit(IF i <= Len(rows) THEN rows[i] ELSE <<>>, columns)]]
-----------------------------------------------------------------------------
(* TableGrid and the table's buttons: columns and rows to commit.          *)

updateCell(t, i, j, text) ==
    [t EXCEPT !.rows[i][j] = normalizeCellForType(Cell("text", text), t.columns[j].type)]

updateColumn(t, j, column) ==
    LET columns == [t.columns EXCEPT ![j] = column]
    IN  [columns |-> columns, rows |-> [i \in DOMAIN t.rows |-> Fit(t.rows[i], columns)]]

addRow(t) == [t EXCEPT !.rows = Append(@, Fit(<<>>, t.columns))]

addColumn(t) ==
    [columns |-> Append(t.columns, Column(<<"x">>, "text")),
     rows |-> [i \in DOMAIN t.rows |-> Append(t.rows[i], Cell("text", <<>>))]]

deleteRow(t, i) == [t EXCEPT !.rows = RemoveAt(@, i)]

deleteColumn(t, j) ==
    [columns |-> RemoveAt(t.columns, j),
     rows |-> [i \in DOMAIN t.rows |-> RemoveAt(t.rows[i], j)]]
-----------------------------------------------------------------------------
(* CSV *)

(* Mutant: quotes inside a cell are left as they are.                      *)
escapeCsvCellOnce(text) ==
    IF \E i \in DOMAIN text : text[i] \in {"\"", ",", "\n", "\r"}
    THEN <<"\"">> \o text \o <<"\"">>
    ELSE text

escapeCsvCell(text) ==
    IF \E i \in DOMAIN text : text[i] \in {"\"", ",", "\n", "\r"}
    THEN <<"\"">> \o FlattenSeq([i \in DOMAIN text |->
             IF text[i] = "\"" THEN <<"\"", "\"">> ELSE <<text[i]>>]) \o <<"\"">>
    ELSE text

Joined(parts, sep) ==
    FlattenSeq([i \in DOMAIN parts |-> IF i = 1 THEN parts[i] ELSE <<sep>> \o parts[i]])

Texts(t) ==
    <<[j \in DOMAIN t.columns |-> t.columns[j].name]>>
        \o [i \in DOMAIN t.rows |-> [j \in DOMAIN t.columns |-> t.rows[i][j].text]]

tableToCsv(t) ==
    Joined([i \in DOMAIN Texts(t) |->
               Joined([j \in DOMAIN Texts(t)[i] |-> escapeCsvCell(Texts(t)[i][j])], ",")], "\n")

IsFilled(row) == \E j \in DOMAIN row : row[j] # <<>>

(* Rows without a text are left out (the code does it in the end).          *)
Kept(rows, row) == IF IsFilled(row) THEN Append(rows, row) ELSE rows

(* One character: within quotes a doubled quote is one, any other ends     *)
(* them; outside, a comma ends a cell, a newline a row, a return is left   *)
(* out.                                                                    *)
ParseStep(s, char, next) ==
    CASE s.skip -> [s EXCEPT !.skip = FALSE]
      [] ~s.skip /\ s.quoted /\ char = "\"" ->
            IF next = "\"" THEN [s EXCEPT !.cell = Append(@, char), !.skip = TRUE]
            ELSE [s EXCEPT !.quoted = FALSE]
      [] ~s.skip /\ s.quoted /\ char # "\"" -> [s EXCEPT !.cell = Append(@, char)]
      [] ~s.skip /\ ~s.quoted /\ char = "\"" -> [s EXCEPT !.quoted = TRUE]
      [] ~s.skip /\ ~s.quoted /\ char = "," -> [s EXCEPT !.row = Append(@, s.cell), !.cell = <<>>]
      [] ~s.skip /\ ~s.quoted /\ char = "\n" ->
            [s EXCEPT !.rows = Kept(@, Append(s.row, s.cell)), !.row = <<>>, !.cell = <<>>]
      [] ~s.skip /\ ~s.quoted /\ char = "\r" -> s
      [] OTHER -> [s EXCEPT !.cell = Append(@, char)]

ParseStart == [rows |-> <<>>, row |-> <<>>, cell |-> <<>>, quoted |-> FALSE, skip |-> FALSE]

(* The state after each character.                                         *)
ParseStates(text) ==
    LET state[i \in 0..Len(text)] ==
            IF i = 0 THEN ParseStart
            ELSE ParseStep(state[i - 1], text[i], IF i < Len(text) THEN text[i + 1] ELSE "end")
    IN  state

parseCsv(text) ==
    LET end == ParseStates(text)[Len(text)]
    IN  IF end.cell # <<>> \/ end.row # <<>>
        THEN Kept(end.rows, Append(end.row, end.cell)) ELSE end.rows

inferColumnType(values) ==
    LET filled == {Trim(values[i]) : i \in DOMAIN values} \ {<<>>}
    IN  IF filled = {} THEN "text"
        ELSE IF filled \subseteq {<<"true">>, <<"false">>, <<"yes">>, <<"no">>} THEN "boolean"
        ELSE IF \A v \in filled : IsNumber(v) THEN "number" ELSE "text"

(* csvRowsToTable: the first row names the columns.                        *)
csvRowsToTable(rows) ==
    LET body == Tail(rows)
        width == Max({Len(rows[i]) : i \in DOMAIN rows})
        At(row, j) == IF j <= Len(row) THEN row[j] ELSE <<>>
        columns == [j \in 1..width |->
            Column(IF Trim(At(rows[1], j)) = <<>> THEN <<"x">> ELSE Trim(At(rows[1], j)),
                   inferColumnType([i \in DOMAIN body |-> At(body[i], j)]))]
        data == IF body = <<>> THEN <<[j \in 1..width |-> <<>>]>> ELSE body
    IN  normalizeTablePayload([columns |-> columns, rowCount |-> Len(data)],
            [i \in DOMAIN data |-> [j \in DOMAIN data[i] |-> Cell("text", data[i][j])]])
==============================================================================
