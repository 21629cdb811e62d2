------------------------------ MODULE QBReports ------------------------------
(***************************************************************************)
(* From QuickBooks' answer to a report query to what a client gets: the    *)
(* reading of its columns and rows (qb/xml_parser.py), and the JSON, CSV   *)
(* and PDF made of them (api/routes/reports.py, reports/).                 *)
(*                                                                         *)
(* A row of the answer is an element with a tag, perhaps a RowData, the    *)
(* ColData of some columns and the rows in it.  A value is text or a       *)
(* number, plain or in other clothing: 1,000 or (5.00) or 12%.             *)
(***************************************************************************)
EXTENDS Integers, SequencesExt

RowTags == {"DataRow", "TextRow", "SubtotalRow", "TotalRow"}

Cell(id, value) == [id |-> id, value |-> value]

Nothing == <<>>   \* what is not there, as an empty list

-----------------------------------------------------------------------------
(* parse_report *)

(* The cells of an element, of which a later one replaces an earlier one   *)
(* of its column.                                                          *)
Cells(elem) == elem.rowData \o elem.colData

CellAt(cells, id) == cells[CHOOSE i \in DOMAIN cells :
                             /\ cells[i].id = id
                             /\ \A j \in DOMAIN cells : cells[j].id = id => j <= i].value

Values(elem) == [id \in {Cells(elem)[i].id : i \in DOMAIN Cells(elem)} |->
                   CellAt(Cells(elem), id)]

(* RowData's value, or that of the first column there is. *)
Label(elem) ==
  IF elem.rowData # <<>> THEN <<elem.rowData[1].value>>
  ELSE IF DOMAIN Values(elem) = {} THEN Nothing
  ELSE <<Values(elem)[Min(DOMAIN Values(elem))]>>

(* Elements of other tags are passed over, with all that is in them. *)
RECURSIVE ParseReportRows(_)
ParseReportRows(elems) ==
  LET IsRow(elem) == elem.tag \in RowTags
      Row(elem) == [type |-> elem.tag, label |-> Label(elem), values |-> Values(elem),
                    children |-> ParseReportRows(elem.rows)]
      rows == SelectSeq(elems, IsRow)
  IN  [i \in DOMAIN rows |-> Row(rows[i])]

Column(desc) == [id |-> desc.colID,
                 title |-> IF desc.colTitle # "" THEN desc.colTitle ELSE desc.colType]

(* Of the ReportRet, or of the answer itself if it has none.  Without a    *)
(* ReportData there are no rows.                                           *)
ParseReport(ret) ==
  [heading |-> ret.heading,
   columns |-> [i \in DOMAIN ret.colDescs |-> Column(ret.colDescs[i])],
   rows    |-> ParseReportRows(ret.rows)]

(* The rows as JSON, where a row without others in it has no "children".   *)
RECURSIVE RowsToDicts(_)
RowsToDicts(rows) ==
  [i \in DOMAIN rows |->
     LET row  == rows[i]
         dict == [type |-> row.type, label |-> row.label, values |-> row.values]
     IN  IF row.children = <<>> THEN dict
         ELSE dict @@ [children |-> RowsToDicts(row.children)]]

-----------------------------------------------------------------------------
(* The lines of CSV and PDF *)

(* Title, subtitle and basis, as far as there are any. *)
Heading(report) == SelectSeq(report.heading, LAMBDA text : text # "")

ByColumn(columns) == SortSeq(columns, LAMBDA a, b : a.id < b.id)

Header(columns) == [i \in DOMAIN columns |-> ByColumn(columns)[i].title]

IsNumeric(value) == value.sort \in {"plain", "clothed"}

(* format_currency gives back what Decimal does not read. *)
FormatCurrency(value) == IF value.sort = "plain" THEN [value EXCEPT !.sort = "currency"] ELSE value

Value(sort, is) == [sort |-> sort, is |-> is, indent |-> 0]
Empty == Value("text", "")

RowCells(row, columns, depth) ==
  [i \in DOMAIN columns |->
     LET id    == ByColumn(columns)[i].id
         value == IF id \in DOMAIN row.values THEN row.values[id] ELSE Empty
     IN  IF i = 1 THEN [value EXCEPT !.indent = depth]
         ELSE IF IsNumeric(value) THEN FormatCurrency(value)
         ELSE value]

RECURSIVE WriteRows(_, _, _)
WriteRows(rows, columns, depth) ==
  FlattenSeq([i \in DOMAIN rows |->
    <<RowCells(rows[i], columns, depth)>> \o WriteRows(rows[i].children, columns, depth + 1)])

Blank == <<>>

ReportToCsv(report) ==
  [i \in DOMAIN Heading(report) |-> <<Heading(report)[i]>>]
  \o <<Blank, Header(report.columns)>>
  \o WriteRows(report.rows, report.columns, 0)

(* The PDF's table, with the type of each of its rows by the place, less   *)
(* one for the header, it is about to get.                                 *)
RECURSIVE CollectRows(_, _, _, _)
CollectRows(pdf, rows, columns, depth) ==
  LET Collect(sofar, row) ==
        CollectRows([table  |-> Append(sofar.table, RowCells(row, columns, depth)),
                     styles |-> Append(sofar.styles, [at |-> Len(sofar.table) - 1, type |-> row.type])],
                    row.children, columns, depth + 1)
  IN  FoldLeft(Collect, pdf, rows)

ReportToPdf(report) ==
  CollectRows([table |-> <<Header(report.columns)>>, styles |-> <<>>],
              report.rows, report.columns, 0)

(* The rows of the table, from 0 for the header, that are set in bold. *)
Bold(pdf) == {pdf.styles[i].at + 1 :
                i \in {j \in DOMAIN pdf.styles : pdf.styles[j].type \in {"SubtotalRow", "TotalRow"}}}
===============================================================================
