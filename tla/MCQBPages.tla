------------------------------ MODULE MCQBPages ------------------------------
(***************************************************************************)
(* QBPages for TLC.  One client sends every combination of up to MaxParams  *)
(* parameters, another one only pages, with or without a filter.  QBReports *)
(* is compared here with the answers it is about.                          *)
(***************************************************************************)
EXTENDS QBPages, QBReports

CONSTANTS asker, pager, customer, invoice, time, report, MaxParams

Asking(of, params) ==
  {[of |-> of, given |-> s \ b, blank |-> b, iterator |-> "none", page |-> 2] :
     s \in {t \in SUBSET params : Cardinality(t) <= MaxParams},
     b \in {{}, {"name"}, {"from_date"}, {"to_date"}, {"active"}}}

Paging(of) ==
  {[of |-> of, given |-> {"iterator_id", "max_returned"} \cup f, blank |-> {}, iterator |-> i, page |-> n] :
     i \in {"Start", "Held"}, n \in {1, 2}, f \in {{}, {"modified_after"}}}

MCRequests ==
  [c \in Clients |->
     CASE c = pager -> Paging(customer)
       [] c = asker -> Paging(invoice) \cup Paging(time)
                       \cup UNION {Asking(e, Filtering \cup {"typo"}) : e \in Entities}
                       \cup Asking(report, {"from_date", "to_date", "date_macro", "name"})]

-----------------------------------------------------------------------------
(* Reports of some columns, out of order, and rows at two levels. *)
Element(tag, rowData, colData, rows) ==
  [tag |-> tag, rowData |-> rowData, colData |-> colData, rows |-> rows]

ColDescs == <<[colID |-> 2, colTitle |-> "", colType |-> "Amount"],
              [colID |-> 1, colTitle |-> "Account", colType |-> "Label"]>>

Report(doc) == ParseReport([heading |-> <<"Profit & Loss", "", "Accrual">>,
                            colDescs |-> ColDescs, rows |-> doc])

Income == Cell(1, Value("text", "Income"))
Amount == Cell(2, Value("plain", "1042"))
Minus  == Cell(2, Value("clothed", "(5.00)"))

Inner == {<<>>} \cup {<<Element(tag, <<>>, <<Income, cell>>, <<>>)>> :
                        tag \in {"DataRow", "SubtotalRow", "Note"}, cell \in {Amount, Minus}}

Outer == {Element(tag, r, c, in) : tag \in {"TextRow", "TotalRow", "Note"},
            r \in {<<>>, <<Cell(0, Value("text", "label"))>>},
            c \in {<<>>, <<Income, Amount>>, <<Amount, Minus>>}, in \in Inner}

Documents == {<<>>} \cup {<<x, y>> : x, y \in Outer}

(* The rows of a document, each by the places of its elements, and the     *)
(* order they are read in.                                                 *)
ElementAt(doc, path) == IF Len(path) = 1 THEN doc[path[1]] ELSE doc[path[1]].rows[path[2]]

RowPaths(doc) ==
  {<<i>> : i \in {x \in DOMAIN doc : doc[x].tag \in RowTags}}
  \cup {p \in {<<i, 1>> : i \in DOMAIN doc} :
          /\ doc[p[1]].tag \in RowTags
          /\ doc[p[1]].rows # <<>> /\ ElementAt(doc, p).tag \in RowTags}

InReadingOrder(doc) ==
  SetToSortSeq(RowPaths(doc), LAMBDA p, q : p[1] < q[1] \/ (p[1] = q[1] /\ Len(p) < Len(q)))

Shown(colData, id) == LET its == SelectSeq(colData, LAMBDA c : c.id = id)
                     IN  IF its = <<>> THEN Empty ELSE its[Len(its)].value

(* CSV and PDF have the header and then a line for every row of the        *)
(* document, in its order, indented by its level, with the row's cells in  *)
(* the order of the columns; numbers are currency beyond the first column. *)
ASSUME ReportsLoseNothing ==
  \A doc \in Documents :
    LET rows  == InReadingOrder(doc)
        csv   == ReportToCsv(Report(doc))
        Line(path) ==
          LET elem == ElementAt(doc, path)
          IN  <<[Shown(elem.colData, 1) EXCEPT !.indent = Len(path) - 1],
                FormatCurrency(Shown(elem.colData, 2))>>
        lines == <<<<"Account", "Amount">>>> \o [k \in DOMAIN rows |-> Line(rows[k])]
    IN  /\ csv = <<<<"Profit & Loss">>, <<"Accrual">>, Blank>> \o lines
        /\ ReportToPdf(Report(doc)).table = lines

(* The rows in bold are the totals, whatever the rows they come after.     *)
ASSUME TotalsAreBold ==
  \A doc \in Documents :
    LET rows == InReadingOrder(doc)
    IN  Bold(ReportToPdf(Report(doc))) =
          {k \in DOMAIN rows : ElementAt(doc, rows[k]).tag \in {"SubtotalRow", "TotalRow"}}

(* A row is labelled by its RowData, or else by its leftmost cell. *)
ASSUME RowsAreLabelled ==
  \A elem \in Outer :
    LET row == ParseReportRows(<<elem>>)
    IN  row # <<>> =>
          row[1].label = IF elem.rowData # <<>> THEN <<Value("text", "label")>>
                         ELSE IF elem.colData = <<>> THEN <<>>
                         ELSE IF elem.colData[1] = Income THEN <<Income.value>>
                         ELSE <<Minus.value>>

(* The JSON has the rows of the document, each with what is in it. *)
ASSUME JsonKeepsLevels ==
  \A doc \in Documents :
    LET dicts == RowsToDicts(Report(doc).rows)
        tops  == SelectSeq(InReadingOrder(doc), LAMBDA p : Len(p) = 1)
    IN  /\ Len(dicts) = Len(tops)
        /\ \A k \in DOMAIN tops :
             /\ dicts[k].type = ElementAt(doc, tops[k]).tag
             /\ "children" \in DOMAIN dicts[k] <=> Append(tops[k], 1) \in RowPaths(doc)
===============================================================================
