SPECIFICATION Spec
CONSTANTS
  asker = asker
  pager = pager
  customer = customer
  invoice = invoice
  time = time
  report = report
  MaxParams = 2
  Clients = {asker, pager}
  Txns = {invoice, time}
  Lists = {customer}
  Reports = {report}
  WithRefNumber = {invoice}
  WithIterator = {customer, invoice}
  WithEntityFilter = {invoice}
  Requests <- MCRequests
  MaxAttempts = 2
  Size = 3
INVARIANTS
  TypeOK
  FirstPageFiltered
  FitsUnlessBothDates
PROPERTIES
  ImplementsListing
