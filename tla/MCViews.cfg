\* Two things to select and two requests for them, seven months; one proxy
\* group; two edits of a layout.  The user may stop at any time.
SPECIFICATION MCSpec
CONSTANTS
  Group = {"g"}
  MaxEdit = 2
  Sel = {a, b}
  Req = {1, 2}
  Months = 7
CHECK_DEADLOCK FALSE
INVARIANTS ViewsTypeOK UntouchedEditKeeps LayoutsStayApart NeverAnothers
PROPERTIES DiscardedByConsent PollsCatchUp
