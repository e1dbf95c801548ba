\* All tabs: two loads at a time, two changes of the lists; two rows and two
\* openings of a dialog.  The user may stop at any time.
SPECIFICATION MCSpec
CONSTANTS
  Slot = {1, 2}
  MaxRev = 2
  Obj = {o1, o2}
  MaxOpen = 2
CHECK_DEADLOCK FALSE
INVARIANTS TabsTypeOK SpinnerHasRequest CreatedOnce MembersKept
PROPERTIES EventuallyFresh InputSurvives
