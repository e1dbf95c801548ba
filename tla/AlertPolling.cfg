\* One toast; two changes of the problem, which may be older than the page.
SPECIFICATION PollSpec
CONSTANTS
  Problem = {1}
  Low = {1}
  Cap = 1
  Few = 0
  MaxRev = 2
INVARIANTS PollTypeOK ToldOnce
PROPERTIES ToldEventually EverySurfaced ListCatchesUp
