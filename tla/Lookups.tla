------------------------------ MODULE Lookups -------------------------------
(***************************************************************************)
(* Views that fetch something for what is selected in them: the items of a *)
(* host, the history of an item, a report of a period.                     *)
(*                                                                         *)
(* Selecting another one while a request is in flight leaves two of them   *)
(* under way.  A few views drop the answer of the older one, most of them  *)
(* show whatever comes last.  Each view is a row of the table:             *)
(*                                                                         *)
(*   guard  - the answers to an earlier selection are dropped              *)
(*   clears - a new selection empties the view until it is answered        *)
(*   fail   - after a failure the view is empty, or keeps what it showed,  *)
(*            or ("stuck") the failure of the first request of a selection *)
(*            is an error that no later answer clears                      *)
(*   polls  - the selection is fetched again by a timer of the view; with  *)
(*            the ticks of the portal, if it is given a refresh interval;  *)
(*            while the user has switched it on; or never                  *)
(*   choice - what was chosen from the view is sent together with the      *)
(*            selection; a new selection resets the choice at once         *)
(*            ("select"), when it is answered ("answer"), or not ("kept")  *)
(*   listed - only what the view still lists is sent                       *)
(***************************************************************************)
EXTENDS Integers, FiniteSets

CONSTANTS
  Sel,     \* what can be selected
  Req,     \* requests in flight at one time (a bound)
  Months   \* months on offer in the availability report

ASSUME LookupAssumption == "none" \notin Sel /\ Months \in Nat

View(guard, clears, fail, polls) ==
  [guard |-> guard, clears |-> clears, fail |-> fail, polls |-> polls,
   choice |-> "none", listed |-> FALSE]
Chooser(guard, clears, fail, choice, listed) ==
  [guard |-> guard, clears |-> clears, fail |-> fail, polls |-> "never",
   choice |-> choice, listed |-> listed]

-----------------------------------------------------------------------------
(* Details of a row *)
HostGroupView == View(FALSE, FALSE, "empty", "never")
TemplateGroupView == View(FALSE, FALSE, "empty", "never")
SlaReport == View(FALSE, TRUE, "kept", "never")
TemplateDetail == View(FALSE, TRUE, "kept", "never")
HostDrawer == View(FALSE, TRUE, "kept", "never")
HostTemplates == View(FALSE, FALSE, "empty", "never")

(* Items and triggers of a host *)
BrowseItems == View(FALSE, FALSE, "kept", "never")
TemplateItems == View(FALSE, FALSE, "kept", "never")
HostTriggers == View(FALSE, FALSE, "kept", "never")
LatestData == View(FALSE, FALSE, "empty", "switch")
AgentItemKeys == View(TRUE, FALSE, "empty", "never")
InlineItems == View(FALSE, FALSE, "empty", "never")
AddGraphGraphs == View(FALSE, FALSE, "empty", "never")

(* Charts and reports *)
ItemChart == View(TRUE, TRUE, "kept", "timer")
ChartJsGraph == View(TRUE, TRUE, "stuck", "timer")
AvailabilityReport == View(FALSE, FALSE, "kept", "tick")
TopTriggers == View(FALSE, FALSE, "kept", "tick")
AuditLog == View(FALSE, FALSE, "kept", "tick")
PortalActions == View(FALSE, FALSE, "kept", "tick")
ActionLog == View(FALSE, FALSE, "kept", "tick")
NotificationLog == View(FALSE, FALSE, "kept", "tick")
ProblemHistory == View(FALSE, FALSE, "empty", "never")

(* Items, graphs and triggers chosen in a dialog *)
MetricConfig == Chooser(FALSE, FALSE, "empty", "select", TRUE)
AddMetric == Chooser(FALSE, TRUE, "empty", "select", TRUE)
AddRule == Chooser(FALSE, FALSE, "empty", "answer", TRUE)
EditRule == Chooser(FALSE, FALSE, "kept", "select", FALSE)
AddTrigger == Chooser(FALSE, FALSE, "empty", "answer", FALSE)
DependentItem == Chooser(FALSE, FALSE, "empty", "kept", FALSE)

Views ==
  {HostGroupView, TemplateGroupView, SlaReport, TemplateDetail, HostDrawer, HostTemplates,
   BrowseItems, TemplateItems, HostTriggers, LatestData, AgentItemKeys, InlineItems,
   AddGraphGraphs, ItemChart, ChartJsGraph, AvailabilityReport, TopTriggers, AuditLog,
   PortalActions, ActionLog, NotificationLog, ProblemHistory,
   MetricConfig, AddMetric, AddRule, EditRule, AddTrigger, DependentItem}
NoView == View(FALSE, FALSE, "none", "never")

VARIABLES
  view,      \* the view that is open
  sel,       \* what is selected in it
  content,   \* whose data it shows
  polling,   \* its selection is fetched again from time to time
  stuck,     \* it shows an error instead of the data
  requests,  \* requests in flight: what for, or "none"
  since,     \* requests sent under the present selection
  first,     \* the request of a selection, where its failure sticks
  spinner,   \* on from a selection to the next answer; it hides what can be chosen
  healthy,   \* no request fails any more
  chosen,    \* whose item is chosen
  sent,      \* the last choice sent, and the selection sent with it
  months,    \* the period of the availability report, 0 where none is chosen
  astray     \* history: a request was overtaken by a new selection, or failed

lookupVars == <<view, sel, content, polling, stuck, requests, since, first, spinner, healthy, chosen,
                sent, months, astray>>

Some == Sel \cup {"none"}
Month == 0..Months

LookupTypeOK ==
  /\ view \in Views \cup {NoView}
  /\ sel \in Some /\ content \in Some /\ chosen \in Some
  /\ requests \in [Req -> Some] /\ since \in SUBSET Req /\ first \in SUBSET Req
  /\ polling \in BOOLEAN /\ stuck \in BOOLEAN
  /\ spinner \in BOOLEAN /\ healthy \in BOOLEAN /\ astray \in BOOLEAN
  /\ sent \in [sel : Some, of : Some]
  /\ months \in [from : Month, to : Month]

LookupInit ==
  /\ view = NoView /\ sel = "none" /\ content = "none"
  /\ polling = FALSE /\ stuck = FALSE
  /\ requests = [r \in Req |-> "none"] /\ since = {} /\ first = {}
  /\ spinner = FALSE /\ healthy = FALSE
  /\ chosen = "none" /\ sent = [sel |-> "none", of |-> "none"]
  /\ months = [from |-> 0, to |-> 0] /\ astray = FALSE

Flying == {r \in Req : requests[r] # "none"}
Settled == Flying = {}

-----------------------------------------------------------------------------
\* Whether a view that is opened fetches again: the refresh interval of the
\* portal's configuration may be zero, and the user's switch starts off.
OpenView(v) ==
  /\ view = NoView /\ view' = v
  /\ polling' \in BOOLEAN
  /\ v.polls = "timer" => polling'
  /\ v.polls \in {"never", "switch"} => ~polling'
  /\ UNCHANGED <<sel, content, stuck, requests, since, first, spinner, healthy, chosen, sent, months,
                 astray>>

ToggleAutoRefresh ==
  /\ view.polls = "switch" /\ polling' = ~polling
  /\ UNCHANGED <<view, sel, content, stuck, requests, since, first, spinner, healthy, chosen, sent,
                 months, astray>>

Select(x, r) ==
  /\ view # NoView /\ x # sel /\ r \notin Flying
  /\ sel' = x /\ spinner' = TRUE /\ stuck' = FALSE
  /\ requests' = [requests EXCEPT ![r] = x]
  /\ since' = {r}
  /\ first' = IF view.fail = "stuck" THEN {r} ELSE {}
  /\ content' = IF view.clears THEN "none" ELSE content
  /\ chosen' = IF view.choice = "select" THEN "none" ELSE chosen
  /\ astray' = (astray \/ Flying # {})
  /\ UNCHANGED <<view, polling, healthy, sent, months>>

\* Seeded bug: a poll is not one of the present selection.
PollUncounted(r) ==
  /\ polling /\ sel # "none" /\ r \notin Flying
  /\ requests' = [requests EXCEPT ![r] = sel]
  /\ UNCHANGED <<view, sel, content, polling, stuck, since, first, spinner, healthy, chosen, sent,
                 months, astray>>

Poll(r) ==
  /\ polling /\ sel # "none" /\ r \notin Flying
  /\ requests' = [requests EXCEPT ![r] = sel]
  /\ since' = since \cup {r}
  /\ UNCHANGED <<view, sel, content, polling, stuck, first, spinner, healthy, chosen, sent, months,
                 astray>>

\* Seeded bug: late answers count.
CountsAlways(r) == TRUE
Counts(r) == view.guard => r \in since

\* An error that is shown stays.
Answer(r) ==
  /\ r \in Flying
  /\ content' = IF Counts(r) THEN requests[r] ELSE content
  /\ chosen' = IF Counts(r) /\ view.choice = "answer" THEN "none" ELSE chosen
  /\ requests' = [requests EXCEPT ![r] = "none"]
  /\ since' = since \ {r} /\ first' = first \ {r} /\ spinner' = FALSE
  /\ UNCHANGED <<view, sel, polling, stuck, healthy, sent, months, astray>>

Fail(r) ==
  /\ r \in Flying /\ ~healthy
  /\ content' = IF Counts(r) /\ view.fail = "empty" THEN "none" ELSE content
  /\ stuck' = (stuck \/ r \in first)
  /\ requests' = [requests EXCEPT ![r] = "none"]
  /\ since' = since \ {r} /\ first' = first \ {r} /\ spinner' = FALSE
  /\ astray' = TRUE
  /\ UNCHANGED <<view, sel, polling, healthy, chosen, sent, months>>

Choose ==
  /\ view.choice # "none" /\ content # "none"
  /\ view.choice = "kept" \/ ~spinner
  /\ chosen' = content
  /\ UNCHANGED <<view, sel, content, polling, stuck, requests, since, first, spinner, healthy, sent,
                 months, astray>>

MaySend == chosen # "none" /\ (view.listed => chosen = content)

Send ==
  /\ MaySend
  /\ sent' = [sel |-> sel, of |-> chosen]
  /\ UNCHANGED <<view, sel, content, polling, stuck, requests, since, first, spinner, healthy, chosen,
                 months, astray>>

Recovers ==
  /\ ~healthy /\ healthy' = TRUE
  /\ UNCHANGED <<view, sel, content, polling, stuck, requests, since, first, spinner, chosen, sent, months,
                 astray>>

-----------------------------------------------------------------------------
(* The months of the availability report: m months before the present one
   is Months + 1 - m, at most six from the first to the last. *)
MAX_RANGE_MONTHS == 6
monthDiff(from, to) == to - from
toMonthOptions(from) == {m \in 1..Months : monthDiff(from, m) \in 0..(MAX_RANGE_MONTHS - 1)}

ToInReach(v, to) ==
  IF v = 0 \/ (to # 0 /\ (monthDiff(v, to) < 0 \/ monthDiff(v, to) >= MAX_RANGE_MONTHS))
  THEN 0 ELSE to

PickMonths ==
  /\ view = NoView
  /\ \/ \E v \in Month : months' = [from |-> v, to |-> ToInReach(v, months.to)]
     \/ /\ months.from # 0
        /\ \E v \in toMonthOptions(months.from) \cup {0} : months' = [months EXCEPT !.to = v]
  /\ UNCHANGED <<view, sel, content, polling, stuck, requests, since, first, spinner, healthy, chosen, sent,
                 astray>>

LookupNext ==
  \/ (\E v \in Views : OpenView(v)) \/ ToggleAutoRefresh
  \/ \E r \in Req : Poll(r) \/ Answer(r) \/ Fail(r) \/ \E x \in Sel : Select(x, r)
  \/ Choose \/ Send \/ Recovers \/ PickMonths

\* A view that fetches again does so in time, and every request is answered.
LookupFairness ==
  /\ \A r \in Req : WF_lookupVars(Poll(r)) /\ WF_lookupVars(Answer(r))
  /\ WF_lookupVars(Recovers)

LookupSpec == LookupInit /\ [][LookupNext]_lookupVars /\ LookupFairness

-----------------------------------------------------------------------------
\* A view that drops late answers and empties itself never shows the data of
\* one thing under the name of another.  Any view shows those of the selection
\* once its requests are answered, unless one failed or was overtaken.
NeverAnothers ==
  /\ view.guard /\ view.clears => content \in {sel, "none"}
  /\ Settled /\ ~astray => content \in {sel, "none"}

\* An alert rule, a widget or a trigger joins a host with an item of that host:
\* as long as no request failed or was overtaken, where a new host resets the
\* choice.
ChoiceBelongs ==
  ~astray /\ view.choice = "select" => sent.of = sent.sel

\* A view that fetches again, for good from some point on, comes to show its
\* selection once the user leaves it alone, whatever failed or came late
\* before.  Excepted is the chart of a graph whose first request failed: it
\* keeps its error though the polls bring the data.
PollsCatchUp ==
  <>[][sel' = sel]_lookupVars /\ <>[]polling => <>[](content = sel \/ stuck)

\* The period of the report is at most six months and never runs backwards.
PeriodInReach ==
  months.to # 0 => months.from # 0 /\ monthDiff(months.from, months.to) \in 0..(MAX_RANGE_MONTHS - 1)
=============================================================================
