---------------------------- MODULE AlertPolling ----------------------------
(***************************************************************************)
(* From Zabbix to the toasts of a browser: the problems of a user.         *)
(*                                                                         *)
(* The server keeps the list of problems in a cache that expires, and      *)
(* fills it outside its lock; a list that could not be fetched is kept as  *)
(* an empty one.  The browser polls the list, also while an earlier answer *)
(* is under way, and takes for new what was not in the last answer; the    *)
(* drawer fetches the list for display only.  Every five minutes the       *)
(* problems that nobody acknowledged or snoozed are shown again.           *)
(*                                                                         *)
(* A problem is an event of Zabbix: it leaves the list once and for all.   *)
(* The clocks of Zabbix and browser are assumed to agree.                  *)
(***************************************************************************)
EXTENDS Integers, FiniteSets, Sequences, SequencesExt

CONSTANTS
  Problem,   \* numbers of problems, the most severe ones first
  Low,       \* those whose toast goes by itself
  Cap,       \* toasts on the screen, 8 in the code
  Few,       \* toasts up to which they are dismissed one by one, 3 in the code
  MaxRev     \* changes of the list at Zabbix (a bound)

ASSUME PollingAssumption ==
  /\ Problem \subseteq Nat \ {0} /\ IsFiniteSet(Problem) /\ Low \subseteq Problem /\ Cap \in Nat \ {0}
  /\ Few \in 0..Cap - 1 /\ MaxRev \in Nat

VARIABLES
  problems,   \* at Zabbix
  rev,        \* changes so far
  cache,      \* the list at the server, or NoList
  healthy,    \* no request fails any more
  calls,      \* polls in flight
  active,     \* activeProblems
  seen,       \* seenIds
  firstPoll,  \* nothing has been answered yet
  late,       \* problems raised after the second of the first answer
  toasts,     \* notifications, newest first; 0 stands for one of an alert rule
  snoozed,
  told,       \* history: how often a problem was taken for new
  acked,      \* history: problems that were acknowledged at some time
  newest,     \* history: the newest list answered
  disorder    \* history: an empty list or an older one was answered

zabbixVars == <<problems, rev, late, acked>>
shellVars == <<active, seen, firstPoll, toasts, told, newest, disorder>>
pollVars == <<zabbixVars, cache, healthy, calls, shellVars, snoozed>>

Status == {"none", "open", "acked", "gone"}
Listing == [rev : -1..MaxRev, of : [Problem -> {"none", "open", "acked"}]]
NoList == [rev |-> -2, of |-> [p \in Problem |-> "none"]]
EmptyList == [NoList EXCEPT !.rev = -1]
Call == [at : {"asked", "fetched", "answered"}, list : Listing \cup {NoList}]

Listed(of) == {p \in Problem : of[p] # "none"}
Open(of) == {p \in Problem : of[p] = "open"}
AtZabbix ==
  [rev |-> rev, of |-> [p \in Problem |-> IF problems[p] = "gone" THEN "none" ELSE problems[p]]]

PollTypeOK ==
  /\ problems \in [Problem -> Status] /\ rev \in 0..MaxRev
  /\ cache \in Listing \cup {NoList} /\ healthy \in BOOLEAN
  /\ calls \subseteq Call
  /\ active \in [Problem -> {"none", "open", "acked"}] /\ seen \subseteq Problem /\ firstPoll \in BOOLEAN
  /\ late \subseteq Problem /\ snoozed \subseteq Problem /\ acked \subseteq Problem
  /\ toasts \in Seq(Problem \cup {0}) /\ Len(toasts) <= Cap
  /\ told \in [Problem -> 0..2] /\ newest \in -2..MaxRev /\ disorder \in BOOLEAN

\* Snoozing outlives the page.
PollInit ==
  /\ problems \in [Problem -> {"none", "open"}] /\ rev = 0
  /\ cache = NoList /\ healthy = FALSE /\ calls = {}
  /\ active = NoList.of /\ seen = {} /\ firstPoll = TRUE
  /\ late = {} /\ snoozed \in SUBSET Problem /\ acked = {}
  /\ toasts = <<>> /\ told = [p \in Problem |-> 0]
  /\ newest = -2 /\ disorder = FALSE

-----------------------------------------------------------------------------
(* Zabbix *)

ProblemBecomes(p, from, to) ==
  /\ problems[p] \in from /\ rev < MaxRev
  /\ problems' = [problems EXCEPT ![p] = to] /\ rev' = rev + 1
  /\ UNCHANGED <<healthy, calls, shellVars, snoozed>>

Raise(p) ==
  /\ ProblemBecomes(p, {"none"}, "open")
  /\ late' \in {late, late \cup (IF firstPoll THEN {} ELSE {p})}
  /\ UNCHANGED <<cache, acked>>

Resolve(p) == ProblemBecomes(p, {"open", "acked"}, "gone") /\ UNCHANGED <<cache, late, acked>>

\* Through the portal, which drops the list of one worker, or not.
acknowledge_problem(p) ==
  /\ ProblemBecomes(p, {"open"}, "acked")
  /\ cache' \in {cache, NoList} /\ acked' = acked \cup {p} /\ UNCHANGED late

unacknowledge_problem(p) ==
  /\ ProblemBecomes(p, {"acked"}, "open")
  /\ cache' \in {cache, NoList} /\ UNCHANGED <<late, acked>>

-----------------------------------------------------------------------------
(* The server *)

Becomes(q, r) == calls' = (calls \ {q}) \cup {r}

CacheHit(q) ==
  /\ q \in calls /\ q.at = "asked" /\ cache # NoList
  /\ Becomes(q, [q EXCEPT !.at = "answered", !.list = cache])
  /\ UNCHANGED <<zabbixVars, cache, healthy, shellVars, snoozed>>

Fetched(q, list) ==
  /\ q \in calls /\ q.at = "asked" /\ cache = NoList
  /\ Becomes(q, [q EXCEPT !.at = "fetched", !.list = list])
  /\ UNCHANGED <<zabbixVars, cache, healthy, shellVars, snoozed>>
_fetch_problems(q) == Fetched(q, AtZabbix)
_fetch_problemsFails(q) == ~healthy /\ Fetched(q, EmptyList)

\* It is stored whatever happened to the cache in the meantime.
CacheStore(q) ==
  /\ q \in calls /\ q.at = "fetched"
  /\ cache' = q.list
  /\ Becomes(q, [q EXCEPT !.at = "answered"])
  /\ UNCHANGED <<zabbixVars, healthy, shellVars, snoozed>>

\* Seeded bug: only a list that was fetched is kept for good.
CacheExpiresEmpty ==
  /\ cache = EmptyList /\ cache' = NoList
  /\ UNCHANGED <<zabbixVars, healthy, calls, shellVars, snoozed>>
CacheExpires ==
  /\ cache # NoList /\ cache' = NoList
  /\ UNCHANGED <<zabbixVars, healthy, calls, shellVars, snoozed>>

CallFails(q) ==
  /\ q \in calls /\ ~healthy
  /\ calls' = calls \ {q}
  /\ UNCHANGED <<zabbixVars, cache, healthy, shellVars, snoozed>>

Recovers ==
  /\ ~healthy /\ healthy' = TRUE
  /\ UNCHANGED <<zabbixVars, cache, calls, shellVars, snoozed>>

-----------------------------------------------------------------------------
(* The browser *)

\* Every ten seconds, and after an acknowledgement on the page of the problems.
Poll ==
  /\ Cardinality(calls) < 2  \* a bound
  /\ calls' = calls \cup {[at |-> "asked", list |-> NoList]}
  /\ UNCHANGED <<zabbixVars, cache, healthy, shellVars, snoozed>>

\* Seeded bug: what is new is not remembered.
SeenAfterKeeps(list) == IF firstPoll THEN Listed(list) ELSE seen \cap Listed(list)
\* What is gone is forgotten, what is new is remembered.
SeenAfter(list) == Listed(list)
NewOf(list) ==
  IF firstPoll THEN {} ELSE {p \in Listed(list) \ seen : list[p] = "open" /\ p \in late}

\* Seeded bug: the toasts are not cut.
TopUncut(q) == q
Top(q) == SubSeq(q, 1, IF Len(q) < Cap THEN Len(q) ELSE Cap)
\* Both are defined by what they yield; the library's have no definition that a
\* proof could unfold.
InOrder(S) == CHOOSE q \in [1..Cardinality(S) -> S] : \A i, j \in DOMAIN q : i < j => q[i] < q[j]
\* What is left of a list without the members of a set.
Without(q, S) ==
  LET left == InOrder({i \in DOMAIN q : q[i] \notin S}) IN [k \in DOMAIN left |-> q[left[k]]]

PollAnswered(q) ==
  /\ q \in calls /\ q.at = "answered"
  /\ calls' = calls \ {q}
  /\ active' = q.list.of
  /\ seen' = SeenAfter(q.list.of) /\ firstPoll' = FALSE
  /\ LET new == NewOf(q.list.of) IN
       /\ toasts' = IF new = {} THEN toasts ELSE Top(InOrder(new) \o toasts)
       /\ told' = [p \in Problem |-> IF p \in new /\ told[p] < 2 THEN told[p] + 1 ELSE told[p]]
  /\ disorder' = (disorder \/ q.list.rev < newest \/ q.list.rev = -1)
  /\ newest' = IF q.list.rev > newest THEN q.list.rev ELSE newest
  /\ UNCHANGED <<zabbixVars, cache, healthy, snoozed>>

\* Seeded bug: the drawer marks what it shows as seen.
SeenByDrawer(list) == Listed(list)
SeenStill(list) == seen
\* The drawer is opened or refreshed, or a problem was acknowledged in it: the
\* list is shown, what is new in it is left to the next poll.
ShowInDrawer(list) ==
  /\ cache' = list
  /\ active' = list.of /\ seen' = SeenStill(list.of)
  /\ UNCHANGED <<zabbixVars, healthy, calls, firstPoll, toasts, told, newest, disorder, snoozed>>
OpenDrawer ==
  \/ cache # NoList /\ ShowInDrawer(cache)
  \/ cache = NoList /\ ShowInDrawer(AtZabbix)
  \/ cache = NoList /\ ~healthy /\ ShowInDrawer(EmptyList)

\* Seeded bug: only what was announced rings again.
RingingTold == {p \in Open(active) \ snoozed : told[p] > 0}
\* "As long as a real Zabbix problem stays unacknowledged and unsnoozed".
Ringing == Open(active) \ snoozed

Ring ==
  /\ Ringing # {}
  /\ toasts' = Top(InOrder(Ringing) \o Without(toasts, Ringing))
  /\ UNCHANGED <<zabbixVars, cache, healthy, calls, active, seen, firstPoll, told, newest,
                 disorder, snoozed>>

ShowToasts(q) ==
  /\ toasts' = q
  /\ UNCHANGED <<zabbixVars, cache, healthy, calls, active, seen, firstPoll, told, newest, disorder>>

\* A new event of an alert rule.
RuleToast == ShowToasts(Top(<<0>> \o toasts)) /\ UNCHANGED snoozed
Dismiss(x) == ShowToasts(Without(toasts, {x})) /\ UNCHANGED snoozed
DismissAll == Len(toasts) > Few /\ ShowToasts(<<>>) /\ UNCHANGED snoozed
AutoDismiss == ShowToasts(Without(toasts, Low)) /\ UNCHANGED snoozed
Snooze(p) ==
  /\ p \in ToSet(toasts) \ {0}
  /\ ShowToasts(Without(toasts, {p})) /\ snoozed' = snoozed \cup {p}
SnoozeEnds(p) ==
  /\ snoozed' = snoozed \ {p}
  /\ UNCHANGED <<zabbixVars, cache, healthy, calls, shellVars>>

PollNext ==
  \/ \E p \in Problem :
       \/ Raise(p) \/ Resolve(p) \/ acknowledge_problem(p) \/ unacknowledge_problem(p)
       \/ Snooze(p) \/ SnoozeEnds(p)
  \/ \E x \in Problem \cup {0} : Dismiss(x)
  \/ Poll \/ OpenDrawer
  \/ \E q \in calls :
       \/ CacheHit(q) \/ _fetch_problems(q) \/ _fetch_problemsFails(q) \/ CacheStore(q)
       \/ PollAnswered(q) \/ CallFails(q)
  \/ CacheExpires \/ Recovers
  \/ Ring \/ RuleToast \/ AutoDismiss \/ DismissAll

\* The timers run, the list expires, and a poll is answered, once failures
\* have an end.
PollFairness ==
  /\ WF_pollVars(Poll) /\ WF_pollVars(Ring)
  /\ WF_pollVars(CacheExpires) /\ WF_pollVars(Recovers)
  /\ WF_pollVars(\E q \in calls : CacheHit(q) \/ _fetch_problems(q))
  /\ WF_pollVars(\E q \in calls : CacheStore(q))
  /\ WF_pollVars(\E q \in calls : PollAnswered(q))

PollSpec == PollInit /\ [][PollNext]_pollVars /\ PollFairness

-----------------------------------------------------------------------------
\* A problem raised after the page was loaded is announced, unless it is
\* acknowledged or resolved first: no answer on the way, in whatever order, and
\* no look into the drawer makes the browser take it for known.
ToldEventually ==
  \A p \in Problem :
    problems[p] = "open" /\ p \in late /\ p \notin acked
      ~> told[p] > 0 \/ p \in acked \/ problems[p] = "gone"

\* It is announced once, as long as the lists were answered in order and none
\* was empty because the fetch had failed.
ToldOnce == disorder \/ \A p \in Problem : told[p] <= 1

\* "So it can't be missed": a problem that is open and not snoozed comes up on
\* the screen, also one that is older than the page; unless there are more of
\* them than toasts.
EverySurfaced ==
  \A p \in Problem :
    problems[p] = "open" ~>
      \/ p \in ToSet(toasts) \/ problems[p] # "open" \/ p \in snoozed
      \/ Cardinality(Open(problems)) > Cap

\* Once nothing changes at Zabbix the browser has its list, though lists are
\* stored in the cache after they were invalidated.
ListCatchesUp == <>[](Listed(active) = {p \in Problem : problems[p] \in {"open", "acked"}}
                       /\ Open(active) = Open(problems))
=============================================================================
