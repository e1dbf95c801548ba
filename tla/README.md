# Overwatch (Zabbix portal): TLA+ models, model checking and proofs

The portal is a web application beside Zabbix. Its server keeps tables of its own
(users, teams, host assignments, alert rules) in PostgreSQL and mirrors part of
them in Zabbix, which other people change as well; its browser application shows
lists, forms and charts of both, fetched and sent by many small requests. Nothing
excludes the actors from each other. On the server two or three threads run
`full_sync` on snapshots, request threads commit a row first and call Zabbix
afterwards, failures of such calls are logged and swallowed, and the alert
checker judges copies of rows in one long transaction. In the browser requests
overlap, none is cancelled, and their answers find another dialog, page or
selection than the one that sent them. The models are about that: what stays true
whatever the interleaving, and what the next sync, poll or reload puts right.

Paths are relative to `src/apps/backend/` (`*.py`) and `src/apps/frontend/src/`
(`*.ts`, `*.tsx`); the exact lines each definition stands for are in
`PROJECT.json` under `map`, the hazards the properties are for under `hazards`.

## The system

| Component | State | Operations | Interacts with |
|---|---|---|---|
| User accounts (`User_Management.py`, `api/routes/users.py`, `auth.py`) | `team_users` | create, LDAP login that provisions, update, delete, seed root | Zabbix users through `ZabbixSync/push.py`; the syncs write the same rows |
| Teams (`User_Management.py`, `api/routes/teams.py`) | `teams` (id, unique name) | create, delete, members, hosts | Zabbix user groups; deletion cascades to assignments and memberships |
| Host assignments (`teams.py`, `hosts.py`, `Host_Manager`) | `host_assignments`; in Zabbix, host groups and the tag `team` | assign, unassign, tag, create and delete host | read-modify-write of the host's tags and groups |
| Syncs (`ZabbixSync/pull.py`, `background.py`) | the snapshots of one `full_sync` | users, then groups, then hosts, one transaction each write | run by the notification listener, the interval thread and `POST /sync`, without a lock |
| Alert checker (`Alert_Manager.py`) | `alert_rules.is_firing`, `alert_events` | select, fetch, judge, insert event, set flag, commit | Zabbix `item.get`; requests that change the rules |
| Problem cache (`Zabbix_Base.py`, `Metrics_Manager.py`) | lists with an expiry, per worker | fill outside the lock, invalidate | polls of the browsers, acknowledgements |
| Alert polling (`app/layout/useAlertPolling.ts`, `AppShell.tsx`) | seen, snoozed and shown problems | poll, notify, repeat, drawer | problem cache, alert events |
| Lists (of the tabs under `views/`) | rows, spinner | load, tick, refresh, write and reload | the routes; `RefreshContext` ticks |
| Dialogs of the tabs | form, busy flag, prefetched options | open, type, cancel, save | the routes; a save closes dialogs and clears forms |
| Batches (`views/Teams`, `views/Metrics/AlertRuleDialog.tsx`) | a selection; for rules also the host it is made on | select, change the host, send one request per thing in parallel | routes of teams and rules |
| Item panels (`views/Items/panels`) | a form per item type | fill, switch to bulk, submit | `Item_Manager`, which also creates triggers |
| Authentication (`views/UsersManagement`) | settings, portal LDAP, a server with mappings | load, edit, save as a whole | `api/schemas/admin.py`, Zabbix |
| Roles and proxies (`views/UsersManagement/RolesTab.tsx`, `views/Administration`) | forms whose fields depend on a choice | open, choose, send | `ZabbixAdmin_Manager` |
| Layouts (`views/Metrics/ItemHistoryTab.tsx`, `views/Dashboard/GraphsTab.tsx`) | widgets, dirty mark, scope, page | load, edit, switch, save, pages | `Dashboard_Manager.py`, rows per owner and page |
| Lookups (charts, reports, pickers of items) | a selection and what was fetched for it | select, poll, choose, send | the routes |
| Startup and threads (`Database.py`, `api/lifespan.py`) | schema, advisory locks, threads | `init_db`, watchdog | four workers start at once, one runs the threads |
| Sync events (`status.py`, `SyncContext.tsx`) | queues per worker, stream of the browser | subscribe, notify, reconnect | lists load once more |
| Connection pool, reports, actions, health monitors, audit | none of their own, or rows appended | forward to Zabbix, format | Zabbix |

What is hard, and what correctness means for each part:

- **Users.** Check and INSERT of a new login are two statements; a sync decides
  from a snapshot and a listing that are both old when it writes; a push may fail.
  Correct: keys stay unique, one login has two rows only in the one way the code
  leaves open, a sync never touches accounts that did not come from Zabbix, and
  when people stop, the portal agrees with Zabbix.
- **Teams.** A listed team may be deleted and created again before the sync
  removes it. Correct: a sync removes the very rows it listed; teams follow groups.
- **Hosts.** Tags and groups are read and written back as a whole, in two calls.
  Correct: rows keep their team, a host keeps a group, what Zabbix showed is not
  removed, rows follow Zabbix in the end.
- **Alerts.** One transaction spans two Zabbix calls; rules change meanwhile; a
  crash may come anywhere. Correct: one event per episode, none lost and none
  twice; a rule whose condition stays met fires, one whose condition is over stops.
- **Notifications.** Failed fetches are cached as empty lists, polls overlap, the
  drawer reads the same list. Correct: a new problem is announced, once in good
  order, and reaches the screen.
- **Lists and dialogs.** Answers overtake each other; a save ends under another
  dialog; some dialogs write back lists that they fetched. Correct: the list ends
  as the server has it, typed input survives, one dialog creates one object, no
  group gets the members of another.
- **Forms, settings, layouts, lookups.** Late answers arrive under another
  selection; what is hidden stays in the form; what was never fetched is written
  back. Correct: what is sent is what was shown, for the thing it was shown for.

## Modules

| Module | What it is |
|---|---|
| `UserSync` | accounts between `team_users` and Zabbix |
| `TeamSync` | teams between `teams` and Zabbix user groups |
| `HostSync` | pairs of host and team between `host_assignments`, host groups and tags |
| `AlertLedger` | abstract: what rules promise their owners |
| `AlertChecker` | `run_checks` and the requests on rules; implements `AlertLedger` |
| `AlertPolling` | problems from Zabbix through the cache to the toasts of a browser |
| `TabTable` | 25 tabs as records, read off their files: 23 have a list, the two of the page of the teams only dialogs |
| `TabLists`, `TabDialogs` | the protocol of their lists, and of their dialogs |
| `BatchDialogs`, `GroupOrder` | dialogs that send a whole selection; the order of a user's groups |
| `AdminForms` | the role form and the proxy form, with what the server makes of them |
| `LayoutEditor` | layouts of dashboards, per owner and page |
| `Lookups` | the 28 views that fetch something for a selection, as records, and their steps |
| `ItemTable`, `ItemForms` | the item panels as records, and the "Add Item" dialog |
| `AuthSettings` | authentication and housekeeping settings, the portal's LDAP login, the LDAP server dialog |
| `MCUserSync`, `MCTeamSync`, `MCHostSync`, `MCAlertChecker`, `MCAlertPolling` | small instances for TLC |
| `MCTabs`, `MCViews`, `MCItems` | small instances of several modules side by side |
| `UserSyncProofs`, `TeamSyncProofs`, `HostSyncProofs` | theorems about the syncs |
| `AlertProofs` | theorems about `AlertChecker`, its refinement of `AlertLedger`, and `AlertPolling` |
| `TabProofs`, `ViewProofs`, `ItemsProofs` | theorems about what `MCTabs`, `MCViews` and `MCItems` put together |
| `Enumerations` | lemmas about finite sets listed in an order, used for the toasts and for the order of teams |

The three sync modules are the three parts of `full_sync` in the order
`pull.py:362-404` calls them. They are separate because the parts share no
variable of the sync: each lists and fetches for itself, and what one part
changes reaches the others through the tables, where the other modules have it
as a step of somebody else. `TeamSync` and `HostSync` therefore allow more than the
composition does, and a safety property that holds of them holds there. `UserSync`
does not: teams only appear in it, while in the portal they are removed as well, by
requests and by the sync of the groups (after which their users have no team).
What its properties say of accounts is said of runs in which no team is removed.

The modules of the browser are tables and protocols: many files follow one
protocol and differ in a few points. The table names the points of each file, the
protocol has the steps, and a run mounts any row of the table. `MCTabs`, `MCViews`
and `MCItems` put modules that share no state beside each other in one run; the
first step chooses the one that moves, as a run that moved all of them would
visit the product of their states and see no more.

Definitions marked "Seeded bug" are deliberate mistakes. They are used by the
mutants of `PROJECT.json` only and show that a property can fail.

### UserSync

`users` holds the rows of `team_users` as records with their serial key `id`;
a login is a `name` up to letter case and a `form`, the spelling: `lower` is what
the routes store, `mixed` any other that Zabbix may hold. `zbx` holds the user
accounts of Zabbix, each with its type and its first relevant user group, which
is what the sync reads of it.

For each thread that syncs, `pc` says where it is and `zsnap`, `ztodo`, `tsnap`,
`usnap` hold its copies. One step is one transaction or one call to Zabbix:
`FetchUsers` (`user.get`), `ListPortal` (`list_teams`, `list_users`, with
`ListPortalFails` for an error that both turn into an empty list), then for each
fetched user one of `SkipManaged`, `UpdateImported`, `ImportNew`, and
`ListForPrune`, `PruneUser`, `EndSync` for the removal. `create_user` is two
steps wherever it is called from: `CheckDuplicate` fills `pending`, and
`InsertUser` or `InsertRejected` empties it.

Request threads do `CreateUser`, `JitLogin`, `UpdateUser`, `DeleteUser` and
`AddTeamMember`; after the commit `job` holds the Zabbix call still owed, which
`PushUser` or `PushDelete` make and `PushFails` does not. `ZabbixPut` and
`ZabbixDelete` are administrators in Zabbix. `Restart` forgets all copies.

A key that is never given twice is modelled by the smallest key that no row and
no copy carries: keys are only compared for equality, so a key nobody holds is
as good as a new one.

### TeamSync

`teams` are rows with id and name, `groups` the user groups of Zabbix.
`FetchUsers` takes the names of the users' groups and `ImportTeam` creates a team
for each (`_get_or_create_team_id`); `FetchGroups` then takes all groups, `ListTeams`
the teams, which gives the groups to import and the rows to remove,
and `ImportTeam`, `RemoveTeam` carry that out by id. `DEFAULT_GROUP`, role groups
and the skipped groups are constants: `Kept` is exempt from removal, `Ignored`
from import. `UseGroup` is the startup thread, `CreateTeam` and `DeleteTeam` the
routes, with `PushGroup`, `PushDelete` and `PushFails` for what they owe.

### HostSync

`assigned` are the rows, the team by its name. A sync holds ids, not names, and
an id dies with its team even when the name comes back; `stale` are the listed
teams this happened to. `hosts`, `groups` and `tags` are Zabbix. `Shown` is what
`_collect_zabbix_host_assignments` computes: pairs by host group, which are
assigned anew, and pairs by tag, which only keep what is assigned.

A request commits its row and then runs a job of up to two read-modify-writes,
tags first: `Read`, `WriteTags` or `WriteGroups`, or `CallFails`, after which the
next part is tried all the same. A host or a host group deleted in between makes
the write fail, as the ids in it are gone. `unshown` is history: for each sync the
rows that Zabbix did not show at some moment since the sync began (`Watch`).

### AlertChecker and AlertLedger

`rules` and `events` are the committed rows and the number of committed events.
`copy` is what the SELECT returned, `got` what Zabbix answered, `up` and `down` the
uncommitted writes. `Fire` is the INSERT followed by the UPDATE, `Recover` the
UPDATE, `Commit` makes both visible; `InsertFails`, when the rule is gone or its
operator does not fit `alert_events.operator`, and `Crash` roll back. A row the
transaction wrote is locked: `UpdateRule`, `ToggleRule` and `DeleteRule` wait for it.
A value of an item is reduced to what the judgements ask of it. Deleting a user
deletes his rules by cascade, which is `DeleteRule` for each.

`AlertLedger` has per rule a state and a number of events sent; `Settle(up, down)`
lets any set of quiet rules fire, each with one event, and any set of firing ones
recover. `AlertChecker` implements it under `state <- StateOf(rules[r])`,
`sent <- events`: creation, deletion and `Commit` are its actions, everything else
stutters. Updating or switching off a firing rule leaves its flag, so the ledger
keeps it firing.

### AlertPolling

`problems` is Zabbix, `cache` the list one worker keeps, `calls` the polls of one
browser, `active`, `seen` and `toasts` its state. A poll is `Poll`, then `CacheHit`,
or `_fetch_problems` and `CacheStore`, between which the cache may be invalidated
by `acknowledge_problem`, and `PollAnswered`, which is `updateSeenProblemIds` and
what follows it. A fetch that fails answers an empty list, which is stored like
any other. `OpenDrawer` shows the list without marking anything as seen; `Ring` is
the five minute repeat. `RuleToast` stands for alert events, which compete for the
same eight places. An invalidation reaches the worker that has it or another one,
so its effect on `cache` is a choice. The clocks of Zabbix and browser are assumed
to agree, as the code compares them; that a problem raised in the second of the
first answer counts as old is left open by `late`.

### TabTable, TabLists, TabDialogs

A record of `TabTable` says what a tab loads together, whether the timer reloads
it, what Refresh does to the spinner, what a row can be asked, the writes of a
save in order, which dialogs a success closes and what it clears, which fields
must be filled, and what is fetched when a dialog opens.

`TabLists`: a load reads its lists one by one (`Read`) and shows the oldest state
it read (`Answer`), or fails as a whole (`Fail`). `Written` loads anew after a
write, `Patched` puts the row right in the list on display, as the page of the
problems does after an acknowledgement. A state of the server is a version number
and whether the row the user looks at is enabled.

`TabDialogs`: `Open` is `openDialog`, `openAdd` and their like, `Submit` is `onSave`
up to its first request, `NextStep`, `Saved`, `Refuse` and `LoseAnswer` are what
comes of each request. `fresh` is `openRequestRef`; its guarded fetch is `Fetched`
and `FetchFails`. Chosen are the members that are also among the options, and
these may be fewer: `GET /hosts` lists the hosts of the user's team, the options of
template groups are limited to 500 and cached, and an error of Zabbix that is
swallowed gives none. So `Fetched` may choose some members only. The history
variables `made`, `dropped`, `mixed`, `unseen`, `lost` and `late` hold what a property
needs to know of the past.

### BatchDialogs, GroupOrder

`BatchDialogs` has two parts. The dialogs of a team give it hosts, host groups or
members: `SendBatch` starts one request per selected thing, as `Promise.all` does, and
looks up the hosts of a selected group only then (`Selection`), in a list that
`LoadPage` may have replaced since; the first `RequestFails` ends the batch for the
dialog while the others run on; `BatchDone` closes whatever dialog is open. The
dialog of new alert rules chooses its host inside (`SelectHost`): the items of the
host before, and what was chosen of them, stay until `ItemsListed`, and `addItemRule`
is enabled meanwhile. `loose` records the rules asked for in that time, or after the
answer for another host had come last (`overtaken`). `GroupOrder` has the dialog that moves a group up
or down: `Move` writes those orders that differ from what the dialog believes.

### AdminForms

A role is a type and a set of elements; `UI_SECTIONS` has one section and element
of each kind, and `CreateRole` builds the payload. `_build_proxy_params` composes
the form of a proxy with what Zabbix has, as `proxies.py` does; `ZabbixAccepts` is
Zabbix's check, external. An administrator changes the key in between (`OtherKey`).

### LayoutEditor, Lookups

`LayoutEditor` is `ItemHistoryTab` (`confirms`) and `GraphsTab`, with the page manager
and the scope select. Widgets are an edit and the page they were put on, which is
what the properties ask of them. The page manager lists, creates and deletes pages
by requests (`lists`, `request`), and calls `onPageChange` when they are answered:
that callback was captured with the request, so `handlePageChange` gets the scope and
the dirty mark of then, whatever the user has done since. `lost` records that a
fetch failed, was overtaken by another, outrun by an edit or a save, or made for a
scope that had been left, and that the user stayed on a page the scope does not
have; `unsaved` records an edit that no save carried, `hushed` if it fell into a save
or a request for a page. `Lookups` has one row per view: whether it drops late
answers, whether a selection empties it, what a failure leaves (in `ChartJsGraph` an
error that no later answer clears, `stuck`), whether and when it polls (by its own
timer, with the ticks of the portal, only while the user has switched that on,
never), and what becomes of a choice made in it.

### ItemTable, ItemForms, AuthSettings

A row of `ItemTable` names the fields a panel needs, the settings it shows and
sends, those that survive a success, and its kind of trigger. In `ItemForms`
`triggerFields`, `assembleDelay` and `ResetPanel` are `useCommonItemState`;
`maybe_create_trigger`, `Add` and `AddFails` are `Item_Manager`. A threshold is blank,
a number, or words, of which JSON leaves null.

`AuthSettings` has three parts: settings loaded, edited and saved as a whole
(authentication and housekeeping), where `UpdateRequest` is the request model of
the route; the portal's LDAP configuration; and the dialog of an LDAP server with
its group mappings and the mapping dialog above it. A mapping is the server it was
taken from and whether it was added: the dialog of a mapping is filled when it
opens, or when the mapping it edits changes, and what was typed for a new one
stays while the server below changes.

## What is checked

All runs are in `PROJECT.json`; each property of a passing run has a mutant of the
model that breaks it.

| Run | Properties | Shows |
|---|---|---|
| `users` | `TypeOK`, `DuplicatesComeFromZabbix`, `SyncSparesManaged`, `Converges` | two syncs that overlap each other, or one against a request thread, administrators and restarts: keys unique; two rows of one login need a capitalised account from Zabbix; local and LDAP rows survive every stale snapshot; when people stop, the syncs bring both to agree for good |
| `teams` | `TypeOK`, `NewRowsSpared`, `Converges` | two overlapping syncs and a request thread |
| `hosts` | `TypeOK`, `ShownStays`, `Converges` | two overlapping syncs and a request thread with its read-modify-writes: a sync leaves alone what Zabbix has shown ever since it began, and what is of no team it listed; rows follow Zabbix in the end |
| `alerts` | `TypeOK`, `OneFiringPerItem`, `FiringHasEvent`, `ImplementsLedger`, `BreachFires`, `BreachEnds` | two rows that may be either of two rules of one item or a service rule, through rollbacks and crashes: also where the rule judged first keeps starting to fire and recovering while the other waits |
| `notifications` | `PollTypeOK`, `ToldOnce`, `ToldEventually`, `EverySurfaced`, `ListCatchesUp` | one problem, older than the page or newer, two overlapping polls, drawer, toasts of rules |
| `tabs` | `TabsTypeOK`, `SpinnerHasRequest`, `EventuallyFresh`, `CreatedOnce`, `MembersKept`, `InputSurvives` | all tabs: overlapping loads, failures, other administrators; what a dialog opened with no save in flight keeps, one object per opening where a busy flag guards it, and no members of another group |
| `views` | `ViewsTypeOK`, `UntouchedEditKeeps`, `LayoutsStayApart`, `DiscardedByConsent`, `NeverAnothers`, `PollsCatchUp` | role and proxy forms; the layout editor until a fetch goes astray, with page requests answered by old callbacks; all views |
| `items` | `ItemsTypeOK`, `CreatedAsShown`, `TypedIsKept`, `PortalKept`, `ServersStayApart`, `GivenAsChosen`, `OrderAsShown` | all item panels, the authentication page, batches of the teams' dialogs and of new alert rules, the order of groups |

Four runs show a disagreement between the code and what the repository says of it:

| Run | Property | What the code does |
|---|---|---|
| `users_restrictions` | `RestrictionsKept` | a sync that updates an imported account stores an empty restriction list |
| `alerts_text` | `BreachFires` | a text rule never fires: its operator is longer than the column of the event, and the failed INSERT rolls back the cycle |
| `items_nodata` | `NoDataWhereBlank` | the threshold `90%` becomes null and creates a no-data trigger, reported as success |
| `auth_switch` | `SwitchTakesEffect` | the LDAP switch is dropped by the request model and reported as saved |

Most properties about the browser have exceptions. Each is a behaviour of the code
that the model has, and is named in the comment of the property:

| Property | What it leaves out |
|---|---|
| `ShownStays` | a row whose team was deleted and created again under a listed name, or that Zabbix did not show at some moment since the sync began (`pull.py:330`) |
| `BreachFires` | a rule with two rivals on its item, which may take turns for ever (`Alert_Manager.py:294`) |
| `ToldOnce` | runs with a failed fetch of problems, which makes them all new, or with answers out of order |
| `CreatedOnce` | groups, which Enter may send twice, pages without a busy flag, and creates whose answer was lost |
| `InputSurvives` | a dialog opened over a save in flight, which that save closes; the form of an alert rule, which a change of the sounds resets |
| `MembersKept` | a save from an opening that could not show all members, because the fetch failed or some are not among the options: it drops the others |
| `LayoutsStayApart` | what follows a fetch that failed, was overtaken, outrun by an edit or a save, or made for a scope that had been left (a page created in one scope and answered in the other), or a user who stays on a page the scope does not have |
| `DiscardedByConsent` | the same, and edits made while a save or a request for a page is in flight: the save clears their mark, the request was sent before there was one |
| `NeverAnothers` | views that do not drop late answers, or do not empty themselves, once a request failed or was overtaken |
| `PollsCatchUp` | a chart of a graph whose first request failed: its error stays though the polls bring the data |
| `PortalKept` | a save before the first answer, which stores the defaults |
| `ServersStayApart` | mappings added in the dialog: what was typed over one server is still there over the next, and goes with its update |
| `CreatedAsShown` | the settings of a bulk request, which does not carry timeout, interval and options; the trigger of a threshold that is no number |
| `TypedIsKept` | what was typed into a panel while its own request was in flight |
| `GivenAsChosen` | rules asked for while the items of their host were loading, or after the answer for another host had come last: they name one host and have the item of another |
| `OrderAsShown` | moves after a load during which, or after which, a write failed or others moved a team, and after a load answered during a save of the dialog or with orders older than the server's |

Others that no property forbids: two rows for one login after a sync of a
capitalised Zabbix login (`User_Management.py:83-84`, which names the window); an
account promoted or deleted and created again in Zabbix during a sync, which loses
its row until the next one; an assignment that has not reached Zabbix yet and goes
with the next sync (`pull.py:333`); a tag set between the read and the write of
`tag_host`; a group that was created while setting its members failed, and that the
next attempt creates again; operators that come back from Zabbix as members
(`pull.py:163`).

### Bounds

- `users`: one login that is also the root's, in two spellings; one team beside
  none; two syncs and one request thread; eight keys, which rows and copies never
  use up. Duplicates, stale rows and takeovers concern one login. Either the syncs
  overlap, and then Zabbix changes only while one of them, always the same, is at
  work alone or none is, and requests come between the syncs; or one sync runs at a
  time and meets everything; the proofs of the safety
  properties have no such bound. In
  `users_restrictions` two logins, one of them the root's.
- `teams`: an ordinary name and the default group, two syncs, one request thread,
  six keys, no role groups. A row is exempt by its name only, so one name per class is enough.
- `hosts`: one host, one team and a foreign group, two syncs, one request thread.
  Rows of different hosts never meet in the code; two teams of one host meet in
  its groups and are left to the proofs.
- `alerts`: two rows of different forms and one item; the forms are two rules of the
  item, of which the one judged first has the higher threshold, and a service rule
  (rules alike, judged in either order, are left to the proofs); the values are a
  fresh one between the thresholds, a stale one above both, and none, so that the
  rule with the higher threshold starts and stops being met while the other stays
  so. `Horizon` counts events up to two, which tells none, one and several apart.
  Texts are in `alerts_text`.
- `notifications`: one problem, one toast (`Few` is 0, so that it can be dismissed with
  "all"), two changes, two polls in flight.
  Problems meet in the toasts only, where a rule's toast pushes one out; two polls
  are enough for any order of answers.
- `tabs`: `Slot` is two loads, so one may overtake another; `MaxRev` two changes of
  the lists; two rows and two openings, so a save may end under another dialog.
- `views`: two selections and two requests; two edits; seven months, so a period
  may exceed six; one proxy group. The layout editor is followed until something
  goes astray, after which its properties say nothing; a save or a request for a
  page is in flight but not both; the second edit falls into a save, and no page is
  asked for after it; `GraphsTab`, which asks nothing, has one edit and no requests
  for pages. The proofs of its properties have no such bounds.
- `items`: two hosts, two LDAP servers, two teams and things, two batches, three
  groups to order, one trouble there, one load of the settings at a time. One
  control is changed beyond the required ones. Each load of the page of the teams
  shows a host group with one host, another than before; a team is given two things
  at most, hosts one by one. In the dialog of the rules there are two hosts with an
  item each, one load of each at a time, two rules, one of them asked for in haste.
  Groups are moved only in a dialog whose last load was in order, as `OrderAsShown`
  says nothing of others.
  The theorems about `CreatedAsShown`, `GivenAsChosen` and `OrderAsShown` have no such
  bounds.

### Fairness

- Syncs: `WF` on `HealthyStep` of each sync thread. `background.py` loops for ever,
  catches every exception of `full_sync`, and `lifespan.py` restarts a thread that
  died. Nothing is assumed of a thread's failing steps.
- Requests: `WF` on `FinishRequest`: a handler that has committed its row goes on
  to its calls, which end, with an answer or an exception.
- Checker: `WF` on `CheckerStep`, for `_alert_loop` and `_watchdog_loop`.
- `notifications`: `WF` on the poll and repeat timers, on each stage of a poll, on
  the expiry of the cache, and on `Recovers`: requests fail arbitrarily often, not
  for ever.
- `tabs`: `WF` on the tick of each slot, on reading and answering, and on `ApiBack`.
  `EventuallyFresh` is about tabs with auto-refresh in a portal that has an interval:
  `RefreshContext` takes it from `/api/config`, where it may be zero, and starts
  with zero, with which nothing ticks.
- `views`: `WF` on polls, answers and `Recovers`. A view polls while `polling` holds:
  always, if it has a timer of its own; with the ticks of the portal, whose interval
  may be zero (`RefreshContext.tsx:9-29`), so that it may never poll; in `LatestData`
  only while the user has switched auto-refresh on, which is off at first. The
  fairness of `Poll` asks nothing of a view that does not poll.
- Users, administrators, new requests, failures and restarts have no fairness.

`Converges` and `BreachFires`, `BreachEnds` carry their premise in the formula:
from some point on only the healthy steps of syncs (of the checker, with values
that may go on changing) are taken. Without it convergence is not to be had: a
`list_teams` that fails now and then for ever strips teams for ever. `PollsCatchUp`
is about views that poll for good from some point on (`<>[]polling`), once the user
leaves the selection alone.

## What is proved

TLAPS checks the theorems below for every number of users, teams, hosts, rules,
items, syncs, request threads, loads, requests, rows, selections, servers and
edits. They rest on the named assumptions of the modules: `ConstantsAssumption` of
`UserSync` (keys are naturals, root name and default group exist, role groups are
not teams, sync and request threads are different), `TeamAssumption` of `TeamSync`
(names and keys, the default group is imported), `HostAssumption` of `HostSync` (the
foreign group is no team's), `CheckerAssumption` (forms and samples are well typed,
`Horizon` is positive), `PollingAssumption` of `AlertPolling` (problems are finitely
many positive numbers, some toast fits on the screen), and, in the modules of the browser, that bounds are numbers
and that names like "add", "none" or "shut" are nobody's (`ListAssumption`,
`DialogAssumption`, `BatchAssumption`, `LookupAssumption`, `EditAssumption`,
`DirectoryAssumption`, `HostAssumption` of `ItemForms`), and that the teams of a user
are finitely many, numbered by their names (`GroupAssumption`).

| Theorem | Argument |
|---|---|
| `UserSyncProofs!TypeCorrect` | `TypeOK` is inductive: it has the uniqueness of keys in it, and a fresh key is one no row carries |
| `UserSyncProofs!SyncSparesManagedAlways` | a sync writes by key only, so it must be known that a key in a copy still belongs to a row from Zabbix, or to none. `SpareInv` adds to `TypeOK` that copies and rows that share a key share their source, and that what is picked for removal came from Zabbix |
| `UserSyncProofs!DuplicatesComeFromZabbixAlways` | `DuplicateInv`: a capitalised login that is past the check and not inserted yet comes from Zabbix, and as long as the seeded root account has capitals, nobody holds a login like its own past the check |
| `TeamSyncProofs!TypeCorrect` | `TypeOK`, with ids and names as keys, is inductive |
| `TeamSyncProofs!NewRowsSparedAlways` | `GoneInv`: a row listed for removal is not exempt, and a row of the table with its id is that very row, as no id in a list is given again |
| `HostSyncProofs!TypeCorrect` | `HostInv`: besides `TypeOK`, what a request is about to write was read from a host that is still there (`ReadsLive`), and what a sync is about to remove was not shown to it (`GoneOK`) |
| `HostSyncProofs!ShownStaysAlways` | `Noted`: what a sync did not fetch was not shown at that moment, which `unshown` keeps, and what it will remove is of a team it listed |
| `UserSyncProofs!UndisturbedSyncAgrees` | `AloneInv`: a sync that is alone since its fetch knows Zabbix and the teams as they are; the rows it listed are there, and unchanged until it gets to their login; every login it is through is settled, or pending and free. One sync only: a team that one of two creates the other can neither find nor create, and takes the team from an account for a round |
| `TeamSyncProofs!UndisturbedSyncMirrors`, `HostSyncProofs!UndisturbedSyncMirrors` | `FollowInv`: syncs that began after all else stopped add only what there is, remove only what there is not, and have no less to do than is left to do. This needs that an idle sync holds no work (`IdleIsEmpty`). Any number of syncs may overlap |
| `AlertProofs!TypeCorrect` | `TypeOK` is inductive |
| `AlertProofs!CheckerImplementsLedger` | step simulation under `TxnInv`: a copied rule that still exists carries the flag it was copied with, since only the checker writes flags; rules in `up` were quiet and those in `down` fire; written rules are locked and so exist; an idle checker holds nothing |
| `AlertProofs!FiringHasEventAlways` | every step is one of the ledger, whose `Settle` sends an event with each rule it lets fire |
| `AlertProofs!OneFiringPerItemAlways` | `ItemInv`: `fired` has the item of every item rule in `up`, and a cycle starts with `up` empty |
| `AlertProofs!EveryItemRuleJudged`, `EveryServiceRuleJudged` | `JudgeInv`: rules that were judged come no later than those that were not, every item in `fired` has a rule in `up`, and each kind is judged by the values fetched for it |
| `AlertProofs!PollTypes` | `PollTypeOK` is inductive; that toasts stay a list of at most `Cap` needs the lemmas on `InOrder`, `Without` and `Top` |
| `AlertProofs!ProblemsToldOnce` | `OnceInv` is about all lists that are on their way: in the cache, in a poll, at Zabbix, and the one the page was last told. Ordered by `rev`, a problem that has left one of them is in no later one (`OnceOut`), so a problem that was told and is no longer on the page is in no list that may still be answered in order (`ToldIsPast`) |
| `TabProofs!OneObjectPerOpening` | `CreateInv`: an add dialog writes once per save (`AddsWriteOnce`, read off the table); with a busy flag that Enter does not pass, two saves in flight have different flags (`OneSavePerFlag`); an opening whose object was made is neither in the dialog nor in a save any more (`OpeningsSpent`) |
| `TabProofs!TabsTypes` | types of lists and dialogs, kept by the steps of either |
| `TabProofs!SpinnerEnds` | `SpinnerInv`: with the spinner a load is in flight, nothing is written before a tab is mounted, and no row is patched before a list is shown |
| `TabProofs!NoForeignMembers`, `UpdatesAreOfTheirRow`, `TypedInputSurvives` | `DialogInv`: the form of an open dialog is that of its row, and the saves in flight are its own, unless it was opened over one; what is chosen for a row are its own members, all of them unless the opening is in `unseen`; a save writes members only where a fetch has chosen them |
| `ItemsProofs!GivenIsChosen` | `Owned`: selection and batches consist of what was chosen for their team, by itself or with a group that was shown to hold it, which needs that every dialog clears its selection on opening or on closing; `ItemsFollow`: the items listed are those of the selected host, or their load is in flight, or was overtaken; so rules asked for with care are of their host (`Proper`) |
| `ItemsProofs!NoSecondPress` | `SentIsBusy`: in an open dialog in which no request has failed something was sent only while the busy flag is up |
| `ItemsProofs!PortalIsKept` | `PortalInv`: once the configuration was answered the form holds no defaults, and before that a load or its error is there |
| `ItemsProofs!UpdatesAreOfTheirServer` | `ServerInv`: dialog, form and save belong to one server, though each changes by itself, and so do all mappings but added ones (`Mine`); the dialog of an edited mapping holds that mapping |
| `ItemsProofs!ItemsAreAsShown`, `DoneMeansMade`, `TypedGoesByOwnSuccess` | `ItemInv`: the request carries what the panel showed, and what was made was in the request; that every panel sends what it shows is a lemma about the table |
| `ItemsProofs!ServerHasTheOrder` | `OrderFollows`: while `clean` (the last load was answered with no save of the dialog in flight and showed the orders of the server, and since then no write has failed and nobody else has moved a team) the dialog believes what the server has, and during a save every team has its new order or a write for it is in flight. When the save ends the server has for each team its place in the list; there is one way to sort by that (`ListUnique`), so it is the list |
| `ItemsProofs!ItemsTypes` | the inductive invariants above, types of the settings, `OrderShape` (sorting and exchanging teams yields lists of all of them), with types of batches and rules in `BatchInv` |
| `ViewProofs!ViewsTypes` | types of the forms, layouts and views, under `ProxyInv` and `LookupInv` |
| `ViewProofs!ShowsWhatIsSelected`, `ItemsGoWithTheirHost` | `LookupInv`: requests counted as present are for the present selection; without a failure or an overtaken request nothing else is in flight |
| `ViewProofs!PeriodsAreInReach` | the period is within reach after each pick of either end |
| `ViewProofs!RolesAreAccepted` | the least types of a section and of its element add up to Zabbix's |
| `ViewProofs!UntouchedEditsKeep` | `ProxyInv`: the proxy at Zabbix is one Zabbix accepts and has no key it does not use |
| `ViewProofs!NoForeignWidgets`, `AskedBeforeDiscarding` | `EditorInv`: as long as nothing was lost, fetches are of the selected page, what is shown was put together there unless a fetch or a list of pages is on its way, an unsaved edit has its mark, also in the callbacks that lists and page requests have captured (`Marked`), and a fetch under unsaved changes was agreed to (`AgreedLoads`) |

Some of these facts need induction over the size of a set, such as that a finite
set can be listed in any order given of it, and in one way only. The induction
theorems of the library take a predicate, which the provers cannot instantiate;
`Enumerations` goes by the least counterexample instead, which exists because `<` is
well-founded on the naturals.

Only model-checked is liveness under fairness, which is beyond the prover:
`Converges`, `BreachFires`, `BreachEnds`, `EventuallyFresh`, `PollsCatchUp`,
`ToldEventually`, `EverySurfaced`, `ListCatchesUp`. Of the convergence of the syncs
and of the checker the safety half is proved: what a round that was not disturbed, or
a cycle, leaves behind; that it ends is left to TLC. Every invariant and every action
property of a passing run is a theorem. The properties of the four other runs are
false of the code.

## Not modelled, and why

- `UserSync`: the one-time `pull_users` of the first start; table
  `user_team_memberships` (a sync decides by `team_users.team_id` alone); passwords
  and e-mail; the guest login; the removal of teams, which here only appear;
  `get_user` followed by `user.update` is one step.
- `TeamSync`: descriptions, team roles, linked host groups, which no sync reads.
- `HostSync`: permissions of user groups on host groups; the bulk import
  (`hosts.py:103-109`), whose route decorator stands above the helper
  `_validate_bulk_upload_size` and so registers that; whether an empty host group
  exists is left open, both outcomes of a removal being allowed.
- `AlertChecker`: sounds and severities beyond their place in the order, owners of
  rules, acknowledgement of events.
- `AlertPolling`: sounds and desktop notifications, the stored history of the
  drawer, answers to the drawer that come late (it is shown in one step), notes on
  problems, several browsers (they share nothing but the cache).
- `TabLists`: the page of the teams, which shows its teams before their groups are
  loaded; bulk writes on selected rows; filters, sorting, paging and exports.
- `TabDialogs`: the dialogs of hosts other than the one that edits (tags, templates,
  groups), and the values of fields beyond which row they belong to.
- `ItemForms`: how item keys are put together; editing and deleting items.
- `BatchDialogs`: rules for services, which have no host; a rule being edited is in
  `TabDialogs`.
- `AuthSettings`: media mappings, which work like group mappings; deleting a server;
  a stored configuration of the portal's login that is not JSON, which
  `ldap_auth.py:28-32` takes for none, so that the form is answered and shows
  defaults.
- `LayoutEditor`: the geometry of widgets, the overview page.
- `Database.py`: startup races depend on the locks PostgreSQL takes for each
  statement, which the code does not show; the pool raises and makes nobody wait.
- Server-sent events: an event makes a list load once more, as the timer does.
- Services, SLAs, health monitors, discovery, actions, reports and the audit log at
  the server: one request each, or a few in a row, with no state of their own;
  their tabs are in `TabTable` and `Lookups`.
- Navigation, session, translations and charts: presentation.

## Plan

Written: the syncs, the alert checker, the notifications, and the list, dialog,
form, layout and lookup protocols of the browser, each with its instance, and
proofs of all of their safety properties and of what an undisturbed round of a sync
or of the alert checker leaves behind. What would come next: the same for polls and
for the reloads of the lists; the page of the teams as a list that loads in two rounds;
the notification history of the drawer with several browser tabs (`AppShell.tsx`);
memberships and `pull_users` in `UserSync`; the startup of four workers under an
explicit model of PostgreSQL's locks.
