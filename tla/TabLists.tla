------------------------------ MODULE TabLists ------------------------------
(***************************************************************************)
(* The list of an administration tab and the requests that fill it.        *)
(*                                                                         *)
(* A tab loads its lists when it is mounted, on every tick of the          *)
(* auto-refresh, when the user presses Refresh, and after each write that  *)
(* succeeded.  Loads overlap and their answers overtake one another; none  *)
(* of them is cancelled, and whichever ends clears the spinner.            *)
(***************************************************************************)
EXTENDS TabTable, Integers, FiniteSets

CONSTANTS
  Slot,    \* loads in flight at one time (a bound: the browser has none)
  MaxRev   \* changes of the lists at the server (a bound)

ASSUME ListAssumption == MaxRev \in Nat

Never == <<-1, 0>>
\* A state of the server: how often the lists have changed, and whether the
\* row the user looks at is enabled.
Version == (0..MaxRev) \X {0, 1}
\* Of the lists of a load only their number counts.
ListTab == {[load |-> [t.load EXCEPT !.lists = 1..Cardinality(@)], row |-> t.rows.row] :
              t \in {u \in Tabs : u.load.lists # {}}}
NoTab == [load |-> Load({}, FALSE, "none"), row |-> {}]
Write == [op : {"save", "delete", "toggle", "patch", "flip"}, to : {0, 1}]
NoWrite == [op |-> "none", to |-> 0]
NoLoad == [need |-> {}, at |-> Never]
Request(t) == [need |-> t.load.lists, at |-> Never]

VARIABLES
  tab,      \* the mounted tab
  server,   \* the lists at the server
  up,       \* no request fails any more
  shown,    \* the version the tab shows: of its lists the oldest
  loading,  \* the spinner
  loads,    \* loads in flight: the lists not read yet, the version read first
  write,    \* a write in flight
  applied   \* the server has performed it

listVars == <<tab, server, up, shown, loading, loads, write, applied>>

ListTypeOK ==
  /\ tab \in ListTab \cup {NoTab}
  /\ server \in Version /\ up \in BOOLEAN
  /\ shown \in Version \cup {Never} /\ loading \in BOOLEAN
  /\ loads \in [Slot -> [need : SUBSET tab.load.lists, at : Version \cup {Never}]]
  /\ write \in Write \cup {NoWrite} /\ applied \in BOOLEAN

ListInit ==
  /\ tab = NoTab
  /\ server = <<0, 1>> /\ up = FALSE
  /\ shown = Never /\ loading = FALSE
  /\ loads = [s \in Slot |-> NoLoad]
  /\ write = NoWrite /\ applied = FALSE

Free(s) == loads[s] = NoLoad
Changed(on) == <<server[1] + 1, on>>

-----------------------------------------------------------------------------
\* The tab is mounted and loads; where the auto-refresh has ticked before, its
\* effect loads a second time.
Mount(t) ==
  /\ tab = NoTab
  /\ tab' = t
  /\ loading' \in IF t.load.quiet THEN BOOLEAN ELSE {TRUE}
  /\ \E s \in Slot, more \in SUBSET Slot :
       /\ more \subseteq IF t.load.ticks THEN Slot \ {s} ELSE {}
       /\ loads' = [r \in Slot |-> IF r \in {s} \cup more THEN Request(t) ELSE NoLoad]
  /\ UNCHANGED <<server, up, shown, write, applied>>

\* The auto-refresh loads without the spinner; so does, on the page of the
\* users, the event of a sync.
Tick(s) ==
  /\ tab.load.ticks /\ Free(s)
  /\ loads' = [loads EXCEPT ![s] = Request(tab)]
  /\ UNCHANGED <<tab, server, up, shown, loading, write, applied>>

\* The button is disabled while the spinner turns, but on the page of the hosts.
Refresh(s) ==
  /\ tab.load.refresh # "none" /\ (tab.load.refresh = "always" \/ ~loading) /\ Free(s)
  /\ loads' = [loads EXCEPT ![s] = Request(tab)]
  /\ loading' = (tab.load.refresh # "silent")
  /\ UNCHANGED <<tab, server, up, shown, write, applied>>

\* One of the requests of a load reaches the server.
Read(s, l) ==
  /\ l \in loads[s].need
  /\ loads' = [loads EXCEPT ![s] =
       [need |-> @.need \ {l}, at |-> IF @.at = Never THEN server ELSE @.at]]
  /\ UNCHANGED <<tab, server, up, shown, loading, write, applied>>

\* Seeded bug: what a silent load brings is dropped.
AnswerLoud(s) ==
  /\ ~Free(s) /\ loads[s].need = {}
  /\ shown' = IF loading THEN loads[s].at ELSE shown
  /\ loading' = FALSE
  /\ loads' = [loads EXCEPT ![s] = NoLoad]
  /\ UNCHANGED <<tab, server, up, write, applied>>

\* All have been answered: the lists are shown, whatever was shown before.
Answer(s) ==
  /\ ~Free(s) /\ loads[s].need = {}
  /\ shown' = loads[s].at
  /\ loading' = FALSE
  /\ loads' = [loads EXCEPT ![s] = NoLoad]
  /\ UNCHANGED <<tab, server, up, write, applied>>

\* Seeded bug: the spinner is cleared by answers only.
FailSpins(s) ==
  /\ ~up /\ loads[s].need # {}
  /\ loads' = [loads EXCEPT ![s] = NoLoad]
  /\ UNCHANGED <<tab, server, up, shown, loading, write, applied>>

\* One fails, and with it the load: a toast, and the old lists stay.
Fail(s) ==
  /\ ~up /\ loads[s].need # {}
  /\ loading' = FALSE
  /\ loads' = [loads EXCEPT ![s] = NoLoad]
  /\ UNCHANGED <<tab, server, up, shown, write, applied>>

-----------------------------------------------------------------------------
\* The user sends a form, confirms a deletion, switches a row, or acknowledges a
\* problem ("patch"), or takes that back.
Send(w) ==
  /\ tab # NoTab /\ write = NoWrite
  /\ \/ w.op = "save" /\ tab.row \ {"patch"} # {} /\ w.to = 0
     \/ w.op \in {"delete", "flip"} /\ w.op \in tab.row /\ w.to = 0
     \/ /\ w.op \in {"toggle", "patch"} /\ w.op \in tab.row /\ shown # Never
        /\ w.to = 1 - shown[2]
  /\ write' = w /\ applied' = FALSE
  /\ UNCHANGED <<tab, server, up, shown, loading, loads>>

\* Seeded bug: one is added instead of the state turned round.
ToggleByOne(w) == 1 + shown[2]

\* What a switch asks for is the state the row did not show.
ToggleTo(w) == w.to

\* The row after a write.
After(w) == CASE w.op \in {"toggle", "patch"} -> ToggleTo(w)
              [] w.op = "flip" -> 1 - server[2]
              [] OTHER -> server[2]

Apply ==
  /\ write # NoWrite /\ ~applied /\ server[1] < MaxRev
  /\ applied' = TRUE
  /\ server' = Changed(After(write))
  /\ UNCHANGED <<tab, up, shown, loading, loads, write>>

\* A success loads the tab anew, with the spinner.
Written(s) ==
  /\ applied /\ write.op # "patch" /\ Free(s)
  /\ write' = NoWrite /\ applied' = FALSE
  /\ loads' = [loads EXCEPT ![s] = Request(tab)]
  /\ loading' = TRUE
  /\ UNCHANGED <<tab, server, up, shown>>

\* Or the row alone is put right, in whatever list is shown by then.
Patched ==
  /\ applied /\ write.op = "patch"
  /\ write' = NoWrite /\ applied' = FALSE
  /\ shown' = <<shown[1], write.to>>
  /\ UNCHANGED <<tab, server, up, loading, loads>>

\* A failure is only reported.
Refused ==
  /\ write # NoWrite /\ ~applied
  /\ write' = NoWrite
  /\ UNCHANGED <<tab, server, up, shown, loading, loads, applied>>

-----------------------------------------------------------------------------
\* Another administrator.
OtherChange ==
  /\ server[1] < MaxRev
  /\ \E on \in {0, 1} : server' = Changed(on)
  /\ UNCHANGED <<tab, up, shown, loading, loads, write, applied>>

ApiBack ==
  /\ ~up /\ up' = TRUE
  /\ UNCHANGED <<tab, server, shown, loading, loads, write, applied>>

ListNext ==
  \/ \E t \in ListTab : Mount(t)
  \/ \E s \in Slot : Tick(s) \/ Refresh(s) \/ Answer(s) \/ Fail(s) \/ Written(s)
  \/ \E s \in Slot : \E l \in tab.load.lists : Read(s, l)
  \/ \E w \in Write : Send(w)
  \/ Apply \/ Patched \/ Refused \/ OtherChange \/ ApiBack

\* Every request is answered, the timer ticks, and failures have an end.
ListFairness ==
  /\ \A s \in Slot :
       /\ WF_listVars(Tick(s))
       /\ WF_listVars(\E l \in tab.load.lists : Read(s, l))
       /\ WF_listVars(Answer(s))
  /\ WF_listVars(ApiBack)

ListSpec == ListInit /\ [][ListNext]_listVars

-----------------------------------------------------------------------------
\* The spinner turns only while a load is in flight; Refresh, which it
\* disables, comes back after every failure.
SpinnerHasRequest == loading => \E s \in Slot : ~Free(s)

\* Once the lists change no more, a tab with auto-refresh shows them as they
\* are, whatever order the answers of overlapping loads came in.
EventuallyFresh == <>[](tab.load.ticks => shown = server)
=============================================================================
