----------------------------- MODULE TabDialogs -----------------------------
(***************************************************************************)
(* The add and edit dialogs of an administration tab.                      *)
(*                                                                         *)
(* A dialog can be cancelled while its save is in flight, and the save     *)
(* then ends under whatever dialog is open by that time.  The dialogs of   *)
(* host groups and template groups fetch, when they open, the options and  *)
(* the present members of the group, choose those members that are among   *)
(* the options, and a save writes what is chosen as the whole list back.   *)
(* The options may be fewer than the members: they are those of the user's *)
(* team, limited and cached, and none after an error that is swallowed.    *)
(***************************************************************************)
EXTENDS TabTable, Integers, FiniteSets, Sequences

CONSTANTS
  Obj,      \* rows of the list
  MaxOpen   \* times a dialog is opened (a bound)

ASSUME DialogAssumption == MaxOpen \in Nat /\ Obj \cap {"shut", "add"} = {}

Opening == 1..MaxOpen
\* Forms: the one an edit dialog shows of a row, or that of the add dialog.
Owner == Obj \cup {"add"}
Blank == [of |-> "add", touched |-> "no"]
Row(o) == [of |-> o, touched |-> "no"]
FormState == [of : Owner, touched : {"no", "part", "full"}]

\* Of the fields of a form it only counts whether it needs any.
DialogTab ==
  {[save |-> t.save, add |-> t.rows.add, row |-> t.rows.row \cap {"edit"},
    form |-> [t.form EXCEPT !.add = @ # {}, !.edit = @ # {}]] :
     t \in {u \in Tabs : u.rows.add # "none" \/ "edit" \in u.rows.row}}
NoDialogs == [save |-> NoSave, add |-> "none", row |-> {},
              form |-> [NoForm EXCEPT !.add = FALSE, !.edit = FALSE]]

VARIABLES
  page,      \* the mounted tab
  dialog,    \* "shut", "add", or the row being edited
  opened,    \* times a dialog was opened
  late,      \* it was opened while a save was in flight
  form,      \* what the two forms hold; tabs that share one use that of "add"
  busy,      \* the dialogs whose Save button shows a save in flight
  saves,     \* saves in flight
  fresh,     \* openRequestRef: the opening whose fetch is still wanted, or 0
  fetches,   \* fetches of options and members in flight
  fetching,  \* their spinner
  picked,    \* members chosen in the dialog: none, or all or some of a row's
  made,      \* history: objects created from each opening
  dropped,   \* history: openings whose save wrote less than the row's members
  mixed,     \* history: a row was given the members of another
  unseen,    \* history: openings that could not show all the members of their row
  lost       \* history: the answer to a write was lost

dialogVars == <<page, dialog, opened, late, form, busy, saves, fresh, fetches, fetching,
                picked, made, dropped, mixed, unseen, lost>>
fetchVars == <<fresh, fetches, fetching, picked, unseen>>
serverVars == <<made, dropped, mixed>>

Picked == [of : Obj \cup {"none"}, all : BOOLEAN]
NothingPicked == [of |-> "none", all |-> FALSE]

Mode(d) == IF d = "add" THEN "add" ELSE "edit"
Steps(mode) == page.save[mode]
FormOf(mode) == IF page.form.shared THEN "add" ELSE mode
Flag(mode) == IF page.save.busy = "one" THEN "add" ELSE mode
Busied(mode) == IF page.save.busy = "none" THEN {} ELSE {Flag(mode)}

SaveJob == [dialog : Owner, from : Opening, step : 1..2, late : BOOLEAN,
            data : FormState, picked : Picked, nth : 1..2]

DialogTypeOK ==
  /\ page \in DialogTab \cup {NoDialogs}
  /\ dialog \in Owner \cup {"shut"}
  /\ opened \in 0..MaxOpen /\ late \in BOOLEAN
  /\ form \in [{"add", "edit"} -> FormState]
  /\ busy \in SUBSET {"add", "edit"}
  /\ saves \subseteq SaveJob
  /\ fresh \in 0..MaxOpen
  /\ fetches \subseteq [from : Opening, of : Owner]
  /\ fetching \in BOOLEAN
  /\ picked \in Picked
  /\ made \in [Opening -> 0..2]
  /\ dropped \subseteq Opening /\ mixed \in BOOLEAN
  /\ unseen \subseteq Opening
  /\ lost \in BOOLEAN

DialogInit ==
  /\ page = NoDialogs
  /\ dialog = "shut" /\ opened = 0 /\ late = FALSE
  /\ form = [m \in {"add", "edit"} |-> Blank]
  /\ busy = {} /\ saves = {}
  /\ fresh = 0 /\ fetches = {} /\ fetching = FALSE /\ picked = NothingPicked
  /\ made = [n \in Opening |-> 0]
  /\ dropped = {} /\ mixed = FALSE /\ unseen = {} /\ lost = FALSE

-----------------------------------------------------------------------------
MountDialogs(t) ==
  /\ page = NoDialogs /\ page' = t
  /\ UNCHANGED <<dialog, opened, late, form, busy, saves, fetchVars, serverVars, lost>>

\* Opening a dialog starts its fetch, and makes every earlier one stale.
StartFetch(d) ==
  IF page.form.fetch = "guarded"
  THEN /\ fresh' = opened'
       /\ fetches' = fetches \cup {[from |-> opened', of |-> d]}
       /\ fetching' = TRUE
       /\ picked' = NothingPicked
       /\ UNCHANGED unseen
  ELSE UNCHANGED fetchVars

Open(d, f) ==
  /\ dialog = "shut" /\ opened < MaxOpen
  /\ dialog' = d
  /\ opened' = opened + 1
  /\ late' = (saves # {})
  /\ form' = f
  /\ StartFetch(d)
  /\ UNCHANGED <<page, busy, saves, serverVars, lost>>

OpenAdd ==
  /\ page.add # "none"
  /\ Open("add", IF page.add = "blank" THEN [form EXCEPT !["add"] = Blank] ELSE form)

OpenEdit(o) ==
  /\ "edit" \in page.row
  /\ Open(o, [form EXCEPT ![FormOf("edit")] = Row(o)])

\* The user fills in all the fields that are needed, or some.
Type(t) ==
  /\ dialog # "shut" /\ t \in {"part", "full"}
  /\ form' = [form EXCEPT ![FormOf(Mode(dialog))].touched = t]
  /\ UNCHANGED <<page, dialog, opened, late, busy, saves, fetchVars, serverVars, lost>>

\* The form of an alert rule is filled anew from the rule.
Reset ==
  /\ page.form.reset /\ dialog \in Obj
  /\ form' = [form EXCEPT !["edit"] = Row(dialog)]
  /\ UNCHANGED <<page, dialog, opened, late, busy, saves, fetchVars, serverVars, lost>>

Cancel ==
  /\ dialog # "shut"
  /\ dialog' = "shut"
  /\ fresh' = IF page.form.fetch = "guarded" THEN 0 ELSE fresh
  /\ UNCHANGED <<page, opened, late, form, busy, saves, fetches, fetching, picked, unseen,
                 serverVars, lost>>

\* What the dialog needs is there: an untouched row has it all, an untouched
\* blank only where nothing is needed.
Filled(mode) ==
  \/ ~page.form[mode]
  \/ form[FormOf(mode)].touched = "full"
  \/ form[FormOf(mode)].touched = "no" /\ form[FormOf(mode)].of # "add"

\* Seeded bugs: the busy flag is ignored; a fetch under way is.
MaySendAgain(mode) == Filled(mode) /\ (page.form.fetch = "guarded" => ~fetching)
MaySendEarly(mode) == Filled(mode) /\ (Flag(mode) \notin busy \/ page.form.enter)

\* The Save button, and the Enter key where it sends the form past the flag.
MaySend(mode) ==
  /\ Filled(mode)
  /\ page.form.fetch = "guarded" => ~fetching
  /\ Flag(mode) \notin busy \/ page.form.enter

Submit ==
  /\ dialog # "shut" /\ MaySend(Mode(dialog))
  /\ Cardinality(saves) < 2
  /\ busy' = busy \cup Busied(Mode(dialog))
  /\ saves' = saves \cup {[dialog |-> dialog, from |-> opened, step |-> 1, late |-> late,
                           data |-> form[FormOf(Mode(dialog))], picked |-> picked,
                           nth |-> IF \E j \in saves : j.nth = 1 THEN 2 ELSE 1]}
  /\ UNCHANGED <<page, dialog, opened, late, form, fetchVars, serverVars, lost>>

-----------------------------------------------------------------------------
Kind(j) == Steps(Mode(j.dialog))[j.step]
Last(j) == j.step = Len(Steps(Mode(j.dialog)))

\* What a write does at the server.
Performed(j) ==
  /\ made' = IF Kind(j) = "create" THEN [made EXCEPT ![j.from] = IF @ < 2 THEN @ + 1 ELSE @]
             ELSE made
  /\ LET replaces == Kind(j) = "members" /\ j.dialog # "add"
     IN  /\ dropped' = IF replaces /\ ~j.picked.all THEN dropped \cup {j.from} ELSE dropped
         /\ mixed' = (mixed \/ (replaces /\ j.picked.of \notin {j.dialog, "none"}))

\* A write of several: the next one follows, for the same object and choice.
NextStep(j) ==
  /\ j \in saves /\ ~Last(j)
  /\ Performed(j)
  /\ saves' = (saves \ {j}) \cup {[j EXCEPT !.step = 2]}
  /\ UNCHANGED <<page, dialog, opened, late, form, busy, fetchVars, lost>>

Closes(j, d) ==
  d # "shut" /\ (page.save.closes = "both" \/ Mode(d) = Mode(j.dialog))

Saved(j) ==
  /\ j \in saves /\ Last(j)
  /\ Performed(j)
  /\ saves' = saves \ {j}
  /\ busy' = busy \ {Flag(Mode(j.dialog))}
  /\ dialog' = IF Closes(j, dialog) THEN "shut" ELSE dialog
  /\ form' = IF page.save.clears /\ (j.dialog = "add" \/ page.save.closes = "both")
             THEN [form EXCEPT !["add"] = Blank] ELSE form
  /\ UNCHANGED <<page, opened, late, fetchVars, lost>>

\* Seeded bug: the dialog is shut in every case.
AfterFailureShut(j) ==
  /\ saves' = saves \ {j}
  /\ busy' = busy \ {Flag(Mode(j.dialog))}
  /\ dialog' = "shut"
  /\ UNCHANGED <<page, opened, late, form, fetchVars>>

\* The dialog stays open with what was typed.
AfterFailure(j) ==
  /\ saves' = saves \ {j}
  /\ busy' = busy \ {Flag(Mode(j.dialog))}
  /\ UNCHANGED <<page, dialog, opened, late, form, fetchVars>>

Refuse(j) ==
  /\ j \in saves
  /\ AfterFailure(j)
  /\ UNCHANGED <<serverVars, lost>>

LoseAnswer(j) ==
  /\ j \in saves
  /\ Performed(j) /\ lost' = TRUE
  /\ AfterFailure(j)

-----------------------------------------------------------------------------
\* Answers to a fetch count while their opening is the wanted one.  Of the
\* members those are chosen that are also among the options.
Fetched(p, all) ==
  /\ p \in fetches
  /\ fetches' = fetches \ {p}
  /\ IF p.from = fresh
     THEN /\ picked' = IF p.of = "add" THEN NothingPicked ELSE [of |-> p.of, all |-> all]
          /\ unseen' = IF all THEN unseen ELSE unseen \cup {p.from}
          /\ fetching' = FALSE
     ELSE UNCHANGED <<picked, fetching, unseen>>
  /\ UNCHANGED <<page, dialog, opened, late, form, busy, saves, fresh, serverVars, lost>>

\* A failed fetch leaves the dialog open with nothing chosen.
FetchFails(p) ==
  /\ p \in fetches
  /\ fetches' = fetches \ {p}
  /\ fetching' = IF p.from = fresh THEN FALSE ELSE fetching
  /\ unseen' = IF p.from = fresh THEN unseen \cup {p.from} ELSE unseen
  /\ UNCHANGED <<page, dialog, opened, late, form, busy, saves, fresh, picked, serverVars, lost>>

DialogNext ==
  \/ \E t \in DialogTab : MountDialogs(t)
  \/ OpenAdd \/ \E o \in Obj : OpenEdit(o)
  \/ \E t \in {"part", "full"} : Type(t)
  \/ Reset \/ Cancel \/ Submit
  \/ \E j \in saves : NextStep(j) \/ Saved(j) \/ Refuse(j) \/ LoseAnswer(j)
  \/ \E p \in fetches : FetchFails(p) \/ \E all \in BOOLEAN : Fetched(p, all)

DialogSpec == DialogInit /\ [][DialogNext]_dialogVars

-----------------------------------------------------------------------------
\* What the user typed survives: a dialog that was opened with no save in
\* flight is shut only by the user or by the success of its own save, and its
\* form changes by nothing else.  (Not so the form of an alert rule: Reset.)
InputSurvives ==
  [][dialog # "shut" /\ ~late /\ (dialog' # dialog \/ form' # form) =>
       \/ Cancel \/ Reset \/ \E t \in {"part", "full"} : Type(t)
       \/ \E j \in saves : Saved(j) /\ j.from = opened]_dialogVars

\* What is sent as the update of a row was typed into the form of that row.
UpdatesBelong ==
  \A j \in saves : j.dialog \in Obj /\ ~j.late => j.data.of = j.dialog

\* One opening of the add dialog creates one object, unless the answer to a
\* create was lost and the user sent it again.  (Left out are the groups, which
\* Enter may send twice, and the pages without a busy flag, where only the name
\* of the user or team, unique at the server, stops a second click.)
CreatedOnce ==
  lost \/ page.form.enter \/ page.save.busy = "none" \/ \A n \in Opening : made[n] <= 1

\* A save never gives a group the members of another, though fetches overlap
\* and a fetch may outlive its dialog.  It takes members away, without the user
\* having said so, only where its own opening could not show them all: the
\* fetch failed, or they were not among the options.
MembersKept == ~mixed /\ dropped \subseteq unseen
=============================================================================
