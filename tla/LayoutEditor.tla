---------------------------- MODULE LayoutEditor ----------------------------
(***************************************************************************)
(* The editor of dashboard layouts: the tabs Graphs and Item Graphs with   *)
(* the page manager and the scope select beside them.                      *)
(*                                                                         *)
(* A layout belongs to an owner, the user or the team, and to a page.  The *)
(* editor shows one, marks it dirty on every edit, and saves it under the  *)
(* scope and the page that are selected at that moment; the choice of a    *)
(* scope or a page takes effect at once, the layout follows when its       *)
(* request is answered.  The page manager lists, creates and deletes pages *)
(* and then calls the editor back, with the callback it held when it sent  *)
(* the request: that callback knows the scope and the mark of then.        *)
(***************************************************************************)
EXTENDS Naturals, FiniteSets

CONSTANT MaxEdit   \* edits (a bound)

ASSUME EditAssumption == MaxEdit \in Nat

\* Each owner has the default page, and may have one of its own.
Owner == {"user", "team"}
OwnPage == [user |-> "u1", team |-> "t1"]
Page == {"default"} \cup {OwnPage[o] : o \in Owner}
Scope == Owner \cup {"all"}
Layout == Owner \X Page
Nowhere == <<"none", "none">>
\* What a layout consists of: the page its widgets were put on, and their edit.
Widgets == [of : Layout \cup {Nowhere}, rev : 0..MaxEdit]
Empty == [of |-> Nowhere, rev |-> 0]
NoSaving == [at |-> Nowhere, widgets |-> Empty]
\* What the user may be asked about: a page or a scope to go to.
Asking == [of : {"page", "scope"}, scope : Scope, page : Page, ofTeam : BOOLEAN]
Stay == [of |-> "none", scope |-> "none", page |-> "none", ofTeam |-> FALSE]
\* What the page manager captures: with a list of pages, with a new or an old page.
Listing == [scope : Scope, page : Page, ofTeam : BOOLEAN, dirty : BOOLEAN]
PageRequest == [what : {"create", "delete"}, at : Layout, dirty : BOOLEAN]
NoRequest == [what |-> "none", at |-> Nowhere, dirty |-> FALSE]

VARIABLES
  confirms,  \* Item Graphs asks before it leaves unsaved changes, Graphs does not
  loaded,    \* the first layout has been fetched
  scope, page,
  ofTeam,    \* allTeamId: the page was picked among those of all teams
  widgets, isDirty,
  asked,     \* the switch the user is asked about
  loads,     \* layouts being fetched
  lists,     \* lists of pages being fetched by the page manager
  offered,   \* the scope whose pages its select offers
  request,   \* the page being created or deleted (a bound: one at a time)
  saving,    \* the save in flight
  pages,     \* the pages there are
  stored,    \* the layouts at the server
  edits,     \* history: edits so far
  consent,   \* history: the unsaved changes may go
  unsaved,   \* history: what is shown has an edit that no save carried; hushed
             \* if it fell into a save or a request for a page
  lost       \* history: a fetch failed, was overtaken, outrun by an edit or a
             \* save, or made for a scope that had been left; or the user
             \* stayed on a page that the scope does not have

editorVars == <<confirms, loaded, scope, page, ofTeam, widgets, isDirty, asked, loads, lists,
                offered, request, saving, pages, stored, edits, consent, unsaved, lost>>
serverVars == <<pages, stored>>

EditorTypeOK ==
  /\ confirms \in BOOLEAN /\ loaded \in BOOLEAN
  /\ scope \in Scope /\ page \in Page /\ ofTeam \in BOOLEAN
  /\ widgets \in Widgets /\ isDirty \in BOOLEAN
  /\ asked \in Asking \cup {Stay}
  /\ loads \subseteq Layout /\ lists \subseteq Listing /\ offered \in Scope \cup {"none"}
  /\ request \in PageRequest \cup {NoRequest}
  /\ saving \in [at : Layout \cup {Nowhere}, widgets : Widgets]
  /\ pages \subseteq Layout
  /\ stored \in [Layout -> Widgets]
  /\ edits \in 0..MaxEdit /\ consent \in BOOLEAN /\ lost \in BOOLEAN
  /\ unsaved \in {"no", "yes", "hushed"}

\* The user's default page may be empty; then the team's is shown first.
EditorInit ==
  /\ confirms \in BOOLEAN /\ loaded = FALSE
  /\ scope = "user" /\ page = "default" /\ ofTeam = FALSE
  /\ widgets = Empty /\ isDirty = FALSE
  /\ asked = Stay /\ loads = {} /\ lists = {} /\ offered = "none"
  /\ request = NoRequest /\ saving = NoSaving
  /\ pages = {k \in Layout : k[2] \in {"default", OwnPage[k[1]]}}
  /\ \E none \in SUBSET {<<"user", "default">>} :
       stored = [k \in Layout |-> IF k \in pages \ none THEN [of |-> k, rev |-> 0] ELSE Empty]
  /\ edits = 0 /\ consent = FALSE /\ unsaved = "no" /\ lost = FALSE

\* Whose layout a scope shows.
At(s, p) == <<IF s = "all" THEN "team" ELSE s, p>>
Selected == At(scope, page)
Valid(s, p, t) == At(s, p) \in pages /\ t = (s = "all")
Pending == loads # {} \/ lists # {}
ListFor(s, p, t) == [scope |-> s, page |-> p, ofTeam |-> t, dirty |-> isDirty]

-----------------------------------------------------------------------------
LoadFirst ==
  /\ ~loaded /\ loaded' = TRUE
  /\ LET mine == stored[<<"user", "default">>]
         ours == stored[<<"team", "default">>]
     IN  /\ widgets' = IF mine # Empty THEN mine ELSE ours
         /\ scope' = IF mine = Empty /\ ours # Empty THEN "team" ELSE "user"
  /\ lists' = {ListFor(scope', page, ofTeam)}
  /\ UNCHANGED <<confirms, page, ofTeam, isDirty, asked, loads, offered, request, saving,
                 serverVars, edits, consent, unsaved, lost>>

\* The editor starts empty, as if nothing had ever been saved.
LoadFirstFails ==
  /\ ~loaded /\ loaded' = TRUE
  /\ lists' = {ListFor(scope, page, ofTeam)} /\ lost' = TRUE
  /\ UNCHANGED <<confirms, scope, page, ofTeam, widgets, isDirty, asked, loads, offered,
                 request, saving, serverVars, edits, consent, unsaved>>

\* A widget is added, removed, moved or configured; in all teams, too, where
\* an empty layout offers to add the first one.
Edit ==
  /\ loaded /\ asked = Stay /\ edits < MaxEdit
  /\ edits' = edits + 1
  /\ widgets' = [of |-> IF widgets.of = Nowhere THEN Selected ELSE widgets.of, rev |-> edits']
  /\ isDirty' = TRUE /\ consent' = FALSE
  /\ unsaved' = IF saving = NoSaving /\ request = NoRequest THEN "yes" ELSE "hushed"
  /\ lost' = (lost \/ Pending)
  /\ UNCHANGED <<confirms, loaded, scope, page, ofTeam, asked, loads, lists, offered,
                 request, saving, serverVars>>

-----------------------------------------------------------------------------
\* The page is selected, and its layout fetched, for the scope the callback
\* knows; the dirty mark stays until the layout is there.  For all teams the
\* server refuses a page without its team.
Refused(s, t) == s = "all" /\ ~t
ShowPage(s, p, t) ==
  /\ page' = p /\ ofTeam' = t
  /\ loads' = IF Refused(s, t) THEN loads ELSE loads \cup {At(s, p)}
  /\ lost' = (lost \/ loads # {} \/ s # scope \/ Refused(s, t))

\* Seeded bug: nobody is asked.
NeedsConsentNever(dirty) == FALSE
\* Item Graphs asks before it leaves unsaved changes.
NeedsConsent(dirty) == confirms /\ dirty

\* Called with the scope and the mark that the caller's callback captured.
handlePageChange(s, dirty, p, t) ==
  /\ IF NeedsConsent(dirty)
     THEN /\ asked' = [of |-> "page", scope |-> s, page |-> p, ofTeam |-> t]
          /\ UNCHANGED <<page, ofTeam, loads, consent, lost>>
     ELSE ShowPage(s, p, t) /\ consent' = FALSE /\ UNCHANGED asked
  /\ UNCHANGED <<scope, isDirty, widgets, unsaved>>

\* Until the pages of a scope are listed those of the last one are offered.
ChoosePage(p, t) ==
  /\ loaded /\ asked = Stay /\ <<p, t>> # <<page, ofTeam>>
  /\ offered # "none" /\ Valid(offered, p, t)
  /\ handlePageChange(scope, isDirty, p, t)
  /\ UNCHANGED <<confirms, loaded, lists, offered, request, saving, serverVars, edits>>

\* Between the own scopes the layout of the same page is fetched; to and from
\* all teams it is left to the page manager, which lists the pages anew.
ShowScope(s, p) ==
  /\ scope' = s /\ lists' = lists \cup {ListFor(s, page, ofTeam)}
  /\ loads' = IF s = "all" \/ scope = "all" THEN loads ELSE loads \cup {<<s, p>>}
  /\ lost' = (lost \/ Pending \/ p # page)

ChooseScope(s) ==
  /\ loaded /\ asked = Stay /\ s # scope
  /\ IF NeedsConsent(isDirty)
     THEN /\ asked' = [of |-> "scope", scope |-> s, page |-> page, ofTeam |-> ofTeam]
          /\ UNCHANGED <<scope, loads, lists, consent, lost>>
     ELSE ShowScope(s, page) /\ consent' = FALSE /\ UNCHANGED asked
  /\ UNCHANGED <<confirms, loaded, page, ofTeam, widgets, isDirty, offered, request, saving,
                 serverVars, edits, unsaved>>

Discard ==
  /\ \/ /\ asked.of = "page" /\ ShowPage(asked.scope, asked.page, asked.ofTeam)
        /\ UNCHANGED <<scope, lists>>
     \/ asked.of = "scope" /\ ShowScope(asked.scope, asked.page) /\ UNCHANGED <<page, ofTeam>>
  /\ asked' = Stay /\ consent' = TRUE
  /\ UNCHANGED <<confirms, loaded, widgets, isDirty, offered, request, saving, serverVars,
                 edits, unsaved>>

KeepEditing ==
  /\ asked # Stay
  /\ asked' = Stay
  /\ lost' = (lost \/ ~Valid(scope, page, ofTeam))
  /\ UNCHANGED <<confirms, loaded, scope, page, ofTeam, widgets, isDirty, loads, lists,
                 offered, request, saving, serverVars, edits, consent, unsaved>>

\* The pages of the scope are there: if the page of then is not among them it
\* gives way to the first.
Listed(l) ==
  /\ l \in lists /\ lists' = lists \ {l}
  /\ IF Valid(l.scope, l.page, l.ofTeam)
     THEN UNCHANGED <<scope, page, ofTeam, widgets, isDirty, asked, loads, consent, unsaved, lost>>
     ELSE handlePageChange(l.scope, l.dirty, "default", l.scope = "all")
  /\ offered' = l.scope
  /\ UNCHANGED <<confirms, loaded, request, saving, serverVars, edits>>

ListFails(l) ==
  /\ l \in lists /\ lists' = lists \ {l} /\ lost' = TRUE
  /\ UNCHANGED <<confirms, loaded, scope, page, ofTeam, widgets, isDirty, asked, loads,
                 offered, request, saving, serverVars, edits, consent, unsaved>>

LoadAnswer(k) ==
  /\ k \in loads /\ loads' = loads \ {k}
  /\ widgets' = stored[k] /\ isDirty' = FALSE /\ unsaved' = "no" /\ consent' = FALSE
  /\ UNCHANGED <<confirms, loaded, scope, page, ofTeam, asked, lists, offered, request,
                 saving, serverVars, edits, lost>>

\* The widgets of the old page stay, under the new page.
LoadFails(k) ==
  /\ k \in loads /\ loads' = loads \ {k}
  /\ lost' = TRUE
  /\ UNCHANGED <<confirms, loaded, scope, page, ofTeam, widgets, isDirty, asked, lists,
                 offered, request, saving, serverVars, edits, consent, unsaved>>

-----------------------------------------------------------------------------
\* Seeded bug: the page is not passed on.
SaveAtDefault == At(scope, "default")
SaveAt == Selected

saveLayout ==
  /\ isDirty /\ saving = NoSaving /\ scope # "all" /\ asked = Stay
  /\ saving' = [at |-> SaveAt, widgets |-> widgets]
  /\ lost' = (lost \/ Pending)
  /\ UNCHANGED <<confirms, loaded, scope, page, ofTeam, widgets, isDirty, asked, loads,
                 lists, offered, request, serverVars, edits, consent, unsaved>>

\* The mark is cleared, also for what was edited in the meantime.
Saved ==
  /\ saving # NoSaving /\ saving' = NoSaving
  /\ stored' = [stored EXCEPT ![saving.at] = saving.widgets]
  /\ isDirty' = FALSE
  /\ unsaved' = IF widgets = saving.widgets THEN "no" ELSE unsaved
  /\ UNCHANGED <<confirms, loaded, scope, page, ofTeam, widgets, asked, loads, lists,
                 offered, request, pages, edits, consent, lost>>

SaveFails ==
  /\ saving # NoSaving /\ saving' = NoSaving
  /\ UNCHANGED <<confirms, loaded, scope, page, ofTeam, widgets, isDirty, asked, loads,
                 lists, offered, request, serverVars, edits, consent, unsaved, lost>>

-----------------------------------------------------------------------------
\* The page manager asks for the owner's page to be created or deleted.  Its
\* dialog can be closed, and the editor used, before the answer is there.
SendPage(what, k) ==
  /\ loaded /\ asked = Stay /\ scope # "all" /\ request = NoRequest
  /\ request' = [what |-> what, at |-> k, dirty |-> isDirty]
  /\ UNCHANGED <<confirms, loaded, scope, page, ofTeam, widgets, isDirty, asked, loads,
                 lists, offered, saving, serverVars, edits, consent, unsaved, lost>>

CreatePage == scope # "all" /\ <<scope, OwnPage[scope]>> \notin pages
              /\ SendPage("create", <<scope, OwnPage[scope]>>)
DeletePage == page # "default" /\ Selected \in pages /\ SendPage("delete", Selected)

\* The answer takes the editor to the new page, or to the default one, with
\* the callback of the request.
PageCreated ==
  /\ request.what = "create" /\ request' = NoRequest
  /\ pages' = pages \cup {request.at}
  /\ handlePageChange(request.at[1], request.dirty, request.at[2], FALSE)
  /\ UNCHANGED <<confirms, loaded, lists, offered, saving, stored, edits>>

PageDeleted ==
  /\ request.what = "delete" /\ request' = NoRequest
  /\ pages' = pages \ {request.at}
  /\ stored' = [stored EXCEPT ![request.at] = Empty]
  /\ handlePageChange(request.at[1], request.dirty, "default", FALSE)
  /\ UNCHANGED <<confirms, loaded, lists, offered, saving, edits>>

PageRequestFails ==
  /\ request # NoRequest /\ request' = NoRequest
  /\ UNCHANGED <<confirms, loaded, scope, page, ofTeam, widgets, isDirty, asked, loads,
                 lists, offered, saving, serverVars, edits, consent, unsaved, lost>>

EditorNext ==
  \/ LoadFirst \/ LoadFirstFails \/ Edit
  \/ \E p \in Page, t \in BOOLEAN : ChoosePage(p, t)
  \/ \E s \in Scope : ChooseScope(s)
  \/ Discard \/ KeepEditing
  \/ \E l \in lists : Listed(l) \/ ListFails(l)
  \/ \E k \in loads : LoadAnswer(k) \/ LoadFails(k)
  \/ saveLayout \/ Saved \/ SaveFails
  \/ CreatePage \/ DeletePage \/ PageCreated \/ PageDeleted \/ PageRequestFails

EditorSpec == EditorInit /\ [][EditorNext]_editorVars

-----------------------------------------------------------------------------
\* A page holds what was put together on it, and never the widgets of another
\* one, though the scope and the page change at once and the layout later.
\* Excepted is what `lost' records: a fetch that failed, was overtaken by
\* another, outrun by an edit or a save, or made for a scope that had been
\* left (a page created in one scope and answered in the other), and a user
\* who stays on a page the scope does not have.
LayoutsStayApart == ~lost => \A k \in Layout : stored[k].of \in {k, Nowhere}

\* Item Graphs lets an edit that no save carried go only when the user agreed
\* to it, whatever became of the dirty mark.  Excepted are, besides `lost', the
\* edits made while a save or a request for a page was in flight: the save
\* clears their mark, and the request was sent before there was one.
DiscardedByConsent ==
  [][confirms /\ ~lost /\ unsaved = "yes" /\ widgets' # widgets /\ edits' = edits
       => consent]_editorVars
=============================================================================
