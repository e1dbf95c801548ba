------------------------------ MODULE MCViews -------------------------------
(***************************************************************************)
(* The forms of AdminForms, the layout editor and the views of Lookups for *)
(* TLC: one at a time, for they share no state.  The layout editor is      *)
(* followed until a fetch goes astray, with a save or a request for a page *)
(* in flight but not both.  The second edit falls into a save, and no page *)
(* is asked for afterwards; Graphs, which asks nothing, has one edit and   *)
(* no requests for pages.                                                  *)
(***************************************************************************)
EXTENDS AdminForms, LayoutEditor, Lookups

MCInit == FormsInit /\ EditorInit /\ LookupInit

AdminStep ==
  \/ ProxyInit /\ RoleNext
  \/ RoleInit /\ ProxyNext
Idle == ~loaded /\ confirms /\ stored[<<"user", "default">>] # Empty

EditorStep ==
  /\ ~lost /\ EditorNext
  /\ saving' = NoSaving \/ request' = NoRequest
  /\ edits' \in {edits, 1} \/ saving # NoSaving
  /\ edits' = 2 \/ ~confirms => request' = NoRequest
  /\ ~confirms => edits' <= 1

MCNext ==
  \/ Idle /\ LookupInit /\ AdminStep /\ UNCHANGED <<editorVars, lookupVars>>
  \/ FormsInit /\ LookupInit /\ EditorStep /\ UNCHANGED <<formVars, lookupVars>>
  \/ Idle /\ FormsInit /\ LookupNext /\ UNCHANGED <<formVars, editorVars>>

\* Forms, editor and views hold what they may.
ViewsTypeOK == FormsTypeOK /\ EditorTypeOK /\ LookupTypeOK

MCSpec ==
  MCInit /\ [][MCNext]_<<formVars, editorVars, lookupVars>> /\ LookupFairness

=============================================================================
