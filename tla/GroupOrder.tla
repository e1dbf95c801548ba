----------------------------- MODULE GroupOrder -----------------------------
(***************************************************************************)
(* The dialog that orders the teams of a user.                             *)
(*                                                                         *)
(* Every team has an order at the server; the dialog shows the teams by    *)
(* it, and a move exchanges two of them.  Sent are only the orders that    *)
(* differ from what the dialog believes the server to have, all at once;   *)
(* what it believes is put right by a success and by the next load, not by *)
(* a failure.  A dialog that is closed and opened again during its own     *)
(* save may load the orders of before and believe them.  The order belongs *)
(* to the team: another user who orders his teams changes it under the     *)
(* dialog.                                                                 *)
(***************************************************************************)
EXTENDS Integers, FiniteSets, Sequences, SequencesExt

CONSTANTS
  Group,      \* the teams of the user, as 1..n in the order of their names
  MaxLoads,   \* loads in flight at one time (a bound)
  MaxTrouble  \* writes that fail and moves of other users (a bound)

ASSUME GroupAssumption ==
  /\ IsFiniteSet(Group) /\ Group = 1..Cardinality(Group)
  /\ MaxLoads \in Nat /\ MaxTrouble \in Nat

Place == 0..(Cardinality(Group) - 1)
Orders == [Group -> Place]
Sequence == {q \in [1..Cardinality(Group) -> Group] : \A i, j \in DOMAIN q : i # j => q[i] # q[j]}

VARIABLES
  orderOpen,     \* the dialog is open
  orderLoading,  \* its spinner
  orderLoads,    \* loads in flight: the orders they read, or "asked"
  order,         \* the orders at the server
  shownTeams,    \* the teams as shown, <<>> before the first load
  believed,      \* display_order of the teams as shown
  persist,       \* a save in flight: the teams as they will be shown
  writes,        \* writes in flight: a team, its order, and whether the save goes on
  trouble,       \* how much went wrong
  clean          \* history: the last load showed the orders the server had, with
                 \* no save in flight, and nothing went wrong since

orderVars == <<orderOpen, orderLoading, orderLoads, order, shownTeams, believed,
               persist, writes, trouble, clean>>
dialogSide == <<orderOpen, orderLoading, orderLoads>>

Idle == persist = <<>>
PositionIn(q, g) == (CHOOSE i \in DOMAIN q : q[i] = g) - 1

OrderTypeOK ==
  /\ orderOpen \in BOOLEAN /\ orderLoading \in BOOLEAN
  /\ \A l \in DOMAIN orderLoads : orderLoads[l] \in Orders \cup {<<>>}
  /\ Len(orderLoads) <= MaxLoads
  /\ order \in Orders /\ believed \in Orders
  /\ shownTeams \in Sequence \cup {<<>>}
  /\ persist \in Sequence \cup {<<>>} /\ writes \subseteq Group \X Place \X BOOLEAN
  /\ trouble \in 0..MaxTrouble /\ clean \in BOOLEAN

\* A new team has order 0.
OrderInit ==
  /\ orderOpen = FALSE /\ orderLoading = FALSE /\ orderLoads = <<>>
  /\ order = [g \in Group |-> 0]
  /\ shownTeams = <<>> /\ believed = [g \in Group |-> 0]
  /\ persist = <<>> /\ writes = {} /\ trouble = 0 /\ clean = FALSE

-----------------------------------------------------------------------------
\* Opening the dialog loads the teams; closing it cancels nothing.
OpenOrder ==
  /\ ~orderOpen /\ Len(orderLoads) < MaxLoads
  /\ orderOpen' = TRUE /\ orderLoading' = TRUE
  /\ orderLoads' = Append(orderLoads, <<>>)
  /\ UNCHANGED <<order, shownTeams, believed, persist, writes, trouble, clean>>

CloseOrder ==
  /\ orderOpen /\ orderOpen' = FALSE
  /\ UNCHANGED <<orderLoading, orderLoads, order, shownTeams, believed, persist, writes,
                 trouble, clean>>

ReadOrder(l) ==
  /\ orderLoads[l] = <<>>
  /\ orderLoads' = [orderLoads EXCEPT ![l] = order]
  /\ UNCHANGED <<orderOpen, orderLoading, order, shownTeams, believed, persist, writes,
                 trouble, clean>>

\* By order, then by name.
Sorted(o) ==
  CHOOSE q \in Sequence :
    \A i, j \in DOMAIN q : i < j => o[q[i]] < o[q[j]] \/ (o[q[i]] = o[q[j]] /\ q[i] < q[j])

\* A load may have read the orders before a save of the same dialog was over.
OrderLoaded(l) ==
  /\ orderLoads[l] # <<>>
  /\ shownTeams' = Sorted(orderLoads[l]) /\ believed' = orderLoads[l]
  /\ clean' = (writes = {} /\ Idle /\ orderLoads[l] = order)
  /\ orderLoading' = FALSE
  /\ orderLoads' = RemoveAt(orderLoads, l)
  /\ UNCHANGED <<orderOpen, order, persist, writes, trouble>>

OrderLoadFails(l) ==
  /\ orderLoading' = FALSE
  /\ orderLoads' = RemoveAt(orderLoads, l)
  /\ UNCHANGED <<orderOpen, order, shownTeams, believed, persist, writes, trouble, clean>>

-----------------------------------------------------------------------------
Swapped(i, j) == [shownTeams EXCEPT ![i] = shownTeams[j], ![j] = shownTeams[i]]
\* Seeded bug: teams are compared with their place on the screen.
ToWriteMoved(q) == {g \in Group : PositionIn(q, g) # PositionIn(shownTeams, g)}
\* The orders to write for the teams to be shown as q: those that differ from
\* what the dialog believes.
ToWrite(q) == {g \in Group : PositionIn(q, g) # believed[g]}

\* The buttons are disabled while a save is in flight.
Move(i) ==
  /\ orderOpen /\ ~orderLoading /\ Idle
  /\ i \in 1..(Len(shownTeams) - 1)
  /\ persist' = Swapped(i, i + 1)
  /\ writes' = writes \cup {<<g, PositionIn(persist', g), TRUE>> : g \in ToWrite(persist')}
  /\ UNCHANGED <<dialogSide, order, shownTeams, believed, trouble, clean>>

WritePlace(w) ==
  /\ w \in writes /\ writes' = writes \ {w}
  /\ order' = [order EXCEPT ![w[1]] = w[2]]
  /\ UNCHANGED <<dialogSide, shownTeams, believed, persist, trouble, clean>>

\* The first failure ends the save with a toast; the list stays as it was, and
\* the other writes run on.
WriteFails(w) ==
  /\ w \in writes
  /\ writes' = IF w[3] THEN {<<v[1], v[2], FALSE>> : v \in writes \ {w}} ELSE writes \ {w}
  /\ order' \in {order, [order EXCEPT ![w[1]] = w[2]]}
  /\ persist' = IF w[3] THEN <<>> ELSE persist
  /\ trouble < MaxTrouble /\ trouble' = trouble + 1 /\ clean' = FALSE
  /\ UNCHANGED <<dialogSide, shownTeams, believed>>

BelievedAfter(q) == [g \in Group |-> PositionIn(q, g)]

\* All writes of the save have succeeded.
Persisted ==
  /\ ~Idle /\ \A w \in writes : ~w[3]
  /\ shownTeams' = persist /\ believed' = BelievedAfter(persist)
  /\ persist' = <<>>
  /\ UNCHANGED <<dialogSide, order, writes, trouble, clean>>

\* Another user orders a team that he shares.
OtherOrders(g, n) ==
  /\ n # order[g] /\ order' = [order EXCEPT ![g] = n]
  /\ trouble < MaxTrouble /\ trouble' = trouble + 1 /\ clean' = FALSE
  /\ UNCHANGED <<dialogSide, shownTeams, believed, persist, writes>>

OrderNext ==
  \/ OpenOrder \/ CloseOrder
  \/ \E l \in DOMAIN orderLoads : ReadOrder(l) \/ OrderLoaded(l) \/ OrderLoadFails(l)
  \/ \E i \in Group : Move(i)
  \/ \E w \in writes : WritePlace(w) \/ WriteFails(w)
  \/ Persisted
  \/ \E g \in Group, n \in Place : OtherOrders(g, n)

OrderSpec == OrderInit /\ [][OrderNext]_orderVars

-----------------------------------------------------------------------------
\* After a move that succeeded the server has the order the dialog shows, though
\* most orders were not sent; unless, since the load, a write has failed or
\* another user has moved a team, or the load itself was answered during a save
\* of this dialog or with orders older than the server's, as when the dialog is
\* closed and opened again before its save is over.  What it then believes is
\* stale, and the next move sends too little.
OrderAsShown ==
  [][Persisted /\ clean => Sorted(order) = shownTeams']_orderVars
=============================================================================
