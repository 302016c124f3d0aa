--------------------------- MODULE SubsStoreProps ---------------------------
(***************************************************************************)
(* What the store of subscriptions promises about the user's choice and    *)
(* about the age of the locations.                                         *)
(***************************************************************************)
EXTENDS SubsStore

\* A row the choice could be found by.
Fits(row, s) == row.key = s.key \/ (s.label # "" /\ row.label = s.label)

\* What is remembered of a choice while it cannot be found.
IdentityOf(s) == <<s.sub, s.key, s.label>>

\* The selection after a step, seen from the one before it: it is the same row, or
\* one of the same endpoint or label in the same card while that card exists; or it
\* is lost, keeps its identity, and could not be found.  An edit does not look for a
\* choice that was lost before: only a later answer brings that back.
Follows(before, after, list) ==
    \/ NeverChose(before)
    \/ Rows(list) = {} /\ after = Nothing
    \/ /\ after.lost /\ IdentityOf(after) = IdentityOf(before)
       /\ \A row \in Pool(list, before) :
             Fits(row, before) => before.lost /\ row \in Rows(cards)
    \/ \E row \in Pool(list, before) :
          /\ ~after.lost /\ after.sub = row.sub /\ after.at = row.at
          /\ \/ after = Chosen(row) /\ Fits(row, before)
             \/ after = before /\ row \in Rows(cards)

UserChooses ==
    \E row \in Rows(cards) :
        SelectServer(row) \/ \E location \in Drafts : SaveServerDraft(row, location)

\* Nobody but the user, who selects or edits a row, moves the selection to another
\* location: over refreshes, removals, imports and reloads in any order, an answer
\* that arrives late included, the choice follows its location or waits for it
\* (reconcileSelection, resolveSelection).
SelectionStays == [][~UserChooses => Follows(sel, sel', cards')]_vars

\* What is selected, as a connection would take it.
Selected(list, s) ==
    LET rows == {r \in Rows(list) : r.sub = s.sub /\ r.at = s.at}
        row  == CHOOSE r \in rows : TRUE
    IN  IF rows = {} THEN <<s.sub, s.key, s.label, s.lost>>
        ELSE <<row.sub, row.key, row.label, s.lost>>

\* A reload of the page selects the same location with the same endpoint, although
\* the store is not written after every change (reconcileSelection's persist).  A
\* choice that was lost may be found by it: see Follows.
SelectionSurvivesReload ==
    [][Reload /\ ~sel.lost => Selected(cards', sel') = Selected(cards, sel)]_vars

\* A card whose interval has passed is asked for again: as long as automatic
\* updates are on it is refreshed, or its attempt fails and waits for the backoff
\* (nextRefreshBatch, refreshAutoBatch).  Unless the page is lost again and again:
\* each time the fetch in flight goes with it.
EveryCardIsPolled ==
    <>[][~Reload]_vars =>
        \A id \in 1..MaxCards :
            (auto /\ id \in CardIds(Ready(cards)))
            ~> (~auto \/ id \notin CardIds(Ready(cards)))
=============================================================================
