------------------------------ MODULE SubsStore ------------------------------
(***************************************************************************)
(* The subscriptions of the window (subs.svelte.ts), what its backend      *)
(* fetches for them (lib.rs), the copy in localStorage and the timer that  *)
(* refreshes them.  Every answer arrives after an await, when the cards may *)
(* be others.                                                              *)
(*                                                                         *)
(* A location is [key, label]: serverKey and the normalised label.  Only    *)
(* the selection refers to a row by its random id, so that the row's card   *)
(* and its place there stand for the id; a parse gives every row a new id,  *)
(* and whatever referred to one before refers to none.  0 and "" stand for  *)
(* null, "" also for a label that is nothing but a flag, whose name is empty. *)
(*                                                                         *)
(* Left out, as nothing here depends on them: names, quotas, pings, and the *)
(* reparse of cards written by 0.2.0.                                       *)
(***************************************************************************)
EXTENDS Lists, SequencesExt

CONSTANTS Provider,     \* remote address -> the routes an answer may take
          Pasted,       \* pasted text -> what it parses to
          Drafts,       \* locations an edited row may become
          MaxRedirects, \* 5 in the code
          MaxRows,      \* bound of the model: rows before an import
          MaxCards,     \* bound of the model: cards
          MaxCalls      \* bound of the model: fetches in flight

ASSUME BoundsAssumption ==
    {MaxRedirects, MaxRows, MaxCards} \subseteq Nat /\ MaxCalls \in Nat \ {0}

\* serverKey is never empty: the fields are joined by separators, an id is random.
Locations == [key : STRING \ {""}, label : STRING]

\* A body is its lines, whether they are JSON, and the interval in its HTTP header.
\* Lines are comments, of an interval or not, locations, and what does not parse.
Lines == [is : {"comment", "broken"}] \cup [is : {"interval"}, says : STRING]
         \cup [is : {"location"}, key : STRING \ {""}, label : STRING]
Bodies == [json : BOOLEAN, header : STRING, lines : Seq(Lines)]

\* A route is the hosts a request is sent to, one for each redirection: what the
\* host's name resolves to, and what it gives.
Hops == [resolves : SUBSET STRING, gives : STRING, body : Bodies]

ASSUME SourcesAssumption ==
    /\ DOMAIN Provider \cap DOMAIN Pasted = {}
    /\ \A url \in DOMAIN Provider : Provider[url] \subseteq Seq(Hops)
    /\ \A text \in DOMAIN Pasted : Pasted[text] \in Bodies
    /\ Drafts \subseteq Locations

VARIABLES cards,  \* list, each card with what the scheduler knows of it
          sel,    \* the selection and whether it is lost
          disk,   \* localStorage: cards and selection
          calls,  \* the fetches in flight, by slot
          timer,  \* autoRefreshTimer is set
          auto    \* settings.subscriptionAutoUpdate, autoRefreshStarted with it

vars == <<cards, sel, disk, calls, timer, auto>>

Slots == 1..MaxCalls
Call(kind, card, source) ==
    [kind |-> kind, card |-> card, source |-> source, auto |-> FALSE, rest |-> <<>>]
Free == Call("free", 0, "")
Nothing == [at |-> 0, key |-> "", sub |-> 0, label |-> "", lost |-> FALSE]
Remote(url) == url \in DOMAIN Provider
Card(id) == CHOOSE c \in ToSet(cards) : c.id = id
CardIds(list) == {c.id : c \in ToSet(list)}

Without(list, id) == Selection(list, {i \in DOMAIN list : list[i].id # id})

\* The rows of all cards, and the first of some as they are shown: card after card.
RowsOf(card) ==
    {[key |-> card.servers[j].key, label |-> card.servers[j].label, sub |-> card.id, at |-> j] :
        j \in DOMAIN card.servers}
Rows(list) == UNION {RowsOf(c) : c \in ToSet(list)}

Above(list, row, other) ==
    \/ row.sub = other.sub /\ row.at <= other.at
    \/ \E i, j \in DOMAIN list : i < j /\ list[i].id = row.sub /\ list[j].id = other.sub
Top(list, rows) == CHOOSE row \in rows : \A other \in rows : Above(list, row, other)

-----------------------------------------------------------------------------
(* The fetch.                                                              *)

\* is_blocked_host, is_blocked_ip: one address that is not public is enough.
IsBlocked(hop) == hop.resolves # {"public"}

Failed == [json |-> FALSE, header |-> "none", lines |-> <<>>]

FetchSubscriptionResponse(route) ==
    LET ends == {i \in DOMAIN route : IsBlocked(route[i]) \/ route[i].gives # "redirect"}
        last == CHOOSE i \in ends : \A j \in ends : i <= j
    IN  IF ends = {} \/ last > MaxRedirects + 1 \/ IsBlocked(route[last])
           \/ route[last].gives # "body" THEN Failed
        ELSE route[last].body

\* The comments before the first other line; of several intervals the last.
ParseBodyMeta(lines) ==
    LET block == {i \in DOMAIN lines : \A j \in 1..i : lines[j].is \in {"interval", "comment"}}
        says  == {i \in block : lines[i].is = "interval"}
    IN  IF says = {} THEN "none" ELSE lines[CHOOSE i \in says : \A j \in says : j <= i].says

\* The header, or else the comment; "hours" and "zero" are intervals.
ParseHeaders(body) ==
    LET value == IF body.header = "none" THEN ParseBodyMeta(body.lines) ELSE body.header
    IN  IF value \in {"hours", "zero"} THEN value ELSE "none"

ParseSubscription(lines) ==
    LET locations == Selection(lines, {i \in DOMAIN lines : lines[i].is = "location"})
    IN  [i \in DOMAIN locations |-> [key |-> locations[i].key, label |-> locations[i].label]]

ImportResult(body) ==
    [servers |-> ParseSubscription(body.lines), every |-> ParseHeaders(body), json |-> body.json]

\* fetch_subscription: what a source may come to.  An error and a body
\* without locations leave the store alike.
Answers ==
    [source \in DOMAIN Provider \cup DOMAIN Pasted |->
        {ImportResult(b) : b \in IF Remote(source)
                                 THEN {FetchSubscriptionResponse(r) : r \in Provider[source]}
                                 ELSE {Pasted[source]}}]

-----------------------------------------------------------------------------
(* The selection.                                                          *)

Chosen(row) ==
    [at |-> row.at, key |-> row.key, sub |-> row.sub, label |-> row.label, lost |-> FALSE]

NeverChose(s) == s.at = 0 /\ s.key = "" /\ s.label = ""

\* The rows a choice may be found in again: its card's, while that exists.
Pool(list, s) ==
    IF s.sub \in CardIds(list) THEN {r \in Rows(list) : r.sub = s.sub} ELSE Rows(list)

\* Exact row, then its endpoint (by label among several), then its label.
Resolve(list, pool, s) ==
    LET byId    == {r \in pool : r.sub = s.sub /\ r.at = s.at}
        byKey   == {r \in pool : r.key = s.key}
        byBoth  == {r \in byKey : s.label # "" /\ r.label = s.label}
        byLabel == {r \in pool : s.label # "" /\ r.label = s.label}
    IN  IF Rows(list) = {} THEN Nothing
        ELSE IF byId # {} THEN Chosen(Top(list, byId))
        ELSE IF byBoth # {} THEN Chosen(Top(list, byBoth))
        ELSE IF byKey # {} THEN Chosen(Top(list, byKey))
        ELSE IF byLabel # {} THEN Chosen(Top(list, byLabel))
        ELSE IF NeverChose(s) THEN Chosen(Top(list, Rows(list)))
        ELSE [s EXCEPT !.at = 0, !.lost = TRUE]

\* Variant: an endpoint or a label is looked for in every card.
ResolveAnywhere(list, s) == Resolve(list, Rows(list), s)

ResolveSelection(list, s) == Resolve(list, Pool(list, s), s)

-----------------------------------------------------------------------------
(* localStorage and the timer.                                             *)

\* What of a card is written: all but what the scheduler knows.
Written(list) == [i \in DOMAIN list |-> [list[i] EXCEPT !.due = FALSE]]

Saved(list, s) == [cards |-> Written(list), sel |-> [s EXCEPT !.lost = FALSE]]

\* Variant: the store is written when the endpoint changed.
SavesNewEndpoint(before, after) == after.key # before.key \/ after.lost

\* reconcileSelection writes the store only when the selection changed or is lost.
Saves(before, after) ==
    [after EXCEPT !.lost = FALSE] # [before EXCEPT !.lost = FALSE] \/ after.lost

\* A card is due when its interval has passed, counted from its last success, and
\* REFRESH_RETRY_BACKOFF_MS, counted from a last attempt that failed.
Polled(c) == c.every = "hours"
Ready(list) == Selection(list, {i \in DOMAIN list : Polled(list[i]) /\ list[i].due})

\* Variant: only boundaries that are still to come.
SchedulesAhead(list) == \E c \in ToSet(list) : Polled(c) /\ ~c.due

\* nextRefreshBatch finds a card to wait for, or one that is ready.
Schedules(list) == \E c \in ToSet(list) : Polled(c)

\* rescheduleAutoRefresh.  The layout's effect reads the list through it, so
\* that every change of the list runs it again.
Reschedule(list) == timer' = (auto /\ Schedules(list))

\* The list is replaced, the selection, whose id may be gone, found again.
Reconcile(list, held) ==
    /\ cards' = list
    /\ sel' = ResolveSelection(list, held)
    /\ disk' = IF Saves(held, sel') THEN Saved(list, sel') ELSE disk

\* The selection when the rows of a card have got new ids.
ParsedAnew(card) == IF sel.sub = card THEN [sel EXCEPT !.at = 0] ELSE sel

\* persist()
Persist == disk' = Saved(cards', sel')

UsedCards ==
    CardIds(cards) \cup CardIds(disk.cards) \cup {sel.sub, disk.sel.sub}
    \cup UNION {{calls[s].card} \cup ToSet(calls[s].rest) : s \in Slots}

NewId == Min((1..(Cardinality(UsedCards) + 1)) \ UsedCards)

Update(list, id, F(_)) ==
    [i \in DOMAIN list |-> IF list[i].id = id THEN F(list[i]) ELSE list[i]]

-----------------------------------------------------------------------------
(* What the user asks for.                                                 *)

\* One slot stays free for the timer.
FreeSlots == {s \in Slots : calls[s] = Free}
Slot == CHOOSE s \in FreeSlots : \A t \in FreeSlots : s <= t
MayCall == Cardinality(FreeSlots) > 1
Importing == \E s \in Slots : calls[s].kind = "import"

ImportFromUrl(source) ==
    /\ MayCall /\ ~Importing
    /\ Cardinality(Rows(cards)) <= MaxRows /\ Len(cards) < MaxCards
    /\ calls' = [calls EXCEPT ![Slot] = Call("import", 0, source)]
    /\ UNCHANGED <<cards, sel, disk, timer, auto>>

\* The card's button is disabled from the start of a refresh to its first answer,
\* in the model to the last.  Marking the card changes the list.
Refresh(id) ==
    /\ MayCall /\ Remote(Card(id).url)
    /\ \A s \in Slots \ FreeSlots : calls[s].kind = "refresh" => calls[s].card # id
    /\ calls' = [calls EXCEPT ![Slot] = Call("refresh", id, Card(id).url)]
    /\ Reschedule(cards)
    /\ UNCHANGED <<cards, sel, disk, auto>>

UpdateJson(id, text) ==
    /\ MayCall /\ Card(id).json
    /\ calls' = [calls EXCEPT ![Slot] = Call("json", id, text)]
    /\ UNCHANGED <<cards, sel, disk, timer, auto>>

SelectServer(row) ==
    /\ sel' = Chosen(row)
    /\ UNCHANGED <<cards, calls, auto>>
    /\ Persist /\ Reschedule(cards)

\* A draft that compiles replaces its row's location and keeps the row.
SaveServerDraft(row, location) ==
    /\ cards' = Update(cards, row.sub, LAMBDA c : [c EXCEPT !.servers =
                    [@ EXCEPT ![row.at] = location]])
    /\ sel' = IF sel.sub = row.sub /\ sel.at = row.at THEN [sel EXCEPT !.key = location.key] ELSE sel
    /\ Persist /\ Reschedule(cards')
    /\ UNCHANGED <<calls, auto>>

RemoveCard(id) ==
    /\ cards' = Without(cards, id)
    /\ sel' = ResolveSelection(cards', sel)
    /\ Persist /\ Reschedule(cards')
    /\ UNCHANGED <<calls, auto>>

\* The last row of a pasted card takes the card with it.
DeleteLocation(row) ==
    LET kept == RemoveAt(Card(row.sub).servers, row.at)
        held == IF sel.sub # row.sub \/ sel.at < row.at THEN sel
                ELSE [sel EXCEPT !.at = IF @ = row.at THEN 0 ELSE @ - 1]
    IN  /\ ~Remote(Card(row.sub).url)
        /\ cards' = IF kept = <<>> THEN Without(cards, row.sub)
                    ELSE Update(cards, row.sub, LAMBDA c : [c EXCEPT !.servers = kept])
        /\ sel' = ResolveSelection(cards', held)
        /\ Persist /\ Reschedule(cards')
        /\ UNCHANGED <<calls, auto>>

\* Collapsing, pinning, hiding, renaming, a draft that does not compile: the
\* store is written as it is.
Save ==
    /\ disk # Saved(cards, sel)
    /\ UNCHANGED <<cards, sel, calls, auto>>
    /\ Persist /\ Reschedule(cards)

ToggleAuto ==
    /\ auto' = ~auto
    /\ timer' = (auto' /\ Schedules(cards))
    /\ UNCHANGED <<cards, sel, disk, calls>>

-----------------------------------------------------------------------------
(* The answers.                                                            *)

NewCard(id, source, body) ==
    [id |-> id, url |-> source, json |-> body.json, every |-> body.every,
     servers |-> body.servers, due |-> FALSE]

\* mergeManualConfigurations: every pasted source ends up in one card.
MergeManual(list) ==
    LET pasted == {i \in DOMAIN list : ~Remote(list[i].url)}
        manual == Selection(list, pasted)
        merged == [manual[1] EXCEPT
                      !.servers = FlattenSeq([i \in DOMAIN manual |-> manual[i].servers]),
                      !.json = \A c \in ToSet(manual) : c.json]
    IN  IF Len(manual) < 2 THEN list
        ELSE Selection([i \in DOMAIN list |-> IF list[i].id = merged.id THEN merged ELSE list[i]],
                       {i \in DOMAIN list : i \in pasted => list[i].id = merged.id})

Imported(slot, body) ==
    /\ calls[slot].kind = "import"
    /\ calls' = [calls EXCEPT ![slot] = Free]
    /\ IF body.servers = <<>> THEN UNCHANGED <<cards, sel, disk, timer>>
       ELSE LET list == Append(cards, NewCard(NewId, calls[slot].source, body))
            IN  /\ Reconcile(IF Remote(calls[slot].source) THEN list ELSE MergeManual(list), sel)
                /\ Reschedule(cards')
    /\ UNCHANGED auto

JsonUpdated(slot, body) ==
    /\ calls[slot].kind = "json"
    /\ calls' = [calls EXCEPT ![slot] = Free]
    /\ IF ~body.json \/ body.servers = <<>> THEN UNCHANGED <<cards, sel, disk, timer>>
       ELSE /\ Reconcile(Update(cards, calls[slot].card, LAMBDA c :
                  [c EXCEPT !.servers = body.servers, !.json = TRUE, !.due = FALSE,
                            !.url = IF Remote(@) THEN @ ELSE calls[slot].source]),
                         ParsedAnew(calls[slot].card))
            /\ Reschedule(cards')
    /\ UNCHANGED auto

\* What refresh() makes of an answer: a body without locations changes no row.
AfterRefresh(id, body) ==
    Update(cards, id, LAMBDA c :
        IF body.servers = <<>> THEN c
        ELSE [c EXCEPT !.servers = body.servers, !.every = IF body.every = "none" THEN @ ELSE body.every,
                       !.json = body.json, !.due = FALSE])

\* One turn of the batch: the attempt is noted and the next card that still
\* exists is asked.
Refreshed(slot, body) ==
    LET call  == calls[slot]
        id    == call.card
        list  == IF call.auto /\ body.servers = <<>>
                 THEN Update(cards, id, LAMBDA c :
                          [c EXCEPT !.due = FALSE])
                 ELSE AfterRefresh(id, body)
        rest  == IF auto
                 THEN Selection(call.rest, {i \in DOMAIN call.rest : call.rest[i] \in CardIds(cards)})
                 ELSE <<>>
    IN  /\ call.kind = "refresh"
        /\ calls' = [calls EXCEPT ![slot] =
                        IF rest = <<>> THEN Free
                        ELSE [call EXCEPT !.card = rest[1], !.source = Card(rest[1]).url,
                                          !.rest = Tail(rest)]]
        /\ IF body.servers = <<>> THEN cards' = list /\ UNCHANGED <<sel, disk>>
           ELSE Reconcile(list, ParsedAnew(id))
        /\ Reschedule(cards')
        /\ UNCHANGED auto

Answer(slot) ==
    /\ calls[slot] # Free
    /\ \E body \in Answers[calls[slot].source] :
          Imported(slot, body) \/ JsonUpdated(slot, body) \/ Refreshed(slot, body)

-----------------------------------------------------------------------------
(* Time, and the page that is lost.                                        *)

\* refreshAutoBatch starts with every card that is ready.
TimerIsDue == timer /\ Ready(cards) # <<>> /\ FreeSlots # {}
TimerFires ==
    LET ids == [i \in DOMAIN Ready(cards) |-> Ready(cards)[i].id]
    IN  /\ TimerIsDue
        /\ calls' = [calls EXCEPT ![Slot] =
                        [Call("refresh", ids[1], Card(ids[1]).url) EXCEPT
                            !.auto = TRUE, !.rest = Tail(ids)]]
        /\ Reschedule(cards)
        /\ UNCHANGED <<cards, sel, disk, auto>>

\* The interval of a fresh card passes, or the backoff of a failed attempt.
TimePasses(id) ==
    /\ Polled(Card(id)) /\ ~Card(id).due
    /\ cards' = Update(cards, id, LAMBDA c : [c EXCEPT !.due = TRUE])
    /\ UNCHANGED <<sel, disk, calls, timer, auto>>

\* The web process dies, or the application is started again.  Intervals pass
\* meanwhile; what was in flight and noted in memory is gone.
Reload ==
    /\ calls' = [s \in Slots |-> Free]
    /\ UNCHANGED auto
    /\ \E due \in [DOMAIN disk.cards -> BOOLEAN] :
        LET list == [i \in DOMAIN disk.cards |->
                        [disk.cards[i] EXCEPT !.due = due[i] /\ Polled(disk.cards[i])]]
            known == \E r \in Rows(list) : r.sub = disk.sel.sub /\ r.at = disk.sel.at
            kept == [disk.sel EXCEPT !.at = IF known THEN @ ELSE 0]
        IN  /\ cards' = list
            /\ sel' = ResolveSelection(list, kept)
            /\ disk' = IF Saves(kept, sel') THEN Saved(list, sel') ELSE disk
            /\ Reschedule(list)

-----------------------------------------------------------------------------
Init ==
    /\ cards = <<>> /\ sel = Nothing /\ disk = Saved(<<>>, Nothing)
    /\ calls = [s \in Slots |-> Free]
    /\ timer = FALSE /\ auto \in BOOLEAN

Next ==
    \/ \E source \in DOMAIN Provider \cup DOMAIN Pasted : ImportFromUrl(source)
    \/ \E id \in CardIds(cards) :
          \/ Refresh(id) \/ RemoveCard(id) \/ TimePasses(id)
          \/ \E text \in DOMAIN Pasted : UpdateJson(id, text)
    \/ \E row \in Rows(cards) :
          \/ SelectServer(row) \/ DeleteLocation(row)
          \/ \E location \in Drafts : SaveServerDraft(row, location)
    \/ Save \/ ToggleAuto
    \/ \E slot \in Slots : Answer(slot)
    \/ TimerFires
    \/ Reload

\* Timers fire and every fetch ends, since the client gives each request 15 s: weak
\* fairness, its ENABLED written out as what keeps the step possible.
Fairness ==
    /\ []<>~TimerIsDue \/ []<><<TimerFires>>_vars
    /\ \A slot \in Slots : []<>(calls[slot] = Free) \/ []<><<Answer(slot)>>_vars

Spec == Init /\ [][Next]_vars /\ Fairness
=============================================================================
