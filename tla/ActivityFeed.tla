---------------------------- MODULE ActivityFeed ----------------------------
(***************************************************************************)
(* The activity feed of one project: the rows of `activities` as the       *)
(* transactions of the service leave them, and the tab that reads them     *)
(* page by page.                                                           *)
(*                                                                         *)
(* created_at is now(), the start of the transaction: what one transaction *)
(* records has one created_at, and transactions do not commit in the order *)
(* in which they started.  The feed is ordered, and its pages are cut, by  *)
(* created_at and the id, a uuid in no order of time.                      *)
(***************************************************************************)
EXTENDS Naturals, Sequences, FiniteSets, FiniteSetsExt

CONSTANTS
    Writers,      \* slots for the transactions that are open
    Ids,          \* the uuids used, by their place in the order of Postgres
    PageSize,     \* entries the tab asks for at once
    MaxTime       \* bound on the clock

ASSUME FeedAssumption ==
    /\ IsFiniteSet(Ids) /\ Ids \subseteq Nat \ {0}
    /\ PageSize \in Nat \ {0} /\ MaxTime \in Nat \ {0}

VARIABLES
    clock,        \* now()
    begun,        \* created_at of what each open transaction records, or 0
    entries,      \* the committed rows of the project
    feed          \* the state of the tab, and the answer on its way to it

trailVars == <<clock, begun, entries>>
feedVars  == <<trailVars, feed>>

Entry   == [at: 1..MaxTime, id: Ids]
NoEntry == [at |-> 0, id |-> 0]           \* next_cursor = null
Cursor  == Entry \cup {NoEntry}
Page    == [items: Seq(Entry), next: Cursor]

Feed == [status: {"unmounted", "loading", "ready", "loading_more", "error"},
         items: Seq(Entry), cursor: Cursor,
         answer: SUBSET Page,             \* at most one
         owed: SUBSET Entry]              \* history: what its reads could find

NoFeed == [status |-> "unmounted", items |-> <<>>, cursor |-> NoEntry,
           answer |-> {}, owed |-> {}]

-----------------------------------------------------------------------------
\* The trail.

Tick ==
    /\ clock < MaxTime                    \* a bound
    /\ clock' = clock + 1
    /\ UNCHANGED <<begun, entries, feed>>

Begin(w) ==
    /\ begun[w] = 0
    /\ begun' = [begun EXCEPT ![w] = clock]
    /\ UNCHANGED <<clock, entries, feed>>

\* record(), once or twice (a cut that moves the project records both), and the
\* commit that lets others see it.
CommitEntries(w) ==
    /\ begun[w] # 0
    /\ \E ids \in SUBSET (Ids \ {e.id : e \in entries}) :
          /\ Cardinality(ids) \in 1..2
          /\ entries' = entries \cup {[at |-> begun[w], id |-> i] : i \in ids}
    /\ begun' = [begun EXCEPT ![w] = 0]
    /\ UNCHANGED <<clock, feed>>

Rollback(w) ==
    /\ begun[w] # 0
    /\ begun' = [begun EXCEPT ![w] = 0]
    /\ UNCHANGED <<clock, entries, feed>>

-----------------------------------------------------------------------------
\* list_for_project.

\* ORDER BY created_at, id.
Before(e, f) == e.at < f.at \/ (e.at = f.at /\ e.id < f.id)

\* Broken on purpose: the cursor is a created_at.
BelowByTime(cursor) == {e \in entries : cursor = NoEntry \/ e.at < cursor.at}

\* What the query finds; its cursor names a row, and comes back as it was sent.
Below(cursor) == {e \in entries : cursor = NoEntry \/ Before(e, cursor)}

LatestFirst(rows) ==
    CHOOSE s \in [1..Cardinality(rows) -> rows] :
        \A i, j \in 1..Cardinality(rows) : i < j => Before(s[j], s[i])

\* One row more than the limit tells that there is another page; the cursor is
\* the last row that is sent.
FeedPage(cursor) ==
    LET rows == LatestFirst(Below(cursor))
        size == Min({PageSize, Len(rows)})
    IN  [items |-> SubSeq(rows, 1, size),
         next  |-> IF Len(rows) > PageSize THEN rows[size] ELSE NoEntry]

\* The read; what the feed owes its reader from now on is in the trail by then.
ServeFeed ==
    /\ feed.status \in {"loading", "loading_more"} /\ feed.answer = {}
    /\ LET more   == feed.status = "loading_more"
           cursor == IF more THEN feed.cursor ELSE NoEntry
       IN  feed' = [feed EXCEPT !.answer = {FeedPage(cursor)},
                      !.owed = IF more
                               THEN @ \cup {e \in entries : Before(e, cursor)}
                               ELSE entries]
    /\ UNCHANGED trailVars

-----------------------------------------------------------------------------
\* The tab.

\* Mounted with the tab and unmounted with it; loadFirst runs on the mount.
OpenFeed ==
    /\ feed.status = "unmounted"
    /\ feed' = [NoFeed EXCEPT !.status = "loading"]
    /\ UNCHANGED trailVars

CloseFeed ==
    /\ feed.status # "unmounted"
    /\ feed' = NoFeed
    /\ UNCHANGED trailVars

\* loadFirst replaces the list, loadMore appends to it.
DeliverFeed ==
    /\ \E page \in feed.answer :
          feed' = [feed EXCEPT !.status = "ready", !.answer = {},
                     !.items = (IF feed.status = "loading_more" THEN @ ELSE <<>>)
                               \o page.items,
                     !.cursor = page.next]
    /\ UNCHANGED trailVars

FailFeed ==
    /\ feed.status \in {"loading", "loading_more"}
    /\ feed' = [feed EXCEPT !.status = "error", !.answer = {}]
    /\ UNCHANGED trailVars

LoadMore ==
    /\ feed.status = "ready" /\ feed.cursor # NoEntry
    /\ feed' = [feed EXCEPT !.status = "loading_more"]
    /\ UNCHANGED trailVars

RetryFeed ==
    /\ feed.status = "error"
    /\ feed' = [feed EXCEPT !.status = "loading"]
    /\ UNCHANGED trailVars

-----------------------------------------------------------------------------
FeedInit ==
    /\ clock = 1 /\ begun = [w \in Writers |-> 0] /\ entries = {}
    /\ feed = NoFeed

FeedNext ==
    \/ Tick
    \/ \E w \in Writers : Begin(w) \/ CommitEntries(w) \/ Rollback(w)
    \/ OpenFeed \/ CloseFeed
    \/ ServeFeed \/ DeliverFeed \/ FailFeed
    \/ LoadMore \/ RetryFeed

FeedSpec == FeedInit /\ [][FeedNext]_feedVars

-----------------------------------------------------------------------------
\* The shapes; an answer is one page, and only on its way to a tab that waits.
FeedTypeOK ==
    /\ clock \in 1..MaxTime /\ begun \in [Writers -> 0..MaxTime]
    /\ entries \subseteq Entry
    /\ \A e, f \in entries : e.id = f.id => e = f
    /\ feed \in Feed /\ Cardinality(feed.answer) =< 1
    /\ feed.answer # {} => feed.status \in {"loading", "loading_more"}

\* However transactions overlap, whatever they record at one created_at and
\* wherever a page is cut, the feed shows its entries once, the latest first,
\* and leaves out, down to its cursor, none that was committed when the page it
\* belongs to was read: the first page for what was there then, a further one
\* for what lay below its cursor by then.
FeedIsComplete ==
    feed.status = "ready" =>
        /\ \A e \in feed.owed :
              ~Before(e, feed.cursor) => \E i \in DOMAIN feed.items : feed.items[i] = e
        /\ \A i, j \in DOMAIN feed.items :
              i < j => Before(feed.items[j], feed.items[i])

=============================================================================
