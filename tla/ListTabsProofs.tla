--------------------------- MODULE ListTabsProofs ----------------------------
(***************************************************************************)
(* Proofs about the list tabs, for any rows, any number of handlers at     *)
(* work, and any number of reloads whose answers overtake each other.      *)
(*                                                                         *)
(* An upload that has ended stays so, and what a handler was built         *)
(* from stays in the log: so all that a handler carries stays true until   *)
(* it is served.  A reload that has met no other was alone all along, and  *)
(* nothing has been reported to the tab since it was asked for.            *)
(***************************************************************************)
EXTENDS ListTabs, SequenceTheorems, FiniteSetTheorems, TLAPS

\* What the storage may have of an object.
Keepings == {"open", "short", "whole"}

\* No commit records a file whose upload is open; no thumbnail shows one.
FilesWereSent ==
    /\ \A n \in 1 .. Len(log), r \in Rows : log[n][r].files \subseteq Ended
    /\ \A c \in Cast : thumb[c].status = "shown" => thumb[c].form \in Ended

\* A reload that has met none is the only one, and it will show all that this
\* tab was told of.
Lone ==
    \A i \in DOMAIN reloads : ~reloads[i].met =>
        /\ Len(reloads) = 1
        /\ reloads[i].answer # 0 => reloads[i].answer >= acked

ShowsTheAcked == clean /\ reloads = <<>> => seen >= acked

\* What a handler has before it can be trusted: an upload has a session of its
\* own for each of its files and finalises only what has been sent, and a checklist
\* is that of the list it was built from, with one box changed.
Fits(w) ==
    /\ ~w.on => w = Idle
    /\ w.step \in {"ok", "reloading"} => w.on /\ w.holder # "none"
    /\ w.commit =< Len(log)
    /\ w.step \in {"put", "finalise"} =>
          /\ w.left >= 1 /\ w.won + w.left =< MaxChosen
          /\ w.object >= 1 /\ w.object + w.left =< opened + 1
    /\ w.step = "finalise" => w.object \in Ended
    /\ w.on /\ w.kind = "gear" /\ w.step = "asked" =>
          /\ w.base \in 1 .. Len(log)
          /\ w.gear = SymDiff(log[w.base][w.row].gear, w.item)

\* Each of these may still ask for a reload.
Pending(w) == w.on /\ w.holder # "none" /\ w.step # "reloading"

Room == Len(reloads) + Cardinality({h \in Handlers : Pending(handler[h])}) =< MaxReloads

RowsSafe ==
    /\ log \in Seq([Rows -> Row]) /\ Len(log) \in 1 .. MaxCommits + 1
    /\ stored \in [1 .. MaxObjects -> Keepings] /\ opened \in 0 .. MaxObjects
    /\ thumb \in [Cast -> Thumb]
    /\ FilesWereSent

ListSafe ==
    /\ tab \in Tabs /\ seen \in 0 .. Len(log)
    /\ reloads \in Seq(Reload)
    /\ \A i \in DOMAIN reloads : reloads[i].answer =< Len(log)
    /\ acked \in 0 .. Len(log) /\ clean \in BOOLEAN
    /\ Lone /\ ShowsTheAcked

HandlersSafe ==
    /\ handler \in [Handlers -> Handler]
    /\ \A h \in Handlers : Fits(handler[h])

TabsInv == RowsSafe /\ ListSafe /\ HandlersSafe /\ Room

-----------------------------------------------------------------------------
\* What a reader may find.
LEMMA TabShape ==
    ASSUME TabsInv
    PROVE  /\ MaxChosen \in Nat \ {0} /\ MaxReloads \in Nat \ {0}
           /\ MaxCommits \in Nat /\ MaxObjects \in Nat /\ opened \in Nat
           /\ Len(log) \in Nat \ {0} /\ Len(log) =< MaxCommits + 1
           /\ \A n \in 1 .. Len(log) : log[n] \in [Rows -> Row]
           /\ Current \in [Rows -> Row]
           /\ \A h \in Handlers : handler[h] \in Handler
<1>1. /\ MaxChosen \in Nat \ {0} /\ MaxReloads \in Nat \ {0}
      /\ MaxCommits \in Nat /\ MaxObjects \in Nat
  BY TabsAssumption
<1>2. opened \in Nat
  BY <1>1 DEF TabsInv, RowsSafe
<1>3. log \in Seq([Rows -> Row]) /\ Len(log) \in 1 .. MaxCommits + 1
  BY DEF TabsInv, RowsSafe
<1>4. Len(log) \in Nat \ {0} /\ Len(log) =< MaxCommits + 1
  BY <1>1, <1>3
<1>5. \A n \in 1 .. Len(log) : log[n] \in [Rows -> Row]
  BY <1>3
<1>6. Current \in [Rows -> Row]
  BY <1>4, <1>5 DEF Current
<1>7. \A h \in Handlers : handler[h] \in Handler
  BY DEF TabsInv, HandlersSafe
<1> QED
  BY <1>1, <1>2, <1>4, <1>5, <1>6, <1>7

LEMMA IdleFits == Idle \in Handler /\ ~Pending(Idle) /\ ~Idle.on /\ Idle.holder = "none"
<1>1. (CHOOSE r \in Rows : TRUE) \in Rows
  BY TabsAssumption
<1>2. /\ MaxChosen \in Nat /\ MaxCommits \in Nat /\ MaxObjects \in Nat
      /\ 0 \in 0 .. MaxChosen /\ 0 \in 0 .. MaxCommits + 1 /\ 0 \in 0 .. MaxObjects
  BY TabsAssumption
<1> QED
  BY <1>1, <1>2 DEF Idle, Handler, Kinds, Pending

\* The log grows at its end, and commits bring no file whose upload is open.
LEMMA WriteGrows ==
    ASSUME TabsInv, NEW r \in Rows, NEW row \in Row, Write(r, row),
           row.files \subseteq Ended', Ended \subseteq Ended',
           stored' \in [1 .. MaxObjects -> Keepings], opened' \in 0 .. MaxObjects,
           UNCHANGED thumb
    PROVE  /\ RowsSafe' /\ Len(log') = Len(log) + 1
           /\ \A n \in 1 .. Len(log) : log'[n] = log[n]
           /\ Current' = [Current EXCEPT ![r] = row]
<1> DEFINE rows == [Current EXCEPT ![r] = row]
<1>1. /\ Current \in [Rows -> Row] /\ log \in Seq([Rows -> Row])
      /\ Len(log) \in Nat \ {0} /\ MaxCommits \in Nat
  BY TabShape DEF TabsInv, RowsSafe
<1>2. rows \in [Rows -> Row] /\ \A q \in Rows : rows[q] = IF q = r THEN row ELSE Current[q]
  BY <1>1
<1>3. log' = Append(log, rows) /\ Len(log) =< MaxCommits
  BY DEF Write
<1> HIDE DEF rows
<1>4. /\ log' \in Seq([Rows -> Row]) /\ Len(log') = Len(log) + 1
      /\ \A n \in 1 .. Len(log) : log'[n] = log[n]
      /\ log'[Len(log) + 1] = rows
  BY <1>1, <1>2, <1>3, AppendProperties
<1>5. Len(log') \in 1 .. MaxCommits + 1
  BY <1>1, <1>3, <1>4
<1>6. Current' = rows
  BY <1>4 DEF Current
<1>7. \A q \in Rows : rows[q].files \subseteq Ended'
  <2>1. \A q \in Rows : Current[q].files \subseteq Ended
    BY <1>1 DEF Current, TabsInv, RowsSafe, FilesWereSent
  <2> QED
    BY <1>2, <2>1
<1>8. \A n \in 1 .. Len(log'), q \in Rows : log'[n][q].files \subseteq Ended'
  <2> TAKE n \in 1 .. Len(log'), q \in Rows
  <2>1. n \in 1 .. Len(log) \/ n = Len(log) + 1
    BY <1>1, <1>4
  <2>2. \A k \in 1 .. Len(log) : log[k][q].files \subseteq Ended
    BY DEF TabsInv, RowsSafe, FilesWereSent
  <2> QED
    BY <1>4, <1>7, <2>1, <2>2
<1>9. FilesWereSent'
  BY <1>8 DEF TabsInv, RowsSafe, FilesWereSent
<1>10. RowsSafe'
  BY <1>4, <1>5, <1>9 DEF TabsInv, RowsSafe
<1> QED
  BY <1>4, <1>6, <1>10 DEF rows

\* What a handler was built from stays as it was.
LEMMA FitsStays ==
    ASSUME TabsInv, NEW w \in Handler, Fits(w),
           Len(log') \in Nat, Len(log') >= Len(log),
           \A n \in 1 .. Len(log) : log'[n] = log[n],
           Ended \subseteq Ended', opened' \in Nat, opened' >= opened
    PROVE  Fits(w)'
<1>1. w.commit \in Nat /\ w.object \in Nat /\ w.left \in Nat /\ Len(log) \in Nat /\ opened \in Nat
  BY TabShape DEF Handler
<1>2. w.commit =< Len(log')
  BY <1>1 DEF Fits
<1>3. w.object + w.left =< opened + 1 => w.object + w.left =< opened' + 1
  BY <1>1
<1>4. w.base \in 1 .. Len(log) => w.base \in 1 .. Len(log') /\ log'[w.base] = log[w.base]
  BY <1>1
<1> QED
  BY <1>2, <1>3, <1>4 DEF Fits

LEMMA HandlersStay ==
    ASSUME TabsInv, UNCHANGED handler,
           Len(log') \in Nat, Len(log') >= Len(log),
           \A n \in 1 .. Len(log) : log'[n] = log[n],
           Ended \subseteq Ended', opened' \in Nat, opened' >= opened
    PROVE  HandlersSafe'
<1>1. \A h \in Handlers : Fits(handler[h])'
  BY TabShape, FitsStays DEF TabsInv, HandlersSafe
<1> QED
  BY <1>1 DEF TabsInv, HandlersSafe

\* The list does not mind that the log grows.
LEMMA ListStays ==
    ASSUME TabsInv, Len(log') \in Nat, Len(log') >= Len(log),
           UNCHANGED <<tab, seen, reloads, acked, clean>>
    PROVE  ListSafe'
<1>1. /\ Len(log) \in Nat /\ \A i \in DOMAIN reloads : reloads[i].answer \in Nat
      /\ seen \in 0 .. Len(log) /\ acked \in 0 .. Len(log)
  <2>1. reloads \in Seq(Reload) /\ MaxCommits \in Nat /\ Len(log) \in Nat
    BY TabShape DEF TabsInv, ListSafe
  <2>2. \A i \in DOMAIN reloads : reloads[i] \in Reload
    BY <2>1
  <2>3. \A i \in DOMAIN reloads : reloads[i].answer \in Nat
    BY <2>1, <2>2 DEF Reload
  <2> QED
    BY <2>1, <2>3 DEF TabsInv, ListSafe
<1>2. seen \in 0 .. Len(log') /\ acked \in 0 .. Len(log')
  BY <1>1
<1>3. \A i \in DOMAIN reloads : reloads[i].answer =< Len(log')
  BY <1>1 DEF TabsInv, ListSafe
<1>4. Lone' /\ ShowsTheAcked'
  BY DEF TabsInv, ListSafe, Lone, ShowsTheAcked
<1> QED
  BY <1>2, <1>3, <1>4 DEF TabsInv, ListSafe

\* A handler that was pending, or is not, may go on as it likes.
LEMMA RoomStays ==
    ASSUME TabsInv, NEW h \in Handlers, NEW new \in Handler,
           handler' = [handler EXCEPT ![h] = new],
           Pending(new) => Pending(handler[h]), UNCHANGED reloads
    PROVE  Room'
<1> DEFINE before == {k \in Handlers : Pending(handler[k])}
           after  == {k \in Handlers : Pending(handler'[k])}
<1>1. after \subseteq before /\ before \subseteq Handlers
  BY DEF TabsInv, HandlersSafe, Pending
<1>2. IsFiniteSet(before)
  BY <1>1, TabsAssumption, FS_Subset
<1> HIDE DEF before, after
<1>3. /\ Cardinality(after) =< Cardinality(before)
      /\ Cardinality(after) \in Nat /\ Cardinality(before) \in Nat
  BY <1>1, <1>2, FS_Subset, FS_CardinalityType
<1>4. Len(reloads) \in Nat /\ MaxReloads \in Nat
  BY TabsAssumption DEF TabsInv, ListSafe
<1>5. Len(reloads) + Cardinality(before) =< MaxReloads
  BY DEF TabsInv, Room, before
<1>6. Len(reloads) + Cardinality(after) =< MaxReloads
  BY <1>3, <1>4, <1>5
<1> QED
  BY <1>6 DEF Room, after, Pending

\* A handler moves on.
LEMMA HandlerMoves ==
    ASSUME TabsInv, NEW h \in Handlers, NEW new \in Handler,
           handler' = [handler EXCEPT ![h] = new], Fits(new)',
           Pending(new) => Pending(handler[h]),
           RowsSafe', Len(log') >= Len(log),
           \A n \in 1 .. Len(log) : log'[n] = log[n],
           Ended \subseteq Ended', opened' >= opened,
           UNCHANGED <<tab, seen, reloads, acked, clean>>
    PROVE  TabsInv'
<1>1. Len(log') \in Nat /\ opened' \in Nat
  BY TabsAssumption DEF RowsSafe
<1>2. ListSafe'
  BY <1>1, ListStays
<1>3. Room'
  BY RoomStays
<1>4. /\ handler' \in [Handlers -> Handler] /\ handler'[h] = new
      /\ \A k \in Handlers \ {h} : handler'[k] = handler[k]
  BY DEF TabsInv, HandlersSafe
<1>5. \A k \in Handlers \ {h} : Fits(handler[k])'
  <2> TAKE k \in Handlers \ {h}
  <2>1. PICK w \in Handler : w = handler[k]
    BY TabShape
  <2>2. Fits(w)
    BY <2>1 DEF TabsInv, HandlersSafe
  <2>3. Fits(w)'
    BY <1>1, <2>2, FitsStays
  <2>4. handler'[k] = w
    BY <1>4, <2>1
  <2> QED
    BY <2>3, <2>4
<1>6. Fits(handler[h])'
  BY <1>4
<1>7. HandlersSafe'
  BY <1>4, <1>5, <1>6 DEF HandlersSafe
<1> QED
  BY <1>2, <1>3, <1>7 DEF TabsInv

-----------------------------------------------------------------------------
\* What the service writes is a row, and names no file but those it is given.
LEMMA ChangedRow ==
    ASSUME NEW kind \in Kinds, NEW row \in Row, NEW gear \in SUBSET Gear,
           NEW files \in SUBSET (1 .. MaxObjects)
    PROVE  /\ Changed(kind, row, gear, files) \in Row
           /\ Changed(kind, row, gear, files).files \in {row.files, files}
           /\ kind \notin {"upload", "delete_photo"} =>
                 Changed(kind, row, gear, files).files = row.files
           /\ Changed(kind, row, gear, files).gear =
                 IF kind = "gear" THEN gear ELSE row.gear
BY DEF Changed, Kinds, Row

LEMMA SomebodyElseStep ==
    ASSUME TabsInv, NEW r \in RowsOf(tab), SomebodyElse(r)
    PROVE  TabsInv'
<1>1. r \in Rows
  BY DEF TabsInv, ListSafe, RowsOf, Tabs, Rows
<1>2. Current[r] \in Row /\ Current[r].files \subseteq Ended
  <2>1. Current \in [Rows -> Row] /\ Len(log) \in 1 .. Len(log)
    BY TabShape
  <2>2. Current[r].files \subseteq Ended
    BY <1>1, <2>1 DEF Current, TabsInv, RowsSafe, FilesWereSent
  <2> QED
    BY <1>1, <2>1, <2>2
<1>3. \E row \in Row : Write(r, row) /\ row.files = Current[r].files
  <2>1. ASSUME NEW kind \in KindsFor(r), Write(r, Changed(kind, Current[r], {}, {}))
        PROVE  \E row \in Row : Write(r, row) /\ row.files = Current[r].files
    <3>1. kind \in {"confirm", "unconfirm", "delete", "start", "wrap"}
      BY <1>1 DEF KindsFor, Rows
    <3>2. /\ kind \in Kinds /\ kind \notin {"upload", "delete_photo"}
          /\ {} \in SUBSET Gear /\ {} \in SUBSET (1 .. MaxObjects)
      BY <3>1 DEF Kinds
    <3>3. /\ Changed(kind, Current[r], {}, {}) \in Row
          /\ Changed(kind, Current[r], {}, {}).files = Current[r].files
      BY <1>2, <3>2, ChangedRow
    <3> QED
      BY <2>1, <3>3
  <2>2. ASSUME NEW g \in Gear,
               Write(r, Changed("gear", Current[r], SymDiff(Current[r].gear, {g}), {}))
        PROVE  \E row \in Row : Write(r, row) /\ row.files = Current[r].files
    <3> DEFINE gear == SymDiff(Current[r].gear, {g})
    <3>1. /\ gear \in SUBSET Gear /\ {} \in SUBSET (1 .. MaxObjects)
          /\ "gear" \in Kinds /\ Write(r, Changed("gear", Current[r], gear, {}))
      BY <1>2, <2>2 DEF Row, SymDiff, Kinds
    <3> HIDE DEF gear
    <3>2. /\ Changed("gear", Current[r], gear, {}) \in Row
          /\ Changed("gear", Current[r], gear, {}).files = Current[r].files
      BY <1>2, <3>1, ChangedRow
    <3> QED
      BY <3>1, <3>2
  <2> QED
    BY <2>1, <2>2 DEF SomebodyElse
<1>4. PICK row \in Row : Write(r, row) /\ row.files = Current[r].files
  BY <1>3
<1>5. UNCHANGED <<stored, opened, tab, seen, reloads, handler, thumb, acked, clean>>
  BY DEF SomebodyElse
<1>6. stored' \in [1 .. MaxObjects -> Keepings] /\ opened' \in 0 .. MaxObjects
  BY <1>5 DEF TabsInv, RowsSafe
<1>7. /\ RowsSafe' /\ Len(log') = Len(log) + 1
      /\ \A n \in 1 .. Len(log) : log'[n] = log[n]
  BY <1>1, <1>2, <1>4, <1>5, <1>6, WriteGrows DEF Ended
<1>8. Len(log') \in Nat /\ Len(log') >= Len(log) /\ opened \in Nat
  BY <1>7, TabShape
<1>9. ListSafe' /\ HandlersSafe'
  BY <1>5, <1>7, <1>8, ListStays, HandlersStay DEF Ended
<1>10. Room'
  BY <1>5 DEF TabsInv, Room, Pending
<1> QED
  BY <1>7, <1>9, <1>10 DEF TabsInv

\* A handler that has succeeded holds what it was told and nothing else.
LEMMA SucceededFits ==
    ASSUME NEW w \in Handler, w.on, w.step # "reloading",
           NEW n \in 0 .. MaxCommits + 1, n =< Len(log')
    PROVE  /\ Succeeded(w, n) \in Handler /\ Fits(Succeeded(w, n))'
           /\ Pending(Succeeded(w, n)) => Pending(w)
<1>1. CASE w.holder = "none"
  <2>1. Succeeded(w, n) = Idle
    BY <1>1 DEF Succeeded
  <2>2. Fits(Idle)'
    <3>1. Idle.commit = 0 /\ Idle.step = "asked" /\ ~Idle.on /\ n \in Nat
      BY TabsAssumption DEF Idle
    <3>2. 0 =< n
      BY <3>1
    <3>3. Idle.commit =< Len(log')
      BY <3>1, <3>2
    <3> QED
      BY <3>1, <3>3 DEF Fits
  <2> QED
    BY <2>1, <2>2, IdleFits
<1>2. CASE w.holder # "none"
  <2> DEFINE new == [Idle EXCEPT !.on = TRUE, !.kind = w.kind, !.row = w.row,
                      !.holder = w.holder, !.step = "ok", !.commit = n]
  <2>1. Succeeded(w, n) = new
    BY <1>2 DEF Succeeded
  <2>2. /\ new.on /\ new.step = "ok" /\ new.holder = w.holder /\ new.commit = n
    BY DEF Idle
  <2>3. new \in Handler
    BY IdleFits DEF Handler
  <2> HIDE DEF new
  <2>4. PICK v \in Handler : v = new
    BY <2>3
  <2>5. Fits(v)'
    BY <1>2, <2>2, <2>4 DEF Fits
  <2>6. Pending(v) => Pending(w)
    BY <1>2 DEF Pending
  <2> QED
    BY <2>1, <2>4, <2>5, <2>6
<1> QED
  BY <1>1, <1>2

\* So does one that goes on to its next file.
LEMMA NextFileFits ==
    ASSUME TabsInv, NEW w \in Handler, w.on, Fits(w), w.step \in {"put", "finalise"},
           NEW won \in w.won .. w.won + 1, UNCHANGED opened,
           NEW n \in 0 .. MaxCommits + 1, n =< Len(log')
    PROVE  /\ NextFile(w, won, n) \in Handler /\ Fits(NextFile(w, won, n))'
           /\ Pending(NextFile(w, won, n)) => Pending(w)
<1>1. /\ w.left \in Nat /\ w.won \in Nat /\ w.object \in Nat /\ won \in Nat
      /\ opened \in Nat /\ MaxChosen \in Nat /\ MaxObjects \in Nat
      /\ opened =< MaxObjects
  BY TabShape DEF Handler, TabsInv, RowsSafe
<1>2. /\ w.left >= 1 /\ w.won + w.left =< MaxChosen /\ won =< w.won + 1 /\ won >= w.won
      /\ w.object >= 1 /\ w.object + w.left =< opened + 1
  BY <1>1 DEF Fits
<1>3. CASE w.left > 1
  <2> DEFINE left == w.left - 1
             object == w.object + 1
             new == [w EXCEPT !.step = "put", !.object = object, !.left = left,
                              !.won = won, !.commit = n]
  <2>1. NextFile(w, won, n) = new
    BY <1>3 DEF NextFile
  <2>2. /\ left \in 0 .. MaxChosen /\ left >= 1 /\ won + left =< MaxChosen
        /\ won \in 0 .. MaxChosen
        /\ object \in 0 .. MaxObjects /\ object >= 1 /\ object + left =< opened + 1
    <3>1. left \in Nat /\ left >= 1 /\ object \in Nat /\ object >= 1
      <4>1. left \in Nat /\ left >= 1
        BY <1>1, <1>3, SMTT(30)
      <4>2. object \in Nat /\ object >= 1
        BY <1>1, SMTT(30)
      <4> QED
        BY <4>1, <4>2
    <3>2. object + left =< opened + 1 /\ object =< opened
      BY <1>1, <1>2, <1>3, SMTT(30)
    <3>3. won + left =< MaxChosen
      BY <1>1, <1>2, <1>3, SMTT(30)
    <3> HIDE DEF left, object
    <3>4. left =< MaxChosen /\ won =< MaxChosen /\ object =< MaxObjects
      BY <1>1, <3>1, <3>2, <3>3
    <3> QED
      BY <1>1, <1>2, <3>1, <3>2, <3>3, <3>4
  <2> HIDE DEF left, object
  <2>3. new \in Handler
    BY <2>2 DEF Handler
  <2>4. /\ new.on /\ new.step = "put" /\ new.object = object /\ new.left = left
        /\ new.won = won /\ new.commit = n /\ new.holder = w.holder
    BY DEF Handler
  <2> HIDE DEF new
  <2>5. PICK v \in Handler : v = new
    BY <2>3
  <2>6. Fits(v)'
    BY <2>2, <2>4, <2>5 DEF Fits
  <2>7. Pending(v) => Pending(w)
    BY <2>4, <2>5 DEF Pending
  <2> QED
    BY <2>1, <2>5, <2>6, <2>7
<1>4. CASE ~(w.left > 1)
  <2>1. NextFile(w, won, n) \in {Succeeded(w, n), Idle}
    BY <1>4 DEF NextFile
  <2>2. /\ Succeeded(w, n) \in Handler /\ Fits(Succeeded(w, n))'
        /\ Pending(Succeeded(w, n)) => Pending(w)
    BY SucceededFits
  <2>3. Fits(Idle)'
    <3>1. Idle.commit = 0 /\ Idle.step = "asked" /\ ~Idle.on /\ n \in Nat
      BY TabsAssumption DEF Idle
    <3>2. Idle.commit =< Len(log')
      BY <3>1
    <3> QED
      BY <3>1, <3>2 DEF Fits
  <2>4. CASE NextFile(w, won, n) = Idle
    BY <2>3, <2>4, IdleFits
  <2>5. CASE NextFile(w, won, n) = Succeeded(w, n)
    BY <2>2, <2>5
  <2> QED
    BY <2>1, <2>4, <2>5
<1> QED
  BY <1>1, <1>3, <1>4

-----------------------------------------------------------------------------
\* A handler begins: there is room for the reload it may ask for.
LEMMA BeginStep ==
    ASSUME TabsInv, NEW new \in Handler, Begin(new), Fits(new)', new.on,
           opened' \in opened .. MaxObjects
    PROVE  TabsInv'
<1>1. PICK free \in Handlers :
        /\ ~handler[free].on
        /\ handler' = [handler EXCEPT ![free] = new]
        /\ UNCHANGED <<log, stored, tab, seen, reloads, thumb, acked, clean>>
  BY DEF Begin
<1> DEFINE next == {h \in Handlers : Pending(handler'[h])}
<1>2. Len(reloads) + Cardinality(Live) < MaxReloads
  BY DEF Begin
<1>3. /\ handler' \in [Handlers -> Handler] /\ handler'[free] = new
      /\ \A k \in Handlers \ {free} : handler'[k] = handler[k]
  BY <1>1 DEF TabsInv, HandlersSafe
<1>4. opened \in Nat /\ opened' \in 0 .. MaxObjects /\ opened' >= opened
  BY TabShape
<1>5. RowsSafe'
  BY <1>1, <1>4 DEF TabsInv, RowsSafe, FilesWereSent, Ended
<1>6. /\ Len(log') \in Nat /\ Len(log') >= Len(log)
      /\ \A n \in 1 .. Len(log) : log'[n] = log[n]
  BY <1>1, TabShape
<1>7. ListSafe'
  BY <1>1, <1>6, ListStays
<1>8. HandlersSafe'
  <2>1. \A k \in Handlers \ {free} : Fits(handler[k])'
    <3> TAKE k \in Handlers \ {free}
    <3>1. PICK w \in Handler : w = handler[k]
      BY TabShape
    <3>2. Fits(w)
      BY <3>1 DEF TabsInv, HandlersSafe
    <3>3. opened' \in Nat /\ Ended \subseteq Ended'
      BY <1>1, <1>4, TabShape DEF Ended
    <3>4. Fits(w)'
      BY <1>4, <1>6, <3>2, <3>3, FitsStays
    <3>5. handler'[k] = w
      BY <1>3, <3>1
    <3> QED
      BY <3>4, <3>5
  <2>2. Fits(handler[free])'
    BY <1>3
  <2> QED
    BY <1>1, <1>3, <2>1, <2>2 DEF HandlersSafe
<1>9. Room'
  <2>1. Live \subseteq Handlers
    BY DEF Live
  <2>2. next \subseteq Live \cup {free}
    BY <1>3 DEF Pending, Live
  <2>3. IsFiniteSet(Live) /\ IsFiniteSet(Live \cup {free})
    BY <2>1, TabsAssumption, FS_Subset, FS_AddElement
  <2>4. Cardinality(Live \cup {free}) =< Cardinality(Live) + 1
    <3>1. CASE free \in Live
      <4>1. Live \cup {free} = Live
        BY <3>1
      <4>2. Cardinality(Live) \in Nat
        BY <2>3, FS_CardinalityType
      <4>3. Cardinality(Live) =< Cardinality(Live) + 1
        BY <4>2
      <4> QED
        BY <4>1, <4>3
    <3>2. CASE free \notin Live
      <4>1. /\ Cardinality(Live \cup {free}) = Cardinality(Live) + 1
            /\ Cardinality(Live) \in Nat
        BY <2>3, <3>2, FS_AddElement, FS_CardinalityType
      <4> QED
        BY <4>1
    <3> QED
      BY <3>1, <3>2
  <2> HIDE DEF next
  <2>5. /\ Cardinality(next) =< Cardinality(Live \cup {free})
        /\ Cardinality(next) \in Nat /\ Cardinality(Live) \in Nat
        /\ Cardinality(Live \cup {free}) \in Nat
    BY <2>2, <2>3, FS_Subset, FS_CardinalityType
  <2>6. Len(reloads) \in Nat /\ MaxReloads \in Nat
    BY TabsAssumption DEF TabsInv, ListSafe
  <2>7. Len(reloads) + Cardinality(next) =< MaxReloads
    BY <1>2, <2>4, <2>5, <2>6
  <2> QED
    BY <1>1, <2>7 DEF Room, next, Pending
<1> QED
  BY <1>5, <1>7, <1>8, <1>9 DEF TabsInv

\* A handler of a row, or the form, that asks for one thing.
LEMMA PressStep ==
    ASSUME TabsInv, NEW r \in Rows, NEW kind \in Kinds \ {"gear"},
           NEW holder \in {"row", "list"}, UNCHANGED opened,
           Begin([RowHandler(r, kind) EXCEPT !.holder = holder])
    PROVE  TabsInv'
<1> DEFINE new == [RowHandler(r, kind) EXCEPT !.holder = holder]
<1>1. /\ new \in Handler /\ new.on /\ new.holder = holder /\ new.step = "asked"
      /\ new.kind = kind /\ new.commit = 0
  BY IdleFits DEF Handler, RowHandler, Idle
<1> HIDE DEF new
<1>2. Begin(new)
  BY DEF new
<1>3. UNCHANGED log /\ Len(log) \in Nat /\ opened \in opened .. MaxObjects
  BY TabShape DEF Begin, TabsInv, RowsSafe
<1>4. PICK w \in Handler : w = new
  BY <1>1
<1>5. Fits(w)'
  BY <1>1, <1>3, <1>4 DEF Fits
<1> QED
  BY <1>1, <1>2, <1>3, <1>4, <1>5, BeginStep

LEMMA TickStep ==
    ASSUME TabsInv, NEW r \in Rows, NEW g \in Gear, ToggleGear(r, g)
    PROVE  TabsInv'
<1> DEFINE gear == SymDiff(Shown[r].gear, {g})
           new == [RowHandler(r, "gear") EXCEPT !.item = {g}, !.base = seen,
                     !.gear = gear]
<1>1. Begin(new) /\ UNCHANGED opened /\ IsShown(r)
  BY DEF ToggleGear, Offered
<1>2. seen \in 1 .. Len(log) /\ seen \in 0 .. MaxCommits + 1
  BY <1>1, TabShape DEF IsShown, TabsInv, ListSafe
<1>3. gear \in SUBSET Gear /\ gear = SymDiff(log[seen][r].gear, {g})
  <2>1. Shown[r] \in Row /\ Shown = log[seen]
    BY <1>2, TabShape DEF Shown
  <2> QED
    BY <2>1 DEF Row, SymDiff
<1> HIDE DEF gear
<1>4. /\ new \in Handler /\ new.on /\ new.step = "asked" /\ new.row = r
      /\ new.base = seen /\ new.gear = gear /\ new.item = {g} /\ new.commit = 0
  BY <1>2, <1>3, IdleFits DEF Handler, RowHandler, Idle, Kinds
<1> HIDE DEF new
<1>5. UNCHANGED log /\ Len(log) \in Nat /\ opened \in opened .. MaxObjects
  BY <1>1, TabShape DEF Begin, TabsInv, RowsSafe
<1>6. PICK w \in Handler : w = new
  BY <1>4
<1>7. Fits(w)'
  <2>1. /\ w.on /\ w.step = "asked" /\ w.commit =< Len(log')
        /\ w.base \in 1 .. Len(log')
    BY <1>2, <1>4, <1>5, <1>6
  <2>2. w.gear = SymDiff(log'[w.base][w.row].gear, w.item)
    BY <1>3, <1>4, <1>5, <1>6
  <2> QED
    BY <2>1, <2>2 DEF Fits
<1> QED
  BY <1>1, <1>4, <1>5, <1>6, <1>7, BeginStep

LEMMA UploadStep ==
    ASSUME TabsInv, NEW r \in Rows, NEW n \in 1 .. MaxChosen, Upload(r, n)
    PROVE  TabsInv'
<1>1. /\ opened \in Nat /\ MaxObjects \in Nat /\ MaxChosen \in Nat /\ n \in Nat
      /\ n >= 1 /\ n =< MaxChosen
  BY TabShape
<1>2. opened + n =< MaxObjects /\ opened' = opened + n
  BY DEF Upload
<1> DEFINE object == opened + 1
           new == [RowHandler(r, "upload") EXCEPT !.step = "put",
                     !.object = object, !.left = n]
<1>3. Begin(new)
  BY DEF Upload
<1>4. /\ object \in 0 .. MaxObjects /\ object >= 1 /\ object + n =< opened' + 1
      /\ opened' \in opened .. MaxObjects
  BY <1>1, <1>2
<1> HIDE DEF object
<1>5. /\ new \in Handler /\ new.on /\ new.step = "put" /\ new.object = object
      /\ new.left = n /\ new.won = 0 /\ new.commit = 0 /\ new.kind = "upload"
  <2>1. n \in 0 .. MaxChosen
    BY <1>1
  <2>2. Idle \in Handler /\ Idle.won = 0 /\ Idle.commit = 0
    BY IdleFits DEF Idle
  <2> QED
    BY <1>4, <2>1, <2>2 DEF Handler, RowHandler, Kinds
<1> HIDE DEF new
<1>6. UNCHANGED log /\ Len(log) \in Nat
  BY <1>3, TabShape DEF Begin
<1>7. PICK w \in Handler : w = new
  BY <1>5
<1>8. Fits(w)'
  <2>1. w.on /\ w.step = "put" /\ w.commit =< Len(log')
    BY <1>5, <1>6, <1>7
  <2>2. w.left >= 1 /\ w.won + w.left =< MaxChosen
    BY <1>1, <1>5, <1>7
  <2>3. w.object >= 1 /\ w.object + w.left =< opened' + 1
    BY <1>4, <1>5, <1>7
  <2> QED
    BY <2>1, <2>2, <2>3 DEF Fits
<1> QED
  BY <1>3, <1>4, <1>5, <1>7, <1>8, BeginStep

LEMMA PressingStep ==
    ASSUME TabsInv, Pressing
    PROVE  TabsInv'
<1>1. ASSUME NEW r \in Rows, Create(r) PROVE TabsInv'
  BY <1>1, PressStep DEF Create, Kinds
<1>2. ASSUME NEW r \in Rows, NEW kinds \in SUBSET (Kinds \ {"gear"}), Press(r, kinds)
      PROVE  TabsInv'
  <2>1. PICK kind \in kinds : Begin(RowHandler(r, kind))
    BY <1>2 DEF Press
  <2>2. RowHandler(r, kind) = [RowHandler(r, kind) EXCEPT !.holder = "row"]
    BY DEF RowHandler, Idle
  <2>3. UNCHANGED opened /\ Begin([RowHandler(r, kind) EXCEPT !.holder = "row"])
    BY <1>2, <2>1, <2>2 DEF Press
  <2> QED
    BY <2>1, <2>3, PressStep
<1>3. 1 \in 1 .. MaxChosen
  BY TabsAssumption
<1>4. ASSUME NEW r \in Rows,
             CreateLocation(r) \/ CreateCast(r) \/ CreateShoot(r)
      PROVE  TabsInv'
  BY <1>1, <1>4 DEF CreateLocation, CreateCast, CreateShoot
<1>5. ASSUME NEW r \in Rows,
             PressLocation(r) \/ DeletePhoto(r) \/ PressCast(r) \/ PressShoot(r)
      PROVE  TabsInv'
  BY <1>2, <1>5 DEF PressLocation, DeletePhoto, PressCast, PressShoot, Kinds
<1>6. ASSUME NEW r \in Rows,
             UploadPhotos(r) \/ UploadRelease(r) \/ UploadCallSheet(r)
      PROVE  TabsInv'
  BY <1>3, <1>6, UploadStep DEF UploadPhotos, UploadRelease, UploadCallSheet
<1> QED
  BY <1>4, <1>5, <1>6, TickStep DEF Pressing

-----------------------------------------------------------------------------
\* A request is served: nothing it was built from has gone.
LEMMA ServeStep ==
    ASSUME TabsInv, NEW h \in Handlers, Serve(h)
    PROVE  TabsInv'
<1>1. PICK w \in Handler : w = handler[h]
  BY TabShape
<1>2. w.on /\ w.step = "asked" /\ Fits(w)
  BY <1>1 DEF Serve, TabsInv, HandlersSafe
<1>3. /\ w.row \in Rows /\ w.kind \in Kinds /\ w.gear \in SUBSET Gear
  BY DEF Handler
<1>4. Current[w.row] \in Row /\ Current[w.row].files \subseteq Ended
  <2>1. Current \in [Rows -> Row] /\ Len(log) \in 1 .. Len(log)
    BY TabShape
  <2>2. Current[w.row].files \subseteq Ended
    BY <1>3, <2>1 DEF Current, TabsInv, RowsSafe, FilesWereSent
  <2> QED
    BY <1>3, <2>1, <2>2
<1>5. PICK kept \in SUBSET Current[w.row].files :
        Write(w.row, Changed(w.kind, Current[w.row], w.gear, kept))
  BY <1>1 DEF Serve
<1>6. kept \in SUBSET (1 .. MaxObjects)
  BY <1>4 DEF Row
<1> DEFINE row == Changed(w.kind, Current[w.row], w.gear, kept)
<1>7. row \in Row /\ row.files \subseteq Ended
  <2>1. PICK cur \in Row : cur = Current[w.row]
    BY <1>4
  <2>2. /\ Changed(w.kind, cur, w.gear, kept) \in Row
        /\ Changed(w.kind, cur, w.gear, kept).files \in {cur.files, kept}
    BY <1>3, <1>6, ChangedRow
  <2>3. cur.files \subseteq Ended /\ kept \subseteq Ended
    BY <1>4, <1>5, <2>1
  <2> QED
    BY <2>1, <2>2, <2>3
<1>8. Write(w.row, row)
  BY <1>5
<1> HIDE DEF row
<1>9. UNCHANGED <<stored, opened, tab, seen, reloads, thumb, acked, clean>>
  BY DEF Serve, Step
<1>10. stored' \in [1 .. MaxObjects -> Keepings] /\ opened' \in 0 .. MaxObjects
  BY <1>9 DEF TabsInv, RowsSafe
<1>11. /\ RowsSafe' /\ Len(log') = Len(log) + 1
       /\ \A n \in 1 .. Len(log) : log'[n] = log[n]
  BY <1>3, <1>7, <1>8, <1>9, <1>10, WriteGrows DEF Ended
<1>12. Len(log') \in 0 .. MaxCommits + 1 /\ Len(log') >= Len(log) /\ opened' >= opened
  BY <1>9, <1>11, TabShape DEF RowsSafe
<1>13. PICK n \in 0 .. MaxCommits + 1 : n = Len(log')
  BY <1>12
<1>14. n =< Len(log')
  BY <1>12, <1>13
<1>15. /\ Succeeded(w, n) \in Handler /\ Fits(Succeeded(w, n))'
       /\ Pending(Succeeded(w, n)) => Pending(handler[h])
  BY <1>1, <1>2, <1>14, SucceededFits
<1>16. PICK new \in Handler : new = Succeeded(w, n)
  BY <1>15
<1>17. handler' = [handler EXCEPT ![h] = new]
  BY <1>1, <1>13, <1>16 DEF Serve, Step
<1>18. Fits(new)' /\ (Pending(new) => Pending(handler[h]))
  BY <1>15, <1>16
<1> QED
  BY <1>9, <1>11, <1>12, <1>17, <1>18, HandlerMoves DEF Ended

\* The idle handler fits in whatever there is.
LEMMA IdleGoes ==
    ASSUME TabsInv, NEW h \in Handlers, handler' = [handler EXCEPT ![h] = Idle],
           UNCHANGED <<log, stored, opened, tab, seen, reloads, thumb, acked, clean>>
    PROVE  TabsInv'
<1>1. PICK new \in Handler : new = Idle
  BY IdleFits
<1>2. new.commit = 0 /\ ~new.on /\ new.step = "asked"
  BY <1>1 DEF Idle
<1>3. Len(log) \in Nat /\ opened \in Nat
  BY TabShape
<1>4. /\ Len(log') >= Len(log) /\ opened' >= opened /\ Ended \subseteq Ended'
      /\ \A n \in 1 .. Len(log) : log'[n] = log[n]
  BY <1>3 DEF Ended
<1>5. Fits(new)'
  BY <1>1, <1>2, <1>3 DEF Fits
<1>6. RowsSafe'
  BY DEF TabsInv, RowsSafe, FilesWereSent, Ended
<1>7. ~Pending(new)
  BY <1>1, IdleFits
<1> QED
  BY <1>1, <1>4, <1>5, <1>6, <1>7, HandlerMoves

\* The upload of a file has ended, whatever the storage kept of it.
LEMMA PutBytesStep ==
    ASSUME TabsInv, NEW h \in Handlers, PutBytes(h)
    PROVE  TabsInv'
<1>1. PICK w \in Handler : w = handler[h]
  BY TabShape
<1>2. w.on /\ w.step = "put" /\ Fits(w)
  BY <1>1 DEF PutBytes, TabsInv, HandlersSafe
<1>3. PICK kept \in {"whole", "short"} :
        /\ stored' = [stored EXCEPT ![w.object] = kept]
        /\ UNCHANGED <<log, opened, tab, seen, reloads, thumb, acked, clean>>
        /\ handler' = [handler EXCEPT ![h] = [w EXCEPT !.step = "finalise"]]
  BY <1>1 DEF PutBytes, Step
<1>4. PICK new \in Handler : new = [w EXCEPT !.step = "finalise"]
  BY DEF Handler
<1>5. /\ new.step = "finalise" /\ new.on /\ new.holder = w.holder
      /\ new.commit = w.commit /\ new.left = w.left /\ new.won = w.won
      /\ new.object = w.object
  BY <1>2, <1>4 DEF Handler
<1>6. w.object \in 1 .. MaxObjects
  <2>1. w.object \in 0 .. MaxObjects /\ w.object >= 1 /\ MaxObjects \in Nat
    BY <1>2, TabShape DEF Fits, Handler
  <2> QED
    BY <2>1
<1>7. /\ stored' \in [1 .. MaxObjects -> Keepings]
      /\ Ended' = Ended \cup {w.object}
  <2>1. stored \in [1 .. MaxObjects -> Keepings] /\ kept \in Keepings /\ kept # "open"
    BY DEF TabsInv, RowsSafe, Keepings
  <2>2. \A f \in 1 .. MaxObjects : stored'[f] = IF f = w.object THEN kept ELSE stored[f]
    BY <1>3, <2>1
  <2> QED
    BY <1>3, <1>6, <2>1, <2>2 DEF Ended
<1>8. RowsSafe'
  BY <1>3, <1>7 DEF TabsInv, RowsSafe, FilesWereSent
<1>9. Fits(new)'
  BY <1>2, <1>3, <1>5, <1>7 DEF Fits
<1>10. Pending(new) => Pending(handler[h])
  BY <1>1, <1>2, <1>5 DEF Pending
<1>11. /\ Len(log') >= Len(log) /\ opened' >= opened /\ Ended \subseteq Ended'
       /\ \A n \in 1 .. Len(log) : log'[n] = log[n]
  BY <1>3, <1>7, TabShape
<1>12. handler' = [handler EXCEPT ![h] = new]
  BY <1>3, <1>4
<1> QED
  BY <1>3, <1>8, <1>9, <1>10, <1>11, <1>12, HandlerMoves

LEMMA FailFileStep ==
    ASSUME TabsInv, NEW h \in Handlers, FailFile(h)
    PROVE  TabsInv'
<1>1. PICK w \in Handler : w = handler[h]
  BY TabShape
<1>2. w.on /\ w.step \in {"put", "finalise"} /\ Fits(w)
  BY <1>1 DEF FailFile, TabsInv, HandlersSafe
<1>3. UNCHANGED <<log, stored, opened, tab, seen, reloads, thumb, acked, clean>>
  BY DEF FailFile, Step
<1>4. /\ Len(log) \in Nat /\ opened \in Nat /\ w.won \in Nat
      /\ w.commit \in 0 .. MaxCommits + 1
  BY TabShape DEF Handler
<1>5. w.commit =< Len(log') /\ w.won \in w.won .. w.won + 1
  BY <1>2, <1>3, <1>4 DEF Fits
<1>6. /\ NextFile(w, w.won, w.commit) \in Handler
      /\ Fits(NextFile(w, w.won, w.commit))'
      /\ Pending(NextFile(w, w.won, w.commit)) => Pending(w)
  BY <1>2, <1>3, <1>4, <1>5, NextFileFits
<1>7. PICK new \in Handler : new = NextFile(w, w.won, w.commit)
  BY <1>6
<1>8. handler' = [handler EXCEPT ![h] = new]
  BY <1>1, <1>7 DEF FailFile, Step
<1>9. Fits(new)' /\ (Pending(new) => Pending(handler[h]))
  BY <1>1, <1>6, <1>7
<1>10. RowsSafe'
  BY <1>3 DEF TabsInv, RowsSafe, FilesWereSent, Ended
<1>11. /\ Len(log') >= Len(log) /\ opened' >= opened /\ Ended \subseteq Ended'
       /\ \A n \in 1 .. Len(log) : log'[n] = log[n]
  BY <1>3, <1>4 DEF Ended
<1> QED
  BY <1>3, <1>8, <1>9, <1>10, <1>11, HandlerMoves

\* A file is recorded when its bytes are there.
LEMMA FinaliseStep ==
    ASSUME TabsInv, NEW h \in Handlers, Finalise(h)
    PROVE  TabsInv'
<1>1. PICK w \in Handler : w = handler[h]
  BY TabShape
<1>2. w.on /\ w.step = "finalise" /\ Fits(w)
  BY <1>1 DEF Finalise, TabsInv, HandlersSafe
<1>3. w.row \in Rows /\ w.object \in Ended /\ w.object \in 1 .. MaxObjects
  BY <1>2 DEF Handler, Fits, TabsInv, RowsSafe
<1>4. Current[w.row] \in Row /\ Current[w.row].files \subseteq Ended
  <2>1. Current \in [Rows -> Row] /\ Len(log) \in 1 .. Len(log)
    BY TabShape
  <2>2. Current[w.row].files \subseteq Ended
    BY <1>3, <2>1 DEF Current, TabsInv, RowsSafe, FilesWereSent
  <2> QED
    BY <1>3, <2>1, <2>2
<1>5. PICK files \in {Current[w.row].files \cup {w.object}, {w.object}} :
        Write(w.row, Changed("upload", Current[w.row], {}, files))
  BY <1>1 DEF Finalise
<1>6. files \in SUBSET (1 .. MaxObjects) /\ files \subseteq Ended
  BY <1>3, <1>4 DEF Row
<1> DEFINE row == Changed("upload", Current[w.row], {}, files)
<1>7. row \in Row /\ row.files \subseteq Ended
  <2>1. "upload" \in Kinds /\ {} \in SUBSET Gear
    BY DEF Kinds
  <2>2. PICK cur \in Row : cur = Current[w.row]
    BY <1>4
  <2>3. /\ Changed("upload", cur, {}, files) \in Row
        /\ Changed("upload", cur, {}, files).files \in {cur.files, files}
    BY <1>6, <2>1, ChangedRow
  <2> QED
    BY <1>4, <1>6, <2>2, <2>3
<1>8. Write(w.row, row)
  BY <1>5
<1> HIDE DEF row
<1>9. UNCHANGED <<stored, opened, tab, seen, reloads, thumb, acked, clean>>
  BY DEF Finalise, Step
<1>10. stored' \in [1 .. MaxObjects -> Keepings] /\ opened' \in 0 .. MaxObjects
  BY <1>9 DEF TabsInv, RowsSafe
<1>11. /\ RowsSafe' /\ Len(log') = Len(log) + 1
       /\ \A n \in 1 .. Len(log) : log'[n] = log[n]
  BY <1>3, <1>7, <1>8, <1>9, <1>10, WriteGrows DEF Ended
<1>12. Len(log') \in 0 .. MaxCommits + 1 /\ Len(log') >= Len(log) /\ opened' >= opened
  BY <1>9, <1>11, TabShape DEF RowsSafe
<1>13. PICK n \in 0 .. MaxCommits + 1 : n = Len(log')
  BY <1>12
<1>14. n =< Len(log') /\ w.won \in Nat /\ w.won + 1 \in w.won .. w.won + 1
  BY <1>12, <1>13, TabShape DEF Handler
<1>15. /\ NextFile(w, w.won + 1, n) \in Handler
       /\ Fits(NextFile(w, w.won + 1, n))'
       /\ Pending(NextFile(w, w.won + 1, n)) => Pending(w)
  BY <1>2, <1>9, <1>14, NextFileFits
<1>16. PICK new \in Handler : new = NextFile(w, w.won + 1, n)
  BY <1>15
<1>17. handler' = [handler EXCEPT ![h] = new]
  BY <1>1, <1>13, <1>16 DEF Finalise, Step
<1>18. Fits(new)' /\ (Pending(new) => Pending(handler[h]))
  BY <1>1, <1>15, <1>16
<1> QED
  BY <1>9, <1>11, <1>12, <1>17, <1>18, HandlerMoves DEF Ended

-----------------------------------------------------------------------------
\* One more list request: all of them have met, unless it is the only one.
LEMMA OneMore ==
    ASSUME TabsInv, NEW awaited \in BOOLEAN
    PROVE  /\ WithReload(awaited) \in Seq(Reload)
           /\ Len(WithReload(awaited)) = Len(reloads) + 1
           /\ \A i \in DOMAIN WithReload(awaited) :
                 /\ WithReload(awaited)[i].answer =< Len(log)
                 /\ ~WithReload(awaited)[i].met =>
                       reloads = <<>> /\ WithReload(awaited)[i].answer = 0
<1> DEFINE n == Len(reloads)
           old == [i \in DOMAIN reloads |-> [reloads[i] EXCEPT !.met = TRUE]]
           last == [answer |-> 0, awaited |-> awaited, met |-> reloads # <<>>]
           all == Append(old, last)
<1>1. /\ reloads \in Seq(Reload) /\ n \in Nat /\ DOMAIN reloads = 1 .. n
      /\ \A i \in 1 .. n : reloads[i] \in Reload /\ reloads[i].answer =< Len(log)
  BY DEF TabsInv, ListSafe
<1>2. \A i \in 1 .. n : /\ old[i] \in Reload /\ old[i].answer =< Len(log)
                        /\ old[i].met
  BY <1>1 DEF Reload
<1>3. old \in [1 .. n -> Reload] /\ DOMAIN old = 1 .. n
  BY <1>1, <1>2
<1>4. last \in Reload /\ last.answer = 0 /\ (~last.met => reloads = <<>>)
  <2>1. 0 \in 0 .. MaxCommits + 1 /\ (reloads # <<>>) \in BOOLEAN
    BY TabsAssumption
  <2> QED
    BY <2>1 DEF Reload
<1>5. WithReload(awaited) = all
  BY DEF WithReload
<1> HIDE DEF old, last
<1>6. old \in Seq(Reload) /\ Len(old) = n
  <2> HIDE DEF n
  <2> QED
    BY <1>1, <1>3
<1>7. /\ all \in Seq(Reload) /\ Len(all) = n + 1
      /\ \A i \in 1 .. n : all[i] = old[i]
      /\ all[n + 1] = last
  BY <1>4, <1>6, AppendProperties
<1>8. 0 =< Len(log)
  BY TabShape
<1> HIDE DEF all
<1>9. \A i \in 1 .. n + 1 :
         /\ all[i].answer =< Len(log)
         /\ ~all[i].met => reloads = <<>> /\ all[i].answer = 0
  <2> TAKE i \in 1 .. n + 1
  <2>1. i \in 1 .. n \/ i = n + 1
    BY <1>1
  <2> HIDE DEF n
  <2> QED
    BY <1>2, <1>4, <1>7, <1>8, <2>1
<1>10. DOMAIN all = 1 .. n + 1
  BY <1>1, <1>7
<1> QED
  BY <1>5, <1>7, <1>9, <1>10

\* What a handler has told the tab will be shown by the reload it asks for.
LEMMA ReturnStep ==
    ASSUME TabsInv, NEW h \in Handlers, Return(h)
    PROVE  TabsInv'
<1>1. PICK w \in Handler : w = handler[h]
  BY TabShape
<1>2. w.on /\ w.step = "ok" /\ w.holder # "none" /\ w.commit =< Len(log) /\ Fits(w)
  BY <1>1 DEF Return, TabsInv, HandlersSafe, Fits
<1>3. UNCHANGED <<log, stored, opened, tab, seen, thumb>>
  BY DEF Return
<1>4. PICK new \in Handler :
        /\ handler' = [handler EXCEPT ![h] = new] /\ ~Pending(new)
        /\ new = Idle \/ new = [w EXCEPT !.step = "reloading"]
  <2>1. [w EXCEPT !.step = "reloading"] \in Handler
    BY DEF Handler
  <2>2. ~Pending([w EXCEPT !.step = "reloading"])
    BY DEF Pending, Handler
  <2>3. handler' = [handler EXCEPT ![h] = IF w.kind = "create"
                      THEN [w EXCEPT !.step = "reloading"] ELSE Idle]
    BY <1>1 DEF Return
  <2> QED
    BY <2>1, <2>2, <2>3, IdleFits
<1>5. PICK awaited \in BOOLEAN : reloads' = WithReload(awaited)
  BY DEF Return
<1>6. /\ reloads' \in Seq(Reload) /\ Len(reloads') = Len(reloads) + 1
      /\ \A i \in DOMAIN reloads' :
            /\ reloads'[i].answer =< Len(log)
            /\ ~reloads'[i].met => reloads = <<>> /\ reloads'[i].answer = 0
  BY <1>5, OneMore
<1>7. Len(reloads) \in Nat
  BY DEF TabsInv, ListSafe
<1>8. RowsSafe'
  BY <1>3 DEF TabsInv, RowsSafe, FilesWereSent, Ended
<1>9. ListSafe'
  <2>1. acked' \in 0 .. Len(log)
    <3>1. w.commit \in Nat /\ Len(log) \in Nat /\ acked \in 0 .. Len(log)
      BY TabShape DEF Handler, TabsInv, ListSafe
    <3>2. acked' = IF w.commit > acked THEN w.commit ELSE acked
      BY <1>1 DEF Return
    <3> QED
      BY <1>2, <3>1, <3>2
  <2>2. Lone'
    <3>1. ASSUME NEW i \in DOMAIN reloads', ~reloads'[i].met
          PROVE  Len(reloads') = 1 /\ reloads'[i].answer = 0
      <4>1. Len(reloads) = 0 /\ reloads'[i].answer = 0
        BY <1>6, <3>1
      <4> QED
        BY <1>6, <4>1
    <3> QED
      BY <3>1 DEF Lone
  <2>3. reloads' # <<>>
    BY <1>6, <1>7
  <2>4. clean' \in BOOLEAN
    BY DEF Return, TabsInv, ListSafe
  <2>5. ShowsTheAcked'
    BY <2>3 DEF ShowsTheAcked
  <2>6. \A i \in DOMAIN reloads' : reloads'[i].answer =< Len(log')
    BY <1>3, <1>6
  <2> QED
    BY <1>3, <1>6, <2>1, <2>2, <2>4, <2>5, <2>6 DEF TabsInv, ListSafe
<1>10. HandlersSafe'
  <2>1. /\ handler' \in [Handlers -> Handler] /\ handler'[h] = new
        /\ \A k \in Handlers \ {h} : handler'[k] = handler[k]
    BY <1>4 DEF TabsInv, HandlersSafe
  <2>2. Fits(new)'
    <3>1. CASE new = Idle
      <4>1. new.commit = 0 /\ ~new.on /\ new.step = "asked" /\ Len(log) \in Nat
        BY <3>1, TabShape DEF Idle
      <4> QED
        BY <1>3, <3>1, <4>1 DEF Fits
    <3>2. CASE new = [w EXCEPT !.step = "reloading"]
      <4>1. /\ new.commit = w.commit /\ new.on /\ new.step = "reloading"
            /\ new.holder = w.holder
        BY <1>2, <3>2 DEF Handler
      <4> QED
        BY <1>2, <1>3, <4>1 DEF Fits
    <3> QED
      BY <1>4, <3>1, <3>2
  <2>3. \A k \in Handlers \ {h} : Fits(handler[k])'
    BY <1>3, <2>1 DEF TabsInv, HandlersSafe, Fits, Ended
  <2>4. Fits(handler[h])'
    BY <2>1, <2>2
  <2> QED
    BY <2>1, <2>3, <2>4 DEF HandlersSafe
<1>11. Room'
  <2> DEFINE before == {k \in Handlers : Pending(handler[k])}
             after  == {k \in Handlers : Pending(handler'[k])}
  <2>1. after \subseteq before \ {h} /\ h \in before /\ before \subseteq Handlers
    BY <1>1, <1>2, <1>4 DEF TabsInv, HandlersSafe, Pending
  <2>2. IsFiniteSet(before)
    BY <2>1, TabsAssumption, FS_Subset
  <2>3. Len(reloads) + Cardinality(before) =< MaxReloads
    BY DEF TabsInv, Room
  <2>4. MaxReloads \in Nat
    BY TabsAssumption
  <2> HIDE DEF before, after
  <2>5. /\ Cardinality(before \ {h}) = Cardinality(before) - 1
        /\ IsFiniteSet(before \ {h}) /\ Cardinality(before) \in Nat
    BY <2>1, <2>2, FS_RemoveElement, FS_CardinalityType
  <2>6. Cardinality(after) =< Cardinality(before \ {h}) /\ Cardinality(after) \in Nat
    BY <2>1, <2>5, FS_Subset, FS_CardinalityType
  <2>7. Len(reloads') + Cardinality(after) =< MaxReloads
    BY <1>6, <1>7, <2>3, <2>4, <2>5, <2>6
  <2> QED
    BY <2>7 DEF Room, after, Pending
<1> QED
  BY <1>8, <1>9, <1>10, <1>11 DEF TabsInv

-----------------------------------------------------------------------------
\* What is left of the reloads when one is taken out was there before.
LEMMA OneLess ==
    ASSUME NEW S, NEW s \in Seq(S), NEW i \in DOMAIN s
    PROVE  /\ RemoveAt(s, i) \in Seq(S)
           /\ Len(RemoveAt(s, i)) = Len(s) - 1
           /\ \A j \in DOMAIN RemoveAt(s, i) :
                 \E k \in DOMAIN s : RemoveAt(s, i)[j] = s[k]
<1> DEFINE before == SubSeq(s, 1, i - 1)
           behind == SubSeq(s, i + 1, Len(s))
           rest == before \o behind
<1>1. Len(s) \in Nat /\ i \in 1 .. Len(s) /\ DOMAIN s = 1 .. Len(s)
  OBVIOUS
<1>2. /\ before \in Seq(S) /\ Len(before) = i - 1
      /\ \A j \in 1 .. i - 1 : before[j] = s[j]
  BY <1>1, SubSeqProperties
<1>3. /\ behind \in Seq(S) /\ Len(behind) = Len(s) - i
      /\ \A j \in 1 .. Len(s) - i : behind[j] = s[i + j]
  BY <1>1, SubSeqProperties
<1>4. RemoveAt(s, i) = rest
  BY DEF RemoveAt
<1> HIDE DEF before, behind
<1>5. /\ rest \in Seq(S) /\ Len(rest) = Len(before) + Len(behind)
      /\ \A j \in 1 .. Len(before) + Len(behind) :
            rest[j] = IF j =< Len(before) THEN before[j] ELSE behind[j - Len(before)]
  BY <1>2, <1>3, ConcatProperties
<1> HIDE DEF rest
<1>6. Len(rest) = Len(s) - 1 /\ DOMAIN rest = 1 .. Len(s) - 1
  BY <1>1, <1>2, <1>3, <1>5
<1>7. ASSUME NEW j \in 1 .. Len(s) - 1 PROVE \E k \in DOMAIN s : rest[j] = s[k]
  <2>1. CASE j < i
    <3>1. /\ j \in 1 .. i - 1 /\ j \in DOMAIN s /\ j =< Len(before)
          /\ j \in 1 .. Len(before) + Len(behind)
      BY <1>1, <1>2, <1>3, <2>1
    <3>2. rest[j] = before[j] /\ before[j] = s[j]
      BY <1>2, <1>5, <3>1
    <3> QED
      BY <3>1, <3>2
  <2>2. CASE j >= i
    <3> DEFINE k == j - (i - 1)
    <3>1. /\ k \in 1 .. Len(s) - i /\ i + k \in DOMAIN s /\ k = j - Len(before)
          /\ j \in 1 .. Len(before) + Len(behind) /\ ~(j =< Len(before))
      BY <1>1, <1>2, <1>3, <2>2
    <3>2. rest[j] = behind[k]
      BY <1>5, <3>1
    <3>3. behind[k] = s[i + k]
      BY <1>3, <3>1
    <3> QED
      BY <3>1, <3>2, <3>3
  <2> QED
    BY <1>1, <2>1, <2>2
<1> QED
  BY <1>4, <1>5, <1>6, <1>7

\* No more reloads and no more who may ask for one.
LEMMA RoomShrinks ==
    ASSUME TabsInv, Len(reloads') \in Nat, Len(reloads') =< Len(reloads),
           \A h \in Handlers : Pending(handler'[h]) => Pending(handler[h])
    PROVE  Room'
<1> DEFINE before == {k \in Handlers : Pending(handler[k])}
           after  == {k \in Handlers : Pending(handler'[k])}
<1>1. after \subseteq before /\ before \subseteq Handlers
  OBVIOUS
<1>2. IsFiniteSet(before)
  BY <1>1, TabsAssumption, FS_Subset
<1>3. Len(reloads) + Cardinality(before) =< MaxReloads
  BY DEF TabsInv, Room
<1>4. Len(reloads) \in Nat /\ MaxReloads \in Nat
  BY TabsAssumption DEF TabsInv, ListSafe
<1> HIDE DEF before, after
<1>5. /\ Cardinality(after) =< Cardinality(before)
      /\ Cardinality(after) \in Nat /\ Cardinality(before) \in Nat
  BY <1>1, <1>2, FS_Subset, FS_CardinalityType
<1>6. Len(reloads') + Cardinality(after) =< MaxReloads
  BY <1>3, <1>4, <1>5
<1> QED
  BY <1>6 DEF Room, after, Pending

\* A handler ends with the reload it awaited, or outlives its row.
LEMMA HandlersLetGo ==
    ASSUME TabsInv, UNCHANGED <<log, stored, opened>>,
           handler' = [h \in Handlers |-> handler'[h]],
           \A h \in Handlers :
              \/ handler'[h] = handler[h] \/ handler'[h] = Idle
              \/ /\ handler[h].holder = "row"
                 /\ handler'[h] = [handler[h] EXCEPT !.holder = "list"]
    PROVE  /\ HandlersSafe'
           /\ \A h \in Handlers : Pending(handler'[h]) => Pending(handler[h])
<1>1. ASSUME NEW h \in Handlers
      PROVE  /\ handler'[h] \in Handler /\ Fits(handler[h])'
             /\ Pending(handler'[h]) => Pending(handler[h])
  <2>1. PICK w \in Handler : w = handler[h] /\ Fits(w)
    BY TabShape DEF TabsInv, HandlersSafe
  <2>2. Fits(w)'
    BY <2>1 DEF Fits, Ended
  <2>3. CASE handler'[h] = w
    BY <2>1, <2>2, <2>3
  <2>4. CASE handler'[h] = Idle
    <3>1. PICK new \in Handler : new = Idle
      BY IdleFits
    <3>2. new.commit = 0 /\ ~new.on /\ new.step = "asked" /\ Len(log) \in Nat
      BY <3>1, TabShape DEF Idle
    <3>3. Fits(new)' /\ handler'[h] = new
      BY <2>4, <3>1, <3>2 DEF Fits
    <3> QED
      BY <2>4, <3>1, <3>3, IdleFits
  <2>5. CASE w.holder = "row" /\ handler'[h] = [w EXCEPT !.holder = "list"]
    <3>1. PICK new \in Handler : new = [w EXCEPT !.holder = "list"]
      BY DEF Handler
    <3>2. w.on
      BY <2>1, <2>5, IdleFits DEF Fits
    <3>3. /\ new.on /\ new.holder = "list" /\ new.step = w.step
          /\ new.commit = w.commit /\ new.left = w.left /\ new.won = w.won
          /\ new.object = w.object /\ new.kind = w.kind /\ new.row = w.row
          /\ new.base = w.base /\ new.gear = w.gear /\ new.item = w.item
      BY <3>1, <3>2 DEF Handler
    <3>4. Fits(new)'
      <4>1. new.on /\ new.holder # "none" /\ new.commit =< Len(log')
        BY <2>2, <3>3 DEF Fits
      <4>2. new.step \in {"put", "finalise"} =>
              /\ new.left >= 1 /\ new.won + new.left =< MaxChosen
              /\ new.object >= 1 /\ new.object + new.left =< opened' + 1
              /\ new.step = "finalise" => new.object \in Ended'
        BY <2>2, <3>3 DEF Fits
      <4>3. new.kind = "gear" /\ new.step = "asked" =>
              /\ new.base \in 1 .. Len(log')
              /\ new.gear = SymDiff(log'[new.base][new.row].gear, new.item)
        BY <2>2, <3>2, <3>3 DEF Fits
      <4> QED
        BY <4>1, <4>2, <4>3 DEF Fits
    <3>5. Pending(new) => Pending(w)
      BY <2>5, <3>2, <3>3 DEF Pending
    <3>6. handler'[h] = new
      BY <2>5, <3>1
    <3> QED
      BY <2>1, <3>4, <3>5, <3>6
  <2> QED
    BY <2>1, <2>3, <2>4, <2>5
<1>2. handler' \in [Handlers -> Handler]
  BY <1>1
<1> QED
  BY <1>1, <1>2 DEF HandlersSafe

LEMMA ServeReloadStep ==
    ASSUME TabsInv, NEW i \in DOMAIN reloads, ServeReload(i)
    PROVE  TabsInv'
<1>1. /\ reloads' = [reloads EXCEPT ![i].answer = Len(log)]
      /\ UNCHANGED <<log, stored, opened, tab, seen, handler, thumb, acked, clean>>
  BY DEF ServeReload
<1>2. /\ reloads \in Seq(Reload) /\ Len(log) \in 0 .. MaxCommits + 1
      /\ acked =< Len(log) /\ Len(reloads) \in Nat
  BY TabShape DEF TabsInv, RowsSafe, ListSafe
<1> DEFINE new == [reloads[i] EXCEPT !.answer = Len(log)]
<1>3. new \in Reload /\ new.answer = Len(log) /\ new.met = reloads[i].met
  <2>1. reloads[i] \in Reload
    BY <1>2
  <2> QED
    BY <1>2, <2>1 DEF Reload
<1>4. reloads' = [reloads EXCEPT ![i] = new]
  BY <1>1
<1> HIDE DEF new
<1>5. /\ reloads' \in Seq(Reload) /\ Len(reloads') = Len(reloads)
      /\ DOMAIN reloads' = DOMAIN reloads
      /\ \A j \in DOMAIN reloads : reloads'[j] = IF j = i THEN new ELSE reloads[j]
  BY <1>2, <1>3, <1>4, ExceptSeq
<1>6. RowsSafe'
  BY <1>1 DEF TabsInv, RowsSafe, FilesWereSent, Ended
<1>7. Lone'
  BY <1>1, <1>2, <1>3, <1>5 DEF TabsInv, ListSafe, Lone
<1>8. ShowsTheAcked'
  <2>1. reloads' # <<>>
    BY <1>2, <1>5
  <2> QED
    BY <2>1 DEF ShowsTheAcked
<1>9. \A j \in DOMAIN reloads' : reloads'[j].answer =< Len(log')
  BY <1>1, <1>2, <1>3, <1>5 DEF TabsInv, ListSafe
<1>10. ListSafe'
  BY <1>1, <1>5, <1>7, <1>8, <1>9 DEF TabsInv, ListSafe
<1>11. HandlersSafe'
  BY <1>1 DEF TabsInv, HandlersSafe, Fits, Ended
<1>12. Room'
  BY <1>1, <1>2, <1>5 DEF TabsInv, Room, Pending
<1> QED
  BY <1>6, <1>10, <1>11, <1>12 DEF TabsInv

\* The list is replaced by one that was alone, or its age is unknown.
LEMMA DeliverReloadStep ==
    ASSUME TabsInv, NEW i \in DOMAIN reloads, DeliverReload(i)
    PROVE  TabsInv'
<1>1. /\ reloads[i].answer # 0 /\ seen' = reloads[i].answer
      /\ reloads' = RemoveAt(reloads, i) /\ clean' = ~reloads[i].met
      /\ thumb' = Thumbnails(log[reloads[i].answer])
      /\ UNCHANGED <<log, stored, opened, tab, acked>>
  BY DEF DeliverReload
<1>2. reloads \in Seq(Reload) /\ Len(reloads) \in Nat /\ Len(log) \in Nat
  BY TabShape DEF TabsInv, ListSafe
<1>3. /\ reloads' \in Seq(Reload) /\ Len(reloads') = Len(reloads) - 1
      /\ \A j \in DOMAIN reloads' : \E k \in DOMAIN reloads : reloads'[j] = reloads[k]
  BY <1>1, <1>2, OneLess
<1>4. ASSUME NEW j \in DOMAIN reloads' PROVE reloads'[j].met
  <2>1. PICK k \in DOMAIN reloads : reloads'[j] = reloads[k]
    BY <1>3
  <2>2. Len(reloads) # 1
    BY <1>2, <1>3
  <2> QED
    BY <2>1, <2>2 DEF TabsInv, ListSafe, Lone
<1>5. seen' \in 0 .. Len(log') /\ clean' \in BOOLEAN
  <2>1. /\ reloads[i] \in Reload /\ reloads[i].answer =< Len(log)
        /\ MaxCommits \in Nat
    BY <1>2, TabsAssumption DEF TabsInv, ListSafe
  <2> QED
    BY <1>1, <1>2, <2>1 DEF Reload
<1>6. ShowsTheAcked'
  BY <1>1 DEF TabsInv, ListSafe, Lone, ShowsTheAcked
<1>7. \A j \in DOMAIN reloads' : reloads'[j].answer =< Len(log')
  BY <1>1, <1>3 DEF TabsInv, ListSafe
<1>8. ListSafe'
  BY <1>1, <1>3, <1>4, <1>5, <1>6, <1>7 DEF TabsInv, ListSafe, Lone
<1>9. RowsSafe'
  <2>1. \A c \in Cast : thumb'[c] \in {NoThumb, [NoThumb EXCEPT !.status = "loading"],
                                       thumb[c]}
    BY <1>1 DEF Thumbnails
  <2>2. /\ NoThumb \in Thumb /\ NoThumb.status # "shown"
        /\ [NoThumb EXCEPT !.status = "loading"] \in Thumb
        /\ [NoThumb EXCEPT !.status = "loading"].status # "shown"
    <3>1. 0 \in 0 .. MaxObjects
      BY TabsAssumption
    <3> QED
      BY <3>1 DEF NoThumb, Thumb
  <2>3. thumb' \in [Cast -> Thumb]
    <3>1. thumb' = [c \in Cast |-> thumb'[c]]
      BY <1>1 DEF Thumbnails
    <3>2. \A c \in Cast : thumb'[c] \in Thumb
      BY <2>1, <2>2 DEF TabsInv, RowsSafe
    <3> QED
      BY <3>1, <3>2
  <2>4. FilesWereSent'
    BY <1>1, <2>1, <2>2 DEF TabsInv, RowsSafe, FilesWereSent, Ended
  <2> QED
    BY <1>1, <2>3, <2>4 DEF TabsInv, RowsSafe
<1>10. /\ handler' = [h \in Handlers |-> handler'[h]]
       /\ \A h \in Handlers :
             \/ handler'[h] = handler[h] \/ handler'[h] = Idle
             \/ /\ handler[h].holder = "row"
                /\ handler'[h] = [handler[h] EXCEPT !.holder = "list"]
  <2>1. /\ handler' = [h \in Handlers |-> handler'[h]]
        /\ \A h \in Handlers :
              \/ handler'[h] = Released(i)[h]
              \/ /\ Released(i)[h].holder = "row"
                 /\ handler'[h] = [handler[h] EXCEPT !.holder = "list"]
    BY DEF DeliverReload
  <2>2. \A h \in Handlers : Released(i)[h] = Idle \/ Released(i)[h] = handler[h]
    BY DEF Released
  <2> QED
    BY <2>1, <2>2, IdleFits
<1>11. /\ HandlersSafe'
       /\ \A h \in Handlers : Pending(handler'[h]) => Pending(handler[h])
  BY <1>1, <1>10, HandlersLetGo
<1>12. Room'
  <2>1. Len(reloads') \in Nat /\ Len(reloads') =< Len(reloads)
    BY <1>2, <1>3
  <2> QED
    BY <1>11, <2>1, RoomShrinks
<1> QED
  BY <1>8, <1>9, <1>11, <1>12 DEF TabsInv

LEMMA FailReloadStep ==
    ASSUME TabsInv, NEW i \in DOMAIN reloads, FailReload(i)
    PROVE  TabsInv'
<1>1. /\ reloads' = RemoveAt(reloads, i) /\ handler' = Released(i) /\ clean' = FALSE
      /\ UNCHANGED <<log, stored, opened, tab, seen, thumb, acked>>
  BY DEF FailReload
<1>2. reloads \in Seq(Reload) /\ Len(reloads) \in Nat /\ Len(log) \in Nat
  BY TabShape DEF TabsInv, ListSafe
<1>3. /\ reloads' \in Seq(Reload) /\ Len(reloads') = Len(reloads) - 1
      /\ \A j \in DOMAIN reloads' : \E k \in DOMAIN reloads : reloads'[j] = reloads[k]
  BY <1>1, <1>2, OneLess
<1>4. ASSUME NEW j \in DOMAIN reloads' PROVE reloads'[j].met
  <2>1. PICK k \in DOMAIN reloads : reloads'[j] = reloads[k]
    BY <1>3
  <2>2. Len(reloads) # 1
    BY <1>2, <1>3
  <2> QED
    BY <2>1, <2>2 DEF TabsInv, ListSafe, Lone
<1>5. \A j \in DOMAIN reloads' : reloads'[j].answer =< Len(log')
  BY <1>1, <1>3 DEF TabsInv, ListSafe
<1>6. ListSafe'
  BY <1>1, <1>3, <1>4, <1>5 DEF TabsInv, ListSafe, Lone, ShowsTheAcked
<1>7. RowsSafe'
  BY <1>1 DEF TabsInv, RowsSafe, FilesWereSent, Ended
<1>8. /\ handler' = [h \in Handlers |-> handler'[h]]
      /\ \A h \in Handlers : handler'[h] = handler[h] \/ handler'[h] = Idle
  BY <1>1 DEF Released
<1>9. /\ HandlersSafe'
      /\ \A h \in Handlers : Pending(handler'[h]) => Pending(handler[h])
  BY <1>1, <1>8, HandlersLetGo
<1>10. Room'
  <2>1. Len(reloads') \in Nat /\ Len(reloads') =< Len(reloads)
    BY <1>2, <1>3
  <2> QED
    BY <1>9, <2>1, RoomShrinks
<1> QED
  BY <1>6, <1>7, <1>9, <1>10 DEF TabsInv

LEMMA LoadThumbnailStep ==
    ASSUME TabsInv, NEW c \in Cast, LoadThumbnail(c)
    PROVE  TabsInv'
<1>1. UNCHANGED <<log, stored, opened, tab, seen, reloads, handler, acked, clean>>
  BY DEF LoadThumbnail
<1>2. c \in Rows /\ thumb \in [Cast -> Thumb] /\ Len(log) \in 1 .. Len(log)
  BY TabShape DEF Rows, TabsInv, RowsSafe
<1>3. Current[c] \in Row /\ Current[c].files \subseteq Ended
  BY <1>2, TabShape DEF Current, TabsInv, RowsSafe, FilesWereSent
<1>4. \E new \in Thumb : /\ thumb' = [thumb EXCEPT ![c] = new]
                         /\ new.status = "shown" => new.form \in Ended
  <2>1. ASSUME NEW f \in Current[c].files,
               thumb' = [thumb EXCEPT ![c] = [status |-> "shown", form |-> f]]
        PROVE  \E new \in Thumb : /\ thumb' = [thumb EXCEPT ![c] = new]
                                  /\ new.status = "shown" => new.form \in Ended
    <3>1. f \in Ended /\ f \in 0 .. MaxObjects
      <4>1. f \in 1 .. MaxObjects /\ f \in Ended
        BY <1>3 DEF Row
      <4> QED
        BY <4>1
    <3>2. [status |-> "shown", form |-> f] \in Thumb
      BY <3>1 DEF Thumb
    <3> QED
      BY <2>1, <3>1, <3>2
  <2>2. ASSUME thumb' = [thumb EXCEPT ![c].status = "errored"]
        PROVE  \E new \in Thumb : /\ thumb' = [thumb EXCEPT ![c] = new]
                                  /\ new.status = "shown" => new.form \in Ended
    <3> DEFINE new == [thumb[c] EXCEPT !.status = "errored"]
    <3>1. new \in Thumb /\ new.status # "shown" /\ thumb' = [thumb EXCEPT ![c] = new]
      BY <1>2, <2>2 DEF Thumb
    <3> QED
      BY <3>1
  <2> QED
    BY <2>1, <2>2 DEF LoadThumbnail
<1>5. PICK new \in Thumb : /\ thumb' = [thumb EXCEPT ![c] = new]
                           /\ new.status = "shown" => new.form \in Ended
  BY <1>4
<1>6. /\ thumb' \in [Cast -> Thumb] /\ thumb'[c] = new
      /\ \A d \in Cast \ {c} : thumb'[d] = thumb[d]
  BY <1>2, <1>5
<1>7. FilesWereSent'
  BY <1>1, <1>5, <1>6 DEF TabsInv, RowsSafe, FilesWereSent, Ended
<1>8. RowsSafe'
  BY <1>1, <1>6, <1>7 DEF TabsInv, RowsSafe
<1>9. ListSafe'
  BY <1>1, TabShape, ListStays
<1>10. HandlersSafe' /\ Room'
  BY <1>1 DEF TabsInv, HandlersSafe, Fits, Room, Pending, Ended
<1> QED
  BY <1>8, <1>9, <1>10 DEF TabsInv

\* Another tab: nothing of the old one will report to it.
LEMMA OpenTabStep ==
    ASSUME TabsInv, NEW t \in Tabs, OpenTab(t)
    PROVE  TabsInv'
<1>1. /\ tab' = t /\ seen' = 0 /\ reloads' = <<FirstReload>>
      /\ acked' = 0 /\ clean' = TRUE
      /\ thumb' = [c \in Cast |-> NoThumb]
      /\ UNCHANGED <<log, stored, opened>>
  BY DEF OpenTab
<1>2. Len(log) \in Nat \ {0} /\ opened \in Nat
  BY TabShape
<1>3. RowsSafe'
  <2>1. NoThumb \in Thumb /\ NoThumb.status # "shown"
    BY TabsAssumption DEF NoThumb, Thumb
  <2>2. thumb' \in [Cast -> Thumb] /\ \A c \in Cast : thumb'[c].status # "shown"
    BY <1>1, <2>1
  <2>3. FilesWereSent'
    BY <1>1, <2>2 DEF TabsInv, RowsSafe, FilesWereSent, Ended
  <2> QED
    BY <1>1, <2>2, <2>3 DEF TabsInv, RowsSafe
<1>4. FirstReload \in Reload /\ FirstReload.answer = 0
  <2>1. 0 \in 0 .. MaxCommits + 1
    BY TabsAssumption
  <2> QED
    BY <2>1 DEF FirstReload, Reload
<1>5. /\ reloads' \in Seq(Reload) /\ Len(reloads') = 1
      /\ \A i \in DOMAIN reloads' : reloads'[i].answer = 0
  BY <1>1, <1>4
<1>6. ListSafe'
  <2>1. Lone' /\ ShowsTheAcked'
    BY <1>1, <1>5 DEF Lone, ShowsTheAcked
  <2>2. seen' \in 0 .. Len(log') /\ acked' \in 0 .. Len(log')
    BY <1>1, <1>2
  <2>3. \A i \in DOMAIN reloads' : reloads'[i].answer =< Len(log')
    BY <1>1, <1>2, <1>5
  <2> QED
    BY <1>1, <1>5, <2>1, <2>2, <2>3 DEF ListSafe
<1>7. ASSUME NEW h \in Handlers
      PROVE  handler'[h] \in Handler /\ Fits(handler[h])' /\ ~Pending(handler'[h])
  <2>1. PICK w \in Handler : w = handler[h] /\ Fits(w)
    BY TabShape DEF TabsInv, HandlersSafe
  <2>2. handler'[h] = IF w.step \in {"ok", "reloading"} THEN Idle
                      ELSE [w EXCEPT !.holder = "none"]
    BY <2>1 DEF OpenTab
  <2>3. Idle = [Idle EXCEPT !.holder = "none"]
    BY DEF Idle
  <2>4. PICK new \in Handler :
             /\ handler'[h] = new
             /\ \/ new = Idle
                \/ /\ new = [w EXCEPT !.holder = "none"]
                   /\ w.on /\ w.step \notin {"ok", "reloading"}
    <3>1. [w EXCEPT !.holder = "none"] \in Handler
      BY DEF Handler
    <3>2. ~w.on => w = Idle
      BY <2>1 DEF Fits
    <3> QED
      BY <2>2, <2>3, <3>1, <3>2, IdleFits
  <2>5. Fits(new)'
    <3>1. CASE new = Idle
      <4>1. new.commit = 0 /\ ~new.on /\ new.step = "asked"
        BY <3>1 DEF Idle
      <4> QED
        BY <1>1, <1>2, <3>1, <4>1 DEF Fits
    <3>2. CASE new = [w EXCEPT !.holder = "none"] /\ w.on
               /\ w.step \notin {"ok", "reloading"}
      <4>1. /\ new.on /\ new.step = w.step /\ new.kind = w.kind /\ new.row = w.row
            /\ new.commit = w.commit /\ new.left = w.left /\ new.won = w.won
            /\ new.object = w.object
            /\ new.base = w.base /\ new.gear = w.gear /\ new.item = w.item
        BY <3>2 DEF Handler
      <4>2. new.on /\ new.step \notin {"ok", "reloading"} /\ new.commit =< Len(log')
        BY <1>1, <2>1, <3>2, <4>1 DEF Fits
      <4>3. new.step \in {"put", "finalise"} =>
              /\ new.left >= 1 /\ new.won + new.left =< MaxChosen
              /\ new.object >= 1 /\ new.object + new.left =< opened' + 1
              /\ new.step = "finalise" => new.object \in Ended'
        BY <1>1, <2>1, <4>1 DEF Fits, Ended
      <4>4. new.kind = "gear" /\ new.step = "asked" =>
              /\ new.base \in 1 .. Len(log')
              /\ new.gear = SymDiff(log'[new.base][new.row].gear, new.item)
        BY <1>1, <2>1, <3>2, <4>1 DEF Fits
      <4> QED
        BY <4>2, <4>3, <4>4 DEF Fits
    <3> QED
      BY <2>4, <3>1, <3>2
  <2>6. new.holder = "none"
    BY <2>4, IdleFits DEF Handler
  <2> QED
    BY <2>4, <2>5, <2>6 DEF Pending
<1>8. HandlersSafe'
  <2>1. handler' = [h \in Handlers |-> handler'[h]]
    BY DEF OpenTab
  <2> QED
    BY <1>7, <2>1 DEF HandlersSafe
<1>9. Room'
  <2>1. {h \in Handlers : Pending(handler[h])}' = {}
    BY <1>7 DEF Pending
  <2>2. Cardinality({h \in Handlers : Pending(handler[h])})' = 0
    BY <2>1, FS_EmptySet
  <2>3. 1 + 0 =< MaxReloads
    BY TabsAssumption
  <2> QED
    BY <1>5, <2>2, <2>3 DEF Room
<1> QED
  BY <1>3, <1>6, <1>8, <1>9 DEF TabsInv

-----------------------------------------------------------------------------
LEMMA TabsInitInv == TabsInit => TabsInv
<1> SUFFICES ASSUME TabsInit PROVE TabsInv
  OBVIOUS
<1>1. PICK seed \in Seeds :
        /\ log = <<seed>>
        /\ stored = [f \in 1 .. MaxObjects |->
                       IF \E r \in Rows : f \in seed[r].files THEN "whole"
                                                             ELSE "open"]
  BY DEF TabsInit
<1>2. /\ opened = Cardinality(Ended) /\ tab \in Tabs /\ seen = 0
      /\ reloads = <<FirstReload>> /\ handler = [h \in Handlers |-> Idle]
      /\ thumb = [c \in Cast |-> NoThumb] /\ acked = 0 /\ clean = TRUE
  BY DEF TabsInit
<1>3. /\ seed \in [Rows -> Row] /\ MaxObjects \in Nat /\ MaxCommits \in Nat
      /\ 0 \in 0 .. MaxObjects /\ 0 \in 0 .. MaxCommits + 1
  BY TabsAssumption
<1>4. log \in Seq([Rows -> Row]) /\ Len(log) = 1 /\ log[1] = seed
  BY <1>1, <1>3
<1>5. stored \in [1 .. MaxObjects -> Keepings]
  BY <1>1 DEF Keepings
<1>6. opened \in 0 .. MaxObjects
  <2>1. IsFiniteSet(1 .. MaxObjects) /\ Cardinality(1 .. MaxObjects) = MaxObjects
    BY <1>3, FS_Interval
  <2>2. Ended \subseteq 1 .. MaxObjects
    BY DEF Ended
  <2>3. Cardinality(Ended) =< MaxObjects /\ Cardinality(Ended) \in Nat
    BY <2>1, <2>2, FS_Subset, FS_CardinalityType
  <2> QED
    BY <1>2, <1>3, <2>3
<1>7. RowsSafe
  <2>1. NoThumb \in Thumb /\ NoThumb.status # "shown"
    BY <1>3 DEF NoThumb, Thumb
  <2>2. thumb \in [Cast -> Thumb] /\ \A c \in Cast : thumb[c].status # "shown"
    BY <1>2, <2>1
  <2>3. \A n \in 1 .. Len(log), r \in Rows : log[n][r].files \subseteq Ended
    <3>1. \A r \in Rows : seed[r].files \subseteq 1 .. MaxObjects
      BY <1>3 DEF Row
    <3>2. \A r \in Rows : seed[r].files \subseteq Ended
      BY <1>1, <3>1 DEF Ended
    <3> QED
      BY <1>4, <3>2
  <2>4. FilesWereSent
    BY <2>2, <2>3 DEF FilesWereSent
  <2>5. Len(log) \in 1 .. MaxCommits + 1
    BY <1>3, <1>4
  <2> QED
    BY <1>4, <1>5, <1>6, <2>2, <2>4, <2>5 DEF RowsSafe
<1>8. /\ reloads \in Seq(Reload) /\ Len(reloads) = 1
      /\ \A i \in DOMAIN reloads : reloads[i].answer = 0
  <2>1. FirstReload \in Reload /\ FirstReload.answer = 0
    BY <1>3 DEF FirstReload, Reload
  <2> QED
    BY <1>2, <2>1
<1>9. ListSafe
  <2>1. Lone /\ ShowsTheAcked
    BY <1>2, <1>8 DEF Lone, ShowsTheAcked
  <2>2. seen \in 0 .. Len(log) /\ acked \in 0 .. Len(log)
    BY <1>2, <1>4
  <2>3. \A i \in DOMAIN reloads : reloads[i].answer =< Len(log)
    BY <1>4, <1>8
  <2> QED
    BY <1>2, <1>8, <2>1, <2>2, <2>3 DEF ListSafe
<1>10. HandlersSafe
  <2>1. Idle.commit = 0 /\ ~Idle.on /\ Idle.step = "asked"
    BY DEF Idle
  <2>2. Fits(Idle)
    BY <1>4, <2>1 DEF Fits
  <2>3. handler \in [Handlers -> Handler] /\ \A h \in Handlers : handler[h] = Idle
    BY <1>2, IdleFits
  <2> QED
    BY <2>2, <2>3 DEF HandlersSafe
<1>11. Room
  <2>1. {h \in Handlers : Pending(handler[h])} = {}
    BY <1>2, IdleFits
  <2>2. Cardinality({h \in Handlers : Pending(handler[h])}) = 0
    BY <2>1, FS_EmptySet
  <2>3. 1 + 0 =< MaxReloads
    BY TabsAssumption
  <2> QED
    BY <1>8, <2>2, <2>3 DEF Room
<1> QED
  BY <1>7, <1>9, <1>10, <1>11 DEF TabsInv

\* Handlers, reloads and tabs in any order: what is recorded is stored, and what
\* a handler of LocationTab, CastingTab or ShootTab carries stays true.
THEOREM TabsInvariant == TabsSpec => []TabsInv
<1>1. TabsInv /\ [TabsNext]_tabVars => TabsInv'
  <2> SUFFICES ASSUME TabsInv, [TabsNext]_tabVars PROVE TabsInv'
    OBVIOUS
  <2>1. ASSUME NEW h \in Handlers, Advance(h) PROVE TabsInv'
    <3>1. CASE Throw(h)
      BY <3>1, IdleGoes DEF Throw, Step
    <3> QED
      BY <2>1, <3>1, ServeStep, PutBytesStep, FinaliseStep, FailFileStep, ReturnStep
         DEF Advance
  <2>2. CASE Answering
    BY <2>2, ServeReloadStep, DeliverReloadStep, FailReloadStep DEF Answering
  <2>3. CASE UNCHANGED tabVars
    <3>1. UNCHANGED <<log, stored, opened, tab, seen, reloads, handler, thumb,
                      acked, clean>>
      BY <2>3 DEF tabVars
    <3>2. RowsSafe' /\ ListSafe'
      BY <3>1 DEF TabsInv, RowsSafe, FilesWereSent, ListSafe, Lone, ShowsTheAcked, Ended
    <3>3. HandlersSafe' /\ Room'
      BY <3>1 DEF TabsInv, HandlersSafe, Fits, Room, Pending, Ended
    <3> QED
      BY <3>2, <3>3 DEF TabsInv
  <2> QED
    BY <2>1, <2>2, <2>3, OpenTabStep, SomebodyElseStep, PressingStep,
       LoadThumbnailStep DEF TabsNext
<1> QED
  BY <1>1, TabsInitInv, PTL DEF TabsSpec

\* The shapes of the tab, its reloads and its handlers.
THEOREM TabsTypes == TabsSpec => []TabsTypeOK
<1>1. TabsInv => TabsTypeOK
  <2> SUFFICES ASSUME TabsInv PROVE TabsTypeOK
    OBVIOUS
  <2>1. Len(reloads) =< MaxReloads
    <3> DEFINE pending == {h \in Handlers : Pending(handler[h])}
    <3>1. IsFiniteSet(pending)
      BY TabsAssumption, FS_Subset
    <3>2. Cardinality(pending) \in Nat /\ Len(reloads) + Cardinality(pending) =< MaxReloads
      BY <3>1, FS_CardinalityType DEF TabsInv, Room
    <3>3. Len(reloads) \in Nat /\ MaxReloads \in Nat
      BY TabsAssumption DEF TabsInv, ListSafe
    <3> HIDE DEF pending
    <3> QED
      BY <3>2, <3>3
  <2> QED
    BY <2>1 DEF TabsInv, TabsTypeOK, RowsSafe, ListSafe, HandlersSafe, Keepings
<1> QED
  BY <1>1, TabsInvariant, PTL

\* Whichever request of whichever chosen file fails, a photo, release or call
\* sheet is recorded only after its own upload has returned: the storage has all
\* of it, or fell short of what it had answered to.
THEOREM TabsFilesWereSent == TabsSpec => []RecordedFilesWereSent
<1>1. TabsInv => RecordedFilesWereSent
  <2> SUFFICES ASSUME TabsInv PROVE RecordedFilesWereSent
    OBVIOUS
  <2>1. Len(log) \in 1 .. Len(log)
    BY TabShape
  <2> QED
    BY <2>1 DEF TabsInv, RowsSafe, FilesWereSent, RecordedFilesWereSent, Current
<1> QED
  BY <1>1, TabsInvariant, PTL

\* However answers of reload() overtake each other, at rest the list shows every
\* write the tab was told of, unless a reload failed or met another.
THEOREM TabsRestShowsOwnWrites == TabsSpec => []RestShowsOwnWrites
<1>1. TabsInv => RestShowsOwnWrites
  BY DEF TabsInv, ListSafe, ShowsTheAcked, RestShowsOwnWrites
<1> QED
  BY <1>1, TabsInvariant, PTL

\* Only a request that is served changes a handler's commit and the log at once.
LEMMA WhoCommits ==
    ASSUME TabsInv, TabsNext, NEW h \in Handlers, log' # log,
           handler'[h].commit # handler[h].commit
    PROVE  Serve(h) \/ Finalise(h)
<1>1. ~Pressing
  BY DEF Pressing, CreateLocation, CreateCast, CreateShoot, Create,
         PressLocation, DeletePhoto, PressCast, PressShoot, Press,
         UploadPhotos, UploadRelease, UploadCallSheet, Upload, ToggleGear, Begin
<1>2. ~Answering
  BY DEF Answering, ServeReload, DeliverReload, FailReload
<1>3. \A t \in Tabs : ~OpenTab(t)
  BY DEF OpenTab
<1>4. \A c \in Cast : ~LoadThumbnail(c)
  BY DEF LoadThumbnail
<1>5. \A r \in RowsOf(tab) : ~SomebodyElse(r)
  BY DEF SomebodyElse
<1>6. PICK k \in Handlers : Advance(k)
  BY <1>1, <1>2, <1>3, <1>4, <1>5 DEF TabsNext
<1>7. Serve(k) \/ Finalise(k)
  BY <1>6 DEF Advance, Throw, PutBytes, FailFile, Return
<1>8. k = h
  <2>1. PICK new : handler' = [handler EXCEPT ![k] = new]
    BY <1>7 DEF Serve, Finalise, Step
  <2>2. handler \in [Handlers -> Handler]
    BY DEF TabsInv, HandlersSafe
  <2> QED
    BY <2>1, <2>2
<1> QED
  BY <1>7, <1>8

\* What is written is what stands there.
LEMMA Written ==
    ASSUME TabsInv, NEW r, NEW row, Write(r, row)
    PROVE  Current' = [Current EXCEPT ![r] = row]
<1> DEFINE rows == [Current EXCEPT ![r] = row]
<1>1. log' = Append(log, rows)
  BY DEF Write
<1>2. log \in Seq([Rows -> Row]) /\ Len(log) \in Nat
  BY DEF TabsInv, RowsSafe
<1> HIDE DEF rows
<1>3. Len(log') = Len(log) + 1 /\ log'[Len(log) + 1] = rows
  BY <1>1, <1>2
<1> QED
  BY <1>3 DEF Current, rows

\* A gear checklist that is sent whole undoes another's tick only if it was
\* built from a list older than that tick: toggleGear of ShootTab.
THEOREM TabsTickLostToOldListOnly == TabsSpec => TickLostToOldListOnly
<1> DEFINE Lost(r, h) ==
      /\ handler[h].kind = "gear" /\ handler[h].row = r
      /\ handler'[h].commit # handler[h].commit
      /\ SymDiff(Current'[r].gear, Current[r].gear) \ handler[h].item # {}
<1>1. ASSUME TabsInv, TabsNext, NEW r \in Shoots, NEW h \in Handlers, Lost(r, h)
      PROVE  Current[r].gear # log[handler[h].base][r].gear
  <2>1. r \in Rows /\ Current \in [Rows -> Row]
    BY <1>1, TabShape DEF Rows
  <2>2. log' # log
    <3>1. CASE log' = log
      <4>1. Current' = Current
        BY <3>1 DEF Current
      <4> QED
        BY <1>1, <4>1 DEF SymDiff
    <3> QED
      BY <3>1
  <2>3. Serve(h) \/ Finalise(h)
    BY <1>1, <2>2, WhoCommits
  <2>4. PICK w \in Handler : w = handler[h] /\ Fits(w)
    BY <1>1, TabShape DEF TabsInv, HandlersSafe
  <2>5. CASE Serve(h)
    <3>1. w.on /\ w.step = "asked" /\ w.kind = "gear" /\ w.row = r
      BY <1>1, <2>4, <2>5 DEF Serve
    <3>2. w.gear = SymDiff(log[w.base][r].gear, w.item)
      BY <2>4, <3>1 DEF Fits
    <3>3. PICK files : Write(r, Changed("gear", Current[r], w.gear, files))
      BY <2>4, <2>5, <3>1 DEF Serve
    <3>4. Current'[r].gear = w.gear
      <4>1. Changed("gear", Current[r], w.gear, files) = [Current[r] EXCEPT !.gear = w.gear]
        BY DEF Changed
      <4>2. Current' = [Current EXCEPT ![r] = [Current[r] EXCEPT !.gear = w.gear]]
        BY <1>1, <3>3, <4>1, Written
      <4> QED
        BY <2>1, <4>2 DEF Row
    <3>5. SymDiff(SymDiff(log[w.base][r].gear, w.item), log[w.base][r].gear)
             \ w.item = {}
      BY DEF SymDiff
    <3> QED
      BY <1>1, <2>4, <3>2, <3>4, <3>5
  <2>6. CASE Finalise(h)
    <3>1. PICK files : Write(r, Changed("upload", Current[r], {}, files))
      BY <1>1, <2>6 DEF Finalise
    <3>2. Current'[r].gear = Current[r].gear
      <4>1. Changed("upload", Current[r], {}, files) = [Current[r] EXCEPT !.files = files]
        BY DEF Changed
      <4>2. Current' = [Current EXCEPT ![r] = [Current[r] EXCEPT !.files = files]]
        BY <1>1, <3>1, <4>1, Written
      <4> QED
        BY <2>1, <4>2 DEF Row
    <3> QED
      BY <1>1, <3>2 DEF SymDiff
  <2> QED
    BY <2>3, <2>5, <2>6
<1>2. TabsInv /\ [TabsNext]_tabVars =>
        [\A r \in Shoots, h \in Handlers :
            /\ handler[h].kind = "gear" /\ handler[h].row = r
            /\ handler'[h].commit # handler[h].commit
            /\ SymDiff(Current'[r].gear, Current[r].gear) \ handler[h].item # {}
            => Current[r].gear # log[handler[h].base][r].gear]_tabVars
  BY <1>1
<1> QED
  BY <1>2, TabsInvariant, PTL DEF TabsSpec, TickLostToOldListOnly

=============================================================================
