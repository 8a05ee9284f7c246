---------------------------- MODULE ScreensProofs ----------------------------
(***************************************************************************)
(* Proofs about the screens of projects: the board and the page, for any   *)
(* projects, any number of drags, requests and commits, and the activity   *)
(* feed, for any transactions, uuids and size of a page.                   *)
(*                                                                         *)
(* Rows only grow: what was read at a commit stays as it was read, and a   *)
(* project that is there stays there.  A request that has met no other was *)
(* alone all along, and nothing has been told to the screen since it was   *)
(* sent.  A field nobody typed into a form, and what the form sends of it, *)
(* is that of the copy it was filled in from.                              *)
(*                                                                         *)
(* The feed is complete down to its cursor because created_at and the id   *)
(* order all entries, and a page is the first part, in that order, of what *)
(* lies below the cursor before.                                           *)
(***************************************************************************)
EXTENDS ProjectScreens, SequenceTheorems, FiniteSetTheorems,
        WellFoundedInduction, TLAPS

-----------------------------------------------------------------------------
\* The invariant.

RowsSafe ==
    /\ log \in Seq([Projects -> ProjectRow])
    /\ Len(log) # 0 /\ Len(log) =< MaxCommits + 1
    /\ \A n \in 1 .. Len(log), p \in Projects : log[n][p].here => Current[p].here

\* The card of a list shows where the service had its project at some commit
\* not before the last this browser was told of.
Stands(card, rows, known) ==
    \E n \in 1 .. Len(rows) : /\ n >= known[card.id]
                              /\ rows[n][card.id].here
                              /\ rows[n][card.id].stage = card.stage

Good(list, rows, known) ==
    /\ \A i \in DOMAIN list : Stands(list[i], rows, known)
    /\ \A i, j \in DOMAIN list : list[i].id = list[j].id => i = j

Moved == [on: BOOLEAN, id: Projects, target: Columns, snapshot: Seq(Card),
          step: {"asked", "ok"}, commit: 0..MaxCommits + 1]

BoardTypes ==
    /\ cards \in Seq(Card) /\ status \in {"loading", "ready", "error"}
    /\ filter \in Filter
    /\ loads \in Seq(Load) /\ Len(loads) =< MaxInFlight
    /\ status = "loading" => loads # <<>>
    /\ drag \in [Drags -> Moved]
    /\ create \in [on: BOOLEAN, id: Projects, commit: 0..MaxCommits + 1]
    /\ told \in [Projects -> 0..MaxCommits + 1] /\ clean \in BOOLEAN

\* What was read and made is in the log.
InTheLog ==
    /\ \A i \in DOMAIN loads : loads[i].answer =< Len(log)
    /\ \A d \in Drags : drag[d].on /\ drag[d].step = "ok" =>
          /\ drag[d].commit \in 1 .. Len(log)
          /\ log[drag[d].commit][drag[d].id].here
    /\ create.commit =< Len(log)
    /\ create.on /\ create.commit # 0 => log[create.commit][create.id].here
    /\ \A p \in Projects : told[p] =< Len(log)

\* A list that has met no other request is the only one in flight, and shows
\* all that this screen was told of.
LoneLoad ==
    \A i \in DOMAIN loads : ~loads[i].met =>
        /\ Len(loads) = 1 /\ ~create.on /\ \A d \in Drags : ~drag[d].on
        /\ loads[i].answer # 0 => \A p \in Projects : told[p] =< loads[i].answer

\* While no two requests have met at most one is in flight.
OneAtATime ==
    clean =>
        /\ \A i \in DOMAIN loads : ~loads[i].met
        /\ \A d, e \in Drags : drag[d].on /\ drag[e].on => d = e
        /\ create.on => \A d \in Drags : ~drag[d].on

\* And then the cards are right, but for the one that is dragged.
CardsStand ==
    clean =>
        /\ (\A d \in Drags : ~drag[d].on) => Good(cards, log, told)
        /\ \A d \in Drags : drag[d].on =>
              /\ Good(drag[d].snapshot, log, told)
              /\ cards = Patched(drag[d].snapshot, drag[d].id, drag[d].target)
              /\ drag[d].step = "ok" => told[drag[d].id] =< drag[d].commit
        /\ create.on => \A i \in DOMAIN cards : cards[i].id # create.id

BoardSafe == BoardTypes /\ InTheLog /\ LoneLoad /\ OneAtATime /\ CardsStand

Contents(f) == Texts[f] \cup {Blank}

\* A form holds what may be typed into it, and so does what a save sends.
Fillable(brief) == \A f \in Fields : brief[f] \in Contents(f)

Form == [fields: [Fields -> (UNION Range(Texts)) \cup {Blank}],
         editing: BOOLEAN, saving: BOOLEAN, base: Nat,
         typed: SUBSET Fields, saves: SUBSET Nat]

FormSafe(f, now) ==
    /\ f \in Form /\ f.base =< now
    /\ f.saving => f.editing
    /\ Fillable(f.fields)

\* What each call carries: an answer is no older than the change it follows.
Sound(c, now) ==
    /\ c.answer =< now /\ c.own =< now
    /\ c.step = "ok" => c.answer # 0 /\ c.answer >= c.own
    /\ Fillable(c.brief)

\* A request that has met no other is the only one, and its answer is no older
\* than all the page was told of.
CallsSafe(cs, now, known) ==
    /\ cs \in Seq(Call) /\ Len(cs) =< MaxCalls
    /\ \A i \in DOMAIN cs : Sound(cs[i], now)
    /\ \A i \in DOMAIN cs : ~cs[i].met =>
          /\ Len(cs) = 1
          /\ cs[i].step = "ok" => cs[i].answer >= known

PageSafe ==
    /\ page \in [status: {"loading", "ready", "error"}, copy: Nat]
    /\ page.copy =< Len(log)
    /\ page.status = "ready" => page.copy # 0
    /\ open \in OpenTabs
    /\ FormSafe(form, Len(log))
    /\ CallsSafe(calls, Len(log), heard)
    /\ heard \in Nat /\ heard =< Len(log)
    /\ apart \in BOOLEAN
    /\ apart /\ page.status = "ready" => page.copy >= heard
    /\ form.saving => \E i \in DOMAIN calls : calls[i].mount

\* The page asks for its project once, and is ready when it has it.
LoadsOnce ==
    /\ \A i \in DOMAIN calls : calls[i].kind = "load" <=> page.status # "ready"
    /\ page.status # "ready" => /\ Len(calls) =< 1 /\ form.base = 0
                               /\ open = "brief"

\* A field nobody typed into holds what the form was filled in with, and so do
\* the saves of this form; one that was made wrote that or what there was.
AsFilled(f) ==
    LET old == log[form.base][Here].brief[f]
    IN  /\ form.fields[f] = old
        /\ \A i \in DOMAIN calls : calls[i].mount => calls[i].brief[f] = old
        /\ \A c \in form.saves :
              log[c][Here].brief[f] \in {old, log[c - 1][Here].brief[f]}

Filled ==
    /\ LoadsOnce
    /\ page.status = "ready" /\ open = "brief" => form.base # 0
    /\ form.base = 0 => ~form.editing
    /\ form.saves \subseteq form.base + 1 .. Len(log)
    /\ \A i \in DOMAIN calls : calls[i].mount => form.base # 0
    /\ form.base # 0 => \A f \in Fields \ form.typed : AsFilled(f)

ScreensInv == RowsSafe /\ BoardSafe /\ PageSafe /\ Filled

-----------------------------------------------------------------------------
\* Numbers and sequences.

\* A set of naturals has a least element.
LEMMA Least ==
    ASSUME NEW S \in SUBSET Nat, S # {}
    PROVE  \E m \in S : \A n \in S : m =< n
<1> DEFINE R == OpToRel(<, Nat)
<1>1. IsWellFoundedOn(R, Nat)
  BY NatLessThanWellFounded
<1>2. \A n, m \in Nat : n < m => <<n, m>> \in R
  BY DEF OpToRel
<1> HIDE DEF R
<1>3. PICK m \in S : \A n \in S : ~(<<n, m>> \in R)
  BY <1>1, WFMin
<1>4. \A n \in S : ~(n < m)
  BY <1>2, <1>3
<1> QED
  BY <1>3, <1>4

\* What is left of a sequence when its i-th element is taken out.
LEMMA TakingOut ==
    ASSUME NEW S, NEW s \in Seq(S), NEW i \in DOMAIN s
    PROVE  /\ RemoveAt(s, i) \in Seq(S)
           /\ Len(RemoveAt(s, i)) = Len(s) - 1
           /\ \A j \in DOMAIN RemoveAt(s, i) :
                 /\ j \in DOMAIN s /\ j + 1 \in DOMAIN s
                 /\ j < i => RemoveAt(s, i)[j] = s[j]
                 /\ j >= i => RemoveAt(s, i)[j] = s[j + 1]
<1> DEFINE a == SubSeq(s, 1, i - 1)
           b == SubSeq(s, i + 1, Len(s))
<1>1. Len(s) \in Nat /\ i \in 1 .. Len(s) /\ DOMAIN s = 1 .. Len(s)
  OBVIOUS
<1>2. /\ a \in Seq(S) /\ Len(a) = i - 1
      /\ \A j \in 1 .. i - 1 : a[j] = s[j]
  BY <1>1, SubSeqProperties
<1>3. /\ b \in Seq(S) /\ Len(b) = Len(s) - i
      /\ \A j \in 1 .. Len(s) - i : b[j] = s[i + j]
  BY <1>1, SubSeqProperties
<1> DEFINE c == a \o b
<1>4. RemoveAt(s, i) = c
  BY DEF RemoveAt
<1> HIDE DEF a, b
<1>5. /\ c \in Seq(S) /\ Len(c) = Len(a) + Len(b)
      /\ \A j \in 1 .. Len(a) + Len(b) :
            c[j] = IF j =< Len(a) THEN a[j] ELSE b[j - Len(a)]
  BY <1>2, <1>3, ConcatProperties
<1> HIDE DEF c
<1>6. Len(c) = Len(s) - 1 /\ DOMAIN c = 1 .. Len(s) - 1
  BY <1>1, <1>2, <1>3, <1>5
<1>7. ASSUME NEW j \in 1 .. Len(s) - 1
      PROVE  /\ j \in DOMAIN s /\ j + 1 \in DOMAIN s
             /\ j < i => c[j] = s[j]
             /\ j >= i => c[j] = s[j + 1]
  <2>1. j < i => c[j] = s[j]
    BY <1>1, <1>2, <1>3, <1>5
  <2>2. ASSUME j >= i PROVE c[j] = s[j + 1]
    <3> DEFINE k == j - (i - 1)
    <3>1. /\ k \in 1 .. Len(s) - i /\ i + k = j + 1
          /\ j \in 1 .. Len(a) + Len(b) /\ ~(j =< Len(a))
          /\ k = j - Len(a)
      BY <1>1, <1>2, <1>3, <2>2
    <3>2. c[j] = b[k]
      BY <1>5, <3>1
    <3>3. b[k] = s[i + k]
      BY <1>3, <3>1
    <3> QED
      BY <3>1, <3>2, <3>3
  <2> QED
    BY <1>1, <2>1, <2>2
<1> QED
  BY <1>4, <1>5, <1>6, <1>7

\* A sequence without its i-th element.
LEMMA Without ==
    ASSUME NEW S, NEW s \in Seq(S), NEW i \in DOMAIN s
    PROVE  /\ RemoveAt(s, i) \in Seq(S) /\ Len(RemoveAt(s, i)) = Len(s) - 1
           /\ \A j \in DOMAIN RemoveAt(s, i) :
                 \E k \in DOMAIN s \ {i} : RemoveAt(s, i)[j] = s[k]
           /\ \A k \in DOMAIN s \ {i} :
                 \E j \in DOMAIN RemoveAt(s, i) : RemoveAt(s, i)[j] = s[k]
<1> DEFINE rest == RemoveAt(s, i)
<1>1. Len(s) \in Nat /\ DOMAIN s = 1 .. Len(s) /\ i \in 1 .. Len(s)
  OBVIOUS
<1>2. /\ rest \in Seq(S) /\ Len(rest) = Len(s) - 1
      /\ \A j \in DOMAIN rest :
            /\ j \in DOMAIN s /\ j + 1 \in DOMAIN s
            /\ j < i => rest[j] = s[j]
            /\ j >= i => rest[j] = s[j + 1]
  BY TakingOut
<1> HIDE DEF rest
<1>3. DOMAIN rest = 1 .. Len(s) - 1
  BY <1>2
<1>4. ASSUME NEW j \in DOMAIN rest
      PROVE  \E k \in DOMAIN s \ {i} : rest[j] = s[k]
  <2>1. CASE j < i
    BY <1>1, <1>2, <2>1
  <2>2. CASE j >= i
    <3>1. j + 1 \in DOMAIN s \ {i} /\ rest[j] = s[j + 1]
      BY <1>1, <1>2, <1>3, <2>2
    <3> QED
      BY <3>1
  <2> QED
    BY <1>1, <1>3, <2>1, <2>2
<1>5. ASSUME NEW k \in DOMAIN s \ {i}
      PROVE  \E j \in DOMAIN rest : rest[j] = s[k]
  <2>1. CASE k < i
    BY <1>1, <1>2, <1>3, <2>1
  <2>2. CASE k > i
    <3>1. k - 1 \in DOMAIN rest /\ k - 1 >= i /\ (k - 1) + 1 = k
      BY <1>1, <1>3, <2>2
    <3> QED
      BY <1>2, <1>3, <3>1
  <2> QED
    BY <1>1, <2>1, <2>2
<1> QED
  BY <1>2, <1>4, <1>5 DEF rest

\* A finite set as a sequence of its elements, each once.
LEMMA Enumerated ==
    ASSUME NEW S, IsFiniteSet(S)
    PROVE  /\ SetToSeq(S) \in [1 .. Cardinality(S) -> S]
           /\ IsInjective(SetToSeq(S))
<1>1. ExistsBijection(1 .. Cardinality(S), S)
  BY FS_CardinalityType
<1>2. \E f \in [1 .. Cardinality(S) -> S] : IsInjective(f)
  BY <1>1 DEF ExistsBijection, Bijection, Injection
<1> QED
  BY <1>2 DEF SetToSeq

-----------------------------------------------------------------------------
\* The rows.

\* What a reader may find.
LEMMA RowsShape ==
    ASSUME RowsSafe
    PROVE  /\ MaxCommits \in Nat /\ Len(log) \in Nat \ {0}
           /\ Len(log) =< MaxCommits + 1
           /\ DOMAIN log = 1 .. Len(log)
           /\ \A n \in 1 .. Len(log) : log[n] \in [Projects -> ProjectRow]
           /\ Current \in [Projects -> ProjectRow]
           /\ \A p \in Projects : Current[p] \in ProjectRow
<1>1. MaxCommits \in Nat
  BY RowsAssumption
<1>2. /\ log \in Seq([Projects -> ProjectRow]) /\ Len(log) \in Nat \ {0}
      /\ Len(log) =< MaxCommits + 1
  BY DEF RowsSafe
<1>3. /\ DOMAIN log = 1 .. Len(log)
      /\ \A n \in 1 .. Len(log) : log[n] \in [Projects -> ProjectRow]
  BY <1>2
<1>4. Current \in [Projects -> ProjectRow]
  BY <1>2, <1>3 DEF Current
<1> QED
  BY <1>1, <1>2, <1>3, <1>4

\* The rows of later, seen from an earlier state.
Grown ==
    /\ RowsSafe' /\ Len(log') >= Len(log)
    /\ \A n \in 1 .. Len(log) : log'[n] = log[n]

LEMMA GrownShape ==
    ASSUME RowsSafe, Grown
    PROVE  /\ Len(log) \in Nat /\ Len(log') \in Nat \ {0} /\ Len(log') >= Len(log)
           /\ Len(log') =< MaxCommits + 1 /\ MaxCommits \in Nat
           /\ \A n \in 1 .. Len(log) : log'[n] = log[n]
<1>1. /\ log' \in Seq([Projects -> ProjectRow]) /\ Len(log') # 0
      /\ Len(log') =< MaxCommits + 1
  BY DEF Grown, RowsSafe
<1>2. Len(log') \in Nat \ {0}
  BY <1>1
<1> QED
  BY <1>1, <1>2, RowsShape DEF Grown

\* A commit leaves what is there.
LEMMA Committed ==
    ASSUME RowsSafe, NEW p \in Projects, NEW row \in ProjectRow,
           Current[p].here => row.here, Commit(p, row)
    PROVE  /\ Grown /\ Len(log') = Len(log) + 1
           /\ Current' = [Current EXCEPT ![p] = row]
           /\ log'[Len(log')] = [Current EXCEPT ![p] = row]
<1> DEFINE new == [Current EXCEPT ![p] = row]
<1>1. /\ log \in Seq([Projects -> ProjectRow]) /\ Len(log) \in Nat \ {0}
      /\ Current \in [Projects -> ProjectRow] /\ MaxCommits \in Nat
  BY RowsShape DEF RowsSafe
<1>2. new \in [Projects -> ProjectRow] /\ \A q \in Projects : Current[q].here => new[q].here
  BY <1>1
<1>3. log' = Append(log, new) /\ Len(log) =< MaxCommits
  BY DEF Commit
<1> HIDE DEF new
<1>4. /\ log' \in Seq([Projects -> ProjectRow]) /\ Len(log') = Len(log) + 1
      /\ \A n \in 1 .. Len(log) : log'[n] = log[n]
      /\ log'[Len(log) + 1] = new
  BY <1>1, <1>2, <1>3, AppendProperties
<1>5. Current' = new
  BY <1>4 DEF Current
<1>6. RowsSafe'
  <2>1. Len(log') # 0 /\ Len(log') =< MaxCommits + 1
    BY <1>1, <1>3, <1>4
  <2>2. \A n \in 1 .. Len(log') : n \in 1 .. Len(log) \/ n = Len(log) + 1
    BY <1>1, <1>4
  <2>3. ASSUME NEW n \in 1 .. Len(log'), NEW q \in Projects, log'[n][q].here
        PROVE  Current'[q].here
    BY <1>1, <1>2, <1>4, <1>5, <2>2, <2>3 DEF RowsSafe
  <2> QED
    BY <1>4, <2>1, <2>3 DEF RowsSafe
<1> QED
  BY <1>1, <1>4, <1>5, <1>6 DEF Grown, new

LEMMA RowsStay ==
    ASSUME RowsSafe, UNCHANGED rowVars
    PROVE  Grown
<1>1. log' = log
  BY DEF rowVars
<1>2. Len(log) \in Nat
  BY RowsShape
<1>3. RowsSafe'
  BY <1>1 DEF RowsSafe, Current
<1> QED
  BY <1>1, <1>2, <1>3 DEF Grown

\* What others commit.
LEMMA SomebodyGrows ==
    ASSUME RowsSafe, Somebody
    PROVE  Grown
<1>1. PICK p \in Projects : SomebodyCommits(p)
  BY DEF Somebody
<1>2. PICK old \in ProjectRow : old = Current[p]
  BY RowsShape
<1>3. PICK row \in ProjectRow : row.here = old.here /\ Commit(p, row)
  <2>1. CASE \E stage \in Columns : Commit(p, [old EXCEPT !.stage = stage])
    <3>1. PICK stage \in Columns : Commit(p, [old EXCEPT !.stage = stage])
      BY <2>1
    <3>2. [old EXCEPT !.stage = stage] \in ProjectRow
      BY DEF ProjectRow
    <3>3. [old EXCEPT !.stage = stage].here = old.here
      BY DEF ProjectRow
    <3> QED
      BY <3>1, <3>2, <3>3
  <2>2. CASE \E f \in Fields : \E text \in Texts[f] :
                Commit(p, [old EXCEPT !.brief[f] = text])
    <3>1. PICK f \in Fields : \E text \in Texts[f] :
             Commit(p, [old EXCEPT !.brief[f] = text])
      BY <2>2
    <3>2. PICK text \in Texts[f] : Commit(p, [old EXCEPT !.brief[f] = text])
      BY <3>1
    <3>3. text \in UNION Range(Texts)
      BY RowsAssumption DEF Range
    <3>4. PICK brief \in Brief : brief = old.brief
      BY DEF ProjectRow
    <3>5. [brief EXCEPT ![f] = text] \in Brief
      BY <3>3 DEF Brief
    <3> DEFINE row == [old EXCEPT !.brief = [brief EXCEPT ![f] = text]]
    <3>6. row \in ProjectRow /\ row.here = old.here
      BY <3>5 DEF ProjectRow
    <3>7. [old EXCEPT !.brief[f] = text] = row
      BY <3>4 DEF ProjectRow
    <3> QED
      BY <3>2, <3>6, <3>7
  <2> QED
    BY <1>1, <1>2, <2>1, <2>2 DEF SomebodyCommits
<1>4. Current[p].here => row.here
  BY <1>2, <1>3
<1> QED
  BY <1>3, <1>4, Committed

-----------------------------------------------------------------------------
\* The board: what its parts are.

\* What stands for nothing in flight.
LEMMA NoneYet ==
    /\ NoDrag \in Moved /\ ~NoDrag.on
    /\ NoCreate \in [on: BOOLEAN, id: Projects, commit: 0..MaxCommits + 1]
    /\ ~NoCreate.on /\ NoCreate.commit = 0
<1>1. /\ (CHOOSE p \in Projects : TRUE) \in Projects
      /\ (CHOOSE s \in Columns : TRUE) \in Columns
  BY RowsAssumption
<1>2. 0 \in 0 .. MaxCommits + 1 /\ <<>> \in Seq(Card)
  BY RowsAssumption
<1>3. NoDrag \in Moved /\ ~NoDrag.on
  BY <1>1, <1>2 DEF NoDrag, Moved
<1>4. NoCreate \in [on: BOOLEAN, id: Projects, commit: 0..MaxCommits + 1]
  BY <1>1, <1>2 DEF NoCreate
<1>5. ~NoCreate.on /\ NoCreate.commit = 0
  BY DEF NoCreate
<1> QED
  BY <1>3, <1>4, <1>5

LEMMA BoardShape ==
    ASSUME BoardTypes
    PROVE  /\ MaxInFlight \in Nat \ {0} /\ MaxCommits \in Nat
           /\ Len(loads) \in Nat /\ DOMAIN loads = 1 .. Len(loads)
           /\ \A i \in DOMAIN loads : loads[i] \in Load
           /\ Len(cards) \in Nat /\ DOMAIN cards = 1 .. Len(cards)
           /\ \A i \in DOMAIN cards : cards[i] \in Card
           /\ NoDrag \in Moved
           /\ NoCreate \in [on: BOOLEAN, id: Projects, commit: 0..MaxCommits + 1]
<1>1. MaxInFlight \in Nat \ {0} /\ MaxCommits \in Nat
  BY RowsAssumption, BoardAssumption
<1>2. /\ Len(loads) \in Nat /\ DOMAIN loads = 1 .. Len(loads)
      /\ \A i \in DOMAIN loads : loads[i] \in Load
  BY DEF BoardTypes
<1>3. /\ Len(cards) \in Nat /\ DOMAIN cards = 1 .. Len(cards)
      /\ \A i \in DOMAIN cards : cards[i] \in Card
  BY DEF BoardTypes
<1> QED
  BY <1>1, <1>2, <1>3, NoneYet

LEMMA NumbersOfTheBoard ==
    ASSUME BoardTypes
    PROVE  /\ \A i \in DOMAIN loads : loads[i].answer \in Nat
           /\ create.commit \in Nat
           /\ \A p \in Projects : told[p] \in Nat
           /\ \A d \in Drags : drag[d] \in Moved
<1>1. MaxCommits \in Nat /\ \A i \in DOMAIN loads : loads[i] \in Load
  BY BoardShape
<1>2. \A i \in DOMAIN loads : loads[i].answer \in Nat
  BY <1>1 DEF Load
<1>3. create.commit \in Nat /\ \A p \in Projects : told[p] \in Nat
  BY <1>1 DEF BoardTypes
<1>4. \A d \in Drags : drag[d] \in Moved
  BY DEF BoardTypes
<1> QED
  BY <1>2, <1>3, <1>4

\* Nothing is in flight when the count says so.
LEMMA NothingInFlight ==
    ASSUME BoardTypes
    PROVE  /\ InFlight \in Nat /\ Len(loads) =< InFlight
           /\ InFlight = 0 => /\ loads = <<>> /\ ~create.on
                              /\ \A d \in Drags : ~drag[d].on
<1> DEFINE moving == {d \in Drags : drag[d].on}
<1>1. IsFiniteSet(moving) /\ Cardinality(moving) \in Nat
  BY BoardAssumption, FS_Subset, FS_CardinalityType
<1>2. Cardinality(moving) = 0 => moving = {}
  BY <1>1, FS_EmptySet
<1>3. InFlight = Len(loads) + Cardinality(moving) + IF create.on THEN 1 ELSE 0
  BY DEF InFlight
<1>4. Len(loads) \in Nat /\ (Len(loads) = 0 => loads = <<>>)
  BY BoardShape DEF BoardTypes
<1>5. moving = {} => \A d \in Drags : ~drag[d].on
  OBVIOUS
<1> HIDE DEF moving
<1> QED
  BY <1>1, <1>2, <1>3, <1>4, <1>5

\* A request starts: the loads have met it.
LEMMA Meeting ==
    ASSUME BoardTypes, NEW more \in Seq(Load), Meet(more)
    PROVE  /\ loads' \in Seq(Load) /\ Len(loads') = Len(loads) + Len(more)
           /\ \A i \in DOMAIN loads :
                 /\ i \in DOMAIN loads' /\ loads'[i].met
                 /\ loads'[i].answer = loads[i].answer
           /\ \A i \in DOMAIN loads' :
                 \/ i \in DOMAIN loads
                 \/ i - Len(loads) \in DOMAIN more /\ loads'[i] = more[i - Len(loads)]
           /\ InFlight < MaxInFlight /\ clean' \in BOOLEAN
           /\ clean' => clean /\ InFlight = 0
<1> DEFINE told_of == [i \in DOMAIN loads |-> [loads[i] EXCEPT !.met = TRUE]]
<1>1. /\ Len(loads) \in Nat /\ DOMAIN loads = 1 .. Len(loads)
      /\ \A i \in DOMAIN loads : loads[i] \in Load
  BY BoardShape
<1>2. \A i \in DOMAIN loads : /\ told_of[i] \in Load /\ told_of[i].met
                              /\ told_of[i].answer = loads[i].answer
  BY <1>1 DEF Load
<1>3. told_of \in [1 .. Len(loads) -> Load]
  BY <1>1, <1>2
<1>4. InFlight < MaxInFlight /\ loads' = told_of \o more /\ clean' = (clean /\ InFlight = 0)
  BY DEF Meet
<1> HIDE DEF told_of
<1>5. told_of \in Seq(Load) /\ Len(told_of) = Len(loads)
  BY <1>1, <1>3
<1>6. /\ loads' \in Seq(Load) /\ Len(loads') = Len(loads) + Len(more)
      /\ \A i \in 1 .. Len(loads) + Len(more) :
            loads'[i] = IF i <= Len(loads) THEN told_of[i] ELSE more[i - Len(loads)]
  <2> DEFINE s == told_of \o more
  <2>1. /\ s \in Seq(Load) /\ Len(s) = Len(told_of) + Len(more)
        /\ \A i \in 1 .. Len(told_of) + Len(more) :
              s[i] = IF i <= Len(told_of) THEN told_of[i] ELSE more[i - Len(told_of)]
    BY <1>5, ConcatProperties
  <2>2. loads' = s
    BY <1>4
  <2> HIDE DEF s
  <2> QED
    BY <1>5, <2>1, <2>2
<1>7. Len(more) \in Nat /\ DOMAIN more = 1 .. Len(more) /\ DOMAIN loads' = 1 .. Len(loads) + Len(more)
  BY <1>6
<1>8. ASSUME NEW i \in DOMAIN loads
      PROVE  /\ i \in DOMAIN loads' /\ loads'[i].met
             /\ loads'[i].answer = loads[i].answer
  BY <1>1, <1>2, <1>6, <1>7
<1>9. ASSUME NEW i \in DOMAIN loads', i \notin DOMAIN loads
      PROVE  i - Len(loads) \in DOMAIN more /\ loads'[i] = more[i - Len(loads)]
  BY <1>1, <1>6, <1>7, <1>9
<1>10. clean' \in BOOLEAN /\ (clean' => clean /\ InFlight = 0)
  BY <1>4
<1> QED
  BY <1>4, <1>6, <1>8, <1>9, <1>10

\* Cards that are right stay right while the log grows and nothing is told.
LEMMA GoodStays ==
    ASSUME NEW list, NEW rows, NEW more, NEW known, NEW now,
           Good(list, rows, known), Len(rows) \in Nat, Len(more) \in Nat,
           Len(more) >= Len(rows), \A n \in 1 .. Len(rows) : more[n] = rows[n],
           \A i \in DOMAIN list : now[list[i].id] = known[list[i].id]
    PROVE  Good(list, more, now)
<1>1. ASSUME NEW i \in DOMAIN list
      PROVE  Stands(list[i], more, now)
  <2>1. PICK n \in 1 .. Len(rows) : /\ n >= known[list[i].id]
                                    /\ rows[n][list[i].id].here
                                    /\ rows[n][list[i].id].stage = list[i].stage
    BY DEF Good, Stands
  <2>2. n \in 1 .. Len(more) /\ more[n] = rows[n]
    OBVIOUS
  <2> QED
    BY <2>1, <2>2 DEF Stands
<1> QED
  BY <1>1 DEF Good

\* A list of which a card is put in another column.
LEMMA PatchedList ==
    ASSUME NEW list \in Seq(Card), NEW p \in Projects, NEW stage \in Columns
    PROVE  /\ Patched(list, p, stage) \in Seq(Card)
           /\ DOMAIN Patched(list, p, stage) = DOMAIN list
           /\ \A i \in DOMAIN list :
                 /\ Patched(list, p, stage)[i].id = list[i].id
                 /\ Patched(list, p, stage)[i].stage
                       = IF list[i].id = p THEN stage ELSE list[i].stage
<1> DEFINE new == Patched(list, p, stage)
<1>1. Len(list) \in Nat /\ DOMAIN list = 1 .. Len(list) /\ \A i \in DOMAIN list : list[i] \in Card
  OBVIOUS
<1>2. /\ DOMAIN new = DOMAIN list
      /\ \A i \in DOMAIN list :
            new[i] = IF list[i].id = p THEN [list[i] EXCEPT !.stage = stage] ELSE list[i]
  BY DEF Patched
<1>3. new = [i \in 1 .. Len(list) |-> new[i]]
  BY <1>1 DEF Patched
<1> HIDE DEF new
<1>4. ASSUME NEW i \in DOMAIN list
      PROVE  /\ new[i] \in Card /\ new[i].id = list[i].id
             /\ new[i].stage = IF list[i].id = p THEN stage ELSE list[i].stage
  BY <1>1, <1>2 DEF Card
<1>5. new \in [1 .. Len(list) -> Card]
  BY <1>1, <1>3, <1>4
<1>6. new \in Seq(Card)
  BY <1>1, <1>5
<1> QED
  BY <1>2, <1>4, <1>6 DEF new

\* What the service lists: each project once, as it was at that commit.
LEMMA ListingIsGood ==
    ASSUME RowsSafe, NEW n \in 1 .. Len(log), NEW f, NEW known,
           \A p \in Projects : known[p] =< n
    PROVE  Listing(n, f) \in Seq(Card) /\ Good(Listing(n, f), log, known)
<1> DEFINE of == {p \in Projects : Matches(p, log[n][p], f)}
           ids == SetToSeq(of)
           list == Listing(n, f)
<1>1. IsFiniteSet(of) /\ Cardinality(of) \in Nat
  BY RowsAssumption, FS_Subset, FS_CardinalityType
<1>2. ids \in [1 .. Cardinality(of) -> of] /\ IsInjective(ids)
  BY <1>1, Enumerated
<1>3. list = [i \in 1 .. Cardinality(of) |-> [id |-> ids[i], stage |-> log[n][ids[i]].stage]]
  BY DEF Listing
<1> HIDE DEF list, ids
<1>4. ASSUME NEW i \in 1 .. Cardinality(of)
      PROVE  /\ ids[i] \in Projects /\ log[n][ids[i]].here
             /\ log[n][ids[i]].stage \in Columns
  <2>1. ids[i] \in of
    BY <1>2
  <2>2. ids[i] \in Projects /\ log[n][ids[i]] \in ProjectRow
    BY <2>1, RowsShape
  <2> QED
    BY <2>1, <2>2 DEF Matches, ProjectRow
<1>5. /\ DOMAIN list = 1 .. Cardinality(of)
      /\ \A i \in DOMAIN list : /\ list[i] \in Card /\ list[i].id = ids[i]
                                /\ list[i].stage = log[n][ids[i]].stage
  BY <1>3, <1>4 DEF Card
<1>6. list \in Seq(Card)
  <2> DEFINE size == Cardinality(of)
  <2>1. list \in [1 .. size -> Card] /\ size \in Nat
    BY <1>1, <1>3, <1>5
  <2> HIDE DEF size
  <2> QED
    BY <2>1
<1>7. ASSUME NEW i \in DOMAIN list
      PROVE  Stands(list[i], log, known)
  <2>1. known[ids[i]] =< n /\ log[n][ids[i]].here
    BY <1>4, <1>5
  <2>2. Len(log) \in Nat /\ n \in Nat
    BY RowsShape
  <2> QED
    BY <1>5, <2>1, <2>2 DEF Stands
<1>8. ASSUME NEW i \in DOMAIN list, NEW j \in DOMAIN list, list[i].id = list[j].id
      PROVE  i = j
  BY <1>2, <1>5, <1>8 DEF IsInjective
<1> HIDE DEF of
<1> QED
  BY <1>6, <1>7, <1>8 DEF Good, list

-----------------------------------------------------------------------------
\* The board: its steps.

\* A step of somebody else's leaves the board as it is.
LEMMA BoardStays ==
    ASSUME RowsSafe, BoardSafe, Grown, UNCHANGED boardVars
    PROVE  BoardSafe'
<1>1. /\ cards' = cards /\ status' = status /\ filter' = filter /\ loads' = loads
      /\ drag' = drag /\ create' = create /\ told' = told /\ clean' = clean
  BY DEF boardVars
<1>2. /\ Len(log) \in Nat /\ Len(log') \in Nat /\ Len(log') >= Len(log)
      /\ \A n \in 1 .. Len(log) : log'[n] = log[n]
  BY RowsShape DEF Grown, RowsSafe
<1>3. BoardTypes'
  BY <1>1 DEF BoardSafe, BoardTypes
<1>4. InTheLog'
  <2>1. /\ \A i \in DOMAIN loads : loads[i].answer \in Nat
        /\ create.commit \in Nat /\ \A p \in Projects : told[p] \in Nat
    BY NumbersOfTheBoard DEF BoardSafe
  <2>2. \A i \in DOMAIN loads : loads[i].answer =< Len(log')
    BY <1>2, <2>1 DEF BoardSafe, InTheLog
  <2>3. \A p \in Projects : told[p] =< Len(log')
    BY <1>2, <2>1 DEF BoardSafe, InTheLog
  <2>4. ASSUME NEW d \in Drags, drag[d].on, drag[d].step = "ok"
        PROVE  /\ drag[d].commit \in 1 .. Len(log')
               /\ log'[drag[d].commit][drag[d].id].here
    BY <1>2, <2>4 DEF BoardSafe, InTheLog
  <2>5. create.commit =< Len(log')
    BY <1>2, <2>1 DEF BoardSafe, InTheLog
  <2>6. create.on /\ create.commit # 0 => log'[create.commit][create.id].here
    <3>1. create.commit # 0 => create.commit \in 1 .. Len(log)
      BY <1>2, <2>1 DEF BoardSafe, InTheLog
    <3> QED
      BY <1>2, <3>1 DEF BoardSafe, InTheLog
  <2> QED
    BY <1>1, <2>2, <2>3, <2>4, <2>5, <2>6 DEF InTheLog
<1>5. LoneLoad' /\ OneAtATime'
  BY <1>1 DEF BoardSafe, LoneLoad, OneAtATime
<1>6. CardsStand'
  <2>1. ASSUME NEW list, Good(list, log, told)
        PROVE  Good(list, log', told)
    BY <1>2, <2>1, GoodStays
  <2> QED
    BY <1>1, <2>1 DEF BoardSafe, CardsStand
<1> QED
  BY <1>3, <1>4, <1>5, <1>6 DEF BoardSafe

\* reload(): alone, or all that is in flight has met it.
LEMMA AskForSafe ==
    ASSUME RowsSafe, BoardSafe, NEW f \in Filter, AskFor(f), filter' \in Filter,
           UNCHANGED rowVars
    PROVE  BoardSafe'
<1> DEFINE x == [answer |-> 0, filter |-> f, met |-> InFlight > 0]
<1>1. /\ Meet(<<x>>) /\ status' = "loading" /\ log' = log
      /\ cards' = cards /\ drag' = drag /\ create' = create /\ told' = told
  BY DEF AskFor, rowVars
<1>2. BoardTypes
  BY DEF BoardSafe
<1>3. x \in Load /\ x.answer = 0 /\ x.filter = f /\ (~x.met => ~(InFlight > 0))
      /\ (InFlight = 0 => ~x.met)
  <2>1. 0 \in 0 .. MaxCommits + 1
    BY RowsAssumption
  <2>2. InFlight \in Nat
    BY <1>2, NothingInFlight
  <2>3. PICK met \in BOOLEAN : met <=> InFlight > 0
    OBVIOUS
  <2>4. x = [answer |-> 0, filter |-> f, met |-> met]
    BY <2>3
  <2>5. x \in Load /\ x.answer = 0 /\ x.filter = f /\ x.met = met
    BY <2>1, <2>4 DEF Load
  <2> HIDE DEF x
  <2> QED
    BY <2>2, <2>3, <2>5
<1> HIDE DEF x
<1>4. /\ <<x>> \in Seq(Load) /\ Len(<<x>>) = 1 /\ DOMAIN <<x>> = {1} /\ <<x>>[1] = x
  BY <1>3
<1>5. /\ loads' \in Seq(Load) /\ Len(loads') = Len(loads) + 1
      /\ \A i \in DOMAIN loads :
            /\ i \in DOMAIN loads' /\ loads'[i].met
            /\ loads'[i].answer = loads[i].answer
      /\ \A i \in DOMAIN loads' : i \in DOMAIN loads \/ loads'[i] = x
      /\ InFlight < MaxInFlight /\ clean' \in BOOLEAN
      /\ clean' => clean /\ InFlight = 0
  <2>1. /\ loads' \in Seq(Load) /\ Len(loads') = Len(loads) + Len(<<x>>)
        /\ \A i \in DOMAIN loads :
              /\ i \in DOMAIN loads' /\ loads'[i].met
              /\ loads'[i].answer = loads[i].answer
        /\ \A i \in DOMAIN loads' :
              \/ i \in DOMAIN loads
              \/ /\ i - Len(loads) \in DOMAIN <<x>>
                 /\ loads'[i] = <<x>>[i - Len(loads)]
        /\ InFlight < MaxInFlight /\ clean' \in BOOLEAN
        /\ clean' => clean /\ InFlight = 0
    BY <1>1, <1>2, <1>4, Meeting
  <2>2. ASSUME NEW i \in DOMAIN loads', i \notin DOMAIN loads
        PROVE  loads'[i] = x
    <3>1. i - Len(loads) = 1 /\ loads'[i] = <<x>>[i - Len(loads)]
      BY <1>4, <2>1, <2>2
    <3> QED
      BY <1>4, <3>1
  <2> QED
    BY <1>4, <2>1, <2>2
<1>6. /\ InFlight \in Nat /\ Len(loads) =< InFlight /\ Len(loads) \in Nat
      /\ MaxInFlight \in Nat
      /\ InFlight = 0 => /\ loads = <<>> /\ ~create.on
                         /\ \A d \in Drags : ~drag[d].on
  BY <1>2, NothingInFlight, BoardShape
<1>7. BoardTypes'
  <2>1. Len(loads') =< MaxInFlight /\ loads' # <<>>
    BY <1>5, <1>6
  <2> QED
    BY <1>1, <1>2, <1>5, <2>1 DEF BoardTypes
<1>8. InTheLog'
  <2>1. \A i \in DOMAIN loads' : loads'[i].answer =< Len(log)
    BY <1>3, <1>5, RowsShape DEF BoardSafe, InTheLog
  <2> QED
    BY <1>1, <2>1 DEF BoardSafe, InTheLog
<1>9. LoneLoad'
  <2>1. ASSUME NEW i \in DOMAIN loads', ~loads'[i].met
        PROVE  /\ Len(loads') = 1 /\ ~create.on /\ \A d \in Drags : ~drag[d].on
               /\ loads'[i].answer = 0
    <3>1. loads'[i] = x /\ InFlight = 0
      BY <1>3, <1>5, <1>6, <2>1
    <3>2. Len(loads) = 0
      BY <1>6, <3>1
    <3> QED
      BY <1>3, <1>5, <1>6, <3>1, <3>2
  <2> QED
    BY <1>1, <2>1 DEF LoneLoad
<1>10. OneAtATime'
  <2>1. ASSUME clean', NEW i \in DOMAIN loads'
        PROVE  ~loads'[i].met
    <3>1. InFlight = 0 /\ loads = <<>>
      BY <1>5, <1>6, <2>1
    <3>2. loads'[i] = x
      BY <1>5, <3>1
    <3> QED
      BY <1>3, <3>1, <3>2
  <2> QED
    BY <1>1, <1>5, <1>6, <2>1 DEF OneAtATime
<1>11. CardsStand'
  BY <1>1, <1>5, <1>6 DEF CardsStand, BoardSafe
<1> QED
  BY <1>7, <1>8, <1>9, <1>10, <1>11 DEF BoardSafe

\* A load that is gone: those that are left have met it.
LEMMA LoadGone ==
    ASSUME BoardSafe, NEW i \in DOMAIN loads, loads' = RemoveAt(loads, i)
    PROVE  /\ loads' \in Seq(Load) /\ Len(loads') =< MaxInFlight
           /\ \A j \in DOMAIN loads' :
                 loads'[j].met /\ \E k \in DOMAIN loads : loads'[j] = loads[k]
           /\ ~loads[i].met => loads' = <<>>
<1> DEFINE rest == RemoveAt(loads, i)
<1>1. /\ loads \in Seq(Load) /\ Len(loads) \in Nat /\ DOMAIN loads = 1 .. Len(loads)
      /\ Len(loads) =< MaxInFlight /\ MaxInFlight \in Nat
  BY BoardShape DEF BoardSafe, BoardTypes
<1>2. /\ rest \in Seq(Load) /\ Len(rest) = Len(loads) - 1
      /\ \A j \in DOMAIN rest : \E k \in DOMAIN loads \ {i} : rest[j] = loads[k]
  <2>1. /\ RemoveAt(loads, i) \in Seq(Load) /\ Len(RemoveAt(loads, i)) = Len(loads) - 1
        /\ \A j \in DOMAIN RemoveAt(loads, i) :
              \E k \in DOMAIN loads \ {i} : RemoveAt(loads, i)[j] = loads[k]
    <3>1. loads \in Seq(Load) /\ i \in DOMAIN loads
      BY <1>1
    <3>2. RemoveAt(loads, i) \in Seq(Load) /\ Len(RemoveAt(loads, i)) = Len(loads) - 1
      BY <3>1, Without
    <3>3. \A j \in DOMAIN RemoveAt(loads, i) :
             \E k \in DOMAIN loads \ {i} : RemoveAt(loads, i)[j] = loads[k]
      BY <3>1, Without
    <3> QED
      BY <3>2, <3>3
  <2> QED
    BY <2>1
<1> HIDE DEF rest
<1>3. loads' = rest
  BY DEF rest
<1>4. ASSUME NEW j \in DOMAIN rest
      PROVE  rest[j].met /\ \E k \in DOMAIN loads : rest[j] = loads[k]
  <2>1. PICK k \in DOMAIN loads \ {i} : rest[j] = loads[k]
    BY <1>2
  <2>2. Len(loads) # 1
    BY <1>1, <2>1
  <2>3. loads[k].met
    BY <2>2 DEF BoardSafe, LoneLoad
  <2> QED
    BY <2>1, <2>3
<1>5. ~loads[i].met => rest = <<>>
  <2>1. ~loads[i].met => Len(loads) = 1
    BY DEF BoardSafe, LoneLoad
  <2> QED
    BY <1>2, <2>1
<1>6. Len(rest) =< MaxInFlight
  BY <1>1, <1>2
<1> QED
  BY <1>2, <1>3, <1>4, <1>5, <1>6

\* Lists that are served, delivered or lost.
LEMMA LoadingSafe ==
    ASSUME RowsSafe, BoardSafe, NEW i \in DOMAIN loads,
           ServeLoad(i) \/ DeliverLoad(i) \/ FailLoad(i)
    PROVE  BoardSafe' /\ UNCHANGED rowVars
<1>1. /\ Len(log) \in Nat \ {0} /\ Len(log) =< MaxCommits + 1 /\ MaxCommits \in Nat
      /\ Len(loads) \in Nat /\ DOMAIN loads = 1 .. Len(loads) /\ loads[i] \in Load
      /\ loads \in Seq(Load) /\ BoardTypes
  BY RowsShape, BoardShape DEF BoardSafe, BoardTypes
<1>2. CASE ServeLoad(i)
  <2>1. /\ loads' = [loads EXCEPT ![i].answer = Len(log)] /\ log' = log
        /\ cards' = cards /\ status' = status /\ filter' = filter /\ drag' = drag
        /\ create' = create /\ told' = told /\ clean' = clean
        /\ UNCHANGED rowVars
    BY <1>2 DEF ServeLoad, rowVars
  <2>2. Len(log) \in 0 .. MaxCommits + 1
    BY <1>1
  <2>3. [loads[i] EXCEPT !.answer = Len(log)] \in Load
    BY <1>1, <2>2 DEF Load
  <2>4. /\ loads' \in Seq(Load) /\ Len(loads') = Len(loads)
        /\ DOMAIN loads' = DOMAIN loads
        /\ \A j \in DOMAIN loads :
              /\ loads'[j].met = loads[j].met
              /\ loads'[j].answer = IF j = i THEN Len(log) ELSE loads[j].answer
    <3> DEFINE y == [loads[i] EXCEPT !.answer = Len(log)]
               s == [loads EXCEPT ![i] = y]
    <3>1. y.answer = Len(log) /\ y.met = loads[i].met
      BY <1>1 DEF Load
    <3>2. loads' = s
      BY <2>1
    <3> HIDE DEF y
    <3>3. /\ s \in Seq(Load) /\ Len(s) = Len(loads)
          /\ \A j \in 1 .. Len(loads) : s[j] = IF j = i THEN y ELSE loads[j]
      BY <1>1, <2>3, ExceptSeq DEF y
    <3> HIDE DEF s
    <3> QED
      BY <1>1, <3>1, <3>2, <3>3
  <2>5. BoardTypes'
    <3>1. loads # <<>> => loads' # <<>>
      BY <1>1, <2>4
    <3> QED
      BY <1>1, <2>1, <2>4, <3>1 DEF BoardTypes
  <2>6. InTheLog'
    <3>1. \A j \in DOMAIN loads' : loads'[j].answer =< Len(log)
      BY <1>1, <2>4 DEF BoardSafe, InTheLog
    <3> QED
      BY <2>1, <3>1 DEF BoardSafe, InTheLog
  <2>7. LoneLoad'
    <3>1. \A p \in Projects : told[p] =< Len(log)
      BY DEF BoardSafe, InTheLog
    <3> QED
      BY <2>1, <2>4, <3>1 DEF BoardSafe, LoneLoad
  <2>8. OneAtATime' /\ CardsStand'
    <3>1. OneAtATime'
      BY <2>1, <2>4 DEF BoardSafe, OneAtATime
    <3>2. CardsStand'
      BY <2>1 DEF BoardSafe, CardsStand
    <3> QED
      BY <3>1, <3>2
  <2> QED
    BY <2>1, <2>5, <2>6, <2>7, <2>8 DEF BoardSafe
<1>3. CASE DeliverLoad(i)
  <2>1. /\ loads[i].answer # 0 /\ cards' = Listing(loads[i].answer, loads[i].filter)
        /\ status' = "ready" /\ loads' = RemoveAt(loads, i) /\ clean' = ~loads[i].met
        /\ filter' = filter /\ drag' = drag /\ create' = create /\ told' = told
        /\ log' = log /\ UNCHANGED rowVars
    BY <1>3 DEF DeliverLoad, rowVars
  <2>2. /\ loads' \in Seq(Load) /\ Len(loads') =< MaxInFlight
        /\ \A j \in DOMAIN loads' :
              loads'[j].met /\ \E k \in DOMAIN loads : loads'[j] = loads[k]
        /\ ~loads[i].met => loads' = <<>>
    BY <2>1, LoadGone
  <2>3. loads[i].answer \in 1 .. Len(log)
    BY <1>1, <2>1 DEF BoardSafe, InTheLog, Load
  <2>4. cards' \in Seq(Card)
    <3>1. \A p \in Projects : [q \in Projects |-> 0][p] =< loads[i].answer
      BY <2>3
    <3>2. Listing(loads[i].answer, loads[i].filter) \in Seq(Card)
      BY <2>3, <3>1, ListingIsGood
    <3> QED
      BY <2>1, <3>2
  <2>5. ~loads[i].met => Good(cards', log, told)
    <3>1. ~loads[i].met => \A p \in Projects : told[p] =< loads[i].answer
      BY <2>1 DEF BoardSafe, LoneLoad
    <3> QED
      BY <2>1, <2>3, <3>1, ListingIsGood
  <2>6. BoardTypes'
    BY <1>1, <2>1, <2>2, <2>4 DEF BoardTypes, Load
  <2>7. InTheLog'
    <3>1. \A j \in DOMAIN loads' : loads'[j].answer =< Len(log)
      BY <2>2 DEF BoardSafe, InTheLog
    <3> QED
      BY <2>1, <3>1 DEF BoardSafe, InTheLog
  <2>8. LoneLoad'
    BY <2>2 DEF LoneLoad
  <2>9. ~loads[i].met => ~create.on /\ \A d \in Drags : ~drag[d].on
    BY DEF BoardSafe, LoneLoad
  <2>10. OneAtATime'
    <3>1. clean' => loads' = <<>>
      BY <2>1, <2>2
    <3>2. clean' => ~create'.on /\ \A d \in Drags : ~drag'[d].on
      BY <2>1, <2>9, Zenon
    <3> QED
      BY <3>1, <3>2 DEF OneAtATime
  <2>11. CardsStand'
    BY <2>1, <2>5, <2>9 DEF CardsStand
  <2> QED
    BY <2>1, <2>6, <2>7, <2>8, <2>10, <2>11 DEF BoardSafe
<1>4. CASE FailLoad(i)
  <2>1. /\ status' = "error" /\ loads' = RemoveAt(loads, i) /\ clean' = clean
        /\ cards' = cards /\ filter' = filter /\ drag' = drag /\ create' = create
        /\ told' = told /\ log' = log /\ UNCHANGED rowVars
    BY <1>4 DEF FailLoad, rowVars
  <2>2. /\ loads' \in Seq(Load) /\ Len(loads') =< MaxInFlight
        /\ \A j \in DOMAIN loads' :
              loads'[j].met /\ \E k \in DOMAIN loads : loads'[j] = loads[k]
        /\ ~loads[i].met => loads' = <<>>
    BY <2>1, LoadGone
  <2>3. BoardTypes'
    BY <1>1, <2>1, <2>2 DEF BoardTypes
  <2>4. InTheLog'
    <3>1. \A j \in DOMAIN loads' : loads'[j].answer =< Len(log)
      BY <2>2 DEF BoardSafe, InTheLog
    <3> QED
      BY <2>1, <3>1 DEF BoardSafe, InTheLog
  <2>5. LoneLoad'
    BY <2>2 DEF LoneLoad
  <2>6. OneAtATime'
    <3>1. clean => loads' = <<>>
      BY <2>2 DEF BoardSafe, OneAtATime
    <3> QED
      BY <2>1, <3>1 DEF BoardSafe, OneAtATime
  <2>7. CardsStand'
    BY <2>1 DEF BoardSafe, CardsStand
  <2> QED
    BY <2>1, <2>3, <2>4, <2>5, <2>6, <2>7 DEF BoardSafe
<1> QED
  BY <1>2, <1>3, <1>4

\* The later of two commits.
LEMMA LaterOfTwo ==
    ASSUME NEW a \in Nat, NEW b \in Nat
    PROVE  Max({a, b}) = IF a >= b THEN a ELSE b
<1>1. \E x \in {a, b} : \A y \in {a, b} : x >= y
  OBVIOUS
<1>2. Max({a, b}) \in {a, b} /\ \A y \in {a, b} : Max({a, b}) >= y
  BY <1>1 DEF Max
<1> QED
  BY <1>2

\* A request starts that is not for a list.
LEMMA MeetingAlone ==
    ASSUME BoardSafe, Meet(<<>>)
    PROVE  /\ loads' \in Seq(Load) /\ Len(loads') =< MaxInFlight
           /\ \A i \in DOMAIN loads' :
                 loads'[i].met /\ i \in DOMAIN loads /\ loads'[i].answer = loads[i].answer
           /\ loads # <<>> => loads' # <<>>
           /\ clean' \in BOOLEAN
           /\ clean' => /\ clean /\ loads' = <<>> /\ ~create.on
                        /\ \A d \in Drags : ~drag[d].on
<1>1. BoardTypes
  BY DEF BoardSafe
<1>2. /\ Len(loads) \in Nat /\ Len(loads) =< MaxInFlight /\ MaxInFlight \in Nat
      /\ InFlight \in Nat
      /\ InFlight = 0 => /\ loads = <<>> /\ ~create.on
                         /\ \A d \in Drags : ~drag[d].on
  BY <1>1, NothingInFlight, BoardShape DEF BoardTypes
<1>3. /\ <<>> \in Seq(Load) /\ Len(<<>>) = 0 /\ DOMAIN <<>> = {}
  OBVIOUS
<1>4. /\ loads' \in Seq(Load) /\ Len(loads') = Len(loads) + Len(<<>>)
      /\ \A i \in DOMAIN loads : loads'[i].met /\ loads'[i].answer = loads[i].answer
      /\ \A i \in DOMAIN loads' : i \in DOMAIN loads \/ i - Len(loads) \in DOMAIN <<>>
      /\ clean' \in BOOLEAN /\ (clean' => clean /\ InFlight = 0)
  BY <1>1, <1>3, Meeting
<1>5. Len(loads') = Len(loads) /\ \A i \in DOMAIN loads' : i \in DOMAIN loads
  BY <1>2, <1>3, <1>4
<1>6. loads # <<>> => loads' # <<>>
  BY <1>1, <1>2, <1>4, <1>5 DEF BoardTypes
<1>7. loads = <<>> => loads' = <<>>
  BY <1>2, <1>4, <1>5
<1> QED
  BY <1>2, <1>4, <1>5, <1>6, <1>7

\* onDragEnd: the card moves at once, the list before it is kept.
LEMMA DropSafe ==
    ASSUME RowsSafe, BoardSafe, NEW i \in DOMAIN cards, NEW target \in Columns,
           Drop(i, target)
    PROVE  BoardSafe' /\ UNCHANGED rowVars
<1> DEFINE d0 == CHOOSE d \in Drags : ~drag[d].on
           new == [on |-> TRUE, id |-> cards[i].id, target |-> target,
                   snapshot |-> cards, step |-> "asked", commit |-> 0]
<1>1. /\ d0 \in Drags /\ cards' = Patched(cards, cards[i].id, target)
      /\ drag' = [drag EXCEPT ![d0] = new] /\ Meet(<<>>)
      /\ status' = status /\ filter' = filter /\ create' = create /\ told' = told
      /\ log' = log /\ UNCHANGED rowVars
  BY DEF Drop, rowVars
<1>2. /\ loads' \in Seq(Load) /\ Len(loads') =< MaxInFlight
      /\ \A j \in DOMAIN loads' :
            loads'[j].met /\ j \in DOMAIN loads /\ loads'[j].answer = loads[j].answer
      /\ loads # <<>> => loads' # <<>>
      /\ clean' \in BOOLEAN
      /\ clean' => /\ clean /\ loads' = <<>> /\ ~create.on
                   /\ \A d \in Drags : ~drag[d].on
  BY <1>1, MeetingAlone
<1>3. /\ cards \in Seq(Card) /\ cards[i] \in Card /\ cards[i].id \in Projects
      /\ MaxCommits \in Nat /\ BoardTypes
  BY BoardShape DEF BoardSafe, BoardTypes, Card
<1>4. new \in Moved
  <2>1. 0 \in 0 .. MaxCommits + 1
    BY <1>3
  <2> QED
    BY <1>3, <2>1 DEF Moved
<1>5. /\ new.on /\ new.id = cards[i].id /\ new.target = target
      /\ new.snapshot = cards /\ new.step = "asked"
  OBVIOUS
<1> HIDE DEF new, d0
<1>6. /\ drag' \in [Drags -> Moved]
      /\ drag'[d0] = new /\ \A d \in Drags : d # d0 => drag'[d] = drag[d]
  BY <1>1, <1>3, <1>4 DEF BoardTypes
<1>7. cards' \in Seq(Card)
  BY <1>1, <1>3, PatchedList
<1>8. BoardTypes'
  BY <1>1, <1>2, <1>3, <1>6, <1>7 DEF BoardTypes
<1>9. InTheLog'
  <2>1. \A j \in DOMAIN loads' : loads'[j].answer =< Len(log)
    BY <1>2 DEF BoardSafe, InTheLog
  <2>2. ASSUME NEW d \in Drags, drag'[d].on, drag'[d].step = "ok"
        PROVE  /\ drag'[d].commit \in 1 .. Len(log)
               /\ log[drag'[d].commit][drag'[d].id].here
    BY <1>5, <1>6, <2>2 DEF BoardSafe, InTheLog
  <2> QED
    BY <1>1, <2>1, <2>2 DEF BoardSafe, InTheLog
<1>10. LoneLoad'
  BY <1>2 DEF LoneLoad
<1>11. OneAtATime'
  <2>1. ASSUME clean', NEW d \in Drags, NEW e \in Drags, drag'[d].on, drag'[e].on
        PROVE  d = e
    BY <1>2, <1>6, <2>1
  <2>2. clean' => ~create'.on
    BY <1>1, <1>2
  <2> QED
    BY <1>2, <2>1, <2>2 DEF OneAtATime
<1>12. CardsStand'
  <2>1. ASSUME clean'
        PROVE  /\ Good(cards, log, told)
               /\ \A d \in Drags : drag'[d].on => d = d0
               /\ drag'[d0].on /\ ~create'.on
    BY <1>1, <1>2, <1>5, <1>6, <2>1 DEF BoardSafe, CardsStand
  <2>2. ASSUME clean', NEW d \in Drags, drag'[d].on
        PROVE  /\ Good(drag'[d].snapshot, log', told')
               /\ cards' = Patched(drag'[d].snapshot, drag'[d].id, drag'[d].target)
               /\ drag'[d].step # "ok"
    <3>1. drag'[d] = new
      BY <1>6, <2>1, <2>2
    <3> QED
      BY <1>1, <1>5, <2>1, <2>2, <3>1
  <2> QED
    BY <1>1, <2>1, <2>2 DEF CardsStand
<1> QED
  BY <1>1, <1>8, <1>9, <1>10, <1>11, <1>12 DEF BoardSafe

\* POST /projects/{id}/stage: what it answers with is a commit after all that
\* was told before.
LEMMA ServeMoveSafe ==
    ASSUME RowsSafe, BoardSafe, NEW d \in Drags, ServeMove(d)
    PROVE  BoardSafe' /\ Grown
<1>1. PICK w \in Moved : w = drag[d]
  BY DEF BoardSafe, BoardTypes
<1>2. /\ w.on /\ w.step = "asked" /\ Current[w.id].here
      /\ IF Current[w.id].stage = w.target
         THEN UNCHANGED rowVars
         ELSE Commit(w.id, [Current[w.id] EXCEPT !.stage = w.target])
      /\ drag' = [drag EXCEPT ![d].step = "ok", ![d].commit = Len(log')]
      /\ cards' = cards /\ status' = status /\ filter' = filter /\ loads' = loads
      /\ create' = create /\ told' = told /\ clean' = clean
  BY <1>1 DEF ServeMove
<1>3. Grown /\ Current'[w.id].here
  <2>1. CASE Current[w.id].stage = w.target
    <3>1. UNCHANGED rowVars
      BY <1>2, <2>1
    <3> QED
      BY <1>2, <3>1, RowsStay DEF Current, rowVars
  <2>2. CASE Current[w.id].stage # w.target
    <3>1. Commit(w.id, [Current[w.id] EXCEPT !.stage = w.target])
      BY <1>2, <2>2
    <3>2. PICK row \in ProjectRow :
             row = [Current[w.id] EXCEPT !.stage = w.target] /\ row.here
      <4>1. w.id \in Projects /\ w.target \in Columns
        BY DEF Moved
      <4>2. PICK old \in ProjectRow : old = Current[w.id] /\ old.here
        BY <1>2, <4>1, RowsShape
      <4>3. /\ [old EXCEPT !.stage = w.target] \in ProjectRow
            /\ [old EXCEPT !.stage = w.target].here
        BY <4>1, <4>2 DEF ProjectRow
      <4> QED
        BY <4>2, <4>3
    <3>3. Grown /\ Current' = [Current EXCEPT ![w.id] = row]
      <4>1. w.id \in Projects
        BY DEF Moved
      <4> QED
        BY <3>1, <3>2, <4>1, Committed
    <3> QED
      <4>1. w.id \in Projects
        BY DEF Moved
      <4> QED
        BY <3>2, <3>3, <4>1, RowsShape
  <2> QED
    BY <2>1, <2>2
<1>4. /\ Len(log) \in Nat /\ Len(log') \in Nat /\ Len(log') >= Len(log)
      /\ Len(log') # 0 /\ \A n \in 1 .. Len(log) : log'[n] = log[n]
  BY <1>3, GrownShape
<1>5. Len(log') =< MaxCommits + 1 /\ MaxCommits \in Nat
  BY <1>3, GrownShape
<1> DEFINE new == [w EXCEPT !.step = "ok", !.commit = Len(log')]
<1>6. /\ new \in Moved
      /\ new.on /\ new.id = w.id /\ new.target = w.target
      /\ new.snapshot = w.snapshot /\ new.commit = Len(log') /\ new.step = "ok"
  <2>1. Len(log') \in 0 .. MaxCommits + 1
    BY <1>4, <1>5
  <2> QED
    BY <1>2, <2>1 DEF Moved
<1>7. /\ drag' = [drag EXCEPT ![d] = new] /\ drag \in [Drags -> Moved]
  BY <1>1, <1>2 DEF BoardSafe, BoardTypes
<1> HIDE DEF new
<1>8. /\ drag' \in [Drags -> Moved]
      /\ drag'[d] = new /\ \A e \in Drags : e # d => drag'[e] = drag[e]
      /\ \A e \in Drags : drag'[e].on <=> drag[e].on
  <2>1. /\ drag' \in [Drags -> Moved] /\ drag'[d] = new
        /\ \A e \in Drags : e # d => drag'[e] = drag[e]
    BY <1>6, <1>7
  <2>2. ASSUME NEW e \in Drags
        PROVE  drag'[e].on <=> drag[e].on
    BY <1>1, <1>2, <1>6, <2>1
  <2> QED
    BY <2>1, <2>2
<1>9. BoardTypes'
  BY <1>2, <1>8 DEF BoardSafe, BoardTypes
<1>10. /\ \A j \in DOMAIN loads : loads[j].answer \in Nat
       /\ create.commit \in Nat /\ \A p \in Projects : told[p] \in Nat
  BY NumbersOfTheBoard DEF BoardSafe
<1>11. \A p \in Projects : told[p] =< Len(log')
  BY <1>4, <1>10 DEF BoardSafe, InTheLog
<1>12. InTheLog'
  <2>1. \A j \in DOMAIN loads : loads[j].answer =< Len(log')
    BY <1>4, <1>10 DEF BoardSafe, InTheLog
  <2>2. create.commit =< Len(log')
    BY <1>4, <1>10 DEF BoardSafe, InTheLog
  <2>3. create.on /\ create.commit # 0 => log'[create.commit][create.id].here
    <3>1. create.commit # 0 => create.commit \in 1 .. Len(log)
      BY <1>4, <1>10 DEF BoardSafe, InTheLog
    <3> QED
      BY <1>4, <3>1 DEF BoardSafe, InTheLog
  <2>4. ASSUME NEW e \in Drags, drag'[e].on, drag'[e].step = "ok"
        PROVE  /\ drag'[e].commit \in 1 .. Len(log')
               /\ log'[drag'[e].commit][drag'[e].id].here
    <3>1. CASE e = d
      <4>1. Len(log') \in 1 .. Len(log') /\ log'[Len(log')][w.id].here
        BY <1>3, <1>4 DEF Current
      <4> QED
        BY <1>6, <1>8, <3>1, <4>1
    <3>2. CASE e # d
      <4>1. drag'[e] = drag[e]
        BY <1>8, <3>2
      <4>2. drag[e].commit \in 1 .. Len(log) /\ log[drag[e].commit][drag[e].id].here
        BY <2>4, <4>1 DEF BoardSafe, InTheLog
      <4> QED
        BY <1>4, <4>1, <4>2
    <3> QED
      BY <3>1, <3>2
  <2> QED
    BY <1>2, <1>11, <2>1, <2>2, <2>3, <2>4 DEF InTheLog
<1>13. LoneLoad'
  <2>1. \A j \in DOMAIN loads : loads[j].met
    BY <1>1, <1>2 DEF BoardSafe, LoneLoad
  <2> QED
    BY <1>2, <2>1 DEF LoneLoad
<1>14. OneAtATime'
  BY <1>2, <1>8 DEF BoardSafe, OneAtATime
<1>15. CardsStand'
  <2>1. ASSUME NEW list, Good(list, log, told)
        PROVE  Good(list, log', told)
    BY <1>4, <2>1, GoodStays
  <2>2. ASSUME clean, NEW e \in Drags, drag'[e].on
        PROVE  /\ Good(drag'[e].snapshot, log', told)
               /\ cards = Patched(drag'[e].snapshot, drag'[e].id, drag'[e].target)
               /\ told[drag'[e].id] =< drag'[e].commit
    <3>1. e = d
      BY <1>1, <1>2, <1>8, <2>2 DEF BoardSafe, OneAtATime
    <3>2. /\ Good(w.snapshot, log, told) /\ cards = Patched(w.snapshot, w.id, w.target)
      BY <1>1, <1>2, <2>2 DEF BoardSafe, CardsStand
    <3>3. Good(w.snapshot, log', told)
      BY <2>1, <3>2
    <3>4. told[w.id] =< Len(log')
      BY <1>11 DEF Moved
    <3>5. drag'[e] = new
      BY <1>8, <3>1
    <3> QED
      BY <1>6, <3>2, <3>3, <3>4, <3>5
  <2>3. ~(\A e \in Drags : ~drag'[e].on)
    BY <1>2, <1>6, <1>8
  <2>4. create.on /\ clean => \A j \in DOMAIN cards : cards[j].id # create.id
    BY DEF BoardSafe, CardsStand
  <2> QED
    BY <1>2, <2>2, <2>3, <2>4 DEF CardsStand
<1> QED
  BY <1>3, <1>9, <1>12, <1>13, <1>14, <1>15 DEF BoardSafe

\* The answer of a move takes the place of the card.
LEMMA MoveDoneSafe ==
    ASSUME RowsSafe, BoardSafe, NEW d \in Drags, MoveDone(d)
    PROVE  BoardSafe' /\ UNCHANGED rowVars
<1>1. PICK w \in Moved : w = drag[d]
  BY NumbersOfTheBoard DEF BoardSafe
<1> DEFINE stage == log[w.commit][w.id].stage
<1>2. /\ w.on /\ w.step = "ok" /\ cards' = Patched(cards, w.id, stage)
      /\ told' = [told EXCEPT ![w.id] = Max({told[w.id], w.commit})]
      /\ drag' = [drag EXCEPT ![d] = NoDrag]
      /\ status' = status /\ filter' = filter /\ loads' = loads /\ create' = create
      /\ clean' = clean /\ log' = log /\ UNCHANGED rowVars
  BY <1>1 DEF MoveDone, rowVars
<1>3. /\ w.id \in Projects /\ w.target \in Columns /\ w.snapshot \in Seq(Card)
      /\ told[w.id] \in Nat /\ told[w.id] =< Len(log) /\ told \in [Projects -> 0..MaxCommits + 1]
      /\ cards \in Seq(Card) /\ drag \in [Drags -> Moved]
  BY NumbersOfTheBoard DEF BoardSafe, BoardTypes, InTheLog, Moved
<1>4. /\ w.commit \in 1 .. Len(log) /\ log[w.commit][w.id].here
      /\ Len(log) \in Nat /\ Len(log) =< MaxCommits + 1 /\ MaxCommits \in Nat
  BY <1>1, <1>2, RowsShape DEF BoardSafe, InTheLog
<1>5. stage \in Columns
  <2>1. log[w.commit][w.id] \in ProjectRow
    BY <1>3, <1>4, RowsShape
  <2> QED
    BY <2>1 DEF ProjectRow
<1> HIDE DEF stage
<1>6. /\ NoDrag \in Moved /\ ~NoDrag.on
  BY BoardShape DEF BoardSafe, NoDrag
<1>7. /\ drag' \in [Drags -> Moved] /\ ~drag'[d].on
      /\ \A e \in Drags : e # d => drag'[e] = drag[e]
  BY <1>2, <1>3, <1>6
<1>8. /\ cards' \in Seq(Card) /\ DOMAIN cards' = DOMAIN cards
      /\ \A i \in DOMAIN cards :
            /\ cards'[i].id = cards[i].id
            /\ cards'[i].stage = IF cards[i].id = w.id THEN stage ELSE cards[i].stage
  BY <1>2, <1>3, <1>5, PatchedList
<1>9. PICK later \in Nat : /\ told' = [told EXCEPT ![w.id] = later]
                           /\ later =< Len(log) /\ later >= told[w.id]
                           /\ told[w.id] =< w.commit => later = w.commit
  <2>1. w.commit \in Nat
    BY <1>4
  <2> DEFINE later == Max({told[w.id], w.commit})
  <2>2. later = IF told[w.id] >= w.commit THEN told[w.id] ELSE w.commit
    BY <1>3, <2>1, LaterOfTwo
  <2>3. told' = [told EXCEPT ![w.id] = later]
    BY <1>2
  <2> HIDE DEF later
  <2>4. w.commit =< Len(log)
    BY <1>4
  <2>5. later \in Nat /\ later =< Len(log) /\ later >= told[w.id]
    BY <1>3, <1>4, <2>1, <2>2, <2>4
  <2>6. told[w.id] =< w.commit => later = w.commit
    BY <1>3, <2>1, <2>2
  <2> QED
    BY <2>3, <2>5, <2>6
<1>10. /\ told' \in [Projects -> 0..MaxCommits + 1] /\ told'[w.id] = later
       /\ \A p \in Projects : p # w.id => told'[p] = told[p]
  <2>1. later \in 0 .. MaxCommits + 1
    BY <1>4, <1>9
  <2> QED
    BY <1>3, <1>9, <2>1
<1>11. BoardTypes'
  BY <1>2, <1>7, <1>8, <1>10 DEF BoardSafe, BoardTypes
<1>12. InTheLog'
  <2>1. \A p \in Projects : told'[p] =< Len(log)
    BY <1>9, <1>10 DEF BoardSafe, InTheLog
  <2>2. ASSUME NEW e \in Drags, drag'[e].on, drag'[e].step = "ok"
        PROVE  /\ drag'[e].commit \in 1 .. Len(log)
               /\ log[drag'[e].commit][drag'[e].id].here
    BY <1>7, <2>2 DEF BoardSafe, InTheLog
  <2> QED
    BY <1>2, <2>1, <2>2 DEF BoardSafe, InTheLog
<1>13. LoneLoad'
  <2>1. \A j \in DOMAIN loads : loads[j].met
    BY <1>1, <1>2 DEF BoardSafe, LoneLoad
  <2> QED
    BY <1>2, <2>1 DEF LoneLoad
<1>14. clean => /\ ~create.on /\ \A e \in Drags : ~drag'[e].on
  <2>1. ASSUME clean, NEW e \in Drags, drag'[e].on
        PROVE  FALSE
    BY <1>1, <1>2, <1>7, <2>1 DEF BoardSafe, OneAtATime
  <2>2. clean => ~create.on
    BY <1>1, <1>2 DEF BoardSafe, OneAtATime
  <2> QED
    BY <2>1, <2>2
<1>15. OneAtATime'
  BY <1>2, <1>14 DEF BoardSafe, OneAtATime
<1>16. CardsStand'
  <2>1. ASSUME clean
        PROVE  /\ Good(w.snapshot, log, told) /\ cards = Patched(w.snapshot, w.id, w.target)
               /\ later = w.commit
    BY <1>1, <1>2, <1>9, <2>1 DEF BoardSafe, CardsStand
  <2>2. ASSUME clean
        PROVE  /\ DOMAIN cards = DOMAIN w.snapshot
               /\ \A i \in DOMAIN cards :
                     /\ cards[i].id = w.snapshot[i].id
                     /\ cards[i].id # w.id => cards[i].stage = w.snapshot[i].stage
    <3>1. /\ DOMAIN Patched(w.snapshot, w.id, w.target) = DOMAIN w.snapshot
          /\ \A i \in DOMAIN w.snapshot :
                /\ Patched(w.snapshot, w.id, w.target)[i].id = w.snapshot[i].id
                /\ Patched(w.snapshot, w.id, w.target)[i].stage
                      = IF w.snapshot[i].id = w.id THEN w.target ELSE w.snapshot[i].stage
      BY <1>3, PatchedList
    <3> QED
      BY <2>1, <2>2, <3>1
  <2>3. ASSUME clean, NEW i \in DOMAIN cards'
        PROVE  Stands(cards'[i], log, told')
    <3>1. CASE cards[i].id = w.id
      <4>1. /\ cards'[i].id = w.id /\ cards'[i].stage = stage /\ told'[w.id] = w.commit
        BY <1>8, <1>10, <2>1, <2>3, <3>1
      <4>2. w.commit >= w.commit /\ log[w.commit][w.id].stage = stage
        BY <1>4 DEF stage
      <4> QED
        BY <1>4, <4>1, <4>2 DEF Stands
    <3>2. CASE cards[i].id # w.id
      <4>1. /\ cards'[i].id = w.snapshot[i].id /\ cards'[i].stage = w.snapshot[i].stage
            /\ i \in DOMAIN w.snapshot
        BY <1>8, <2>2, <2>3, <3>2
      <4>2. w.snapshot[i].id \in Projects /\ w.snapshot[i].id # w.id
        <5>1. w.snapshot[i] \in Card
          BY <1>3, <4>1
        <5> QED
          BY <2>2, <2>3, <3>2, <1>8, <5>1 DEF Card
      <4>3. Stands(w.snapshot[i], log, told)
        BY <2>1, <2>3, <4>1 DEF Good
      <4> QED
        BY <1>10, <4>1, <4>2, <4>3 DEF Stands
    <3> QED
      BY <3>1, <3>2
  <2>4. ASSUME clean, NEW i \in DOMAIN cards', NEW j \in DOMAIN cards',
               cards'[i].id = cards'[j].id
        PROVE  i = j
    BY <1>8, <2>1, <2>2, <2>4 DEF Good
  <2>5. clean => Good(cards', log, told')
    BY <2>3, <2>4 DEF Good
  <2> QED
    BY <1>2, <1>14, <2>5 DEF CardsStand
<1> QED
  BY <1>2, <1>11, <1>12, <1>13, <1>15, <1>16 DEF BoardSafe

\* A move that fails puts the list back as it was.
LEMMA MoveFailedSafe ==
    ASSUME RowsSafe, BoardSafe, NEW d \in Drags, MoveFailed(d)
    PROVE  BoardSafe' /\ UNCHANGED rowVars
<1>1. PICK w \in Moved : w = drag[d]
  BY NumbersOfTheBoard DEF BoardSafe
<1>2. /\ w.on /\ cards' = w.snapshot /\ drag' = [drag EXCEPT ![d] = NoDrag]
      /\ status' = status /\ filter' = filter /\ loads' = loads /\ create' = create
      /\ told' = told /\ clean' = clean /\ log' = log /\ UNCHANGED rowVars
  BY <1>1 DEF MoveFailed, rowVars
<1>3. w.snapshot \in Seq(Card) /\ drag \in [Drags -> Moved]
  BY DEF BoardSafe, BoardTypes, Moved
<1>4. /\ NoDrag \in Moved /\ ~NoDrag.on
  BY BoardShape DEF BoardSafe, NoDrag
<1>5. /\ drag' \in [Drags -> Moved] /\ ~drag'[d].on
      /\ \A e \in Drags : e # d => drag'[e] = drag[e]
  BY <1>2, <1>3, <1>4
<1>6. BoardTypes'
  BY <1>2, <1>3, <1>5 DEF BoardSafe, BoardTypes
<1>7. InTheLog'
  <2>1. ASSUME NEW e \in Drags, drag'[e].on, drag'[e].step = "ok"
        PROVE  /\ drag'[e].commit \in 1 .. Len(log)
               /\ log[drag'[e].commit][drag'[e].id].here
    BY <1>5, <2>1 DEF BoardSafe, InTheLog
  <2> QED
    BY <1>2, <2>1 DEF BoardSafe, InTheLog
<1>8. LoneLoad'
  <2>1. \A j \in DOMAIN loads : loads[j].met
    BY <1>1, <1>2 DEF BoardSafe, LoneLoad
  <2> QED
    BY <1>2, <2>1 DEF LoneLoad
<1>9. clean => /\ ~create.on /\ \A e \in Drags : ~drag'[e].on
  <2>1. ASSUME clean, NEW e \in Drags, drag'[e].on
        PROVE  FALSE
    BY <1>1, <1>2, <1>5, <2>1 DEF BoardSafe, OneAtATime
  <2>2. clean => ~create.on
    BY <1>1, <1>2 DEF BoardSafe, OneAtATime
  <2> QED
    BY <2>1, <2>2
<1>10. OneAtATime'
  BY <1>2, <1>9 DEF BoardSafe, OneAtATime
<1>11. CardsStand'
  <2>1. clean => Good(w.snapshot, log, told)
    BY <1>1, <1>2 DEF BoardSafe, CardsStand
  <2> QED
    BY <1>2, <1>9, <2>1 DEF CardsStand
<1> QED
  BY <1>2, <1>6, <1>7, <1>8, <1>10, <1>11 DEF BoardSafe

\* The create dialog: what is created is not on the board yet.
LEMMA SubmitCreateSafe ==
    ASSUME RowsSafe, BoardSafe, NEW p \in Projects, SubmitCreate(p)
    PROVE  BoardSafe' /\ UNCHANGED rowVars
<1>1. /\ ~Current[p].here /\ create' = [on |-> TRUE, id |-> p, commit |-> 0]
      /\ Meet(<<>>) /\ cards' = cards /\ status' = status /\ filter' = filter
      /\ drag' = drag /\ told' = told /\ log' = log /\ UNCHANGED rowVars
  BY DEF SubmitCreate, rowVars
<1>2. /\ loads' \in Seq(Load) /\ Len(loads') =< MaxInFlight
      /\ \A j \in DOMAIN loads' :
            loads'[j].met /\ j \in DOMAIN loads /\ loads'[j].answer = loads[j].answer
      /\ loads # <<>> => loads' # <<>>
      /\ clean' \in BOOLEAN
      /\ clean' => /\ clean /\ loads' = <<>> /\ ~create.on
                   /\ \A d \in Drags : ~drag[d].on
  BY <1>1, MeetingAlone
<1>3. /\ create' \in [on: BOOLEAN, id: Projects, commit: 0..MaxCommits + 1]
      /\ create'.on /\ create'.id = p /\ create'.commit = 0
  <2>1. 0 \in 0 .. MaxCommits + 1
    BY RowsAssumption
  <2> QED
    BY <1>1, <2>1
<1>4. BoardTypes'
  BY <1>1, <1>2, <1>3 DEF BoardSafe, BoardTypes
<1>5. InTheLog'
  <2>1. \A j \in DOMAIN loads' : loads'[j].answer =< Len(log)
    BY <1>2 DEF BoardSafe, InTheLog
  <2>2. 0 =< Len(log)
    BY RowsShape
  <2> QED
    BY <1>1, <1>3, <2>1, <2>2 DEF BoardSafe, InTheLog
<1>6. LoneLoad'
  BY <1>2 DEF LoneLoad
<1>7. OneAtATime'
  BY <1>1, <1>2 DEF OneAtATime
<1>8. CardsStand'
  <2>1. clean' => Good(cards, log, told)
    BY <1>2 DEF BoardSafe, CardsStand
  <2>2. ASSUME clean', NEW i \in DOMAIN cards
        PROVE  cards[i].id # p
    <3>1. cards[i].id \in Projects
      BY BoardShape DEF BoardSafe, Card
    <3>2. PICK n \in 1 .. Len(log) : log[n][cards[i].id].here
      BY <2>1, <2>2 DEF Good, Stands
    <3>3. Current[cards[i].id].here
      BY <3>1, <3>2 DEF RowsSafe
    <3> QED
      BY <1>1, <3>3
  <2> QED
    BY <1>1, <1>2, <1>3, <2>1, <2>2 DEF CardsStand
<1> QED
  BY <1>1, <1>4, <1>5, <1>6, <1>7, <1>8 DEF BoardSafe

\* POST /projects.
LEMMA ServeCreateSafe ==
    ASSUME RowsSafe, BoardSafe, ServeCreate
    PROVE  BoardSafe' /\ Grown
<1>1. PICK c \in [on: BOOLEAN, id: Projects, commit: 0..MaxCommits + 1] : c = create
  BY DEF BoardSafe, BoardTypes
<1>2. /\ c.on /\ c.id \in Projects
      /\ Commit(c.id, [Current[c.id] EXCEPT !.here = TRUE])
      /\ create' = [c EXCEPT !.commit = Len(log')]
      /\ cards' = cards /\ status' = status /\ filter' = filter /\ loads' = loads
      /\ drag' = drag /\ told' = told /\ clean' = clean
  BY <1>1 DEF ServeCreate
<1>3. Grown /\ log'[Len(log')][c.id].here
  <2>1. PICK row \in ProjectRow : row = [Current[c.id] EXCEPT !.here = TRUE] /\ row.here
    <3>1. PICK old \in ProjectRow : old = Current[c.id]
      BY <1>2, RowsShape
    <3>2. [old EXCEPT !.here = TRUE] \in ProjectRow /\ [old EXCEPT !.here = TRUE].here
      BY DEF ProjectRow
    <3> QED
      BY <3>1, <3>2
  <2>2. Grown /\ log'[Len(log')] = [Current EXCEPT ![c.id] = row]
    BY <1>2, <2>1, Committed
  <2> QED
    BY <1>2, <2>1, <2>2, RowsShape
<1>4. /\ Len(log) \in Nat /\ Len(log') \in Nat \ {0} /\ Len(log') >= Len(log)
      /\ Len(log') =< MaxCommits + 1 /\ MaxCommits \in Nat
      /\ \A n \in 1 .. Len(log) : log'[n] = log[n]
  BY <1>3, GrownShape
<1>5. /\ create' \in [on: BOOLEAN, id: Projects, commit: 0..MaxCommits + 1]
      /\ create'.on /\ create'.id = c.id /\ create'.commit = Len(log')
  <2>1. Len(log') \in 0 .. MaxCommits + 1
    BY <1>4
  <2> QED
    BY <1>2, <2>1
<1>6. BoardTypes'
  BY <1>2, <1>5 DEF BoardSafe, BoardTypes
<1>7. /\ \A j \in DOMAIN loads : loads[j].answer \in Nat
      /\ \A p \in Projects : told[p] \in Nat
  BY NumbersOfTheBoard DEF BoardSafe
<1>8. InTheLog'
  <2>1. \A j \in DOMAIN loads : loads[j].answer =< Len(log')
    BY <1>4, <1>7 DEF BoardSafe, InTheLog
  <2>2. \A p \in Projects : told[p] =< Len(log')
    BY <1>4, <1>7 DEF BoardSafe, InTheLog
  <2>3. ASSUME NEW e \in Drags, drag[e].on, drag[e].step = "ok"
        PROVE  /\ drag[e].commit \in 1 .. Len(log')
               /\ log'[drag[e].commit][drag[e].id].here
    BY <1>4, <2>3 DEF BoardSafe, InTheLog
  <2>4. create'.commit =< Len(log')
    BY <1>4, <1>5
  <2> QED
    BY <1>2, <1>3, <1>5, <2>1, <2>2, <2>3, <2>4 DEF InTheLog
<1>9. LoneLoad'
  <2>1. \A j \in DOMAIN loads : loads[j].met
    BY <1>1, <1>2 DEF BoardSafe, LoneLoad
  <2> QED
    BY <1>2, <2>1 DEF LoneLoad
<1>10. clean => \A e \in Drags : ~drag[e].on
  BY <1>1, <1>2 DEF BoardSafe, OneAtATime
<1>11. OneAtATime'
  BY <1>2, <1>10 DEF BoardSafe, OneAtATime
<1>12. CardsStand'
  <2>1. clean => Good(cards, log, told) /\ \A i \in DOMAIN cards : cards[i].id # c.id
    BY <1>1, <1>2, <1>10 DEF BoardSafe, CardsStand
  <2>2. clean => Good(cards, log', told)
    BY <1>4, <2>1, GoodStays
  <2> QED
    BY <1>2, <1>5, <1>10, <2>1, <2>2 DEF CardsStand
<1> QED
  BY <1>3, <1>6, <1>8, <1>9, <1>11, <1>12 DEF BoardSafe

\* onCreated: what was created comes first.
LEMMA CreatedSafe ==
    ASSUME RowsSafe, BoardSafe, Created
    PROVE  BoardSafe' /\ UNCHANGED rowVars
<1>1. PICK c \in [on: BOOLEAN, id: Projects, commit: 0..MaxCommits + 1] : c = create
  BY DEF BoardSafe, BoardTypes
<1> DEFINE x == [id |-> c.id, stage |-> log[c.commit][c.id].stage]
<1>2. /\ c.on /\ c.commit # 0 /\ cards' = <<x>> \o cards
      /\ told' = [told EXCEPT ![c.id] = c.commit] /\ create' = NoCreate
      /\ status' = status /\ filter' = filter /\ loads' = loads /\ drag' = drag
      /\ clean' = clean /\ log' = log /\ UNCHANGED rowVars
  BY <1>1 DEF Created, rowVars
<1>3. /\ c.id \in Projects /\ c.commit \in 1 .. Len(log) /\ log[c.commit][c.id].here
      /\ Len(log) \in Nat
  <2>1. c.commit \in Nat /\ c.commit =< Len(log) /\ c.id \in Projects
    BY <1>1, NumbersOfTheBoard DEF BoardSafe, InTheLog
  <2>2. log[c.commit][c.id].here
    BY <1>1, <1>2 DEF BoardSafe, InTheLog
  <2> QED
    BY <1>2, <2>1, <2>2, RowsShape
<1>4. x \in Card /\ x.id = c.id /\ x.stage = log[c.commit][c.id].stage
  <2>1. log[c.commit][c.id] \in ProjectRow
    BY <1>3, RowsShape
  <2> QED
    BY <1>3, <2>1 DEF Card, ProjectRow
<1> HIDE DEF x
<1>5. /\ cards \in Seq(Card) /\ Len(cards) \in Nat /\ DOMAIN cards = 1 .. Len(cards)
      /\ \A i \in DOMAIN cards : cards[i] \in Card
  BY BoardShape DEF BoardSafe, BoardTypes
<1>6. /\ cards' \in Seq(Card)
      /\ \A i \in DOMAIN cards' :
            \/ i = 1 /\ cards'[i] = x
            \/ i # 1 /\ i - 1 \in DOMAIN cards /\ cards'[i] = cards[i - 1]
  <2> DEFINE s == <<x>> \o cards
  <2>1. <<x>> \in Seq(Card) /\ Len(<<x>>) = 1 /\ <<x>>[1] = x
    BY <1>4
  <2>2. /\ s \in Seq(Card) /\ Len(s) = 1 + Len(cards)
        /\ \A i \in 1 .. 1 + Len(cards) : s[i] = IF i <= 1 THEN <<x>>[i] ELSE cards[i - 1]
    <3>1. /\ s \in Seq(Card) /\ Len(s) = Len(<<x>>) + Len(cards)
          /\ \A i \in 1 .. Len(<<x>>) + Len(cards) :
                s[i] = IF i <= Len(<<x>>) THEN <<x>>[i] ELSE cards[i - Len(<<x>>)]
      BY <1>5, <2>1, ConcatProperties
    <3> HIDE DEF s
    <3> QED
      BY <2>1, <3>1
  <2>3. cards' = s
    BY <1>2
  <2> HIDE DEF s
  <2>4. ASSUME NEW i \in 1 .. 1 + Len(cards)
        PROVE  \/ i = 1 /\ s[i] = x
               \/ i # 1 /\ i - 1 \in DOMAIN cards /\ s[i] = cards[i - 1]
    BY <1>5, <2>1, <2>2
  <2>5. DOMAIN s = 1 .. 1 + Len(cards)
    BY <1>5, <2>2
  <2> QED
    BY <2>2, <2>3, <2>4, <2>5
<1>7. /\ told \in [Projects -> 0..MaxCommits + 1] /\ c.commit \in 0 .. MaxCommits + 1
  BY DEF BoardSafe, BoardTypes
<1>8. /\ told' \in [Projects -> 0..MaxCommits + 1] /\ told'[c.id] = c.commit
      /\ \A p \in Projects : p # c.id => told'[p] = told[p]
  BY <1>2, <1>3, <1>7
<1>9. create' \in [on: BOOLEAN, id: Projects, commit: 0..MaxCommits + 1] /\ ~create'.on
      /\ create'.commit = 0
  BY <1>2, BoardShape DEF BoardSafe, NoCreate
<1>10. BoardTypes'
  BY <1>2, <1>6, <1>8, <1>9 DEF BoardSafe, BoardTypes
<1>11. InTheLog'
  <2>1. \A p \in Projects : told'[p] =< Len(log)
    BY <1>3, <1>8 DEF BoardSafe, InTheLog
  <2>2. create'.commit =< Len(log)
    BY <1>3, <1>9
  <2> QED
    BY <1>2, <1>9, <2>1, <2>2 DEF BoardSafe, InTheLog
<1>12. LoneLoad'
  <2>1. \A j \in DOMAIN loads : loads[j].met
    BY <1>1, <1>2 DEF BoardSafe, LoneLoad
  <2> QED
    BY <1>2, <2>1 DEF LoneLoad
<1>13. clean => \A e \in Drags : ~drag[e].on
  BY <1>1, <1>2 DEF BoardSafe, OneAtATime
<1>14. OneAtATime'
  BY <1>2, <1>9, <1>13 DEF BoardSafe, OneAtATime
<1>15. CardsStand'
  <2>1. clean => Good(cards, log, told) /\ \A i \in DOMAIN cards : cards[i].id # c.id
    BY <1>1, <1>2, <1>13 DEF BoardSafe, CardsStand
  <2>2. ASSUME clean, NEW i \in DOMAIN cards'
        PROVE  Stands(cards'[i], log, told')
    <3>1. CASE cards'[i] = x
      <4>1. c.commit >= told'[c.id]
        BY <1>3, <1>8
      <4> QED
        BY <1>3, <1>4, <3>1, <4>1 DEF Stands
    <3>2. CASE i # 1
      <4>1. i - 1 \in DOMAIN cards /\ cards'[i] = cards[i - 1]
        BY <1>6, <2>2, <3>2
      <4>2. Stands(cards[i - 1], log, told) /\ cards[i - 1].id # c.id
        BY <2>1, <2>2, <4>1 DEF Good
      <4>3. cards[i - 1].id \in Projects
        BY <1>5, <4>1 DEF Card
      <4> QED
        BY <1>8, <4>1, <4>2, <4>3 DEF Stands
    <3> QED
      BY <1>6, <2>2, <3>1, <3>2
  <2>3. ASSUME clean, NEW i \in DOMAIN cards', NEW j \in DOMAIN cards',
               cards'[i].id = cards'[j].id
        PROVE  i = j
    <3>1. i \in Int /\ j \in Int
      <4>1. DOMAIN cards' = 1 .. Len(cards')
        BY <1>6
      <4> QED
        BY <4>1
    <3>2. ASSUME i = 1 PROVE j = 1
      BY <1>4, <1>6, <2>1, <2>3, <3>2
    <3>3. ASSUME j = 1 PROVE i = 1
      BY <1>4, <1>6, <2>1, <2>3, <3>3
    <3>4. ASSUME i # 1, j # 1 PROVE i = j
      <4>1. /\ i - 1 \in DOMAIN cards /\ cards'[i] = cards[i - 1]
            /\ j - 1 \in DOMAIN cards /\ cards'[j] = cards[j - 1]
        BY <1>6, <3>4
      <4>2. i - 1 = j - 1
        BY <2>1, <2>3, <4>1 DEF Good
      <4> QED
        BY <3>1, <4>2
    <3> QED
      BY <3>2, <3>3, <3>4
  <2>4. clean => Good(cards', log, told')
    BY <2>2, <2>3 DEF Good
  <2> QED
    BY <1>2, <1>9, <1>13, <2>4 DEF CardsStand
<1> QED
  BY <1>2, <1>10, <1>11, <1>12, <1>14, <1>15 DEF BoardSafe

LEMMA CreateFailedSafe ==
    ASSUME RowsSafe, BoardSafe, CreateFailed
    PROVE  BoardSafe' /\ UNCHANGED rowVars
<1>1. /\ create.on /\ create' = NoCreate /\ cards' = cards /\ status' = status
      /\ filter' = filter /\ loads' = loads /\ drag' = drag /\ told' = told
      /\ clean' = clean /\ log' = log /\ UNCHANGED rowVars
  BY DEF CreateFailed, rowVars
<1>2. create' \in [on: BOOLEAN, id: Projects, commit: 0..MaxCommits + 1] /\ ~create'.on
      /\ create'.commit = 0
  BY <1>1, BoardShape DEF BoardSafe, NoCreate
<1>3. BoardTypes'
  BY <1>1, <1>2 DEF BoardSafe, BoardTypes
<1>4. InTheLog'
  <2>1. create'.commit =< Len(log)
    BY <1>2, RowsShape
  <2> QED
    BY <1>1, <1>2, <2>1 DEF BoardSafe, InTheLog
<1>5. LoneLoad'
  BY <1>1, <1>2 DEF BoardSafe, LoneLoad
<1>6. OneAtATime'
  BY <1>1, <1>2 DEF BoardSafe, OneAtATime
<1>7. CardsStand'
  BY <1>1, <1>2 DEF BoardSafe, CardsStand
<1> QED
  BY <1>1, <1>3, <1>4, <1>5, <1>6, <1>7 DEF BoardSafe

\* Every step of the board.
LEMMA BoardStepSafe ==
    ASSUME RowsSafe, BoardSafe, BoardStep
    PROVE  BoardSafe' /\ Grown
<1>1. UNCHANGED rowVars => Grown
  BY RowsStay
<1>2. ASSUME NEW f \in Filters, SetFilter(f)
      PROVE  BoardSafe' /\ UNCHANGED rowVars
  <2>1. /\ f \in Filter /\ AskFor(f) /\ filter' = f /\ UNCHANGED rowVars
    BY <1>2, BoardAssumption DEF SetFilter
  <2> QED
    BY <2>1, AskForSafe
<1>3. ASSUME Retry
      PROVE  BoardSafe' /\ UNCHANGED rowVars
  <2>1. /\ AskFor(filter) /\ filter' = filter /\ UNCHANGED rowVars
    BY <1>3 DEF Retry, rowVars
  <2>2. filter \in Filter
    BY DEF BoardSafe, BoardTypes
  <2> QED
    BY <2>1, <2>2, AskForSafe
<1>4. ASSUME Loading
      PROVE  BoardSafe' /\ UNCHANGED rowVars
  BY <1>4, LoadingSafe DEF Loading
<1>5. ASSUME NEW d \in Drags, Moving(d)
      PROVE  BoardSafe' /\ Grown
  BY <1>1, <1>5, ServeMoveSafe, MoveDoneSafe, MoveFailedSafe DEF Moving
<1>6. ASSUME Creating
      PROVE  BoardSafe' /\ Grown
  BY <1>1, <1>6, ServeCreateSafe, CreatedSafe, CreateFailedSafe DEF Creating
<1>7. ASSUME NEW i \in DOMAIN cards, NEW target \in Columns, Drop(i, target)
      PROVE  BoardSafe' /\ UNCHANGED rowVars
  BY <1>7, DropSafe
<1>8. ASSUME NEW p \in Projects, SubmitCreate(p)
      PROVE  BoardSafe' /\ UNCHANGED rowVars
  BY <1>8, SubmitCreateSafe
<1> QED
  BY <1>1, <1>2, <1>3, <1>4, <1>5, <1>6, <1>7, <1>8 DEF BoardStep

-----------------------------------------------------------------------------
\* The page of a project: what its parts are.

LEMMA PageShape ==
    ASSUME RowsSafe, PageSafe
    PROVE  /\ MaxCalls \in Nat \ {0} /\ Here \in Projects
           /\ Len(calls) \in Nat /\ DOMAIN calls = 1 .. Len(calls)
           /\ \A i \in DOMAIN calls : /\ calls[i] \in Call
                                      /\ calls[i].answer \in Nat /\ calls[i].own \in Nat
           /\ \A n \in 1 .. Len(log) : log[n][Here] \in ProjectRow
           /\ Current[Here] \in ProjectRow
<1>1. MaxCalls \in Nat \ {0} /\ Here \in Projects
  BY PageAssumption
<1>2. calls \in Seq(Call) /\ MaxCommits \in Nat
  BY RowsShape DEF PageSafe, CallsSafe
<1>3. Len(calls) \in Nat /\ DOMAIN calls = 1 .. Len(calls) /\ \A i \in DOMAIN calls : calls[i] \in Call
  BY <1>2
<1>4. \A i \in DOMAIN calls : calls[i].answer \in Nat /\ calls[i].own \in Nat
  BY <1>2, <1>3 DEF Call
<1>5. \A n \in 1 .. Len(log) : log[n][Here] \in ProjectRow
  BY <1>1, RowsShape
<1>6. Current[Here] \in ProjectRow
  BY <1>1, RowsShape
<1> QED
  BY <1>1, <1>3, <1>4, <1>5, <1>6

\* The contents of a row may stand in a form, and what a form holds in a row.
LEMMA BriefsFit ==
    /\ \A row \in ProjectRow :
          /\ row.brief \in [Fields -> (UNION Range(Texts)) \cup {Blank}]
          /\ Fillable(row.brief)
    /\ NoBrief \in [Fields -> (UNION Range(Texts)) \cup {Blank}] /\ Fillable(NoBrief)
    /\ \A f \in Fields : Texts[f] \subseteq UNION Range(Texts)
<1>1. \A row \in ProjectRow : row.brief \in Brief
  BY DEF ProjectRow
<1>2. \A b \in Brief : /\ b \in [Fields -> (UNION Range(Texts)) \cup {Blank}]
                       /\ Fillable(b)
  BY DEF Brief, Fillable, Contents
<1>3. NoBrief \in [Fields -> (UNION Range(Texts)) \cup {Blank}] /\ Fillable(NoBrief)
  <2>1. \A f \in Fields : NoBrief[f] = Blank
    BY DEF NoBrief
  <2>2. Fillable(NoBrief)
    BY <2>1 DEF Fillable, Contents
  <2>3. NoBrief \in [Fields -> (UNION Range(Texts)) \cup {Blank}]
    <3> DEFINE S == (UNION Range(Texts)) \cup {Blank}
    <3>1. Blank \in S
      OBVIOUS
    <3> HIDE DEF S
    <3>2. NoBrief \in [Fields -> S]
      BY <3>1 DEF NoBrief
    <3> QED
      BY <3>2 DEF S
  <2> QED
    BY <2>2, <2>3
<1>4. \A f \in Fields : Texts[f] \subseteq UNION Range(Texts)
  BY RowsAssumption DEF Range
<1> QED
  BY <1>1, <1>2, <1>3, <1>4

\* A form that has just been filled in.
LEMMA FormsFit ==
    ASSUME RowsSafe
    PROVE  /\ FormSafe(NoForm, Len(log)) /\ ~NoForm.saving
           /\ \A n \in 1 .. Len(log) : FormSafe(FormOf(n), Len(log)) /\ ~FormOf(n).saving
<1>1. Len(log) \in Nat
  BY RowsShape
<1>2. FormSafe(NoForm, Len(log)) /\ ~NoForm.saving
  BY <1>1, BriefsFit DEF NoForm, FormSafe, Form
<1>3. ASSUME NEW n \in 1 .. Len(log)
      PROVE  FormSafe(FormOf(n), Len(log)) /\ ~FormOf(n).saving
  <2>1. log[n][Here] \in ProjectRow /\ n \in Nat /\ n =< Len(log)
    BY <1>1, RowsShape, PageAssumption
  <2>2. PICK b : /\ b = log[n][Here].brief /\ Fillable(b)
                 /\ b \in [Fields -> (UNION Range(Texts)) \cup {Blank}]
    BY <2>1, BriefsFit
  <2>3. FormOf(n) = [NoForm EXCEPT !.fields = b, !.base = n]
    BY <2>2 DEF FormOf
  <2>4. NoForm \in Form /\ ~NoForm.saving
    BY <1>2 DEF FormSafe
  <2>5. /\ FormOf(n) \in Form /\ FormOf(n).fields = b /\ FormOf(n).base = n
        /\ FormOf(n).saving = NoForm.saving
    BY <2>1, <2>2, <2>3, <2>4 DEF Form
  <2> QED
    BY <2>1, <2>2, <2>4, <2>5 DEF FormSafe
<1> QED
  BY <1>2, <1>3

\* The rows grow: calls and forms are as they were.
LEMMA CallsKept ==
    ASSUME RowsSafe, PageSafe, NEW now \in Nat, now >= Len(log)
    PROVE  /\ CallsSafe(calls, now, heard) /\ FormSafe(form, now)
           /\ page.copy =< now /\ heard =< now
<1>1. Len(log) \in Nat /\ page.copy \in Nat /\ heard \in Nat /\ form.base \in Nat
  BY RowsShape DEF PageSafe, FormSafe, Form
<1>2. page.copy =< now /\ heard =< now /\ form.base =< now
  BY <1>1 DEF PageSafe, FormSafe
<1>3. ASSUME NEW i \in DOMAIN calls
      PROVE  Sound(calls[i], now)
  BY <1>1, PageShape DEF PageSafe, CallsSafe, Sound
<1> QED
  BY <1>2, <1>3 DEF PageSafe, CallsSafe, FormSafe

\* A request about the project starts.
LEMMA Sent ==
    ASSUME RowsSafe, PageSafe, NEW c \in Call, Sound(c, Len(log)), c.step = "asked",
           c.met <=> calls # <<>>, Send(c)
    PROVE  /\ CallsSafe(calls', Len(log), heard)
           /\ \A i \in DOMAIN calls :
                 i \in DOMAIN calls' /\ (calls'[i].mount <=> calls[i].mount)
           /\ \E i \in DOMAIN calls' : calls'[i] = c
           /\ apart' \in BOOLEAN /\ (apart' => apart)
<1> DEFINE old == [i \in DOMAIN calls |-> [calls[i] EXCEPT !.met = TRUE]]
<1>1. /\ Len(calls) \in Nat /\ DOMAIN calls = 1 .. Len(calls) /\ MaxCalls \in Nat
      /\ \A i \in DOMAIN calls : calls[i] \in Call /\ Sound(calls[i], Len(log))
  BY PageShape DEF PageSafe, CallsSafe
<1>2. Len(calls) < MaxCalls /\ calls' = Append(old, c) /\ apart' = (apart /\ calls = <<>>)
  BY DEF Send
<1>3. \A i \in DOMAIN calls :
         /\ old[i] \in Call /\ old[i].met /\ (old[i].mount <=> calls[i].mount)
         /\ Sound(old[i], Len(log))
  BY <1>1 DEF Call, Sound
<1>4. old \in [1 .. Len(calls) -> Call]
  BY <1>1, <1>3
<1> HIDE DEF old
<1>5. old \in Seq(Call) /\ Len(old) = Len(calls)
  BY <1>1, <1>4
<1>6. /\ calls' \in Seq(Call) /\ Len(calls') = Len(calls) + 1
      /\ \A i \in 1 .. Len(calls) : calls'[i] = old[i]
      /\ calls'[Len(calls) + 1] = c
  <2> DEFINE s == Append(old, c)
  <2>1. /\ s \in Seq(Call) /\ Len(s) = Len(old) + 1
        /\ \A i \in 1 .. Len(old) : s[i] = old[i]
        /\ s[Len(old) + 1] = c
    BY <1>5, AppendProperties
  <2>2. calls' = s
    BY <1>2
  <2> HIDE DEF s
  <2> QED
    BY <1>5, <2>1, <2>2
<1>7. /\ DOMAIN calls' = 1 .. Len(calls) + 1 /\ Len(calls) + 1 \in DOMAIN calls'
      /\ \A i \in DOMAIN calls' : i \in DOMAIN calls \/ i = Len(calls) + 1
  BY <1>1, <1>6
<1>8. \A i \in DOMAIN calls' : Sound(calls'[i], Len(log))
  BY <1>1, <1>3, <1>6, <1>7
<1>9. ASSUME NEW i \in DOMAIN calls', ~calls'[i].met
      PROVE  Len(calls') = 1 /\ calls'[i].step # "ok"
  <2>1. i = Len(calls) + 1
    BY <1>1, <1>3, <1>6, <1>7, <1>9
  <2>2. calls = <<>>
    BY <1>6, <1>9, <2>1
  <2> QED
    BY <1>6, <2>1, <2>2
<1>10. Len(calls') =< MaxCalls
  BY <1>1, <1>2, <1>6
<1>11. CallsSafe(calls', Len(log), heard)
  BY <1>6, <1>8, <1>9, <1>10 DEF CallsSafe
<1>12. \A i \in DOMAIN calls :
          i \in DOMAIN calls' /\ (calls'[i].mount <=> calls[i].mount)
  BY <1>1, <1>3, <1>6, <1>7
<1>13. apart' \in BOOLEAN /\ (apart' => apart)
  BY <1>2 DEF PageSafe
<1> QED
  BY <1>6, <1>7, <1>11, <1>12, <1>13

\* One that has ended: those that are left have met it.
LEMMA Gone ==
    ASSUME RowsSafe, PageSafe, NEW i \in DOMAIN calls, Forget(i), NEW known
    PROVE  /\ CallsSafe(calls', Len(log), known)
           /\ \A k \in DOMAIN calls \ {i} : \E j \in DOMAIN calls' : calls'[j] = calls[k]
<1>1. /\ calls \in Seq(Call) /\ Len(calls) \in Nat /\ DOMAIN calls = 1 .. Len(calls)
      /\ Len(calls) =< MaxCalls /\ MaxCalls \in Nat /\ i \in DOMAIN calls
      /\ \A k \in DOMAIN calls : /\ Sound(calls[k], Len(log))
                                 /\ ~calls[k].met => Len(calls) = 1
  BY PageShape DEF PageSafe, CallsSafe
<1> DEFINE rest == RemoveAt(calls, i)
<1>2. /\ rest \in Seq(Call) /\ Len(rest) = Len(calls) - 1
      /\ \A j \in DOMAIN rest : \E k \in DOMAIN calls \ {i} : rest[j] = calls[k]
      /\ \A k \in DOMAIN calls \ {i} : \E j \in DOMAIN rest : rest[j] = calls[k]
  <2>1. calls \in Seq(Call)
    BY <1>1
  <2>2. RemoveAt(calls, i) \in Seq(Call) /\ Len(RemoveAt(calls, i)) = Len(calls) - 1
    BY <2>1, Without
  <2>3. \A j \in DOMAIN RemoveAt(calls, i) :
           \E k \in DOMAIN calls \ {i} : RemoveAt(calls, i)[j] = calls[k]
    BY <2>1, Without
  <2>4. \A k \in DOMAIN calls \ {i} :
           \E j \in DOMAIN RemoveAt(calls, i) : RemoveAt(calls, i)[j] = calls[k]
    BY <2>1, Without
  <2> QED
    BY <2>2, <2>3, <2>4
<1>3. calls' = rest
  BY DEF Forget
<1> HIDE DEF rest
<1>4. ASSUME NEW j \in DOMAIN rest
      PROVE  rest[j].met /\ Sound(rest[j], Len(log))
  <2>1. PICK k \in DOMAIN calls \ {i} : rest[j] = calls[k]
    BY <1>2
  <2>2. Len(calls) # 1
    BY <1>1, <2>1
  <2> QED
    BY <1>1, <2>1, <2>2
<1>5. Len(rest) =< MaxCalls
  BY <1>1, <1>2
<1>6. CallsSafe(rest, Len(log), known)
  BY <1>2, <1>4, <1>5 DEF CallsSafe
<1> QED
  BY <1>2, <1>3, <1>6

\* One that has come further.
LEMMA Further ==
    ASSUME RowsSafe, PageSafe, NEW i \in DOMAIN calls, NEW c \in Call, NEW now \in Nat,
           now >= Len(log), Sound(c, now), c.met <=> calls[i].met,
           c.mount <=> calls[i].mount,
           c.step = "ok" => c.answer >= heard, calls' = [calls EXCEPT ![i] = c]
    PROVE  /\ CallsSafe(calls', now, heard)
           /\ (\E k \in DOMAIN calls : calls[k].mount)
                 => \E k \in DOMAIN calls' : calls'[k].mount
<1>1. /\ calls \in Seq(Call) /\ Len(calls) \in Nat /\ DOMAIN calls = 1 .. Len(calls)
      /\ Len(calls) =< MaxCalls /\ CallsSafe(calls, now, heard)
  BY PageShape, CallsKept DEF PageSafe, CallsSafe
<1>2. /\ calls' \in Seq(Call) /\ Len(calls') = Len(calls)
      /\ \A j \in 1 .. Len(calls) : calls'[j] = IF j = i THEN c ELSE calls[j]
  <2> DEFINE s == [calls EXCEPT ![i] = c]
  <2>1. /\ s \in Seq(Call) /\ Len(s) = Len(calls)
        /\ \A j \in 1 .. Len(calls) : s[j] = IF j = i THEN c ELSE calls[j]
    BY <1>1, ExceptSeq
  <2>2. calls' = s
    OBVIOUS
  <2> HIDE DEF s
  <2> QED
    BY <2>1, <2>2
<1>3. DOMAIN calls' = DOMAIN calls
  BY <1>1, <1>2
<1>4. ASSUME NEW j \in DOMAIN calls
      PROVE  /\ Sound(calls'[j], now)
             /\ ~calls'[j].met => /\ Len(calls') = 1
                                  /\ calls'[j].step = "ok" => calls'[j].answer >= heard
             /\ calls'[j].mount <=> calls[j].mount
  BY <1>1, <1>2 DEF CallsSafe
<1> QED
  BY <1>1, <1>2, <1>3, <1>4 DEF CallsSafe

-----------------------------------------------------------------------------
\* The page: its steps.

\* A step of somebody else's leaves the page as it is.
LEMMA PageStays ==
    ASSUME RowsSafe, PageSafe, Grown, UNCHANGED pageVars
    PROVE  PageSafe'
<1>1. /\ page' = page /\ open' = open /\ calls' = calls /\ form' = form
      /\ heard' = heard /\ apart' = apart
  BY DEF pageVars
<1>2. Len(log') \in Nat /\ Len(log') >= Len(log)
  BY GrownShape
<1>3. /\ CallsSafe(calls, Len(log'), heard) /\ FormSafe(form, Len(log'))
      /\ page.copy =< Len(log') /\ heard =< Len(log')
  BY <1>2, CallsKept
<1> QED
  BY <1>1, <1>3 DEF PageSafe

\* A tab is chosen: the brief is filled in from the copy.
LEMMA ChooseTabSafe ==
    ASSUME RowsSafe, PageSafe, NEW t \in OpenTabs, ChooseTab(t)
    PROVE  PageSafe' /\ UNCHANGED rowVars
<1>1. /\ page.status = "ready" /\ open' = t
      /\ form' = IF t = "brief" THEN FormOf(page.copy) ELSE NoForm
      /\ calls' = [i \in DOMAIN calls |-> [calls[i] EXCEPT !.mount = FALSE]]
      /\ page' = page /\ heard' = heard /\ apart' = apart /\ log' = log
      /\ UNCHANGED rowVars
  BY DEF ChooseTab, rowVars
<1>2. page.copy \in 1 .. Len(log)
  BY <1>1, RowsShape DEF PageSafe
<1>3. FormSafe(form', Len(log)) /\ ~form'.saving
  BY <1>1, <1>2, FormsFit
<1>4. /\ Len(calls) \in Nat /\ DOMAIN calls = 1 .. Len(calls)
      /\ \A i \in DOMAIN calls : calls[i] \in Call
  BY PageShape
<1>5. /\ DOMAIN calls' = DOMAIN calls
      /\ \A i \in DOMAIN calls :
            /\ calls'[i] \in Call /\ (calls'[i].met <=> calls[i].met)
            /\ calls'[i].step = calls[i].step /\ calls'[i].answer = calls[i].answer
            /\ calls'[i].own = calls[i].own /\ calls'[i].brief = calls[i].brief
  <2>1. DOMAIN calls' = DOMAIN calls
    BY <1>1
  <2>2. ASSUME NEW i \in DOMAIN calls
        PROVE  /\ calls'[i] \in Call /\ (calls'[i].met <=> calls[i].met)
               /\ calls'[i].step = calls[i].step /\ calls'[i].answer = calls[i].answer
               /\ calls'[i].own = calls[i].own /\ calls'[i].brief = calls[i].brief
    <3>1. PICK c \in Call : c = calls[i]
      BY <1>4
    <3>2. calls'[i] = [c EXCEPT !.mount = FALSE]
      BY <1>1, <3>1
    <3>3. [c EXCEPT !.mount = FALSE] \in Call
      BY DEF Call
    <3> QED
      BY <3>1, <3>2, <3>3 DEF Call
  <2> QED
    BY <2>1, <2>2
<1>6. calls' \in Seq(Call) /\ Len(calls') = Len(calls)
  <2>1. calls' \in [1 .. Len(calls) -> Call]
    BY <1>1, <1>4, <1>5
  <2> QED
    BY <1>4, <2>1
<1>7. CallsSafe(calls', Len(log), heard)
  BY <1>5, <1>6 DEF PageSafe, CallsSafe, Sound
<1> QED
  BY <1>1, <1>3, <1>7 DEF PageSafe

\* setProject: whoever asked, the copy is as new as the answer.
LEMMA DeliverSafe ==
    ASSUME RowsSafe, PageSafe, NEW i \in DOMAIN calls, Deliver(i)
    PROVE  PageSafe' /\ UNCHANGED rowVars
<1>1. PICK c \in Call : c = calls[i]
  BY PageShape
<1>2. /\ c.step = "ok" /\ page' = [status |-> "ready", copy |-> c.answer]
      /\ form' = IF c.kind = "load" /\ open = "brief" THEN FormOf(c.answer)
                 ELSE IF c.mount
                 THEN [form EXCEPT !.editing = FALSE, !.saving = FALSE]
                 ELSE form
      /\ heard' = IF c.own > heard THEN c.own ELSE heard
      /\ apart' = ~c.met /\ Forget(i) /\ open' = open /\ log' = log
      /\ UNCHANGED rowVars
  BY <1>1 DEF Deliver, rowVars
<1>3. /\ c.answer \in Nat /\ c.own \in Nat /\ c.answer # 0 /\ c.answer =< Len(log)
      /\ c.own =< Len(log) /\ c.answer >= c.own /\ Len(log) \in Nat
      /\ ~c.met => c.answer >= heard
      /\ heard \in Nat /\ heard =< Len(log) /\ c.met \in BOOLEAN /\ c.mount \in BOOLEAN
  <2>1. c.met \in BOOLEAN /\ c.mount \in BOOLEAN
    BY DEF Call
  <2>2. c.answer \in Nat /\ c.own \in Nat /\ Len(log) \in Nat
    BY <1>1, PageShape, RowsShape
  <2>3. Sound(c, Len(log)) /\ (~c.met => c.answer >= heard)
    BY <1>1, <1>2 DEF PageSafe, CallsSafe
  <2> QED
    BY <1>2, <2>1, <2>2, <2>3 DEF PageSafe, Sound
<1>4. FormSafe(form', Len(log)) /\ (form'.saving => form' = form /\ ~c.mount)
  <2>1. c.answer \in 1 .. Len(log)
    BY <1>3
  <2>2. CASE c.kind = "load" /\ open = "brief"
    BY <1>2, <2>1, <2>2, FormsFit
  <2>3. CASE ~(c.kind = "load" /\ open = "brief") /\ c.mount
    <3>1. form \in Form /\ FormSafe(form, Len(log))
      BY DEF PageSafe, FormSafe
    <3>2. form' = [form EXCEPT !.editing = FALSE, !.saving = FALSE]
      BY <1>2, <2>3
    <3>3. /\ form' \in Form /\ ~form'.saving /\ form'.base = form.base
          /\ form'.fields = form.fields
      BY <3>1, <3>2 DEF Form
    <3> QED
      BY <3>1, <3>3 DEF FormSafe
  <2>4. CASE ~(c.kind = "load" /\ open = "brief") /\ ~c.mount
    BY <1>2, <2>4 DEF PageSafe
  <2> QED
    BY <1>3, <2>2, <2>3, <2>4
<1>5. heard' \in Nat /\ heard' =< Len(log)
  BY <1>2, <1>3
<1>6. /\ CallsSafe(calls', Len(log), heard')
      /\ \A k \in DOMAIN calls \ {i} : \E j \in DOMAIN calls' : calls'[j] = calls[k]
  <2>1. ASSUME NEW known
        PROVE  CallsSafe(calls', Len(log), known)
    BY <1>2, Gone
  <2>2. \A k \in DOMAIN calls \ {i} : \E j \in DOMAIN calls' : calls'[j] = calls[k]
    BY <1>2, Gone
  <2> QED
    BY <2>1, <2>2
<1>7. form'.saving => \E j \in DOMAIN calls' : calls'[j].mount
  <2>1. ASSUME form'.saving
        PROVE  \E j \in DOMAIN calls' : calls'[j].mount
    <3>1. PICK k \in DOMAIN calls : calls[k].mount
      BY <1>4, <2>1 DEF PageSafe
    <3>2. k # i
      BY <1>1, <1>4, <2>1, <3>1
    <3> QED
      BY <1>6, <3>1, <3>2
  <2> QED
    BY <2>1
<1>8. page' \in [status: {"loading", "ready", "error"}, copy: Nat]
  BY <1>2, <1>3
<1>9. page'.copy = c.answer
  BY <1>2
<1>10. apart' => c.answer >= heard'
  BY <1>2, <1>3
<1>11. apart' \in BOOLEAN
  BY <1>2, <1>3
<1> QED
  BY <1>2, <1>3, <1>4, <1>5, <1>6, <1>7, <1>8, <1>9, <1>10, <1>11 DEF PageSafe

\* A save that fails gives its form back.
LEMMA FailSafe ==
    ASSUME RowsSafe, PageSafe, NEW i \in DOMAIN calls, Fail(i)
    PROVE  PageSafe' /\ UNCHANGED rowVars
<1>1. PICK c \in Call : c = calls[i]
  BY PageShape
<1>2. /\ page' = IF c.kind = "load" THEN [page EXCEPT !.status = "error"] ELSE page
      /\ form' = IF c.mount THEN [form EXCEPT !.saving = FALSE] ELSE form
      /\ Forget(i) /\ open' = open /\ heard' = heard /\ apart' = apart /\ log' = log
      /\ UNCHANGED rowVars
  BY <1>1 DEF Fail, rowVars
<1>3. /\ CallsSafe(calls', Len(log), heard)
      /\ \A k \in DOMAIN calls \ {i} : \E j \in DOMAIN calls' : calls'[j] = calls[k]
  BY <1>2, Gone
<1>4. FormSafe(form', Len(log)) /\ (form'.saving => form' = form /\ ~c.mount)
  <2>1. FormSafe(form, Len(log)) /\ form \in Form /\ c.mount \in BOOLEAN
    BY DEF PageSafe, FormSafe, Call
  <2>2. CASE c.mount
    <3>1. form' = [form EXCEPT !.saving = FALSE]
      BY <1>2, <2>2
    <3>2. /\ form' \in Form /\ ~form'.saving /\ form'.base = form.base
          /\ form'.fields = form.fields
      BY <2>1, <3>1 DEF Form
    <3> QED
      BY <2>1, <3>2 DEF FormSafe
  <2> QED
    BY <1>2, <2>1, <2>2
<1>5. form'.saving => \E j \in DOMAIN calls' : calls'[j].mount
  <2>1. ASSUME form'.saving
        PROVE  \E j \in DOMAIN calls' : calls'[j].mount
    <3>1. PICK k \in DOMAIN calls : calls[k].mount
      BY <1>4, <2>1 DEF PageSafe
    <3>2. k # i
      BY <1>1, <1>4, <2>1, <3>1
    <3> QED
      BY <1>3, <3>1, <3>2
  <2> QED
    BY <2>1
<1>6. /\ page' \in [status: {"loading", "ready", "error"}, copy: Nat]
      /\ page'.copy = page.copy /\ (page'.status = "ready" => page.status = "ready")
  BY <1>2 DEF PageSafe
<1> QED
  BY <1>2, <1>3, <1>4, <1>5, <1>6 DEF PageSafe

\* getProject.
LEMMA ReadSafe ==
    ASSUME RowsSafe, PageSafe, NEW i \in DOMAIN calls, Read(i)
    PROVE  PageSafe' /\ UNCHANGED rowVars
<1>1. PICK c \in Call : c = calls[i]
  BY PageShape
<1> DEFINE new == [c EXCEPT !.step = "ok", !.answer = Len(log)]
<1>2. /\ calls' = [calls EXCEPT ![i] = new] /\ page' = page /\ open' = open
      /\ form' = form /\ heard' = heard /\ apart' = apart /\ log' = log
      /\ UNCHANGED rowVars
  BY <1>1, PageShape DEF Read, rowVars
<1>3. /\ Len(log) \in Nat \ {0} /\ Len(log) =< MaxCommits + 1 /\ MaxCommits \in Nat
      /\ heard =< Len(log) /\ Sound(c, Len(log)) /\ c.own \in Nat
  BY <1>1, RowsShape, PageShape DEF PageSafe, CallsSafe
<1>4. /\ new \in Call /\ (new.met <=> c.met) /\ (new.mount <=> c.mount)
      /\ new.answer = Len(log) /\ new.own = c.own /\ new.brief = c.brief
  <2>1. Len(log) \in 0 .. MaxCommits + 1
    BY <1>3
  <2> QED
    BY <2>1 DEF Call
<1> HIDE DEF new
<1>5. Sound(new, Len(log)) /\ new.answer >= heard
  BY <1>3, <1>4 DEF Sound, PageSafe
<1>6. /\ CallsSafe(calls', Len(log), heard)
      /\ (\E k \in DOMAIN calls : calls[k].mount)
            => \E k \in DOMAIN calls' : calls'[k].mount
  <2>1. /\ Len(log) \in Nat /\ Len(log) >= Len(log)
        /\ new.met <=> calls[i].met
        /\ new.mount <=> calls[i].mount
        /\ new.step = "ok" => new.answer >= heard
    BY <1>1, <1>3, <1>4, <1>5
  <2>2. CallsSafe(calls', Len(log), heard)
    BY <1>2, <1>4, <1>5, <2>1, Further
  <2>3. (\E k \in DOMAIN calls : calls[k].mount)
           => \E k \in DOMAIN calls' : calls'[k].mount
    BY <1>2, <1>4, <1>5, <2>1, Further
  <2> QED
    BY <2>2, <2>3
<1> QED
  BY <1>2, <1>6 DEF PageSafe

\* A button of another tab: the change is asked for.
LEMMA WorkSafe ==
    ASSUME RowsSafe, PageSafe, Work
    PROVE  PageSafe' /\ UNCHANGED rowVars
<1> DEFINE c == NewCall("work")
<1>1. /\ Send(c) /\ page' = page /\ open' = open /\ form' = form /\ heard' = heard
      /\ log' = log /\ UNCHANGED rowVars
  BY DEF Work, rowVars
<1>2. MaxCommits \in Nat /\ Len(log) \in Nat
  BY RowsShape
<1>3. /\ c \in Call /\ c.step = "asked" /\ c.answer = 0 /\ c.own = 0
      /\ c.brief = NoBrief /\ (c.met <=> calls # <<>>)
  <2>1. 0 \in 0 .. MaxCommits + 1 /\ (calls # <<>>) \in BOOLEAN
    BY <1>2
  <2>2. NoBrief \in [Fields -> (UNION Range(Texts)) \cup {Blank}]
    BY BriefsFit
  <2> QED
    BY <2>1, <2>2 DEF NewCall, Call
<1> HIDE DEF c
<1>4. Sound(c, Len(log))
  BY <1>2, <1>3, BriefsFit DEF Sound
<1>5. CallsSafe(calls', Len(log), heard)
  BY <1>1, <1>3, <1>4, Sent
<1>6. \A i \in DOMAIN calls :
         i \in DOMAIN calls' /\ (calls'[i].mount <=> calls[i].mount)
  BY <1>1, <1>3, <1>4, Sent
<1>7. apart' \in BOOLEAN /\ (apart' => apart)
  BY <1>1, <1>3, <1>4, Sent
<1> QED
  BY <1>1, <1>5, <1>6, <1>7 DEF PageSafe

\* The form sends what it holds, and waits.
LEMMA SaveSafe ==
    ASSUME RowsSafe, PageSafe, Save
    PROVE  PageSafe' /\ UNCHANGED rowVars
<1> DEFINE c == [NewCall("save") EXCEPT !.brief = form.fields, !.mount = TRUE]
<1>1. /\ Send(c) /\ page' = page /\ open' = open /\ heard' = heard
      /\ form' = [form EXCEPT !.saving = TRUE] /\ form.editing
      /\ log' = log /\ UNCHANGED rowVars
  BY DEF Save, rowVars
<1>2. MaxCommits \in Nat /\ Len(log) \in Nat /\ form \in Form /\ FormSafe(form, Len(log))
  BY RowsShape DEF PageSafe, FormSafe
<1>3. /\ c \in Call /\ c.step = "asked" /\ c.answer = 0 /\ c.own = 0
      /\ c.brief = form.fields /\ (c.met <=> calls # <<>>) /\ c.mount
  <2>1. 0 \in 0 .. MaxCommits + 1 /\ (calls # <<>>) \in BOOLEAN
    BY <1>2
  <2>2. form.fields \in [Fields -> (UNION Range(Texts)) \cup {Blank}]
    BY <1>2 DEF Form
  <2> QED
    BY <2>1, <2>2 DEF NewCall, Call
<1> HIDE DEF c
<1>4. Sound(c, Len(log))
  BY <1>2, <1>3 DEF Sound, FormSafe
<1>5. CallsSafe(calls', Len(log), heard)
  BY <1>1, <1>3, <1>4, Sent
<1>6. \E i \in DOMAIN calls' : calls'[i].mount
  <2>1. \E i \in DOMAIN calls' : calls'[i] = c
    BY <1>1, <1>3, <1>4, Sent
  <2> QED
    BY <1>3, <2>1
<1>7. apart' \in BOOLEAN /\ (apart' => apart)
  BY <1>1, <1>3, <1>4, Sent
<1>8. FormSafe(form', Len(log))
  <2>1. /\ form' \in Form /\ form'.editing = form.editing /\ form'.base = form.base
        /\ form'.fields = form.fields
    BY <1>1, <1>2 DEF Form
  <2> QED
    BY <1>1, <1>2, <2>1 DEF FormSafe
<1> QED
  BY <1>1, <1>5, <1>6, <1>7, <1>8 DEF PageSafe

\* Editing, typing and giving up change the form only.
LEMMA EditingSafe ==
    ASSUME RowsSafe, PageSafe,
           \/ Edit \/ Cancel
           \/ \E f \in Fields : \E text \in Texts[f] : Type(f, text)
    PROVE  PageSafe' /\ UNCHANGED rowVars
<1>1. form \in Form /\ FormSafe(form, Len(log))
  BY DEF PageSafe, FormSafe
<1>2. /\ page' = page /\ open' = open /\ heard' = heard /\ calls' = calls
      /\ apart' = apart /\ log' = log /\ UNCHANGED rowVars
  BY DEF Edit, Cancel, Type, rowVars
<1>3. FormSafe(form', Len(log)) /\ (form'.saving <=> form.saving)
  <2>1. CASE Edit
    <3>1. form' = [form EXCEPT !.editing = TRUE]
      BY <2>1 DEF Edit
    <3>2. /\ form' \in Form /\ form'.editing /\ form'.base = form.base
          /\ form'.fields = form.fields /\ (form'.saving <=> form.saving)
      BY <1>1, <3>1 DEF Form
    <3> QED
      BY <1>1, <3>2 DEF FormSafe
  <2>2. CASE Cancel
    <3>1. form' = [form EXCEPT !.editing = FALSE] /\ ~form.saving
      BY <2>2 DEF Cancel
    <3>2. /\ form' \in Form /\ form'.base = form.base
          /\ form'.fields = form.fields /\ (form'.saving <=> form.saving)
      BY <1>1, <3>1 DEF Form
    <3> QED
      BY <1>1, <3>1, <3>2 DEF FormSafe
  <2>3. ASSUME NEW f \in Fields, NEW text \in Texts[f], Type(f, text)
        PROVE  FormSafe(form', Len(log)) /\ (form'.saving <=> form.saving)
    <3> DEFINE T == (UNION Range(Texts)) \cup {Blank}
    <3>1. text \in T
      BY BriefsFit
    <3>2. form.fields \in [Fields -> T]
      BY <1>1 DEF Form
    <3> HIDE DEF T
    <3>3. form' = [form EXCEPT !.fields[f] = text, !.typed = @ \cup {f}]
      BY <2>3 DEF Type
    <3> DEFINE new == [form.fields EXCEPT ![f] = text]
    <3>4. new \in [Fields -> T] /\ \A g \in Fields : new[g] = IF g = f THEN text ELSE form.fields[g]
      BY <3>1, <3>2
    <3>5. form' = [form EXCEPT !.fields = new, !.typed = form.typed \cup {f}]
      BY <1>1, <3>3 DEF Form
    <3> HIDE DEF new
    <3>6. /\ form' \in Form /\ form'.editing = form.editing /\ form'.base = form.base
          /\ form'.fields = new /\ (form'.saving <=> form.saving)
      BY <1>1, <3>4, <3>5 DEF Form, T
    <3>7. Fillable(new)
      BY <1>1, <3>4 DEF FormSafe, Fillable, Contents
    <3> QED
      BY <1>1, <3>6, <3>7 DEF FormSafe
  <2> QED
    BY <2>1, <2>2, <2>3
<1> QED
  BY <1>2, <1>3 DEF PageSafe

\* The rows grow while one request comes further.
LEMMA ServedSafe ==
    ASSUME RowsSafe, PageSafe, Grown, NEW i \in DOMAIN calls, NEW c \in Call,
           Sound(c, Len(log')), c.met <=> calls[i].met, c.mount <=> calls[i].mount,
           c.step = "ok" => c.answer >= heard, calls' = [calls EXCEPT ![i] = c],
           FormSafe(form', Len(log')), form'.saving <=> form.saving,
           UNCHANGED <<page, open, heard, apart>>
    PROVE  PageSafe'
<1>1. /\ page' = page /\ open' = open /\ heard' = heard /\ apart' = apart
  OBVIOUS
<1>2. Len(log') \in Nat /\ Len(log') >= Len(log)
  BY GrownShape
<1>3. page.copy =< Len(log') /\ heard =< Len(log')
  BY <1>2, CallsKept
<1>4. CallsSafe(calls', Len(log'), heard)
  BY <1>2, Further
<1>5. (\E k \in DOMAIN calls : calls[k].mount) => \E k \in DOMAIN calls' : calls'[k].mount
  BY <1>2, Further
<1> QED
  BY <1>1, <1>3, <1>4, <1>5 DEF PageSafe

\* The change of a button is made.
LEMMA ServeWorkSafe ==
    ASSUME RowsSafe, PageSafe, NEW i \in DOMAIN calls, ServeWork(i)
    PROVE  PageSafe' /\ Grown
<1>1. PICK c \in Call : c = calls[i]
  BY PageShape
<1> DEFINE new == [c EXCEPT !.step = "get", !.own = Len(log')]
<1>2. /\ calls' = [calls EXCEPT ![i] = new]
      /\ UNCHANGED <<page, open, form, heard, apart>>
  BY <1>1, PageShape DEF ServeWork
<1>3. Grown
  <2>1. PICK stage \in Columns : Commit(Here, [Current[Here] EXCEPT !.stage = stage])
    BY DEF ServeWork
  <2>2. PICK row \in ProjectRow : row = Current[Here]
    BY PageShape
  <2>3. /\ [row EXCEPT !.stage = stage] \in ProjectRow
        /\ row.here => [row EXCEPT !.stage = stage].here
    BY DEF ProjectRow
  <2> QED
    BY <2>1, <2>2, <2>3, PageAssumption, Committed
<1>4. /\ Len(log) \in Nat /\ Len(log') \in Nat /\ Len(log') >= Len(log)
      /\ Len(log') =< MaxCommits + 1 /\ MaxCommits \in Nat
  BY <1>3, GrownShape
<1>5. Sound(c, Len(log)) /\ c.answer \in Nat
  BY <1>1, PageShape DEF PageSafe, CallsSafe
<1>6. /\ new \in Call /\ (new.met <=> c.met) /\ (new.mount <=> c.mount)
      /\ new.step = "get" /\ new.answer = c.answer /\ new.own = Len(log')
      /\ new.brief = c.brief
  <2>1. Len(log') \in 0 .. MaxCommits + 1
    BY <1>4
  <2> QED
    BY <2>1 DEF Call
<1> HIDE DEF new
<1>7. Sound(new, Len(log'))
  BY <1>4, <1>5, <1>6 DEF Sound
<1>8. /\ new.met <=> calls[i].met
      /\ new.mount <=> calls[i].mount
      /\ new.step = "ok" => new.answer >= heard
  BY <1>1, <1>6
<1>9. FormSafe(form', Len(log'))
  BY <1>2, <1>4, CallsKept
<1>10. PageSafe'
  BY <1>2, <1>3, <1>6, <1>7, <1>8, <1>9, ServedSafe
<1> QED
  BY <1>3, <1>10

\* What a save writes is a row, and there when it was.
LEMMA PatchedIsARow ==
    ASSUME NEW row \in ProjectRow, NEW sent, Fillable(sent)
    PROVE  /\ PatchedBrief(row, sent) \in ProjectRow
           /\ PatchedBrief(row, sent).here = row.here
           /\ \A f \in Fields : PatchedBrief(row, sent).brief[f]
                                   = IF sent[f] = Blank THEN row.brief[f] ELSE sent[f]
<1> DEFINE b == [f \in Fields |-> IF sent[f] = Blank THEN row.brief[f] ELSE sent[f]]
<1>1. row.brief \in Brief
  BY DEF ProjectRow
<1>2. PatchedBrief(row, sent) = [row EXCEPT !.brief = b]
  BY DEF PatchedBrief, ProjectRow
<1>3. \A f \in Fields : b[f] \in Texts[f]
  BY <1>1 DEF Brief, Fillable, Contents
<1>4. \A f \in Fields : b[f] = IF sent[f] = Blank THEN row.brief[f] ELSE sent[f]
  OBVIOUS
<1>5. b \in Brief
  <2>1. b \in [Fields -> UNION Range(Texts)]
    BY <1>3, BriefsFit
  <2> QED
    BY <1>3, <2>1 DEF Brief
<1> HIDE DEF b
<1> QED
  BY <1>2, <1>4, <1>5 DEF ProjectRow

\* update_project, and its answer.
LEMMA ServeSaveSafe ==
    ASSUME RowsSafe, PageSafe, NEW i \in DOMAIN calls, ServeSave(i)
    PROVE  PageSafe' /\ Grown
<1>1. PICK c \in Call : c = calls[i]
  BY PageShape
<1>2. Sound(c, Len(log)) /\ c.own \in Nat
  BY <1>1, PageShape DEF PageSafe, CallsSafe
<1> DEFINE new == [c EXCEPT !.step = "ok", !.answer = Len(log'), !.own = Len(log')]
           row == PatchedBrief(Current[Here], c.brief)
<1>3. /\ calls' = [calls EXCEPT ![i] = new]
      /\ UNCHANGED <<page, open, heard, apart>>
      /\ \/ row = Current[Here] /\ UNCHANGED <<form, rowVars>>
         \/ /\ Commit(Here, row)
            /\ form' = IF c.mount THEN [form EXCEPT !.saves = @ \cup {Len(log')}]
                       ELSE form
  BY <1>1, PageShape DEF ServeSave
<1>4. Grown
  <2>1. row \in ProjectRow /\ row.here = Current[Here].here
    BY <1>2, PageShape, PatchedIsARow DEF Sound
  <2>2. CASE UNCHANGED rowVars
    BY <2>2, RowsStay
  <2>3. CASE Commit(Here, row)
    <3> HIDE DEF row
    <3> QED
      BY <2>1, <2>3, PageAssumption, Committed
  <2> QED
    BY <1>3, <2>2, <2>3
<1>5. /\ Len(log) \in Nat /\ Len(log') \in Nat \ {0} /\ Len(log') >= Len(log)
      /\ Len(log') =< MaxCommits + 1 /\ MaxCommits \in Nat
  BY <1>4, GrownShape
<1>6. /\ new \in Call /\ (new.met <=> c.met) /\ (new.mount <=> c.mount)
      /\ new.answer = Len(log') /\ new.own = Len(log') /\ new.brief = c.brief
  <2>1. Len(log') \in 0 .. MaxCommits + 1
    BY <1>5
  <2> QED
    BY <2>1 DEF Call
<1> HIDE DEF new
<1>7. Sound(new, Len(log'))
  BY <1>2, <1>5, <1>6 DEF Sound
<1>8. new.answer >= heard
  <2>1. heard \in Nat /\ heard =< Len(log)
    BY DEF PageSafe
  <2> QED
    BY <1>5, <1>6, <2>1
<1>9. /\ new.met <=> calls[i].met
      /\ new.mount <=> calls[i].mount
      /\ new.step = "ok" => new.answer >= heard
  BY <1>1, <1>6, <1>8
<1>10. FormSafe(form', Len(log')) /\ (form'.saving <=> form.saving)
  <2>1. FormSafe(form, Len(log')) /\ form \in Form
    BY <1>5, CallsKept DEF PageSafe, FormSafe
  <2>2. CASE form' = form
    BY <2>1, <2>2
  <2>3. CASE form' = [form EXCEPT !.saves = @ \cup {Len(log')}]
    <3>1. /\ form' \in Form /\ form'.fields = form.fields
          /\ form'.editing = form.editing /\ form'.saving = form.saving
          /\ form'.base = form.base
      BY <1>5, <2>1, <2>3 DEF Form
    <3> QED
      BY <2>1, <3>1 DEF FormSafe
  <2> QED
    BY <1>3, <2>2, <2>3
<1>11. PageSafe'
  BY <1>3, <1>4, <1>6, <1>7, <1>9, <1>10, ServedSafe
<1> QED
  BY <1>4, <1>11

LEMMA PageStepSafe ==
    ASSUME RowsSafe, PageSafe, PageStep
    PROVE  PageSafe' /\ Grown
<1>1. UNCHANGED rowVars => Grown
  BY RowsStay
<1>2. ASSUME NEW t \in OpenTabs, ChooseTab(t)
      PROVE  PageSafe' /\ Grown
  BY <1>1, <1>2, ChooseTabSafe
<1>3. ASSUME NEW i \in DOMAIN calls, Answering(i)
      PROVE  PageSafe' /\ Grown
  <2>1. CASE Read(i)
    BY <1>1, <2>1, ReadSafe
  <2>2. CASE ServeWork(i)
    BY <2>2, ServeWorkSafe
  <2>3. CASE ServeSave(i)
    BY <2>3, ServeSaveSafe
  <2>4. CASE Deliver(i)
    BY <1>1, <2>4, DeliverSafe
  <2>5. CASE Fail(i)
    BY <1>1, <2>5, FailSafe
  <2> QED
    BY <1>3, <2>1, <2>2, <2>3, <2>4, <2>5 DEF Answering
<1>4. CASE Work
  BY <1>1, <1>4, WorkSafe
<1>5. CASE Save
  BY <1>1, <1>5, SaveSafe
<1>6. CASE Edit \/ Cancel \/ \E f \in Fields : \E text \in Texts[f] : Type(f, text)
  BY <1>1, <1>6, EditingSafe
<1> QED
  BY <1>2, <1>3, <1>4, <1>5, <1>6 DEF PageStep

-----------------------------------------------------------------------------
\* The brief: what nobody typed is what the form was filled in with.

\* The rows grow; no request starts, and none changes what it sends.
LEMMA FilledStays ==
    ASSUME RowsSafe, PageSafe, Filled, Grown,
           page'.status = page.status, open' = open, form' = form,
           Len(calls') = Len(calls), DOMAIN calls' = DOMAIN calls,
           \A i \in DOMAIN calls : /\ calls'[i].kind = calls[i].kind
                                   /\ calls'[i].mount = calls[i].mount
                                   /\ calls'[i].brief = calls[i].brief
    PROVE  Filled'
<1>1. /\ Len(log) \in Nat /\ Len(log') \in Nat /\ Len(log') >= Len(log)
      /\ \A n \in 1 .. Len(log) : log'[n] = log[n]
      /\ form.base \in Nat /\ form.base =< Len(log)
  BY RowsShape, GrownShape DEF PageSafe, FormSafe, Form
<1>2. LoadsOnce'
  BY DEF Filled, LoadsOnce
<1>3. form'.saves \subseteq form'.base + 1 .. Len(log')
  BY <1>1 DEF Filled
<1>4. ASSUME form'.base # 0, NEW f \in Fields \ form'.typed
      PROVE  AsFilled(f)'
  <2>1. AsFilled(f) /\ log'[form.base] = log[form.base]
    BY <1>1, <1>4 DEF Filled
  <2>2. ASSUME NEW c \in form.saves
        PROVE  log'[c] = log[c] /\ log'[c - 1] = log[c - 1]
    <3>1. c \in 1 .. Len(log) /\ c - 1 \in 1 .. Len(log)
      BY <1>1, <1>4 DEF Filled
    <3> QED
      BY <1>1, <3>1
  <2> QED
    BY <2>1, <2>2 DEF AsFilled
<1> QED
  BY <1>2, <1>3, <1>4 DEF Filled

\* A step that leaves the page as it is.
LEMMA FilledAside ==
    ASSUME RowsSafe, PageSafe, Filled, Grown, UNCHANGED pageVars
    PROVE  Filled'
BY FilledStays DEF pageVars

\* A form that has just been filled in.
LEMMA FreshlyFilled ==
    ASSUME NEW n \in Nat \ {0}
    PROVE  /\ FormOf(n).base = n /\ FormOf(n).saves = {}
           /\ FormOf(n).fields = log[n][Here].brief
           /\ NoForm.base = 0 /\ NoForm.saves = {} /\ ~NoForm.editing
BY DEF FormOf, NoForm

LEMMA StillFilled ==
    ASSUME NEW f, AsFilled(f), log' = log, form'.base = form.base,
           form'.saves = form.saves, form'.fields[f] = form.fields[f],
           \A j \in DOMAIN calls' :
              calls'[j].mount => calls'[j].brief[f] = log[form.base][Here].brief[f]
    PROVE  AsFilled(f)'
BY DEF AsFilled

\* A tab is chosen: what was sent from the old form is not from this one.
LEMMA ChooseTabFills ==
    ASSUME RowsSafe, PageSafe, Filled, NEW t \in OpenTabs, ChooseTab(t)
    PROVE  Filled'
<1>1. /\ page.status = "ready" /\ open' = t /\ page' = page /\ log' = log
      /\ form' = IF t = "brief" THEN FormOf(page.copy) ELSE NoForm
      /\ calls' = [i \in DOMAIN calls |-> [calls[i] EXCEPT !.mount = FALSE]]
  BY DEF ChooseTab, rowVars
<1>2. page.copy \in Nat \ {0} /\ Len(log) \in Nat
  BY <1>1, RowsShape DEF PageSafe
<1>3. /\ DOMAIN calls' = DOMAIN calls
      /\ \A i \in DOMAIN calls' : ~calls'[i].mount /\ calls'[i].kind = calls[i].kind
  BY <1>1, PageShape DEF Call
<1>4. LoadsOnce'
  BY <1>1, <1>3 DEF Filled, LoadsOnce
<1>5. /\ t = "brief" => form'.base # 0
      /\ form'.base = 0 => ~form'.editing
      /\ form'.saves = {}
      /\ form'.base # 0 => form'.fields = log[form'.base][Here].brief
  BY <1>1, <1>2, FreshlyFilled
<1> QED
  BY <1>1, <1>3, <1>4, <1>5 DEF Filled, AsFilled

\* The request of the page itself is alone.
LEMMA LoneRequest ==
    ASSUME RowsSafe, PageSafe, Filled, NEW i \in DOMAIN calls, calls[i].kind = "load"
    PROVE  page.status # "ready" /\ Len(calls) = 1 /\ form.base = 0 /\ open = "brief"
<1>1. page.status # "ready" /\ form.base = 0 /\ open = "brief"
  BY DEF Filled, LoadsOnce
<1>2. ASSUME NEW n \in Nat, n = Len(calls)
      PROVE  n = 1
  <2>1. n =< 1
    BY <1>1, <1>2 DEF Filled, LoadsOnce
  <2>2. n # 0
    BY <1>2, PageShape
  <2> QED
    BY <2>1, <2>2
<1>3. Len(calls) \in Nat
  BY PageShape
<1> QED
  BY <1>1, <1>2, <1>3, Zenon

\* With the first answer the brief is filled in; another gives the form back.
LEMMA DeliverFills ==
    ASSUME RowsSafe, PageSafe, Filled, NEW i \in DOMAIN calls, Deliver(i)
    PROVE  Filled'
<1>1. /\ calls[i].step = "ok" /\ page' = [status |-> "ready", copy |-> calls[i].answer]
      /\ form' = IF calls[i].kind = "load" /\ open = "brief" THEN FormOf(calls[i].answer)
                 ELSE IF calls[i].mount
                 THEN [form EXCEPT !.editing = FALSE, !.saving = FALSE]
                 ELSE form
      /\ Forget(i) /\ open' = open /\ log' = log
  BY DEF Deliver, rowVars
<1>2. /\ calls[i].answer \in Nat \ {0} /\ form \in Form /\ calls \in Seq(Call)
  BY <1>1, PageShape DEF PageSafe, CallsSafe, Sound, FormSafe
<1>3. /\ Len(calls') = Len(calls) - 1
      /\ \A j \in DOMAIN calls' : \E k \in DOMAIN calls \ {i} : calls'[j] = calls[k]
      /\ calls' \in Seq(Call)
  BY <1>1, <1>2, Without DEF Forget
<1>4. CASE calls[i].kind = "load"
  <2>1. page.status # "ready" /\ Len(calls) = 1 /\ form.base = 0 /\ open = "brief"
    BY <1>4, LoneRequest
  <2>2. DOMAIN calls' = {} /\ page'.status = "ready"
    BY <1>1, <1>3, <2>1
  <2>3. form' = FormOf(calls[i].answer)
    BY <1>1, <1>4, <2>1
  <2>4. /\ form'.base # 0 /\ form'.saves = {}
        /\ form'.fields = log[form'.base][Here].brief
    BY <1>2, <2>3, FreshlyFilled
  <2> QED
    BY <1>1, <2>2, <2>4 DEF Filled, LoadsOnce, AsFilled
<1>5. CASE calls[i].kind # "load"
  <2>1. page.status = "ready" /\ page'.status = "ready"
    BY <1>1, <1>5 DEF Filled, LoadsOnce
  <2>2. /\ form'.base = form.base /\ form'.saves = form.saves
        /\ form'.fields = form.fields /\ form'.typed = form.typed
        /\ form'.editing => form.editing
    BY <1>1, <1>2, <1>5 DEF Form
  <2>3. LoadsOnce'
    BY <1>3, <2>1 DEF Filled, LoadsOnce
  <2>4. ASSUME form'.base # 0, NEW f \in Fields \ form'.typed
        PROVE  AsFilled(f)'
    <3>1. AsFilled(f)
      BY <2>2, <2>4 DEF Filled
    <3>2. ASSUME NEW j \in DOMAIN calls', calls'[j].mount
          PROVE  calls'[j].brief[f] = log[form.base][Here].brief[f]
      BY <1>3, <3>1, <3>2 DEF AsFilled
    <3> QED
      BY <1>1, <2>2, <3>1, <3>2, StillFilled
  <2> QED
    BY <1>1, <1>3, <2>1, <2>2, <2>3, <2>4 DEF Filled
<1> QED
  BY <1>4, <1>5

\* A request that fails is gone, and the form can be used again.
LEMMA FailFills ==
    ASSUME RowsSafe, PageSafe, Filled, NEW i \in DOMAIN calls, Fail(i)
    PROVE  Filled'
<1>1. /\ page' = IF calls[i].kind = "load" THEN [page EXCEPT !.status = "error"] ELSE page
      /\ form' = IF calls[i].mount THEN [form EXCEPT !.saving = FALSE] ELSE form
      /\ Forget(i) /\ open' = open /\ log' = log
  BY DEF Fail, rowVars
<1>2. form \in Form /\ calls \in Seq(Call) /\ page \in [status: {"loading", "ready", "error"}, copy: Nat]
  BY DEF PageSafe, CallsSafe, FormSafe
<1>3. /\ Len(calls') = Len(calls) - 1 /\ calls' \in Seq(Call)
      /\ \A j \in DOMAIN calls' : \E k \in DOMAIN calls \ {i} : calls'[j] = calls[k]
  BY <1>1, <1>2, Without DEF Forget
<1>4. /\ form'.base = form.base /\ form'.saves = form.saves
      /\ form'.fields = form.fields /\ form'.typed = form.typed
      /\ form'.editing = form.editing
  BY <1>1, <1>2 DEF Form
<1>5. LoadsOnce' /\ (page'.status = "ready" => page.status = "ready")
  <2>1. CASE calls[i].kind = "load"
    <3>1. page.status # "ready" /\ Len(calls) = 1 /\ form.base = 0 /\ open = "brief"
      BY <2>1, LoneRequest
    <3>2. DOMAIN calls' = {} /\ Len(calls') = 0
      BY <1>3, <3>1
    <3>3. page'.status = "error"
      BY <1>1, <1>2, <2>1
    <3> QED
      BY <1>1, <1>4, <3>1, <3>2, <3>3 DEF LoadsOnce
  <2>2. CASE calls[i].kind # "load"
    <3>1. page' = page /\ page.status = "ready"
      BY <1>1, <2>2 DEF Filled, LoadsOnce
    <3> QED
      BY <1>3, <3>1 DEF Filled, LoadsOnce
  <2> QED
    BY <2>1, <2>2
<1>6. ASSUME form'.base # 0, NEW f \in Fields \ form'.typed
      PROVE  AsFilled(f)'
  <2>1. AsFilled(f)
    BY <1>4, <1>6 DEF Filled
  <2>2. ASSUME NEW j \in DOMAIN calls', calls'[j].mount
        PROVE  calls'[j].brief[f] = log[form.base][Here].brief[f]
    BY <1>3, <2>1, <2>2 DEF AsFilled
  <2> QED
    BY <1>1, <1>4, <2>1, <2>2, StillFilled
<1> QED
  BY <1>1, <1>3, <1>4, <1>5, <1>6 DEF Filled

\* A request is sent: what it says of the brief is what the form says.
LEMMA SendFills ==
    ASSUME RowsSafe, PageSafe, Filled, Work \/ Save
    PROVE  Filled'
<1>1. /\ page' = page /\ open' = open /\ log' = log
      /\ Len(log) \in Nat /\ form \in Form /\ calls \in Seq(Call)
  BY RowsShape DEF Work, Save, rowVars, PageSafe, CallsSafe, FormSafe
<1>2. /\ form'.base = form.base /\ form'.saves = form.saves
      /\ form'.fields = form.fields /\ form'.typed = form.typed
      /\ form'.editing = form.editing
  BY <1>1 DEF Work, Save, Form
<1>3. page.status = "ready"
  <2>1. CASE Work
    BY <2>1 DEF Work
  <2>2. CASE Save
    <3>1. form.base # 0
      BY <2>2 DEF Save, Filled
    <3> QED
      BY <3>1 DEF Filled, LoadsOnce
  <2> QED
    BY <2>1, <2>2
<1>4. PICK c : /\ calls' = Append([i \in DOMAIN calls |-> [calls[i] EXCEPT !.met = TRUE]], c)
               /\ c.kind # "load"
               /\ c.mount => form.base # 0 /\ c.brief = form.fields
  <2>1. CASE Work
    <3> DEFINE c == NewCall("work")
    <3>1. Send(c) /\ c.kind = "work" /\ ~c.mount
      BY <2>1 DEF Work, NewCall
    <3> HIDE DEF c
    <3> QED
      BY <3>1 DEF Send
  <2>2. CASE Save
    <3> DEFINE c == [NewCall("save") EXCEPT !.brief = form.fields, !.mount = TRUE]
    <3>1. Send(c) /\ c.kind = "save" /\ c.brief = form.fields /\ form.base # 0
      BY <2>2 DEF Save, NewCall, Filled
    <3> HIDE DEF c
    <3> QED
      BY <3>1 DEF Send
  <2> QED
    BY <2>1, <2>2
<1>5. ASSUME NEW j \in DOMAIN calls'
      PROVE  \/ calls'[j] = c
             \/ /\ j \in DOMAIN calls /\ calls'[j].kind = calls[j].kind
                /\ calls'[j].mount = calls[j].mount /\ calls'[j].brief = calls[j].brief
  <2> DEFINE old == [i \in DOMAIN calls |-> [calls[i] EXCEPT !.met = TRUE]]
  <2>1. /\ Len(calls) \in Nat /\ DOMAIN calls = 1 .. Len(calls)
        /\ \A i \in DOMAIN calls : calls[i] \in Call
    BY <1>1
  <2>2. /\ old \in [1 .. Len(calls) -> Call]
        /\ \A i \in DOMAIN calls :
              /\ old[i].kind = calls[i].kind /\ old[i].mount = calls[i].mount
              /\ old[i].brief = calls[i].brief
    BY <2>1 DEF Call
  <2> HIDE DEF old
  <2>3. old \in Seq(Call) /\ Len(old) = Len(calls)
    BY <2>1, <2>2
  <2>4. calls' = Append(old, c)
    BY <1>4 DEF old
  <2>5. \/ j \in 1 .. Len(calls) /\ calls'[j] = old[j]
        \/ calls'[j] = c
    BY <2>3, <2>4
  <2> QED
    BY <2>1, <2>2, <2>5
<1>6. LoadsOnce'
  BY <1>1, <1>3, <1>4, <1>5 DEF Filled, LoadsOnce
<1>7. \A j \in DOMAIN calls' : calls'[j].mount => form'.base # 0
  BY <1>2, <1>4, <1>5 DEF Filled
<1>8. ASSUME form'.base # 0, NEW f \in Fields \ form'.typed
      PROVE  AsFilled(f)'
  <2>1. AsFilled(f)
    BY <1>2, <1>8 DEF Filled
  <2>2. ASSUME NEW j \in DOMAIN calls', calls'[j].mount
        PROVE  calls'[j].brief[f] = log[form.base][Here].brief[f]
    BY <1>4, <1>5, <2>1, <2>2 DEF AsFilled
  <2> QED
    BY <1>1, <1>2, <2>1, <2>2, StillFilled
<1> QED
  BY <1>1, <1>2, <1>6, <1>7, <1>8 DEF Filled

\* What is typed is typed.
LEMMA EditingFills ==
    ASSUME RowsSafe, PageSafe, Filled,
           \/ Edit \/ Cancel
           \/ \E f \in Fields : \E text \in Texts[f] : Type(f, text)
    PROVE  Filled'
<1>1. page' = page /\ open' = open /\ calls' = calls /\ log' = log /\ form \in Form
  BY DEF Edit, Cancel, Type, rowVars, PageSafe, FormSafe
<1>2. /\ form'.base = form.base /\ form'.saves = form.saves
      /\ form'.base = 0 => ~form'.editing
      /\ \A f \in Fields \ form'.typed :
            f \notin form.typed /\ form'.fields[f] = form.fields[f]
  <2>1. CASE Edit
    BY <1>1, <2>1 DEF Edit, Filled, Form
  <2>2. CASE Cancel
    BY <1>1, <2>2 DEF Cancel, Form
  <2>3. ASSUME NEW g \in Fields, NEW text \in Texts[g], Type(g, text)
        PROVE  /\ form'.base = form.base /\ form'.saves = form.saves
               /\ form'.editing = form.editing
               /\ \A f \in Fields \ form'.typed :
                     f \notin form.typed /\ form'.fields[f] = form.fields[f]
    <3>1. form' = [form EXCEPT !.fields[g] = text, !.typed = @ \cup {g}]
      BY <2>3 DEF Type
    <3>2. /\ form'.base = form.base /\ form'.saves = form.saves
          /\ form'.editing = form.editing /\ form'.typed = form.typed \cup {g}
          /\ form'.fields = [form.fields EXCEPT ![g] = text]
      BY <1>1, <3>1 DEF Form
    <3> QED
      BY <1>1, <3>2 DEF Form
  <2> QED
    BY <2>1, <2>2, <2>3 DEF Filled
<1>3. LoadsOnce'
  BY <1>1, <1>2 DEF Filled, LoadsOnce
<1>4. ASSUME form'.base # 0, NEW f \in Fields \ form'.typed
      PROVE  AsFilled(f)'
  <2>1. AsFilled(f)
    BY <1>2, <1>4 DEF Filled
  <2> QED
    BY <1>1, <1>2, <1>4, <2>1 DEF AsFilled
<1> QED
  BY <1>1, <1>2, <1>3, <1>4 DEF Filled

\* What update_project makes of a field nobody typed: what it was when the form
\* was filled in, or what it is.
LEMMA SaveWrites ==
    ASSUME RowsSafe, PageSafe, Filled, NEW i \in DOMAIN calls, ServeSave(i)
    PROVE  /\ Grown /\ form \in Form
           /\ calls'[i].kind = calls[i].kind /\ calls'[i].mount = calls[i].mount
           /\ calls'[i].brief = calls[i].brief
           /\ Len(calls') = Len(calls) /\ DOMAIN calls' = DOMAIN calls
           /\ \A j \in DOMAIN calls \ {i} : calls'[j] = calls[j]
           /\ form' # form =>
                 /\ calls[i].mount /\ Len(log') = Len(log) + 1
                 /\ form' = [form EXCEPT !.saves = @ \cup {Len(log')}]
           /\ calls[i].mount =>
                 \A f \in Fields \ form.typed :
                    Current'[Here].brief[f]
                       \in {log[form.base][Here].brief[f], Current[Here].brief[f]}
<1> DEFINE row == PatchedBrief(Current[Here], calls[i].brief)
<1>1. /\ \/ row = Current[Here] /\ UNCHANGED <<form, rowVars>>
         \/ /\ Commit(Here, row)
            /\ form' = IF calls[i].mount
                       THEN [form EXCEPT !.saves = @ \cup {Len(log')}]
                       ELSE form
      /\ calls' = [calls EXCEPT ![i].step = "ok", ![i].answer = Len(log'),
                                ![i].own = Len(log')]
  BY DEF ServeSave
<1>2. /\ row \in ProjectRow /\ row.here = Current[Here].here
      /\ \A f \in Fields : row.brief[f] = IF calls[i].brief[f] = Blank
                                          THEN Current[Here].brief[f]
                                          ELSE calls[i].brief[f]
  BY PageShape, PatchedIsARow DEF PageSafe, CallsSafe, Sound
<1> HIDE DEF row
<1>3. Here \in Projects /\ Current \in [Projects -> ProjectRow]
  BY RowsShape, PageAssumption
<1>4. Grown
  BY ServeSaveSafe
<1>5. Current'[Here] = Current[Here] \/ Current'[Here] = row
  <2>1. CASE UNCHANGED rowVars
    BY <2>1 DEF rowVars, Current
  <2>2. CASE Commit(Here, row)
    <3>1. Current' = [Current EXCEPT ![Here] = row]
      BY <1>2, <1>3, <2>2, Committed
    <3> QED
      BY <1>3, <3>1
  <2> QED
    BY <1>1, <2>1, <2>2
<1>6. form' # form => /\ calls[i].mount /\ Len(log') = Len(log) + 1
                      /\ form' = [form EXCEPT !.saves = @ \cup {Len(log')}]
  BY <1>1, <1>2, <1>3, Committed
<1>7. ASSUME calls[i].mount, NEW f \in Fields \ form.typed
      PROVE  Current'[Here].brief[f]
                \in {log[form.base][Here].brief[f], Current[Here].brief[f]}
  BY <1>2, <1>5, <1>7 DEF Filled, AsFilled
<1>8. /\ calls'[i].kind = calls[i].kind /\ calls'[i].mount = calls[i].mount
      /\ calls'[i].brief = calls[i].brief
      /\ Len(calls') = Len(calls) /\ DOMAIN calls' = DOMAIN calls
      /\ \A j \in DOMAIN calls \ {i} : calls'[j] = calls[j]
  <2>1. PICK c \in Call : c = calls[i]
    BY PageShape
  <2> DEFINE new == [c EXCEPT !.step = "ok", !.answer = Len(log'), !.own = Len(log')]
  <2>2. calls' = [calls EXCEPT ![i] = new]
    BY <1>1, <2>1
  <2>3. new.kind = c.kind /\ new.mount = c.mount /\ new.brief = c.brief
    BY DEF Call
  <2> HIDE DEF new
  <2>4. calls \in Seq(Call) /\ DOMAIN calls = 1 .. Len(calls) /\ Len(calls) \in Nat
    BY PageShape DEF PageSafe, CallsSafe
  <2>5. DOMAIN calls' = DOMAIN calls /\ calls' \in [1 .. Len(calls) -> Call \cup {new}]
    BY <2>2, <2>4
  <2>6. Len(calls') = Len(calls)
    BY <2>4, <2>5
  <2> QED
    BY <2>1, <2>2, <2>3, <2>4, <2>5, <2>6
<1>9. form \in Form
  BY DEF PageSafe, FormSafe
<1> QED
  BY <1>4, <1>6, <1>7, <1>8, <1>9

LEMMA ServeSaveFills ==
    ASSUME RowsSafe, PageSafe, Filled, NEW i \in DOMAIN calls, ServeSave(i)
    PROVE  Filled'
<1>1. page' = page /\ open' = open /\ Grown /\ form \in Form
  BY SaveWrites DEF ServeSave
<1>2. /\ Len(calls') = Len(calls) /\ DOMAIN calls' = DOMAIN calls
      /\ \A j \in DOMAIN calls : /\ calls'[j].kind = calls[j].kind
                                 /\ calls'[j].mount = calls[j].mount
                                 /\ calls'[j].brief = calls[j].brief
  BY SaveWrites
<1>3. CASE form' = form
  BY <1>1, <1>2, <1>3, FilledStays
<1>4. CASE form' # form
  <2>1. /\ calls[i].mount /\ Len(log') = Len(log) + 1
        /\ form' = [form EXCEPT !.saves = @ \cup {Len(log')}]
    BY <1>4, SaveWrites
  <2>2. /\ form'.base = form.base /\ form'.saves = form.saves \cup {Len(log')}
        /\ form'.fields = form.fields /\ form'.typed = form.typed
        /\ form'.editing = form.editing
    BY <1>1, <2>1 DEF Form
  <2>3. /\ Len(log) \in Nat \ {0} /\ form.base \in Nat /\ form.base # 0
        /\ form.base =< Len(log)
        /\ \A n \in 1 .. Len(log) : log'[n] = log[n]
    BY <2>1, RowsShape, GrownShape, <1>1 DEF PageSafe, FormSafe, Form, Filled
  <2>4. form'.saves \subseteq form'.base + 1 .. Len(log')
    BY <2>1, <2>2, <2>3 DEF Filled
  <2>5. LoadsOnce'
    BY <1>1, <1>2, <2>2 DEF Filled, LoadsOnce
  <2>6. ASSUME NEW f \in Fields \ form'.typed
        PROVE  AsFilled(f)'
    <3>1. AsFilled(f) /\ log'[form.base] = log[form.base]
      BY <2>2, <2>3 DEF Filled
    <3>2. ASSUME NEW c \in form.saves
          PROVE  log'[c] = log[c] /\ log'[c - 1] = log[c - 1]
      <4>1. c \in 1 .. Len(log) /\ c - 1 \in 1 .. Len(log)
        BY <2>3 DEF Filled
      <4> QED
        BY <2>3, <4>1
    <3>3. /\ log'[Len(log')][Here].brief[f]
                \in {log[form.base][Here].brief[f], Current[Here].brief[f]}
          /\ log'[Len(log') - 1] = Current
      <4>1. Current'[Here].brief[f]
               \in {log[form.base][Here].brief[f], Current[Here].brief[f]}
        BY <2>1, <2>2, SaveWrites
      <4>2. Len(log') - 1 = Len(log) /\ Len(log) \in 1 .. Len(log)
        BY <2>1, <2>3
      <4> QED
        BY <2>3, <4>1, <4>2 DEF Current
    <3>4. \A c \in form'.saves :
             log'[c][Here].brief[f] \in {log'[form'.base][Here].brief[f],
                                         log'[c - 1][Here].brief[f]}
      BY <2>2, <3>1, <3>2, <3>3 DEF AsFilled
    <3>5. \A j \in DOMAIN calls' :
             calls'[j].mount => calls'[j].brief[f] = log[form.base][Here].brief[f]
      BY <1>2, <3>1 DEF AsFilled
    <3> QED
      BY <2>2, <3>1, <3>4, <3>5 DEF AsFilled
  <2> QED
    BY <1>1, <1>2, <2>2, <2>3, <2>4, <2>5, <2>6 DEF Filled
<1> QED
  BY <1>3, <1>4

LEMMA PageStepFills ==
    ASSUME RowsSafe, PageSafe, Filled, PageStep
    PROVE  Filled'
<1>1. ASSUME NEW t \in OpenTabs, ChooseTab(t)
      PROVE  Filled'
  BY <1>1, ChooseTabFills
<1>2. ASSUME NEW i \in DOMAIN calls, Read(i) \/ ServeWork(i)
      PROVE  Filled'
  <2>1. PICK c \in Call : c = calls[i]
    BY PageShape
  <2>2. PICK new : /\ calls' = [calls EXCEPT ![i] = new]
                   /\ new.kind = c.kind /\ new.mount = c.mount /\ new.brief = c.brief
                   /\ page' = page /\ open' = open /\ form' = form
    <3>1. CASE Read(i)
      <4> DEFINE new == [c EXCEPT !.step = "ok", !.answer = Len(log)]
      <4>1. calls' = [calls EXCEPT ![i] = new] /\ page' = page /\ open' = open /\ form' = form
        BY <2>1, <3>1 DEF Read
      <4>2. new.kind = c.kind /\ new.mount = c.mount /\ new.brief = c.brief
        BY DEF Call
      <4> QED
        BY <4>1, <4>2
    <3>2. CASE ServeWork(i)
      <4> DEFINE new == [c EXCEPT !.step = "get", !.own = Len(log')]
      <4>1. calls' = [calls EXCEPT ![i] = new] /\ page' = page /\ open' = open /\ form' = form
        BY <2>1, <3>2 DEF ServeWork
      <4>2. new.kind = c.kind /\ new.mount = c.mount /\ new.brief = c.brief
        BY DEF Call
      <4> QED
        BY <4>1, <4>2
    <3> QED
      BY <1>2, <3>1, <3>2
  <2>3. Grown
    <3>1. CASE Read(i)
      BY <3>1, ReadSafe, RowsStay
    <3>2. CASE ServeWork(i)
      BY <3>2, ServeWorkSafe
    <3> QED
      BY <1>2, <3>1, <3>2
  <2>4. calls \in Seq(Call) /\ DOMAIN calls = 1 .. Len(calls) /\ Len(calls) \in Nat
    BY PageShape DEF PageSafe, CallsSafe
  <2>5. DOMAIN calls' = DOMAIN calls /\ calls' \in [1 .. Len(calls) -> Call \cup {new}]
    BY <2>2, <2>4
  <2>6. Len(calls') = Len(calls)
    BY <2>4, <2>5
  <2>7. \A j \in DOMAIN calls : /\ calls'[j].kind = calls[j].kind
                                /\ calls'[j].mount = calls[j].mount
                                /\ calls'[j].brief = calls[j].brief
    BY <2>1, <2>2, <2>4
  <2> QED
    BY <2>2, <2>3, <2>5, <2>6, <2>7, FilledStays
<1>3. ASSUME NEW i \in DOMAIN calls, Answering(i)
      PROVE  Filled'
  BY <1>2, <1>3, ServeSaveFills, DeliverFills, FailFills DEF Answering
<1>4. CASE Work \/ Save
  BY <1>4, SendFills
<1>5. CASE Edit \/ Cancel \/ \E f \in Fields : \E text \in Texts[f] : Type(f, text)
  BY <1>5, EditingFills
<1> QED
  BY <1>1, <1>3, <1>4, <1>5 DEF PageStep

-----------------------------------------------------------------------------
\* The screens.

LEMMA FirstRows ==
    ASSUME RowsInit
    PROVE  RowsSafe /\ Len(log) = 1
<1>1. Seed \in [Projects -> ProjectRow] /\ MaxCommits \in Nat /\ log = <<Seed>>
  BY RowsAssumption DEF RowsInit
<1>2. log \in Seq([Projects -> ProjectRow]) /\ Len(log) = 1 /\ log[1] = Seed
  BY <1>1
<1>3. Current = Seed
  BY <1>2 DEF Current
<1> QED
  BY <1>1, <1>2, <1>3 DEF RowsSafe

LEMMA FirstBoard ==
    ASSUME BoardMounted \/ BoardUnmounted, Len(log) = 1
    PROVE  BoardSafe
<1> DEFINE load == [answer |-> 0, filter |-> NoFilter, met |-> FALSE]
<1>1. MaxInFlight \in Nat \ {0} /\ MaxCommits \in Nat
  BY RowsAssumption, BoardAssumption
<1>2. /\ cards = <<>> /\ filter = NoFilter /\ create = NoCreate /\ clean = TRUE
      /\ status \in {"loading", "ready"}
      /\ drag = [d \in Drags |-> NoDrag] /\ told = [p \in Projects |-> 0]
      /\ loads = <<load>> \/ (loads = <<>> /\ status = "ready")
  BY DEF BoardMounted, BoardUnmounted
<1>3. NoFilter \in Filter
  BY DEF NoFilter, Filter
<1>4. load \in Load /\ load.answer = 0 /\ ~load.met
  <2>1. 0 \in 0 .. MaxCommits + 1
    BY <1>1
  <2> QED
    BY <1>3, <2>1 DEF Load
<1> HIDE DEF load
<1>5. /\ loads \in Seq(Load) /\ Len(loads) =< 1 /\ (loads = <<>> => status = "ready")
      /\ \A i \in DOMAIN loads : loads[i] = load /\ Len(loads) = 1
  <2>1. CASE loads = <<load>>
    BY <1>4, <2>1
  <2>2. CASE loads = <<>> /\ status = "ready"
    BY <2>2
  <2> QED
    BY <1>2, <2>1, <2>2
<1>6. /\ drag \in [Drags -> Moved] /\ \A d \in Drags : ~drag[d].on
      /\ told \in [Projects -> 0 .. MaxCommits + 1] /\ \A p \in Projects : told[p] = 0
  <2>1. 0 \in 0 .. MaxCommits + 1
    BY <1>1
  <2> QED
    BY <1>2, <2>1, NoneYet
<1>7. cards \in Seq(Card) /\ DOMAIN cards = {}
  BY <1>2
<1>8. BoardTypes
  <2>1. Len(loads) =< MaxInFlight
    BY <1>1, <1>5
  <2> QED
    BY <1>2, <1>3, <1>5, <1>6, <1>7, <2>1, NoneYet DEF BoardTypes
<1>9. InTheLog
  BY <1>2, <1>4, <1>5, <1>6, NoneYet DEF InTheLog
<1>10. LoneLoad
  BY <1>2, <1>4, <1>5, <1>6, NoneYet DEF LoneLoad
<1>11. OneAtATime
  BY <1>2, <1>4, <1>5, <1>6, NoneYet DEF OneAtATime
<1>12. CardsStand
  BY <1>2, <1>6, <1>7, NoneYet DEF CardsStand, Good
<1> QED
  BY <1>8, <1>9, <1>10, <1>11, <1>12 DEF BoardSafe

LEMMA FirstPage ==
    ASSUME RowsSafe, PageMounted \/ PageUnmounted
    PROVE  PageSafe /\ Filled
<1> DEFINE load == [kind |-> "load", step |-> "asked", brief |-> NoBrief,
                    answer |-> 0, own |-> 0, mount |-> FALSE, met |-> FALSE]
<1>1. /\ MaxCommits \in Nat /\ Len(log) \in Nat /\ MaxCalls \in Nat \ {0}
      /\ 0 \in 0 .. MaxCommits + 1
  BY RowsShape, PageAssumption
<1>2. /\ page = [status |-> "loading", copy |-> 0] /\ open = "brief"
      /\ form = NoForm /\ heard = 0 /\ apart = TRUE
      /\ calls = <<load>> \/ calls = <<>>
  BY DEF PageMounted, PageUnmounted
<1>3. /\ load \in Call /\ load.step = "asked" /\ load.answer = 0 /\ load.own = 0
      /\ load.brief = NoBrief
  BY <1>1, BriefsFit DEF Call
<1> HIDE DEF load
<1>4. /\ calls \in Seq(Call) /\ Len(calls) =< 1
      /\ \A i \in DOMAIN calls : calls[i] = load /\ Len(calls) = 1
  <2>1. CASE calls = <<load>>
    BY <1>3, <2>1
  <2>2. CASE calls = <<>>
    BY <2>2
  <2> QED
    BY <1>2, <2>1, <2>2
<1>5. CallsSafe(calls, Len(log), 0)
  <2>1. Sound(load, Len(log))
    BY <1>1, <1>3, BriefsFit DEF Sound
  <2>2. Len(calls) =< MaxCalls
    BY <1>1, <1>4
  <2> QED
    BY <1>3, <1>4, <2>1, <2>2 DEF CallsSafe
<1>6. FormSafe(form, Len(log)) /\ ~form.saving
  BY <1>2, FormsFit
<1>7. page \in [status: {"loading", "ready", "error"}, copy: Nat]
  BY <1>2
<1>8. page.copy = 0 /\ page.status = "loading" /\ open \in OpenTabs
  BY <1>2 DEF OpenTabs
<1>9. form.base = 0 /\ form.saves = {} /\ ~form.editing
  BY <1>2 DEF NoForm
<1>10. LoadsOnce
  <2>1. load.kind = "load"
    BY DEF load
  <2> QED
    BY <1>4, <1>8, <1>9, <2>1, <1>2 DEF LoadsOnce
<1>11. Filled
  <2>1. ~load.mount
    BY DEF load
  <2> QED
    BY <1>4, <1>8, <1>9, <1>10, <2>1 DEF Filled
<1> QED
  BY <1>1, <1>2, <1>5, <1>6, <1>7, <1>8, <1>11 DEF PageSafe

LEMMA ScreensNextSafe ==
    ASSUME ScreensInv, [ScreensNext]_screensVars
    PROVE  ScreensInv' /\ Grown
<1>1. RowsSafe /\ BoardSafe /\ PageSafe /\ Filled
  BY DEF ScreensInv
<1>2. CASE BoardStep /\ UNCHANGED pageVars
  <2>1. BoardSafe' /\ Grown
    BY <1>1, <1>2, BoardStepSafe
  <2>2. PageSafe'
    BY <1>1, <1>2, <2>1, PageStays
  <2>3. Filled'
    BY <1>1, <1>2, <2>1, FilledAside
  <2> QED
    BY <2>1, <2>2, <2>3 DEF ScreensInv, Grown
<1>3. CASE PageStep /\ UNCHANGED boardVars
  <2>1. PageSafe' /\ Grown
    BY <1>1, <1>3, PageStepSafe
  <2>2. Filled'
    BY <1>1, <1>3, PageStepFills
  <2>3. BoardSafe'
    BY <1>1, <1>3, <2>1, BoardStays
  <2> QED
    BY <2>1, <2>2, <2>3 DEF ScreensInv, Grown
<1>4. ASSUME Grown, UNCHANGED <<boardVars, pageVars>>
      PROVE  ScreensInv' /\ Grown
  <2>1. BoardSafe'
    BY <1>1, <1>4, BoardStays
  <2>2. PageSafe'
    BY <1>1, <1>4, PageStays
  <2>3. Filled'
    BY <1>1, <1>4, FilledAside
  <2> QED
    BY <1>4, <2>1, <2>2, <2>3 DEF ScreensInv, Grown
<1>5. CASE Somebody /\ UNCHANGED <<boardVars, pageVars>>
  BY <1>1, <1>4, <1>5, SomebodyGrows
<1>6. CASE UNCHANGED screensVars
  <2>1. UNCHANGED rowVars /\ UNCHANGED <<boardVars, pageVars>>
    BY <1>6 DEF screensVars
  <2> QED
    BY <1>1, <1>4, <2>1, RowsStay
<1>7. CASE UNCHANGED <<boardVars, pageVars, rowVars>>
  BY <1>1, <1>4, <1>7, RowsStay
<1> QED
  BY <1>2, <1>3, <1>5, <1>6, <1>7 DEF ScreensNext

\* The rows, what the board shows and has in flight, what the page shows, holds
\* and waits for are safe, whatever others commit.
THEOREM ScreensInvariant == ScreensSpec => []ScreensInv
<1>1. ScreensInit => ScreensInv
  BY FirstRows, FirstBoard, FirstPage DEF ScreensInit, ScreensInv
<1>2. ScreensInv /\ [ScreensNext]_screensVars => ScreensInv'
  BY ScreensNextSafe
<1> QED
  BY <1>1, <1>2, PTL DEF ScreensSpec

\* The variables have their types, and no list is shown as loading without a
\* request for it.
THEOREM ScreensTypes == ScreensSpec => [](BoardTypeOK /\ PageTypeOK)
<1>1. ASSUME ScreensInv
      PROVE  BoardTypeOK /\ PageTypeOK
  <2>1. RowsSafe /\ BoardSafe /\ PageSafe /\ Filled
    BY <1>1 DEF ScreensInv
  <2>2. RowsTypeOK
    BY <2>1, RowsShape DEF RowsTypeOK, RowsSafe
  <2>3. BoardTypeOK
    BY <2>1, <2>2 DEF BoardTypeOK, BoardSafe, BoardTypes, Moved
  <2>4. PageTypeOK
    <3>1. Len(log) \in Nat
      BY <2>1, RowsShape
    <3>2. page \in [status: {"loading", "ready", "error"}, copy: 0 .. Len(log)]
      BY <2>1, <3>1 DEF PageSafe
    <3>3. form \in [fields: [Fields -> (UNION Range(Texts)) \cup {Blank}],
                    editing: BOOLEAN, saving: BOOLEAN, base: 0 .. Len(log),
                    typed: SUBSET Fields, saves: SUBSET (1 .. Len(log))]
      <4>1. form \in Form /\ form.base =< Len(log)
        BY <2>1 DEF PageSafe, FormSafe
      <4>2. form.saves \subseteq 1 .. Len(log)
        BY <2>1, <3>1, <4>1 DEF Filled, Form
      <4> QED
        BY <3>1, <4>1, <4>2 DEF Form
    <3>4. heard \in 0 .. Len(log)
      BY <2>1, <3>1 DEF PageSafe
    <3> QED
      BY <2>1, <3>2, <3>3, <3>4
      DEF PageTypeOK, PageSafe, CallsSafe, FormSafe
  <2> QED
    BY <2>3, <2>4
<1> QED
  BY <1>1, ScreensInvariant, PTL

\* RestShowsTheBoard: whatever was dropped, created, refused or loaded again in
\* whatever order, at rest each card stands where the service had its project
\* no earlier than the last answer about it, once.
THEOREM ScreensShowTheBoard == ScreensSpec => []RestShowsTheBoard
<1>1. ASSUME ScreensInv
      PROVE  RestShowsTheBoard
  <2>1. RowsSafe /\ BoardTypes /\ CardsStand
    BY <1>1 DEF ScreensInv, BoardSafe
  <2>2. SUFFICES ASSUME InFlight = 0, clean
                 PROVE  Good(cards, log, told)
    BY <2>1, RowsShape DEF RestShowsTheBoard, Good, Stands
  <2>3. \A d \in Drags : ~drag[d].on
    BY <2>1, <2>2, NothingInFlight
  <2> QED
    BY <2>1, <2>2, <2>3 DEF CardsStand
<1> QED
  BY <1>1, ScreensInvariant, PTL

\* RestShowsOwnWork: the page shows what this browser was told it had changed,
\* unless requests have met, and a form that waits has its save in flight.
THEOREM ScreensShowOwnWork == ScreensSpec => []RestShowsOwnWork
<1>1. ScreensInv => RestShowsOwnWork
  BY DEF ScreensInv, PageSafe, RestShowsOwnWork
<1> QED
  BY <1>1, ScreensInvariant, PTL

\* SaveRevertsLaterChangesOnly: a save writes back a field nobody typed into the
\* form only over a change that was made, by something else than this form's own
\* saves, after the copy the form was filled in from.
THEOREM ScreensSaveReverts == ScreensSpec => SaveRevertsLaterChangesOnly
<1>1. ASSUME ScreensInv, NEW i \in DOMAIN calls, NEW f \in Fields \ form.typed,
             ServeSave(i), calls[i].mount,
             Current'[Here].brief[f] # Current[Here].brief[f]
      PROVE  \E c \in form.base + 1 .. Len(log) :
                /\ c \notin form.saves
                /\ log[c][Here].brief[f] # log[c - 1][Here].brief[f]
  <2> DEFINE old == log[form.base][Here].brief[f]
             away == {c \in form.base + 1 .. Len(log) : log[c][Here].brief[f] # old}
  <2>1. RowsSafe /\ PageSafe /\ Filled
    BY <1>1 DEF ScreensInv
  <2>2. /\ form.base \in Nat /\ form.base # 0 /\ form.base =< Len(log)
        /\ Len(log) \in Nat /\ AsFilled(f)
    BY <1>1, <2>1, RowsShape DEF PageSafe, FormSafe, Form, Filled
  <2>3. Current[Here].brief[f] # old
    BY <1>1, <2>1, SaveWrites
  <2>4. Len(log) \in away
    BY <2>2, <2>3 DEF Current
  <2>5. PICK c \in away : \A n \in away : c =< n
    <3>1. away \in SUBSET Nat /\ away # {}
      BY <2>2, <2>4
    <3> HIDE DEF away
    <3> QED
      BY <3>1, Least
  <2>6. log[c - 1][Here].brief[f] = old
    <3>1. c - 1 = form.base \/ c - 1 \in form.base + 1 .. Len(log)
      BY <2>2
    <3>2. c - 1 \notin away
      BY <2>2, <2>5
    <3> QED
      BY <3>1, <3>2
  <2>7. c \notin form.saves
    BY <2>2, <2>6 DEF AsFilled
  <2> QED
    BY <2>6, <2>7
<1>2. ScreensInv /\ [ScreensNext]_screensVars =>
        [\A i \in DOMAIN calls, f \in Fields \ form.typed :
            /\ ServeSave(i) /\ calls[i].mount
            /\ Current'[Here].brief[f] # Current[Here].brief[f]
            => \E c \in form.base + 1 .. Len(log) :
                  /\ c \notin form.saves
                  /\ log[c][Here].brief[f] # log[c - 1][Here].brief[f]
        ]_<<rowVars, pageVars>>
  BY <1>1
<1> QED
  BY <1>2, ScreensInvariant, PTL DEF ScreensSpec, SaveRevertsLaterChangesOnly

-----------------------------------------------------------------------------
\* The activity feed: its order.

\* created_at and id, of an entry or of no entry.
Stamp == [at: Nat, id: Nat]

LEMMA StampsOfEntries ==
    /\ Entry \subseteq Stamp /\ NoEntry \in Stamp /\ Cursor \subseteq Stamp
    /\ \A e \in Entry : e # NoEntry /\ Before(NoEntry, e) /\ ~Before(e, NoEntry)
<1>1. MaxTime \in Nat /\ Ids \subseteq Nat \ {0}
  BY FeedAssumption
<1>2. ASSUME NEW e \in Entry
      PROVE  e \in Stamp /\ e.at > 0
  <2>1. /\ e.at \in 1 .. MaxTime /\ e.id \in Ids
        /\ e = [at |-> e.at, id |-> e.id]
    BY DEF Entry
  <2>2. e.at \in Nat /\ e.at > 0 /\ e.id \in Nat
    BY <1>1, <2>1
  <2> QED
    BY <2>1, <2>2 DEF Stamp
<1>3. NoEntry \in Stamp /\ NoEntry.at = 0
  BY DEF NoEntry, Stamp
<1>4. \A e \in Entry : e # NoEntry /\ Before(NoEntry, e) /\ ~Before(e, NoEntry)
  BY <1>2, <1>3 DEF Before, Stamp
<1> QED
  BY <1>2, <1>3, <1>4 DEF Cursor

\* One of two comes first, and what is before what is before comes before.
LEMMA TotalOrder ==
    ASSUME NEW e \in Stamp, NEW f \in Stamp
    PROVE  /\ ~Before(e, e)
           /\ Before(e, f) => ~Before(f, e)
           /\ e # f => Before(e, f) \/ Before(f, e)
<1>1. /\ e.at \in Nat /\ e.id \in Nat /\ f.at \in Nat /\ f.id \in Nat
      /\ e = [at |-> e.at, id |-> e.id] /\ f = [at |-> f.at, id |-> f.id]
  BY DEF Stamp
<1>2. ~Before(e, e) /\ (Before(e, f) => ~Before(f, e))
  BY <1>1 DEF Before
<1>3. ASSUME e # f
      PROVE  Before(e, f) \/ Before(f, e)
  <2>1. e.at # f.at \/ e.id # f.id
    BY <1>1, <1>3
  <2> QED
    BY <1>1, <2>1 DEF Before
<1> QED
  BY <1>2, <1>3

LEMMA BeforeThat ==
    ASSUME NEW e \in Stamp, NEW f \in Stamp, NEW g \in Stamp
    PROVE  /\ Before(e, f) /\ Before(f, g) => Before(e, g)
           /\ Before(e, f) /\ ~Before(g, f) => Before(e, g)
           /\ ~Before(f, e) /\ Before(f, g) => Before(e, g)
<1>1. /\ e.at \in Nat /\ e.id \in Nat /\ f.at \in Nat /\ f.id \in Nat
      /\ g.at \in Nat /\ g.id \in Nat
  BY DEF Stamp
<1> QED
  BY <1>1 DEF Before

\* What is there has a first.
LEMMA FirstOfAll ==
    ASSUME NEW T \in SUBSET Stamp, T # {}
    PROVE  \E e \in T : \A f \in T : ~Before(f, e)
<1> DEFINE times == {e.at : e \in T}
<1>1. times \in SUBSET Nat /\ times # {}
  BY DEF Stamp
<1>2. PICK time \in times : \A n \in times : time =< n
  <2> HIDE DEF times
  <2> QED
    BY <1>1, Least
<1> DEFINE ids == {e.id : e \in {g \in T : g.at = time}}
<1>3. ids \in SUBSET Nat /\ ids # {}
  BY DEF Stamp
<1>4. PICK id \in ids : \A n \in ids : id =< n
  <2> HIDE DEF ids
  <2> QED
    BY <1>3, Least
<1>5. PICK e \in T : e.at = time /\ e.id = id
  OBVIOUS
<1>6. ASSUME NEW f \in T
      PROVE  ~Before(f, e)
  <2>1. f.at \in Nat /\ f.id \in Nat /\ time \in Nat /\ id \in Nat /\ time =< f.at
    BY <1>1, <1>2, <1>3, <1>4 DEF Stamp
  <2>2. f.at = time => id =< f.id
    BY <1>4
  <2> QED
    BY <1>5, <2>1, <2>2 DEF Before
<1> QED
  BY <1>6

\* What is finite can be listed, the latest first.
LEMMA CanBeSorted ==
    ASSUME NEW S \in SUBSET Stamp, IsFiniteSet(S)
    PROVE  \E s \in [1 .. Cardinality(S) -> S] :
              \A i, j \in 1 .. Cardinality(S) : i < j => Before(s[j], s[i])
<1> DEFINE Sorts(T, n) == \E s \in [1 .. n -> T] :
                             \A i, j \in 1 .. n : i < j => Before(s[j], s[i])
           bad == {n \in Nat : \E T \in SUBSET S : Cardinality(T) = n /\ ~Sorts(T, n)}
<1>1. SUFFICES bad = {}
  <2>1. Cardinality(S) \in Nat
    BY FS_CardinalityType
  <2> HIDE DEF Sorts
  <2>2. Sorts(S, Cardinality(S))
    BY <1>1, <2>1
  <2> QED
    BY <2>2 DEF Sorts
<1>2. SUFFICES ASSUME bad # {}
               PROVE  FALSE
  OBVIOUS
<1>3. PICK n \in bad : \A m \in bad : n =< m
  BY <1>2, Least
<1>4. PICK T \in SUBSET S : Cardinality(T) = n /\ ~Sorts(T, n)
  BY <1>3
<1>5. n \in Nat /\ IsFiniteSet(T) /\ T \in SUBSET Stamp
  BY <1>3, FS_Subset
<1>6. CASE n = 0
  <2>1. [i \in 1 .. 0 |-> 0] \in [1 .. 0 -> T]
    OBVIOUS
  <2>2. \A i, j \in 1 .. 0 : FALSE
    OBVIOUS
  <2> QED
    BY <1>4, <1>6, <2>1, <2>2
<1>7. CASE n # 0
  <2>1. T # {}
    BY <1>4, <1>5, <1>7, FS_EmptySet
  <2>2. PICK x \in T : \A y \in T : ~Before(y, x)
    BY <1>5, <2>1, FirstOfAll
  <2> DEFINE U == T \ {x}
  <2>3. Cardinality(U) = n - 1 /\ n - 1 \in Nat /\ n - 1 \notin bad
    <3>1. Cardinality(U) = n - 1
      BY <1>4, <1>5, FS_RemoveElement
    <3> HIDE DEF bad
    <3>2. n - 1 \in Nat /\ ~(n =< n - 1)
      BY <1>5, <1>7
    <3> QED
      BY <1>3, <3>1, <3>2
  <2>4. Sorts(U, n - 1)
    <3> HIDE DEF Sorts
    <3>1. U \in SUBSET S
      OBVIOUS
    <3> HIDE DEF U
    <3> QED
      BY <2>3, <3>1
  <2>5. PICK s \in [1 .. n - 1 -> U] :
           \A i, j \in 1 .. n - 1 : i < j => Before(s[j], s[i])
    BY <2>4
  <2> DEFINE t == [i \in 1 .. n |-> IF i = n THEN x ELSE s[i]]
  <2>6. \A i \in 1 .. n : i # n => i \in 1 .. n - 1 /\ s[i] \in U
    BY <1>5, <1>7, <2>5
  <2>7. t \in [1 .. n -> T]
    BY <2>6
  <2>8. ASSUME NEW i \in 1 .. n, NEW j \in 1 .. n, i < j
        PROVE  Before(t[j], t[i])
    <3>1. i # n /\ t[i] = s[i] /\ s[i] \in U /\ i \in 1 .. n - 1
      BY <1>5, <2>6, <2>8
    <3>2. CASE j = n
      <4>1. t[j] = x
        BY <3>2
      <4>2. s[i] \in Stamp /\ x \in Stamp /\ s[i] # x /\ ~Before(s[i], x)
        BY <1>5, <2>2, <3>1
      <4> QED
        BY <3>1, <4>1, <4>2, TotalOrder
    <3>3. CASE j # n
      BY <2>5, <2>6, <2>8, <3>1, <3>3
    <3> QED
      BY <3>2, <3>3
  <2> HIDE DEF t
  <2> QED
    BY <1>4, <2>7, <2>8
<1> QED
  BY <1>5, <1>6, <1>7

-----------------------------------------------------------------------------
\* The activity feed: its pages.

\* The entries of the project, at any time finitely many.
TrailSafe ==
    /\ clock \in 1 .. MaxTime /\ begun \in [Writers -> 0 .. MaxTime]
    /\ entries \subseteq Entry /\ IsFiniteSet(entries)
    /\ \A e, f \in entries : e.id = f.id => e = f

\* A page goes from below the cursor it was asked for down to the next one, and
\* nothing that is owed from between them is missing.
PageIsRight(p, f) ==
    LET within(e) == f.status = "loading_more" => Before(e, f.cursor)
    IN  /\ p \in Page
        /\ f.status = "loading_more" => Before(p.next, f.cursor)
        /\ \A i \in DOMAIN p.items : within(p.items[i]) /\ ~Before(p.items[i], p.next)
        /\ \A i, j \in DOMAIN p.items : i < j => Before(p.items[j], p.items[i])
        /\ \A e \in f.owed : within(e) /\ ~Before(e, p.next)
              => \E i \in DOMAIN p.items : p.items[i] = e

\* The list is in order and complete down to the cursor.
Listed(f) ==
    /\ \A i \in DOMAIN f.items : ~Before(f.items[i], f.cursor)
    /\ \A i, j \in DOMAIN f.items : i < j => Before(f.items[j], f.items[i])
    /\ \A e \in f.owed :
          ~Before(e, f.cursor) => \E i \in DOMAIN f.items : f.items[i] = e

Waits(f) == f.status \in {"loading", "loading_more"}

FeedSafe ==
    /\ feed \in Feed /\ feed.owed \subseteq entries
    /\ feed.answer = {} \/ \E p \in feed.answer : /\ feed.answer = {p}
                                                  /\ Waits(feed) /\ PageIsRight(p, feed)
    /\ feed.status = "loading_more" => feed.cursor # NoEntry
    /\ feed.status \in {"ready", "loading_more"} => Listed(feed)

FeedInv == TrailSafe /\ FeedSafe

\* The rows of a page come in the order of the query, each once.
LEMMA InOrder ==
    ASSUME TrailSafe, NEW rows \in SUBSET entries
    PROVE  LET s == LatestFirst(rows)
           IN  /\ Cardinality(rows) \in Nat
               /\ s \in [1 .. Cardinality(rows) -> rows]
               /\ \A i, j \in 1 .. Cardinality(rows) : i < j => Before(s[j], s[i])
               /\ \A e \in rows : \E i \in 1 .. Cardinality(rows) : s[i] = e
<1> DEFINE s == LatestFirst(rows)
           size == Cardinality(rows)
<1>1. IsFiniteSet(rows) /\ size \in Nat /\ rows \in SUBSET Stamp
  <2>1. IsFiniteSet(rows)
    BY FS_Subset DEF TrailSafe
  <2> QED
    BY <2>1, FS_CardinalityType, StampsOfEntries DEF TrailSafe
<1>2. \E t \in [1 .. Cardinality(rows) -> rows] :
         \A i, j \in 1 .. Cardinality(rows) : i < j => Before(t[j], t[i])
  BY <1>1, CanBeSorted
<1>3. /\ s \in [1 .. Cardinality(rows) -> rows]
      /\ \A i, j \in 1 .. Cardinality(rows) : i < j => Before(s[j], s[i])
  BY <1>2 DEF LatestFirst
<1> HIDE DEF s
<1>4. s \in Injection(1 .. size, rows)
  <2>1. ASSUME NEW i \in 1 .. size, NEW j \in 1 .. size, s[i] = s[j]
        PROVE  i = j
    <3>1. s[i] \in Stamp /\ ~Before(s[i], s[i])
      BY <1>1, <1>3, TotalOrder
    <3>2. ~(i < j) /\ ~(j < i)
      BY <1>3, <2>1, <3>1
    <3> QED
      BY <1>1, <3>2
  <2> QED
    BY <1>3, <2>1 DEF Injection, IsInjective
<1>5. s \in Surjection(1 .. size, rows)
  <2> HIDE DEF size
  <2>1. IsFiniteSet(1 .. size) /\ Cardinality(1 .. size) = size
    BY <1>1, FS_Interval
  <2>2. Cardinality(1 .. size) = Cardinality(rows)
    BY <2>1 DEF size
  <2> QED
    BY <1>1, <1>4, <2>2, FS_Injection
<1>6. \A e \in rows : \E i \in 1 .. size : s[i] = e
  BY <1>5 DEF Surjection
<1> QED
  BY <1>1, <1>3, <1>6 DEF s

\* A page is the first part of what lies below the cursor, down to the next.
LEMMA PageOfFeed ==
    ASSUME TrailSafe, NEW cursor \in Cursor, NEW p, p = FeedPage(cursor)
    PROVE  /\ p \in Page
           /\ cursor # NoEntry => Before(p.next, cursor)
           /\ \A i \in DOMAIN p.items :
                 p.items[i] \in Below(cursor) /\ ~Before(p.items[i], p.next)
           /\ \A i, j \in DOMAIN p.items : i < j => Before(p.items[j], p.items[i])
           /\ \A e \in Below(cursor) :
                 ~Before(e, p.next) => \E i \in DOMAIN p.items : p.items[i] = e
<1> DEFINE rows == LatestFirst(Below(cursor))
           all == Cardinality(Below(cursor))
           size == Min({PageSize, Len(rows)})
           items == SubSeq(rows, 1, size)
           next == IF Len(rows) > PageSize THEN rows[size] ELSE NoEntry
<1>1. p = [items |-> items, next |-> next]
  BY DEF FeedPage
<1>2. /\ PageSize \in Nat \ {0} /\ Below(cursor) \in SUBSET entries
      /\ Below(cursor) \subseteq Entry
      /\ \A e \in Below(cursor) : cursor # NoEntry => Before(e, cursor)
  BY FeedAssumption DEF Below, TrailSafe
<1>3. /\ all \in Nat /\ rows \in [1 .. all -> Below(cursor)]
      /\ \A i, j \in 1 .. all : i < j => Before(rows[j], rows[i])
      /\ \A e \in Below(cursor) : \E i \in 1 .. all : rows[i] = e
  BY <1>2, InOrder
<1> HIDE DEF rows, all
<1>4. Len(rows) = all /\ \A i \in 1 .. all : rows[i] \in Below(cursor) /\ rows[i] \in Stamp
  <2>1. rows \in Seq(Below(cursor)) /\ Len(rows) = all
    BY <1>3
  <2>2. \A i \in 1 .. all : rows[i] \in Below(cursor)
    BY <1>3
  <2> QED
    BY <1>2, <2>1, <2>2, StampsOfEntries
<1>5. /\ size \in Nat /\ size =< all /\ size =< PageSize
      /\ Len(rows) > PageSize => size = PageSize
      /\ ~(Len(rows) > PageSize) => size = all
  <2>1. ASSUME NEW a \in Nat, NEW b \in Nat
        PROVE  Min({a, b}) = IF a =< b THEN a ELSE b
    BY DEF Min
  <2>2. size = IF PageSize =< all THEN PageSize ELSE all
    BY <1>2, <1>3, <1>4, <2>1
  <2> HIDE DEF size
  <2> QED
    BY <1>2, <1>3, <1>4, <2>2
<1> HIDE DEF size
<1>6. /\ items \in Seq(Below(cursor)) /\ DOMAIN items = 1 .. size
      /\ \A i \in 1 .. size : items[i] = rows[i]
  <2>1. \A i \in 1 .. size : rows[i] \in Below(cursor)
    BY <1>3, <1>4, <1>5
  <2>2. /\ SubSeq(rows, 1, size) \in Seq(Below(cursor))
        /\ Len(SubSeq(rows, 1, size)) = IF 1 <= size THEN size - 1 + 1 ELSE 0
        /\ \A i \in 1 .. size - 1 + 1 : SubSeq(rows, 1, size)[i] = rows[1 + i - 1]
    <3>1. size \in Int /\ 1 \in Int
      BY <1>5
    <3> QED
      BY <2>1, <3>1, SubSeqProperties
  <2>3. items \in Seq(Below(cursor))
    BY <2>2
  <2>4. Len(items) = size /\ \A i \in 1 .. size : items[i] = rows[i]
    BY <1>5, <2>2
  <2> HIDE DEF items
  <2>5. DOMAIN items = 1 .. size
    BY <2>3, <2>4
  <2> QED
    BY <2>3, <2>4, <2>5
<1> HIDE DEF items
<1>7. /\ next \in Cursor /\ (cursor # NoEntry => Before(next, cursor))
      /\ \A i \in 1 .. size : ~Before(rows[i], next)
      /\ \A i \in 1 .. all : ~Before(rows[i], next) => i =< size
  <2>1. CASE Len(rows) > PageSize
    <3>1. next = rows[size] /\ size \in 1 .. all
      BY <1>2, <1>3, <1>4, <1>5, <2>1
    <3> HIDE DEF next
    <3>2. next \in Cursor /\ next \in Stamp /\ (cursor # NoEntry => Before(next, cursor))
      BY <1>2, <1>4, <3>1 DEF Cursor
    <3>3. ASSUME NEW i \in 1 .. size
          PROVE  ~Before(rows[i], next)
      <4>1. i \in 1 .. all /\ rows[i] \in Stamp
        BY <1>3, <1>4, <1>5
      <4>2. i = size \/ Before(next, rows[i])
        BY <1>3, <1>5, <3>1, <4>1
      <4> QED
        BY <3>1, <3>2, <4>1, <4>2, TotalOrder
    <3>4. ASSUME NEW i \in 1 .. all, ~Before(rows[i], next)
          PROVE  i =< size
      BY <1>3, <1>5, <3>1, <3>4
    <3> QED
      BY <3>2, <3>3, <3>4
  <2>2. CASE ~(Len(rows) > PageSize)
    <3>1. next = NoEntry /\ size = all
      BY <1>5, <2>2
    <3> HIDE DEF next
    <3>2. \A i \in 1 .. all : ~Before(rows[i], next) /\ i =< size
      BY <1>2, <1>3, <1>4, <3>1, StampsOfEntries
    <3>3. cursor # NoEntry => Before(next, cursor)
      BY <3>1, StampsOfEntries DEF Cursor
    <3> QED
      BY <3>1, <3>2, <3>3 DEF Cursor
  <2> QED
    BY <2>1, <2>2
<1> HIDE DEF next
<1>8. items \in Seq(Entry)
  <2>1. items \in [1 .. size -> Entry] /\ size \in Nat
    BY <1>2, <1>5, <1>6
  <2> QED
    BY <2>1
<1>9. \A i \in DOMAIN items : items[i] \in Below(cursor) /\ ~Before(items[i], next)
  BY <1>3, <1>4, <1>5, <1>6, <1>7
<1>10. \A i, j \in DOMAIN items : i < j => Before(items[j], items[i])
  <2>1. 1 .. size \subseteq 1 .. all
    BY <1>3, <1>5
  <2> QED
    BY <1>3, <1>6, <2>1
<1>11. ASSUME NEW e \in Below(cursor), ~Before(e, next)
       PROVE  \E i \in DOMAIN items : items[i] = e
  <2>1. PICK i \in 1 .. all : rows[i] = e
    BY <1>3
  <2>2. i \in 1 .. size
    BY <1>3, <1>5, <1>7, <1>11, <2>1
  <2> QED
    BY <1>6, <2>1, <2>2
<1>12. p.items = items /\ p.next = next
  BY <1>1
<1>13. p \in Page
  BY <1>1, <1>7, <1>8 DEF Page
<1> QED
  BY <1>7, <1>9, <1>10, <1>11, <1>12, <1>13

-----------------------------------------------------------------------------
\* The activity feed: its steps.

\* The tab stays as it is while the trail grows: what it is owed is still there.
LEMMA TrailSteps ==
    ASSUME FeedInv, \/ Tick
                    \/ \E w \in Writers : Begin(w) \/ CommitEntries(w) \/ Rollback(w)
    PROVE  FeedInv'
<1>1. /\ clock \in 1 .. MaxTime /\ begun \in [Writers -> 0 .. MaxTime]
      /\ entries \subseteq Entry /\ IsFiniteSet(entries) /\ MaxTime \in Nat
      /\ \A e, f \in entries : e.id = f.id => e = f
  BY FeedAssumption DEF FeedInv, TrailSafe
<1>2. feed' = feed
  BY DEF Tick, Begin, CommitEntries, Rollback
<1>3. TrailSafe' /\ entries \subseteq entries'
  <2>1. CASE Tick
    BY <1>1, <2>1 DEF Tick, TrailSafe
  <2>2. ASSUME NEW w \in Writers, Begin(w) \/ Rollback(w)
        PROVE  TrailSafe' /\ entries' = entries
    BY <1>1, <2>2 DEF Begin, Rollback, TrailSafe
  <2>3. ASSUME NEW w \in Writers, CommitEntries(w)
        PROVE  TrailSafe' /\ entries \subseteq entries'
    <3>1. PICK ids \in SUBSET (Ids \ {e.id : e \in entries}) :
             entries' = entries \cup {[at |-> begun[w], id |-> i] : i \in ids}
      BY <2>3 DEF CommitEntries
    <3> DEFINE new == {[at |-> begun[w], id |-> i] : i \in ids}
    <3>2. begun[w] \in 1 .. MaxTime
      BY <1>1, <2>3 DEF CommitEntries
    <3>3. new \subseteq Entry /\ \A e, f \in new : e.id = f.id => e = f
      BY <3>1, <3>2 DEF Entry
    <3>4. \A e \in new : e.id \in ids
      OBVIOUS
    <3>5. IsFiniteSet(new)
      <4> DEFINE put == [i \in ids |-> [at |-> begun[w], id |-> i]]
      <4>1. put \in Surjection(ids, new)
        BY DEF Surjection
      <4>2. IsFiniteSet(ids)
        BY <3>1, FeedAssumption, FS_Subset
      <4> HIDE DEF put, new
      <4> QED
        BY <4>1, <4>2, FS_Surjection
    <3>6. entries' = entries \cup new
      BY <3>1
    <3> HIDE DEF new
    <3>7. IsFiniteSet(entries')
      BY <1>1, <3>5, <3>6, FS_Union
    <3>8. \A e, f \in entries' : e.id = f.id => e = f
      <4>1. \A e \in entries, f \in new : e.id # f.id
        BY <3>1, <3>4
      <4> QED
        BY <1>1, <3>3, <3>6, <4>1
    <3>9. /\ begun' \in [Writers -> 0 .. MaxTime] /\ clock' = clock
          /\ entries' \subseteq Entry
      BY <1>1, <2>3, <3>3, <3>6 DEF CommitEntries
    <3> QED
      BY <1>1, <3>6, <3>7, <3>8, <3>9 DEF TrailSafe
  <2> QED
    BY <2>1, <2>2, <2>3
<1>4. FeedSafe'
  BY <1>2, <1>3 DEF FeedInv, FeedSafe
<1> QED
  BY <1>3, <1>4 DEF FeedInv

\* The page is read, and with it what is owed.
LEMMA ServeFeedSafe ==
    ASSUME FeedInv, ServeFeed
    PROVE  FeedInv'
<1> DEFINE more == feed.status = "loading_more"
           cursor == IF more THEN feed.cursor ELSE NoEntry
           owed == IF more THEN feed.owed \cup {e \in entries : Before(e, cursor)}
                           ELSE entries
<1>1. PICK p : p = FeedPage(cursor)
  OBVIOUS
<1>2. /\ Waits(feed) /\ feed' = [feed EXCEPT !.answer = {p}, !.owed = owed]
      /\ TrailSafe' /\ entries' = entries
  BY <1>1 DEF ServeFeed, trailVars, FeedInv, TrailSafe, Waits
<1>3. /\ TrailSafe /\ feed \in Feed /\ feed.owed \subseteq entries
      /\ (more => feed.cursor # NoEntry /\ Listed(feed))
      /\ NoEntry \in Cursor /\ feed.cursor \in Cursor
      /\ entries \subseteq Entry
  BY DEF FeedInv, FeedSafe, Feed, Cursor, TrailSafe
<1>4. cursor \in Cursor /\ (more => cursor # NoEntry /\ cursor = feed.cursor)
      /\ (~more => cursor = NoEntry)
  BY <1>3
<1> HIDE DEF cursor
<1>5. /\ p \in Page
      /\ cursor # NoEntry => Before(p.next, cursor)
      /\ \A i \in DOMAIN p.items :
            p.items[i] \in Below(cursor) /\ ~Before(p.items[i], p.next)
      /\ \A i, j \in DOMAIN p.items : i < j => Before(p.items[j], p.items[i])
      /\ \A e \in Below(cursor) :
            ~Before(e, p.next) => \E i \in DOMAIN p.items : p.items[i] = e
  BY <1>1, <1>3, <1>4, PageOfFeed
<1>6. owed \subseteq entries /\ \A e \in owed : more /\ ~Before(e, cursor) => e \in feed.owed
  BY <1>3
<1> HIDE DEF owed
<1>7. /\ feed' \in Feed /\ feed'.answer = {p} /\ feed'.owed = owed
      /\ feed'.status = feed.status /\ feed'.items = feed.items
      /\ feed'.cursor = feed.cursor
  BY <1>2, <1>3, <1>5, <1>6 DEF Feed
<1>8. PageIsRight(p, feed')
  <2>1. \A e \in Below(cursor) : more => Before(e, cursor)
    BY <1>4 DEF Below
  <2>2. \A e \in owed : (more => Before(e, cursor)) => e \in Below(cursor)
    BY <1>4, <1>6 DEF Below
  <2>3. ASSUME NEW e \in owed, more => Before(e, cursor), ~Before(e, p.next)
        PROVE  \E i \in DOMAIN p.items : p.items[i] = e
    BY <1>5, <2>2, <2>3
  <2>4. \A i \in DOMAIN p.items : /\ more => Before(p.items[i], cursor)
                                  /\ ~Before(p.items[i], p.next)
    BY <1>5, <2>1
  <2> QED
    BY <1>4, <1>5, <1>7, <2>3, <2>4 DEF PageIsRight
<1>9. more => Listed(feed')
  BY <1>3, <1>4, <1>6, <1>7 DEF Listed
<1>10. Waits(feed')
  BY <1>2, <1>7 DEF Waits
<1>11. feed'.status \in {"ready", "loading_more"} => more
  BY <1>2, <1>7 DEF Waits
<1>12. FeedSafe'
  BY <1>2, <1>3, <1>6, <1>7, <1>8, <1>9, <1>10, <1>11 DEF FeedSafe
<1> QED
  BY <1>2, <1>12 DEF FeedInv

\* A first page replaces the list; a further one, all of it below the cursor,
\* goes on where the list ends.
LEMMA DeliverFeedSafe ==
    ASSUME FeedInv, DeliverFeed
    PROVE  FeedInv'
<1> DEFINE more == feed.status = "loading_more"
           old == IF more THEN feed.items ELSE <<>>
<1>1. PICK p \in feed.answer :
         feed' = [feed EXCEPT !.status = "ready", !.answer = {},
                    !.items = old \o p.items, !.cursor = p.next]
  BY DEF DeliverFeed
<1>2. /\ TrailSafe' /\ entries' = entries
  BY DEF DeliverFeed, trailVars, FeedInv, TrailSafe
<1>3. /\ feed \in Feed /\ feed.owed \subseteq entries /\ entries \subseteq Entry
      /\ PageIsRight(p, feed) /\ feed.cursor \in Cursor
      /\ (more => Listed(feed))
  BY <1>1 DEF FeedInv, FeedSafe, Feed, TrailSafe
<1>4. old \in Seq(Entry) /\ (more => old = feed.items) /\ (~more => old = <<>>)
  <2>1. feed.items \in Seq(Entry)
    BY <1>3 DEF Feed
  <2>2. <<>> \in Seq(Entry)
    OBVIOUS
  <2> QED
    BY <2>1, <2>2
<1> DEFINE fresh == p.items
           next == p.next
           items == old \o fresh
<1>5. /\ fresh \in Seq(Entry) /\ next \in Cursor
      /\ more => Before(next, feed.cursor)
      /\ \A i \in DOMAIN fresh : /\ more => Before(fresh[i], feed.cursor)
                                 /\ ~Before(fresh[i], next)
      /\ \A i, j \in DOMAIN fresh : i < j => Before(fresh[j], fresh[i])
      /\ \A e \in feed.owed : (more => Before(e, feed.cursor)) /\ ~Before(e, next)
            => \E i \in DOMAIN fresh : fresh[i] = e
  BY <1>3 DEF PageIsRight, Page
<1>6. feed' = [feed EXCEPT !.status = "ready", !.answer = {},
                 !.items = items, !.cursor = next]
  BY <1>1
<1> HIDE DEF fresh, next, old
<1>7. /\ items \in Seq(Entry) /\ Len(items) = Len(old) + Len(fresh)
      /\ \A i \in 1 .. Len(old) + Len(fresh) :
            items[i] = IF i <= Len(old) THEN old[i] ELSE fresh[i - Len(old)]
  BY <1>4, <1>5, ConcatProperties
<1> HIDE DEF items
<1>8. /\ Len(old) \in Nat /\ Len(fresh) \in Nat
      /\ DOMAIN old = 1 .. Len(old) /\ DOMAIN fresh = 1 .. Len(fresh)
      /\ DOMAIN items = 1 .. Len(old) + Len(fresh)
  BY <1>4, <1>5, <1>7
<1>9. \A i \in DOMAIN items :
         \/ i \in DOMAIN old /\ items[i] = old[i]
         \/ i - Len(old) \in DOMAIN fresh /\ items[i] = fresh[i - Len(old)] /\ i > Len(old)
  BY <1>7, <1>8
<1>10. \A i \in DOMAIN old : i \in DOMAIN items /\ items[i] = old[i]
  BY <1>7, <1>8
<1>11. \A i \in DOMAIN fresh : Len(old) + i \in DOMAIN items /\ items[Len(old) + i] = fresh[i]
  BY <1>7, <1>8
<1>12. /\ next \in Stamp /\ feed.cursor \in Stamp
       /\ \A i \in DOMAIN old : old[i] \in Stamp
       /\ \A i \in DOMAIN fresh : fresh[i] \in Stamp
  <2>1. /\ \A i \in DOMAIN old : old[i] \in Entry
        /\ \A i \in DOMAIN fresh : fresh[i] \in Entry
    BY <1>4, <1>5, <1>8
  <2> QED
    BY <1>3, <1>5, <2>1, StampsOfEntries
<1>13. \A i \in DOMAIN old : more /\ ~Before(old[i], feed.cursor) /\ ~Before(old[i], next)
  <2>1. ASSUME NEW i \in DOMAIN old
        PROVE  more /\ ~Before(old[i], feed.cursor)
    <3>1. more
      BY <1>4, <1>8
    <3> QED
      BY <1>3, <1>4, <3>1 DEF Listed
  <2>2. ASSUME NEW i \in DOMAIN old
        PROVE  ~Before(old[i], next)
    <3>1. Before(next, feed.cursor) /\ ~Before(old[i], feed.cursor)
      BY <1>5, <2>1
    <3>2. Before(next, old[i])
      BY <1>12, <3>1, BeforeThat
    <3> QED
      BY <1>12, <3>2, TotalOrder
  <2> QED
    BY <2>1, <2>2
<1>14. \A i \in DOMAIN items : ~Before(items[i], next)
  BY <1>5, <1>9, <1>13
<1>15. ASSUME NEW i \in DOMAIN items, NEW j \in DOMAIN items, i < j
       PROVE  Before(items[j], items[i])
  <2>1. CASE j \in DOMAIN old
    <3>1. i \in DOMAIN old /\ items[i] = old[i] /\ items[j] = old[j] /\ more
      BY <1>8, <1>10, <1>13, <1>15, <2>1
    <3> QED
      BY <1>3, <1>4, <1>15, <2>1, <3>1 DEF Listed
  <2>2. CASE j \notin DOMAIN old
    <3>1. j - Len(old) \in DOMAIN fresh /\ items[j] = fresh[j - Len(old)] /\ j > Len(old)
      BY <1>9, <2>2
    <3>2. CASE i \in DOMAIN old
      <4>1. items[i] = old[i] /\ ~Before(old[i], feed.cursor) /\ more
        BY <1>10, <1>13, <3>2
      <4>2. Before(items[j], feed.cursor)
        BY <1>5, <3>1, <4>1
      <4> QED
        BY <1>12, <3>1, <3>2, <4>1, <4>2, BeforeThat
    <3>3. CASE i \notin DOMAIN old
      <4>1. i - Len(old) \in DOMAIN fresh /\ items[i] = fresh[i - Len(old)]
        BY <1>9, <3>3
      <4>2. i - Len(old) < j - Len(old)
        BY <1>8, <1>15
      <4> QED
        BY <1>5, <3>1, <4>1, <4>2
    <3> QED
      BY <3>2, <3>3
  <2> QED
    BY <2>1, <2>2
<1>16. ASSUME NEW e \in feed.owed, ~Before(e, next)
       PROVE  \E i \in DOMAIN items : items[i] = e
  <2>1. CASE more /\ ~Before(e, feed.cursor)
    <3>1. PICK i \in DOMAIN old : old[i] = e
      BY <1>3, <1>4, <2>1 DEF Listed
    <3> QED
      BY <1>10, <3>1
  <2>2. CASE more => Before(e, feed.cursor)
    <3>1. PICK i \in DOMAIN fresh : fresh[i] = e
      BY <1>5, <1>16, <2>2
    <3> QED
      BY <1>11, <3>1
  <2> QED
    BY <2>1, <2>2
<1>17. /\ feed' \in Feed /\ feed'.status = "ready" /\ feed'.answer = {}
       /\ feed'.items = items /\ feed'.cursor = next /\ feed'.owed = feed.owed
  BY <1>3, <1>5, <1>6, <1>7 DEF Feed
<1>18. Listed(feed')
  BY <1>14, <1>15, <1>16, <1>17 DEF Listed
<1>19. FeedSafe'
  BY <1>2, <1>3, <1>17, <1>18 DEF FeedSafe
<1> QED
  BY <1>2, <1>19 DEF FeedInv

\* The tab is opened or closed, waits or has failed: the list is as it was, or
\* is not shown.
LEMMA FeedWaitsSafe ==
    ASSUME FeedInv, OpenFeed \/ CloseFeed \/ FailFeed \/ LoadMore \/ RetryFeed
    PROVE  FeedInv'
<1>1. TrailSafe' /\ entries' = entries
  BY DEF OpenFeed, CloseFeed, FailFeed, LoadMore, RetryFeed, trailVars, FeedInv, TrailSafe
<1>2. feed \in Feed /\ feed.owed \subseteq entries
  BY DEF FeedInv, FeedSafe
<1>3. NoFeed \in Feed /\ NoFeed.owed = {} /\ NoFeed.answer = {} /\ NoFeed.status = "unmounted"
  <2>1. <<>> \in Seq(Entry) /\ NoEntry \in Cursor
    BY DEF Cursor
  <2> QED
    BY <2>1 DEF NoFeed, Feed
<1>4. CASE OpenFeed
  <2>1. feed' = [NoFeed EXCEPT !.status = "loading"]
    BY <1>4 DEF OpenFeed
  <2>2. feed' \in Feed /\ feed'.owed = {} /\ feed'.answer = {} /\ feed'.status = "loading"
    BY <1>3, <2>1 DEF Feed
  <2> QED
    BY <1>1, <2>2 DEF FeedInv, FeedSafe
<1>5. CASE CloseFeed
  BY <1>1, <1>3, <1>5 DEF CloseFeed, FeedInv, FeedSafe
<1>6. CASE FailFeed
  <2>1. feed' = [feed EXCEPT !.status = "error", !.answer = {}]
    BY <1>6 DEF FailFeed
  <2>2. /\ feed' \in Feed /\ feed'.owed = feed.owed /\ feed'.answer = {}
        /\ feed'.status = "error"
    BY <1>2, <2>1 DEF Feed
  <2> QED
    BY <1>1, <1>2, <2>2 DEF FeedInv, FeedSafe
<1>7. CASE LoadMore
  <2>1. /\ feed.status = "ready" /\ feed.cursor # NoEntry
        /\ feed' = [feed EXCEPT !.status = "loading_more"]
    BY <1>7 DEF LoadMore
  <2>2. /\ feed' \in Feed /\ feed'.owed = feed.owed /\ feed'.answer = feed.answer
        /\ feed'.status = "loading_more" /\ feed'.items = feed.items
        /\ feed'.cursor = feed.cursor
    BY <1>2, <2>1 DEF Feed
  <2>3. Listed(feed) /\ feed.answer = {}
    BY <2>1 DEF FeedInv, FeedSafe, Waits
  <2>4. Listed(feed')
    BY <2>2, <2>3 DEF Listed
  <2> QED
    BY <1>1, <1>2, <2>1, <2>2, <2>3, <2>4 DEF FeedInv, FeedSafe
<1>8. CASE RetryFeed
  <2>1. feed.status = "error" /\ feed' = [feed EXCEPT !.status = "loading"]
    BY <1>8 DEF RetryFeed
  <2>2. /\ feed' \in Feed /\ feed'.owed = feed.owed /\ feed'.answer = feed.answer
        /\ feed'.status = "loading"
    BY <1>2, <2>1 DEF Feed
  <2>3. feed.answer = {}
    BY <2>1 DEF FeedInv, FeedSafe, Waits
  <2> QED
    BY <1>1, <1>2, <2>2, <2>3 DEF FeedInv, FeedSafe
<1> QED
  BY <1>4, <1>5, <1>6, <1>7, <1>8

\* The trail is well formed, and the tab lists or is sent what it is owed.
THEOREM FeedInvariant == FeedSpec => []FeedInv
<1>1. FeedInit => FeedInv
  <2>1. ASSUME FeedInit
        PROVE  TrailSafe
    <3>1. {} \subseteq Entry /\ IsFiniteSet({}) /\ MaxTime \in Nat \ {0}
      BY FS_EmptySet, FeedAssumption
    <3> QED
      BY <2>1, <3>1 DEF FeedInit, TrailSafe
  <2>2. ASSUME FeedInit
        PROVE  FeedSafe
    <3>1. <<>> \in Seq(Entry) /\ NoEntry \in Cursor
      BY DEF Cursor
    <3> QED
      BY <2>2, <3>1 DEF FeedInit, FeedSafe, NoFeed, Feed
  <2> QED
    BY <2>1, <2>2 DEF FeedInv
<1>2. FeedInv /\ [FeedNext]_feedVars => FeedInv'
  <2>1. ASSUME FeedInv, UNCHANGED feedVars
        PROVE  FeedInv'
    BY <2>1 DEF feedVars, trailVars, FeedInv, TrailSafe, FeedSafe
  <2> QED
    BY <2>1, TrailSteps, ServeFeedSafe, DeliverFeedSafe, FeedWaitsSafe DEF FeedNext
<1> QED
  BY <1>1, <1>2, PTL DEF FeedSpec

\* The variables have their types, no two entries have one id, and one answer at
\* most is on its way, to a tab that waits for it.
THEOREM FeedTypes == FeedSpec => []FeedTypeOK
<1>1. ASSUME FeedInv
      PROVE  FeedTypeOK
  <2>1. Cardinality(feed.answer) =< 1 /\ (feed.answer # {} => Waits(feed))
    <3>1. \/ feed.answer = {}
          \/ Waits(feed) /\ \E p : feed.answer = {p}
      BY <1>1 DEF FeedInv, FeedSafe
    <3>2. CASE feed.answer = {}
      BY <3>2, FS_EmptySet
    <3>3. CASE \E p : feed.answer = {p}
      <4>1. Cardinality(feed.answer) = 1
        BY <3>3, FS_Singleton
      <4> QED
        BY <3>1, <4>1
    <3> QED
      BY <3>1, <3>2, <3>3
  <2> QED
    BY <1>1, <2>1 DEF FeedInv, TrailSafe, FeedSafe, Waits, FeedTypeOK
<1> QED
  BY <1>1, FeedInvariant, PTL

\* The feed of the screens is the feed by itself: each of their behaviours is one
\* of the tab with the rows of `activities`.
THEOREM ScreensHaveTheFeed == ScreensSpec => FeedSpec
<1>1. ScreensInit => FeedInit
  BY DEF ScreensInit
<1>2. [ScreensNext]_screensVars => [FeedNext]_feedVars
  BY DEF ScreensNext, screensVars
<1> QED
  BY <1>1, <1>2, PTL DEF ScreensSpec, FeedSpec

\* FeedIsComplete: for any page size and any uuids, though transactions record
\* several entries at one created_at and commit in any order, the feed leaves
\* out, down to its cursor, no entry that was committed when its page was read,
\* and shows none twice.
THEOREM ScreensFeedIsComplete == ScreensSpec => []FeedIsComplete
<1>1. FeedInv => FeedIsComplete
  BY DEF FeedInv, FeedSafe, Listed, FeedIsComplete
<1> QED
  BY <1>1, ScreensHaveTheFeed, FeedInvariant, PTL

=============================================================================
