---------------------------- MODULE AccountProofs ----------------------------
(***************************************************************************)
(* Proofs about accounts.  Of what a user does about one in one browser,   *)
(* each of the three parts by itself: the session, the push switch and the *)
(* notification switches, for any numbers of session reads, tabs, users,   *)
(* subscriptions, switches and requests; and of the one-time tokens behind *)
(* invitations and password resets.                                        *)
(***************************************************************************)
EXTENDS Account, AuthTokens, SequenceTheorems, FiniteSetTheorems, TLAPS

(***************************************************************************)
(* The session.  The claim in the cookie may be older than the row for a   *)
(* reason that is recorded, or while the form that has changed the row has *)
(* not signed out yet; to know when that is, the invariant says which      *)
(* requests a handler at work can have before it.                          *)
(***************************************************************************)
\* What a handler may have before it: its requests, from one of them on.
ToRead       == <<"read">>
ToSignIn     == <<"signin", "read">>
ToForget     == <<"read", "signin", "read">>
ToLeave      == <<"signout", "read">>
ToSignOut    == <<"signout", "read", "signin", "read">>
ToChange     == <<"change", "signout", "read", "signin", "read">>
ToAccept     == <<"accept", "signin", "read">>
ToReset      == <<"reset">>

Ahead(kind) ==
    CASE kind = "signin" -> {ToSignIn, ToRead}
      [] kind = "change" -> {ToChange, ToSignOut, ToForget, ToSignIn, ToRead}
      [] kind = "accept" -> {ToAccept, ToSignIn, ToRead}
      [] kind = "reset"  -> {ToReset}
      [] kind = "logout" -> {ToLeave, ToRead}

\* Once it is answered, signing out will clear the cookie.
OnItsWay ==
    flow.kind # "none" =>
        /\ flow.rest \in Ahead(flow.kind)
        /\ Head(flow.rest) = "signout" /\ flow.step = "ok" => flow.claims = "off"

\* A change of the password that has not signed out yet.
Changing == flow.kind = "change" /\ Head(flow.rest) \in {"change", "signout"}

\* The claim is older than the row only for a reason, or while the form that
\* has changed the row has yet to sign out.
ClaimHasReason ==
    cookie = "must" /\ ~account.must => excuse # {} \/ Changing

SessionInv ==
    /\ account \in AccountRow
    /\ cookie \in Claims
    /\ tab \in Tab
    /\ reads \in Seq(Read) /\ Len(reads) =< MaxReads
    /\ flow \in Flow
    /\ excuse \subseteq {"broken", "overtaken", "elsewhere"}
    /\ OnItsWay
    /\ ClaimHasReason

-----------------------------------------------------------------------------
LEMMA TakingOut ==
    ASSUME NEW S, NEW s \in Seq(S), NEW i \in DOMAIN s
    PROVE  /\ RemoveAt(s, i) \in Seq(S)
           /\ Len(RemoveAt(s, i)) = Len(s) - 1
           /\ \A j \in DOMAIN RemoveAt(s, i) :
                 /\ j \in DOMAIN s /\ j + 1 \in DOMAIN s
                 /\ j < i => RemoveAt(s, i)[j] = s[j]
                 /\ j >= i => RemoveAt(s, i)[j] = s[j + 1]
<1> DEFINE a == SubSeq(s, 1, i - 1)
           b == SubSeq(s, i + 1, Len(s))
<1>1. Len(s) \in Nat /\ i \in 1 .. Len(s) /\ DOMAIN s = 1 .. Len(s)
  OBVIOUS
<1>2. /\ a \in Seq(S) /\ Len(a) = i - 1
      /\ \A j \in 1 .. i - 1 : a[j] = s[j]
  BY <1>1, SubSeqProperties
<1>3. /\ b \in Seq(S) /\ Len(b) = Len(s) - i
      /\ \A j \in 1 .. Len(s) - i : b[j] = s[i + j]
  BY <1>1, SubSeqProperties
<1> DEFINE c == a \o b
<1>4. RemoveAt(s, i) = c
  BY DEF RemoveAt
<1> HIDE DEF a, b
<1>5. /\ c \in Seq(S) /\ Len(c) = Len(a) + Len(b)
      /\ \A j \in 1 .. Len(a) + Len(b) :
            c[j] = IF j =< Len(a) THEN a[j] ELSE b[j - Len(a)]
  BY <1>2, <1>3, ConcatProperties
<1> HIDE DEF c
<1>6. Len(c) = Len(s) - 1 /\ DOMAIN c = 1 .. Len(s) - 1
  BY <1>1, <1>2, <1>3, <1>5
<1>7. ASSUME NEW j \in 1 .. Len(s) - 1
      PROVE  /\ j \in DOMAIN s /\ j + 1 \in DOMAIN s
             /\ j < i => c[j] = s[j]
             /\ j >= i => c[j] = s[j + 1]
  <2>1. j < i => c[j] = s[j]
    BY <1>1, <1>2, <1>3, <1>5
  <2>2. ASSUME j >= i PROVE c[j] = s[j + 1]
    <3> DEFINE k == j - (i - 1)
    <3>1. /\ k \in 1 .. Len(s) - i /\ i + k = j + 1
          /\ j \in 1 .. Len(a) + Len(b) /\ ~(j =< Len(a))
          /\ k = j - Len(a)
      BY <1>1, <1>2, <1>3, <2>2
    <3>2. c[j] = b[k]
      BY <1>5, <3>1
    <3>3. b[k] = s[i + k]
      BY <1>3, <3>1
    <3> QED
      BY <3>1, <3>2, <3>3
  <2> QED
    BY <1>1, <2>1, <2>2
<1> QED
  BY <1>4, <1>5, <1>6, <1>7

\* Sequences of up to five elements.
LEMMA ShortSequences ==
    ASSUME NEW S, NEW a \in S, NEW b \in S, NEW c \in S, NEW d \in S, NEW e \in S
    PROVE  /\ <<a>> \in Seq(S) /\ <<a, b>> \in Seq(S) /\ <<a, b, c>> \in Seq(S)
           /\ <<a, b, c, d>> \in Seq(S) /\ <<a, b, c, d, e>> \in Seq(S)
<1>1. <<a>> \in Seq(S) /\ <<a, b>> \in Seq(S) /\ <<a, b, c>> \in Seq(S)
  OBVIOUS
<1>2. <<a, b, c, d>> \in Seq(S)
  OBVIOUS
<1>3. <<a, b, c, d, e>> \in Seq(S)
  OBVIOUS
<1> QED
  BY <1>1, <1>2, <1>3

\* The heads and the tails of what a handler may have before it.
LEMMA Parts ==
    /\ Head(ToRead) = "read" /\ Tail(ToRead) = <<>>
    /\ Head(ToSignIn) = "signin" /\ Tail(ToSignIn) = ToRead
    /\ Head(ToForget) = "read" /\ Tail(ToForget) = ToSignIn
    /\ Head(ToLeave) = "signout" /\ Tail(ToLeave) = ToRead
    /\ Head(ToSignOut) = "signout" /\ Tail(ToSignOut) = ToForget
    /\ Head(ToChange) = "change" /\ Tail(ToChange) = ToSignOut
    /\ Head(ToAccept) = "accept" /\ Tail(ToAccept) = ToSignIn
    /\ Head(ToReset) = "reset" /\ Tail(ToReset) = <<>>
<1>1. Head(ToRead) = "read" /\ Tail(ToRead) = <<>>
  BY DEF ToRead
<1>2. Head(ToSignIn) = "signin" /\ Tail(ToSignIn) = ToRead
  BY DEF ToSignIn, ToRead
<1>3. Head(ToForget) = "read" /\ Tail(ToForget) = ToSignIn
  BY DEF ToForget, ToSignIn
<1>4. Head(ToLeave) = "signout" /\ Tail(ToLeave) = ToRead
  BY DEF ToLeave, ToRead
<1>5. Head(ToSignOut) = "signout" /\ Tail(ToSignOut) = ToForget
  BY DEF ToSignOut, ToForget
<1>6. Head(ToChange) = "change" /\ Tail(ToChange) = ToSignOut
  BY DEF ToChange, ToSignOut
<1>7. Head(ToAccept) = "accept" /\ Tail(ToAccept) = ToSignIn
  BY DEF ToAccept, ToSignIn
<1>8. Head(ToReset) = "reset" /\ Tail(ToReset) = <<>>
  BY DEF ToReset
<1> QED
  BY <1>1, <1>2, <1>3, <1>4, <1>5, <1>6, <1>7, <1>8

\* They are non-empty sequences of words.
LEMMA AllWords ==
    ASSUME NEW s \in {ToRead, ToSignIn, ToForget, ToLeave, ToSignOut, ToChange,
                      ToAccept, ToReset}
    PROVE  s \in Seq(Words) /\ s # <<>>
<1>1. /\ "signin" \in Words /\ "signout" \in Words /\ "read" \in Words
      /\ "change" \in Words /\ "accept" \in Words /\ "reset" \in Words
  BY DEF Words
<1> HIDE DEF Words
<1>2. ToRead \in Seq(Words) /\ ToRead # <<>>
  BY <1>1, ShortSequences DEF ToRead
<1>3. ToSignIn \in Seq(Words) /\ ToSignIn # <<>>
  BY <1>1, ShortSequences DEF ToSignIn
<1>4. ToForget \in Seq(Words) /\ ToForget # <<>>
  BY <1>1, ShortSequences DEF ToForget
<1>5. ToLeave \in Seq(Words) /\ ToLeave # <<>>
  BY <1>1, ShortSequences DEF ToLeave
<1>6. ToSignOut \in Seq(Words) /\ ToSignOut # <<>>
  BY <1>1, ShortSequences DEF ToSignOut
<1>7. ToChange \in Seq(Words) /\ ToChange # <<>>
  BY <1>1, ShortSequences DEF ToChange
<1>8. ToAccept \in Seq(Words) /\ ToAccept # <<>>
  BY <1>1, ShortSequences DEF ToAccept
<1>9. ToReset \in Seq(Words) /\ ToReset # <<>>
  BY <1>1, ShortSequences DEF ToReset
<1> QED
  BY <1>2, <1>3, <1>4, <1>5, <1>6, <1>7, <1>8, <1>9

\* A handler begins with all its requests; what is left of them after one is
\* answered is nothing, or what may be before the same handler.
LEMMA Programs ==
    ASSUME NEW kind \in Kinds
    PROVE  /\ RequestsOf(kind) \in Ahead(kind)
           /\ \A rest \in Ahead(kind) :
                 /\ rest \in Seq(Words) /\ rest # <<>>
                 /\ Head(rest) \in Words
                 /\ Tail(rest) # <<>> => Tail(rest) \in Ahead(kind)
<1>1. RequestsOf(kind) \in Ahead(kind)
  BY DEF RequestsOf, Ahead, Kinds, ToSignIn, ToChange, ToAccept, ToReset, ToLeave
<1>2. ASSUME NEW rest \in Ahead(kind)
      PROVE  /\ Head(rest) \in Words
             /\ Tail(rest) # <<>> => Tail(rest) \in Ahead(kind)
  BY <1>2, Parts DEF Ahead, Kinds, Words
<1>3. ASSUME NEW rest \in Ahead(kind)
      PROVE  rest \in Seq(Words) /\ rest # <<>>
  BY <1>3, AllWords DEF Ahead, Kinds
<1> QED
  BY <1>1, <1>2, <1>3

\* Where the middleware leads is a page.
LEMMA MiddlewareLeads ==
    ASSUME NEW claims \in Claims, NEW path \in Paths
    PROVE  Middleware(claims, path) \in Paths
BY DEF Middleware, Claims, Paths, Home, Inside, ChangePage, TokenPage

LEMMA FlowResting == NoFlow \in Flow /\ NoFlow.kind = "none"
<1>1. <<>> \in Seq(Words)
  OBVIOUS
<1>2. (CHOOSE p \in Passwords : TRUE) \in Passwords
  BY SessionAssumption
<1> QED
  BY <1>1, <1>2 DEF NoFlow, Flow, Kinds, Claims

LEMMA SessionInitInv == SessionInit => SessionInv
<1> SUFFICES ASSUME SessionInit PROVE SessionInv
  OBVIOUS
<1>1. account \in AccountRow
  BY SessionAssumption DEF SessionInit, AccountRow
<1>2. tab \in Tab /\ cookie \in Claims
  BY DEF SessionInit, Tab, Claims, Paths
<1>3. reads \in Seq(Read) /\ Len(reads) =< MaxReads
  <2>1. [claims |-> "off", mine |-> TRUE] \in Read
    BY DEF Read, Claims
  <2> QED
    BY <2>1, SessionAssumption DEF SessionInit
<1>4. flow \in Flow /\ flow.kind = "none"
  BY FlowResting DEF SessionInit
<1> QED
  BY <1>1, <1>2, <1>3, <1>4 DEF SessionInit, SessionInv, OnItsWay, ClaimHasReason

-----------------------------------------------------------------------------
\* Moving about.

LEMMA GoingIsTab ==
    ASSUME SessionInv, NEW path \in Paths
    PROVE  /\ GoTo(path) \in Tab
           /\ [GoTo(path) EXCEPT !.session = "loading"] \in Tab
<1>1. Middleware(cookie, path) \in Paths
  BY MiddlewareLeads DEF SessionInv
<1> QED
  BY <1>1 DEF GoTo, SessionInv, Tab

LEMMA TabStep ==
    ASSUME SessionInv, tab' \in Tab,
           UNCHANGED <<account, cookie, reads, flow, excuse>>
    PROVE  SessionInv'
BY DEF SessionInv, OnItsWay, ClaimHasReason, Changing

LEMMA OpenPageStep ==
    ASSUME SessionInv, NEW path \in Paths, OpenPage(path)
    PROVE  SessionInv'
<1>1. tab' \in Tab
  BY GoingIsTab DEF OpenPage
<1>2. reads' \in Seq(Read) /\ Len(reads') =< MaxReads
  <2> DEFINE others == [i \in DOMAIN reads |-> [reads[i] EXCEPT !.mine = FALSE]]
  <2>1. reads \in Seq(Read) /\ cookie \in Claims /\ Len(reads) < MaxReads
    BY DEF SessionInv, OpenPage
  <2>2. others \in Seq(Read) /\ Len(others) = Len(reads)
    <3>1. ASSUME NEW i \in DOMAIN reads
          PROVE  [reads[i] EXCEPT !.mine = FALSE] \in Read
      <4>1. reads[i] \in Read
        BY <2>1
      <4> QED
        BY <4>1 DEF Read
    <3> QED
      BY <2>1, <3>1
  <2>3. [claims |-> cookie, mine |-> TRUE] \in Read
    BY <2>1 DEF Read
  <2>4. reads' = Append(others, [claims |-> cookie, mine |-> TRUE])
    BY DEF OpenPage
  <2> HIDE DEF others
  <2> QED
    BY <2>1, <2>2, <2>3, <2>4, SessionAssumption
<1>3. excuse' \subseteq {"broken", "overtaken", "elsewhere"}
  BY DEF OpenPage, Broken, SessionInv
<1>4. flow' \in Flow /\ flow'.kind = "none"
  BY FlowResting DEF OpenPage
<1>5. ClaimHasReason'
  BY DEF OpenPage, Broken, SessionInv, ClaimHasReason, Changing
<1> QED
  BY <1>1, <1>2, <1>3, <1>4, <1>5 DEF SessionInv, OnItsWay, OpenPage

\* The effects of the pages.
LEMMA EffectsStep ==
    ASSUME SessionInv, Effects
    PROVE  SessionInv'
<1>1. Home \in Paths /\ Inside \in Paths /\ ChangePage \in Paths
  BY DEF Paths
<1>2. tab' \in Tab
  BY <1>1, GoingIsTab DEF Effects, HomeEffect, LayoutEffect
<1> QED
  BY <1>2, TabStep DEF Effects, HomeEffect, LayoutEffect

-----------------------------------------------------------------------------
\* Reads of the session.

LEMMA AskSessionStep ==
    ASSUME SessionInv, NEW mine \in BOOLEAN, AskSession(mine)
    PROVE  SessionInv'
<1>1. [claims |-> cookie, mine |-> mine] \in Read
  BY DEF Read, SessionInv
<1>2. reads' \in Seq(Read) /\ Len(reads') =< MaxReads
  BY <1>1, SessionAssumption DEF AskSession, SessionInv
<1> QED
  BY <1>2 DEF AskSession, SessionInv, OnItsWay, ClaimHasReason, Changing

\* A read that is answered or lost is taken out.
LEMMA ReadGone ==
    ASSUME SessionInv, NEW i \in DOMAIN reads, reads' = RemoveAt(reads, i)
    PROVE  /\ reads' \in Seq(Read) /\ Len(reads') =< MaxReads
           /\ reads[i] \in Read
<1>1. reads \in Seq(Read) /\ Len(reads) =< MaxReads /\ Len(reads) \in Nat
  BY DEF SessionInv
<1>2. RemoveAt(reads, i) \in Seq(Read) /\ Len(RemoveAt(reads, i)) = Len(reads) - 1
  BY <1>1, TakingOut
<1> QED
  BY <1>1, <1>2, SessionAssumption

LEMMA ReadingStep ==
    ASSUME SessionInv, Reading
    PROVE  SessionInv'
<1>1. PICK i \in DOMAIN reads : SessionAnswered(i) \/ SessionLost(i)
  BY DEF Reading
<1>2. /\ reads' \in Seq(Read) /\ Len(reads') =< MaxReads
      /\ reads[i].claims \in Claims
  BY <1>1, ReadGone DEF SessionAnswered, SessionLost, Read
<1>3. CASE SessionAnswered(i)
  <2>1. cookie' \in Claims /\ tab' \in Tab
    BY <1>2, <1>3 DEF SessionAnswered, SessionInv, Tab
  <2>2. ClaimHasReason'
    BY <1>3 DEF SessionAnswered, SessionInv, ClaimHasReason, Changing
  <2> QED
    BY <1>2, <1>3, <2>1, <2>2 DEF SessionAnswered, SessionInv, OnItsWay
<1>4. CASE SessionLost(i)
  <2>1. tab' \in Tab
    BY <1>4 DEF SessionLost, SessionInv, Tab, Claims
  <2> QED
    BY <1>2, <1>4, <2>1 DEF SessionLost, SessionInv, OnItsWay, ClaimHasReason, Changing
<1> QED
  BY <1>1, <1>3, <1>4

LEMMA ExpireStep ==
    ASSUME SessionInv, Expire
    PROVE  SessionInv'
BY DEF SessionInv, Expire, OnItsWay, ClaimHasReason, Changing, Claims

-----------------------------------------------------------------------------
\* The handlers.

\* A form is submitted: it has nothing behind it yet.
LEMMA SubmitStep ==
    ASSUME SessionInv, NEW kind \in Kinds, NEW current \in Passwords,
           NEW new \in Passwords, Submit(kind, current, new)
    PROVE  SessionInv'
<1>1. RequestsOf(kind) \in Ahead(kind) /\ RequestsOf(kind) \in Seq(Words)
  BY Programs
<1>2. /\ flow' \in Flow /\ flow'.kind = kind /\ flow'.rest = RequestsOf(kind)
      /\ flow'.step = "asked"
  BY <1>1 DEF Submit, Flow, SessionInv
<1>3. OnItsWay'
  BY <1>1, <1>2 DEF OnItsWay
<1>4. ClaimHasReason'
  BY DEF Submit, SessionInv, ClaimHasReason, Changing
<1> QED
  BY <1>2, <1>3, <1>4 DEF SessionInv, Submit

\* What a handler at work has before it.
LEMMA AtWork ==
    ASSUME SessionInv, flow.kind # "none"
    PROVE  /\ flow.kind \in Kinds /\ flow.rest \in Ahead(flow.kind)
           /\ flow.rest # <<>> /\ Head(flow.rest) \in Words
           /\ Tail(flow.rest) # <<>> => Tail(flow.rest) \in Ahead(flow.kind)
           /\ Tail(flow.rest) # <<>> => Tail(flow.rest) \in Seq(Words)
           /\ Head(flow.rest) = "change" =>
                 flow.kind = "change" /\ Tail(flow.rest) = ToSignOut
<1>1. flow.kind \in Kinds /\ flow.rest \in Ahead(flow.kind)
  BY DEF SessionInv, OnItsWay, Flow
<1>2. ASSUME Head(flow.rest) = "change"
      PROVE  flow.kind = "change" /\ Tail(flow.rest) = ToSignOut
  BY <1>1, <1>2, Parts DEF Ahead, Kinds
<1> QED
  BY <1>1, <1>2, Programs

LEMMA ServeSignInStep ==
    ASSUME SessionInv, ServeSignIn
    PROVE  SessionInv'
<1>1. flow' \in Flow
  BY DEF ServeSignIn, SessionInv, Flow, Claims
<1>2. /\ flow'.kind = flow.kind /\ flow'.rest = flow.rest
      /\ Head(flow.rest) = "signin"
  BY DEF ServeSignIn, SessionInv, Flow, Asked
<1>3. OnItsWay' /\ ClaimHasReason'
  BY <1>2 DEF ServeSignIn, SessionInv, OnItsWay, ClaimHasReason, Changing
<1> QED
  BY <1>1, <1>3 DEF ServeSignIn, SessionInv

LEMMA ServeCookieStep ==
    ASSUME SessionInv, ServeCookie
    PROVE  SessionInv'
<1>1. PICK claims \in IF Asked("signout") THEN {"off"} ELSE {flow.claims, "off"} :
         flow' = [flow EXCEPT !.step = "ok", !.claims = claims]
  BY DEF ServeCookie
<1>2. flow' \in Flow
  BY <1>1 DEF SessionInv, Flow, Claims
<1>3. /\ flow'.kind = flow.kind /\ flow'.rest = flow.rest
      /\ flow'.claims = claims /\ flow.kind # "none" /\ flow.step = "asked"
  BY <1>1 DEF ServeCookie, SessionInv, Flow, Asked
<1>4. OnItsWay'
  BY <1>1, <1>3 DEF SessionInv, OnItsWay, Asked
<1>5. ClaimHasReason'
  BY <1>3 DEF ServeCookie, SessionInv, ClaimHasReason, Changing
<1> QED
  BY <1>2, <1>4, <1>5 DEF ServeCookie, SessionInv

LEMMA ServePasswordStep ==
    ASSUME SessionInv, ServePassword
    PROVE  SessionInv'
<1>1. flow.kind # "none" /\ flow.step = "asked"
      /\ Head(flow.rest) \in {"change", "accept", "reset"}
  BY DEF ServePassword, Asked
<1>2. flow' \in Flow /\ flow'.kind = flow.kind /\ flow'.rest = flow.rest
  BY DEF ServePassword, SessionInv, Flow
<1>3. account' \in AccountRow /\ account'.must = FALSE
  BY DEF ServePassword, SessionInv, Flow, AccountRow
<1>4. excuse' \subseteq {"broken", "overtaken", "elsewhere"}
  BY DEF ServePassword, SessionInv
<1>5. OnItsWay'
  BY <1>1, <1>2 DEF SessionInv, OnItsWay
<1>6. ClaimHasReason'
  <2>1. CASE Head(flow.rest) = "change"
    BY <1>1, <1>2, <2>1, AtWork DEF ClaimHasReason, Changing
  <2>2. CASE Head(flow.rest) # "change" /\ account.must
    BY <2>2 DEF ServePassword, Asked, ClaimHasReason
  <2>3. CASE Head(flow.rest) # "change" /\ ~account.must
    BY <1>2, <2>3 DEF ServePassword, Asked, SessionInv, ClaimHasReason, Changing
  <2> QED
    BY <2>1, <2>2, <2>3
<1> QED
  BY <1>2, <1>3, <1>4, <1>5, <1>6 DEF ServePassword, SessionInv

\* An answer: signing out clears the cookie, a sign-in brings the claims of the
\* row or says why not, and a read changes nothing or has come late.
LEMMA AnsweredStep ==
    ASSUME SessionInv, Answered
    PROVE  SessionInv'
<1> DEFINE request == Head(flow.rest)
           rest == Tail(flow.rest)
           next == SetCookie(request)
<1>1. flow.kind # "none" /\ flow.step = "ok" /\ flow.kind \in Kinds
  BY AtWork DEF Answered
<1>2. next \in Claims
  BY DEF SetCookie, SessionInv, Flow
<1>3. /\ cookie' = next /\ account' = account /\ reads' = reads
      /\ flow' = IF rest = <<>> THEN NoFlow
                 ELSE [flow EXCEPT !.rest = rest, !.step = "asked", !.claims = next]
      /\ tab' = [session |-> IF request = "read" THEN flow.claims ELSE tab.session,
                 path |-> IF rest = <<>> THEN Destination(flow.kind, next)
                                         ELSE tab.path]
      /\ excuse' = IF request = "signin" THEN IF Stale(next) THEN {"elsewhere"} ELSE {}
                   ELSE IF request = "read" /\ next # cookie
                   THEN excuse \cup {"overtaken"} ELSE excuse
  BY DEF Answered
<1>4. request = "signout" => next = "off"
  BY <1>1 DEF SetCookie, SessionInv, OnItsWay
<1>5. request \notin {"signin", "signout", "read"} => next = cookie
  BY DEF SetCookie
<1>6. request \in Words
  BY <1>1, AtWork
<1>7. request = "change" => flow.kind = "change" /\ rest = ToSignOut
  BY <1>1, AtWork
<1>8. rest # <<>> => rest \in Ahead(flow.kind) /\ rest \in Seq(Words)
  BY <1>1, AtWork
<1> HIDE DEF next, rest, request
<1>9. flow' \in Flow
  BY <1>2, <1>3, <1>8, FlowResting DEF SessionInv, Flow
<1>10. tab' \in Tab
  <2>1. Destination(flow.kind, next) \in Paths
    <3>1. Middleware(next, Inside) \in Paths /\ Middleware(next, Home) \in Paths
      BY <1>2, MiddlewareLeads DEF Paths
    <3>2. tab.path \in Paths
      BY DEF SessionInv, Tab
    <3> QED
      BY <1>1, <3>1, <3>2 DEF Destination, Kinds
  <2> QED
    BY <1>3, <2>1 DEF SessionInv, Tab, Flow
<1>11. OnItsWay'
  BY <1>3, <1>8, FlowResting DEF SessionInv, OnItsWay, Flow
<1>12. excuse' \subseteq {"broken", "overtaken", "elsewhere"}
  BY <1>3 DEF SessionInv
<1>13. ClaimHasReason'
  <2>1. CASE request = "signin"
    BY <1>3, <2>1 DEF ClaimHasReason, Stale
  <2>2. CASE request = "signout"
    BY <1>3, <1>4, <2>2 DEF ClaimHasReason
  <2>3. CASE request = "read"
    <3>1. CASE next # cookie
      BY <1>3, <2>3, <3>1 DEF ClaimHasReason
    <3>2. CASE next = cookie
      <4>1. ~Changing
        BY <2>3 DEF Changing, request
      <4> QED
        BY <1>3, <2>3, <3>2, <4>1 DEF ClaimHasReason, SessionInv
    <3> QED
      BY <3>1, <3>2
  <2>4. CASE request = "change"
    <3>1. rest # <<>> /\ Head(rest) = "signout"
      BY <1>7, <2>4, AllWords, Parts
    <3>2. flow'.kind = "change" /\ flow'.rest = rest
      BY <1>3, <1>7, <2>4, <3>1 DEF SessionInv, Flow
    <3> QED
      BY <3>1, <3>2 DEF ClaimHasReason, Changing
  <2>5. CASE request \in {"accept", "reset"}
    <3>1. ~Changing
      BY <2>5 DEF Changing, request
    <3>2. cookie' = cookie /\ excuse' = excuse
      BY <1>3, <1>5, <2>5
    <3> QED
      BY <1>3, <3>1, <3>2 DEF ClaimHasReason, SessionInv
  <2> QED
    BY <1>6, <2>1, <2>2, <2>3, <2>4, <2>5 DEF Words
<1> QED
  BY <1>2, <1>3, <1>9, <1>10, <1>11, <1>12, <1>13 DEF SessionInv

LEMMA FailedStep ==
    ASSUME SessionInv, Failed
    PROVE  SessionInv'
<1>1. tab' \in Tab
  BY GoingIsTab DEF Failed, SessionInv, Paths
<1>2. flow' \in Flow /\ flow'.kind = "none"
  BY FlowResting DEF Failed
<1>3. excuse' \subseteq {"broken", "overtaken", "elsewhere"} /\ ClaimHasReason'
  BY DEF Failed, Broken, SessionInv, ClaimHasReason, Changing
<1> QED
  BY <1>1, <1>2, <1>3 DEF Failed, SessionInv, OnItsWay

LEMMA ElsewhereStep ==
    ASSUME SessionInv, Elsewhere
    PROVE  SessionInv'
<1>1. account' \in AccountRow
  BY DEF Elsewhere, SessionInv, AccountRow
<1>2. excuse' \subseteq {"broken", "overtaken", "elsewhere"}
  BY DEF Elsewhere, SessionInv
<1>3. ClaimHasReason'
  BY DEF Elsewhere, SessionInv, ClaimHasReason, Changing
<1> QED
  BY <1>1, <1>2, <1>3 DEF Elsewhere, SessionInv, OnItsWay

LEMMA SessionNextInv ==
    ASSUME SessionInv, [SessionNext]_sessionVars
    PROVE  SessionInv'
<1>1. CASE UNCHANGED sessionVars
  BY <1>1 DEF sessionVars, SessionInv, OnItsWay, ClaimHasReason, Changing
<1>2. ASSUME NEW path \in Paths, FollowLink(path) PROVE SessionInv'
  BY <1>2, GoingIsTab, TabStep DEF FollowLink
<1>3. ASSUME NEW path \in Paths, OpenPage(path) PROVE SessionInv'
  BY <1>3, OpenPageStep
<1>4. ASSUME NEW mine \in BOOLEAN, AskSession(mine) PROVE SessionInv'
  BY <1>4, AskSessionStep
<1>5. ASSUME NEW kind \in Kinds, NEW current \in Passwords, NEW new \in Passwords,
             Submit(kind, current, new)
      PROVE  SessionInv'
  BY <1>5, SubmitStep
<1>6. Effects \/ Reading \/ Expire \/ Elsewhere => SessionInv'
  BY EffectsStep, ReadingStep, ExpireStep, ElsewhereStep
<1>7. Handling => SessionInv'
  BY ServeSignInStep, ServeCookieStep, ServePasswordStep, AnsweredStep, FailedStep
     DEF Handling
<1> QED
  BY <1>1, <1>2, <1>3, <1>4, <1>5, <1>6, <1>7 DEF SessionNext

\* The session, the handler at work and the reasons for an old claim fit
\* together: the strengthened invariant is inductive.
THEOREM SessionInvariant == SessionSpec => []SessionInv
<1>1. SessionInit => SessionInv
  BY SessionInitInv
<1>2. SessionInv /\ [SessionNext]_sessionVars => SessionInv'
  BY SessionNextInv
<1> QED
  BY <1>1, <1>2, PTL DEF SessionSpec

\* The tab shows a page that there is, and a handler at work has a request out.
THEOREM SessionTypes == SessionSpec => []SessionTypeOK
<1>1. SessionInv => SessionTypeOK
  BY AtWork DEF SessionInv, SessionTypeOK
<1> QED
  BY <1>1, SessionInvariant, PTL

\* Who has changed the password is not asked to change it again, outside the
\* excused cases: handleSubmit of change-password signs out and in again
\* (page.tsx:62) because the claim is read from the row at sign-in only.
THEOREM SessionClaimIsCurrent == SessionSpec => []ClaimIsCurrent
<1>1. SessionInv => ClaimIsCurrent
  BY DEF SessionInv, ClaimHasReason, Changing, ClaimIsCurrent
<1> QED
  BY <1>1, SessionInvariant, PTL

(***************************************************************************)
(* The push switch.  As long as nothing has come between the browser and   *)
(* the rows, one handler is at work at most, and each of its steps fixes   *)
(* where both are.                                                         *)
(***************************************************************************)
\* The service has the row of the browser's subscription and no other.
Registered ==
    IF subscribed = 0 THEN rows = {}
    ELSE \E id \in Nat :
            rows = {[id |-> id, endpoint |-> subscribed, user |-> user]}

\* The browser is subscribed, and the service has not been told yet, or has been
\* told to forget it.
Unregistered(t) == subscribed # 0 /\ page[t].endpoint = subscribed /\ rows = {}

\* Where the rows and the browser are while the handler of t is at work alone.
OnCourse(t) ==
    CASE page[t].step \in {"idle", "key", "posted"} -> Registered
      [] page[t].step = "drop" -> Registered /\ subscribed # 0
      [] page[t].step = "subscribe" -> subscribed = 0 /\ rows = {}
      [] page[t].step \in {"post", "insert", "undrop"} -> Unregistered(t)
      [] page[t].step = "unpost" ->
            Registered /\ subscribed # 0 /\ page[t].endpoint = subscribed

\* Nobody else is at work.
AloneAtWork(t) == \A s \in Pages : page[s].step # "idle" => s = t

Undisturbed ==
    slips = {} =>
        /\ Rest => Registered
        /\ \A t \in Pages : page[t].step # "idle" => AloneAtWork(t) /\ OnCourse(t)

PushInv == PushTypeOK /\ IsFiniteSet(rows) /\ Undisturbed

-----------------------------------------------------------------------------
\* Rows.

\* There is an id that no row has.
LEMMA FreshId ==
    ASSUME NEW R, IsFiniteSet(R)
    PROVE  \E n \in 0 .. Cardinality(R) : \A r \in R : r.id # n
<1> DEFINE c == Cardinality(R)
<1> SUFFICES ASSUME \A n \in 0 .. c : \E r \in R : r.id = n
             PROVE  FALSE
  OBVIOUS
<1> DEFINE f == [n \in 0 .. c |-> CHOOSE r \in R : r.id = n]
<1>1. c \in Nat
  BY FS_CardinalityType
<1>2. IsFiniteSet(0 .. c) /\ Cardinality(0 .. c) = c + 1
  BY <1>1, FS_Interval
<1>3. \A n \in 0 .. c : f[n] \in R /\ f[n].id = n
  OBVIOUS
<1>4. f \in [0 .. c -> R]
  BY <1>3
<1> HIDE DEF f
<1>5. \E x, y \in 0 .. c : x # y /\ f[x] = f[y]
  BY <1>1, <1>2, <1>4, FS_PigeonHole
<1> QED
  BY <1>3, <1>5

\* A registered subscription has one row, and is what RegistryMatchesBrowser asks.
LEMMA RegisteredIsMatch ==
    ASSUME Registered
    PROVE  /\ {<<r.endpoint, r.user>> : r \in rows} = IF subscribed = 0 THEN {}
                                                     ELSE {<<subscribed, user>>}
           /\ Cardinality(rows) =< 1
<1>1. CASE subscribed = 0
  BY <1>1, FS_EmptySet DEF Registered
<1>2. CASE subscribed # 0
  <2>1. PICK id \in Nat :
           rows = {[id |-> id, endpoint |-> subscribed, user |-> user]}
    BY <1>2 DEF Registered
  <2>2. Cardinality(rows) = 1
    BY <2>1, FS_Singleton
  <2>3. {<<r.endpoint, r.user>> : r \in rows} = {<<subscribed, user>>}
    BY <2>1
  <2> QED
    BY <1>2, <2>2, <2>3
<1> QED
  BY <1>1, <1>2

LEMMA PushInitInv == PushInit => PushInv
<1> SUFFICES ASSUME PushInit PROVE PushInv
  OBVIOUS
<1>1. PushTypeOK
  BY MaxEndpointsAssumption DEF PushInit, PushTypeOK, Page
<1>2. IsFiniteSet(rows)
  BY FS_EmptySet DEF PushInit
<1>3. Undisturbed
  BY DEF PushInit, Undisturbed, Registered
<1> QED
  BY <1>1, <1>2, <1>3 DEF PushInv

\* A handler of t that was alone at work still is after a step of its own.
LEMMA StillAlone ==
    ASSUME PushTypeOK, NEW t \in Pages, AloneAtWork(t),
           \A s \in Pages \ {t} : page'[s] = page[s]
    PROVE  /\ AloneAtWork(t)'
           /\ page'[t].step = "idle" <=> Rest'
           /\ \A s \in Pages : page'[s].step # "idle" => s = t
BY DEF AloneAtWork, Rest

\* A step of t's own handler that keeps it on its course.
LEMMA KeepsCourse ==
    ASSUME PushTypeOK, Undisturbed, NEW t \in Pages,
           \A s \in Pages \ {t} : page'[s] = page[s],
           slips' = {} => AloneAtWork(t) /\ OnCourse(t)'
    PROVE  Undisturbed'
<1> SUFFICES ASSUME slips' = {}
             PROVE  /\ Rest' => Registered'
                    /\ \A s \in Pages : page'[s].step # "idle"
                          => AloneAtWork(s)' /\ OnCourse(s)'
  BY DEF Undisturbed
<1>1. AloneAtWork(t) /\ OnCourse(t)'
  OBVIOUS
<1>2. /\ AloneAtWork(t)'
      /\ page'[t].step = "idle" <=> Rest'
      /\ \A s \in Pages : page'[s].step # "idle" => s = t
  BY <1>1, StillAlone
<1>3. Rest' => Registered'
  BY <1>1, <1>2 DEF OnCourse
<1> QED
  BY <1>1, <1>2, <1>3

\* While nothing has come between, the handler of t is alone and on its course.
LEMMA AtItsStep ==
    ASSUME PushInv, NEW t \in Pages, page[t].step # "idle", slips = {}
    PROVE  AloneAtWork(t) /\ OnCourse(t)
BY DEF PushInv, Undisturbed

-----------------------------------------------------------------------------
\* Between handlers.

LEMMA MountPageStep ==
    ASSUME PushInv, NEW t \in Pages, MountPage(t)
    PROVE  PushInv'
<1>1. /\ page' = [page EXCEPT ![t] = [status |-> Shown, step |-> "idle", endpoint |-> 0]]
      /\ page[t].step = "idle"
      /\ UNCHANGED <<user, subscribed, made, rows, slips>>
  BY DEF MountPage, End, Doing
<1>2. Shown \in {"unsubscribed", "subscribed"}
  BY DEF Shown
<1> HIDE DEF Shown
<1>3. PushTypeOK'
  BY <1>1, <1>2, MaxEndpointsAssumption DEF PushInv, PushTypeOK, Page
<1>4. /\ \A s \in Pages : page'[s].step = page[s].step
      /\ \A s \in Pages : page[s].step # "idle" => page'[s] = page[s]
  BY <1>1, <1>2 DEF PushInv, PushTypeOK
<1>5. Undisturbed'
  <2> SUFFICES ASSUME slips' = {}
               PROVE  /\ Rest' => Registered'
                      /\ \A s \in Pages : page'[s].step # "idle"
                            => AloneAtWork(s)' /\ OnCourse(s)'
    BY DEF Undisturbed
  <2>1. slips = {}
    BY <1>1
  <2>2. Rest' => Registered'
    BY <1>1, <1>4, <2>1 DEF PushInv, Undisturbed, Rest, Registered
  <2>3. ASSUME NEW s \in Pages, page'[s].step # "idle"
        PROVE  AloneAtWork(s)' /\ OnCourse(s)'
    <3>1. page[s].step # "idle" /\ page'[s] = page[s]
      BY <1>4, <2>3
    <3>2. AloneAtWork(s) /\ OnCourse(s)
      BY <2>1, <3>1, AtItsStep
    <3>3. AloneAtWork(s)'
      BY <1>4, <3>2 DEF AloneAtWork
    <3>4. OnCourse(s)'
      BY <1>1, <3>1, <3>2 DEF OnCourse, Registered, Unregistered
    <3> QED
      BY <3>3, <3>4
  <2> QED
    BY <2>2, <2>3
<1> QED
  BY <1>1, <1>3, <1>5 DEF PushInv

\* Somebody else signs in: without a subscription there is no row to be theirs.
LEMMA SwitchUserStep ==
    ASSUME PushInv, NEW u \in Users, SwitchUser(u)
    PROVE  PushInv'
<1>1. PushTypeOK'
  BY DEF PushInv, PushTypeOK, SwitchUser, Page
<1>2. /\ \A s \in Pages : page'[s].step = "idle"
      /\ subscribed' = subscribed /\ rows' = rows
      /\ Rest /\ (slips' = {} => slips = {} /\ subscribed = 0)
  BY DEF PushInv, PushTypeOK, SwitchUser, Rest, Page
<1>3. Undisturbed'
  BY <1>2 DEF PushInv, Undisturbed, Registered
<1> QED
  BY <1>1, <1>2, <1>3 DEF PushInv

-----------------------------------------------------------------------------
\* Switching on.

LEMMA RacingShows ==
    ASSUME PushInv, NEW t \in Pages
    PROVE  /\ Racing(t) \subseteq {"raced", "redone", "switched", "unposted", "undeleted"}
           /\ Racing(t) = {} => slips = {} /\ AloneAtWork(t)
BY DEF Racing, PushInv, PushTypeOK, AloneAtWork

LEMMA EnableStep ==
    ASSUME PushInv, NEW t \in Pages, Enable(t)
    PROVE  PushInv'
<1>1. PushTypeOK'
  BY RacingShows DEF PushInv, PushTypeOK, Enable, Doing, Goto, Page
<1>2. /\ page[t].step = "idle" /\ page'[t].step = "key"
      /\ \A s \in Pages \ {t} : page'[s] = page[s]
      /\ UNCHANGED <<user, subscribed, rows>> /\ slips' = Racing(t)
  BY DEF PushInv, PushTypeOK, Enable, Doing, Goto
<1>3. slips' = {} => AloneAtWork(t) /\ OnCourse(t)'
  <2> SUFFICES ASSUME slips' = {} PROVE AloneAtWork(t) /\ OnCourse(t)'
    OBVIOUS
  <2>1. slips = {} /\ AloneAtWork(t)
    BY <1>2, RacingShows
  <2>2. Rest
    BY <1>2, <2>1 DEF Rest, AloneAtWork
  <2>3. Registered
    BY <2>1, <2>2 DEF PushInv, Undisturbed
  <2> QED
    BY <1>2, <2>1, <2>3 DEF OnCourse, Registered
<1>4. Undisturbed'
  BY <1>2, <1>3, KeepsCourse DEF PushInv
<1> QED
  BY <1>1, <1>2, <1>4 DEF PushInv

LEMMA KeyAnsweredStep ==
    ASSUME PushInv, NEW t \in Pages, KeyAnswered(t)
    PROVE  PushInv'
<1>1. PushTypeOK'
  BY DEF PushInv, PushTypeOK, KeyAnswered, Doing, Page
<1>2. /\ page[t].step = "key"
      /\ page'[t].step = IF subscribed = 0 THEN "subscribe" ELSE "drop"
      /\ \A s \in Pages \ {t} : page'[s] = page[s]
      /\ UNCHANGED <<user, subscribed, rows, slips>>
  BY DEF PushInv, PushTypeOK, KeyAnswered, Doing, Page
<1>3. slips' = {} => AloneAtWork(t) /\ OnCourse(t)'
  BY <1>2, AtItsStep DEF OnCourse, Registered
<1>4. Undisturbed'
  BY <1>2, <1>3, KeepsCourse DEF PushInv
<1> QED
  BY <1>1, <1>2, <1>4 DEF PushInv

LEMMA DropExistingStep ==
    ASSUME PushInv, NEW t \in Pages, DropExisting(t)
    PROVE  PushInv'
<1>1. PushTypeOK'
  BY MaxEndpointsAssumption DEF PushInv, PushTypeOK, DropExisting, Doing, Goto, Page
<1>2. slips' # {} /\ rows' = rows
  BY DEF DropExisting
<1> QED
  BY <1>1, <1>2 DEF PushInv, Undisturbed

LEMMA SubscribeStep ==
    ASSUME PushInv, NEW t \in Pages, Subscribe(t)
    PROVE  PushInv'
<1>1. /\ subscribed' \in 0 .. MaxEndpoints /\ made' \in 0 .. MaxEndpoints
      /\ subscribed' # 0
      /\ UNCHANGED <<user, rows, slips>>
  BY MaxEndpointsAssumption DEF PushInv, PushTypeOK, Subscribe, Doing
<1>2. page' = [page EXCEPT ![t].step = "post", ![t].endpoint = subscribed']
  BY DEF Subscribe
<1>3. PushTypeOK'
  BY <1>1, <1>2 DEF PushInv, PushTypeOK, Page
<1>4. /\ page[t].step = "subscribe"
      /\ page'[t].step = "post" /\ page'[t].endpoint = subscribed'
      /\ \A s \in Pages \ {t} : page'[s] = page[s]
  BY <1>2 DEF PushInv, PushTypeOK, Page, Subscribe, Doing
<1>5. slips' = {} => AloneAtWork(t) /\ OnCourse(t)'
  BY <1>1, <1>4, AtItsStep DEF OnCourse, Unregistered
<1>6. Undisturbed'
  BY <1>4, <1>5, KeepsCourse DEF PushInv
<1> QED
  BY <1>1, <1>3, <1>6 DEF PushInv

\* The row of the endpoint is looked for: a handler alone finds none.
LEMMA ServeUpsertStep ==
    ASSUME PushInv, NEW t \in Pages, ServeUpsert(t)
    PROVE  PushInv'
<1> DEFINE found == RowsOf(page[t].endpoint)
<1>1. page[t].step = "post" /\ UNCHANGED <<user, subscribed, made, slips>>
  BY DEF ServeUpsert, Doing
<1>2. CASE found = {} /\ Goto(t, "insert") /\ UNCHANGED rows
  <2>1. PushTypeOK'
    BY <1>1, <1>2 DEF PushInv, PushTypeOK, Goto, Page
  <2>2. /\ page'[t].step = "insert" /\ page'[t].endpoint = page[t].endpoint
        /\ \A s \in Pages \ {t} : page'[s] = page[s]
    BY <1>2 DEF PushInv, PushTypeOK, Goto, Page
  <2>3. slips' = {} => AloneAtWork(t) /\ OnCourse(t)'
    BY <1>1, <1>2, <2>2, AtItsStep DEF OnCourse, Unregistered
  <2>4. Undisturbed'
    BY <2>2, <2>3, KeepsCourse DEF PushInv
  <2> QED
    BY <1>2, <2>1, <2>4 DEF PushInv
<1>3. CASE /\ Cardinality(found) = 1
           /\ rows' = (rows \ found) \cup {[r EXCEPT !.user = user] : r \in found}
           /\ Goto(t, "posted")
  <2>1. rows' \subseteq PushRow /\ IsFiniteSet(rows')
    <3>1. IsFiniteSet(found) /\ found \subseteq rows
      BY FS_Subset DEF PushInv, RowsOf
    <3>2. PICK r : found = {r}
      BY <1>3, <3>1, FS_Singleton
    <3>3. rows' = (rows \ {r}) \cup {[r EXCEPT !.user = user]} /\ r \in PushRow
      BY <1>3, <3>1, <3>2 DEF PushInv, PushTypeOK
    <3> HIDE DEF found
    <3>4. IsFiniteSet(rows \ {r})
      BY FS_RemoveElement DEF PushInv
    <3>5. IsFiniteSet(rows')
      BY <3>3, <3>4, FS_AddElement
    <3>6. [r EXCEPT !.user = user] \in PushRow
      BY <3>3 DEF PushRow, PushInv, PushTypeOK
    <3> QED
      BY <3>3, <3>5, <3>6 DEF PushInv, PushTypeOK
  <2>2. PushTypeOK'
    BY <1>1, <1>3, <2>1 DEF PushInv, PushTypeOK, Goto, Page
  <2>3. slips # {}
    <3>1. SUFFICES ASSUME slips = {} PROVE FALSE
      OBVIOUS
    <3>2. rows = {}
      BY <1>1, <3>1, AtItsStep DEF OnCourse, Unregistered
    <3>3. found = {}
      BY <3>2 DEF RowsOf
    <3> HIDE DEF found
    <3> QED
      BY <1>3, <3>3, FS_EmptySet
  <2> QED
    BY <1>1, <2>1, <2>2, <2>3 DEF PushInv, Undisturbed
<1> QED
  BY <1>2, <1>3 DEF ServeUpsert

LEMMA InsertStep ==
    ASSUME PushInv, NEW t \in Pages, Insert(t)
    PROVE  PushInv'
<1>1. PICK id \in Nat :
         rows' = rows \cup {[id |-> id, endpoint |-> page[t].endpoint, user |-> user]}
  <2> DEFINE id == CHOOSE n \in 0 .. Cardinality(rows) : \A r \in rows : r.id # n
  <2>1. id \in 0 .. Cardinality(rows)
    BY FreshId DEF PushInv
  <2>2. Cardinality(rows) \in Nat
    BY FS_CardinalityType DEF PushInv
  <2>3. id \in Nat
    BY <2>1, <2>2
  <2> QED
    BY <2>3 DEF Insert
<1>2. /\ page[t].step = "insert" /\ page'[t].step = "posted"
      /\ page[t].endpoint \in Endpoints
      /\ \A s \in Pages \ {t} : page'[s] = page[s]
      /\ UNCHANGED <<user, subscribed, slips>>
  BY MaxEndpointsAssumption
     DEF PushInv, PushTypeOK, Insert, Doing, Goto, Page, Endpoints
<1>3. rows' \subseteq PushRow
  BY <1>1, <1>2 DEF PushInv, PushTypeOK, PushRow
<1>4. IsFiniteSet(rows')
  BY <1>1, FS_AddElement DEF PushInv
<1>5. PushTypeOK'
  BY <1>3 DEF PushInv, PushTypeOK, Insert, Doing, Goto, Page
<1>6. slips' = {} => AloneAtWork(t) /\ OnCourse(t)'
  BY <1>1, <1>2, AtItsStep DEF OnCourse, Unregistered, Registered
<1>7. Undisturbed'
  BY <1>2, <1>6, KeepsCourse DEF PushInv
<1> QED
  BY <1>4, <1>5, <1>7 DEF PushInv

\* The end of a handler whose rows are as they should be.
LEMMA EndStep ==
    ASSUME PushInv, NEW t \in Pages, page[t].step # "idle", End(t),
           subscribed' \in 0 .. MaxEndpoints,
           UNCHANGED <<user, made, rows, slips>>,
           slips = {} => Registered'
    PROVE  PushInv'
<1>1. Shown \in {"unsubscribed", "subscribed"}
  BY DEF Shown
<1> HIDE DEF Shown
<1>2. page' = [page EXCEPT ![t] = [status |-> Shown, step |-> "idle", endpoint |-> 0]]
  BY DEF End
<1>3. PushTypeOK'
  BY <1>1, <1>2, MaxEndpointsAssumption DEF PushInv, PushTypeOK, Page
<1>4. page'[t].step = "idle" /\ \A s \in Pages \ {t} : page'[s] = page[s]
  BY <1>2 DEF PushInv, PushTypeOK
<1>5. slips' = {} => AloneAtWork(t) /\ OnCourse(t)'
  BY <1>4, AtItsStep DEF OnCourse
<1>6. Undisturbed'
  BY <1>4, <1>5, KeepsCourse DEF PushInv
<1> QED
  BY <1>3, <1>6 DEF PushInv

LEMMA FailEnableStep ==
    ASSUME PushInv, NEW t \in Pages, FailEnable(t)
    PROVE  PushInv'
<1>1. PushTypeOK'
  <2>1. page' = [page EXCEPT ![t].step = "idle", ![t].endpoint = 0]
    BY DEF FailEnable
  <2>2. page' \in [Pages -> Page]
    <3>1. page \in [Pages -> Page] /\ 0 \in 0 .. MaxEndpoints
      BY MaxEndpointsAssumption DEF PushInv, PushTypeOK
    <3> QED
      BY <2>1, <3>1 DEF Page
  <2>3. ASSUME NEW s \in Pages,
               page'[s].step \in {"post", "insert", "posted", "unpost", "undrop"}
        PROVE  page'[s].endpoint # 0
    BY <2>1, <2>3 DEF PushInv, PushTypeOK, Page
  <2>4. slips' \subseteq {"raced", "redone", "switched", "unposted", "undeleted"}
    BY DEF PushInv, PushTypeOK, FailEnable
  <2> QED
    BY <2>2, <2>3, <2>4 DEF PushInv, PushTypeOK, FailEnable
<1>2. /\ page[t].step # "idle" /\ page'[t].step = "idle"
      /\ \A s \in Pages \ {t} : page'[s] = page[s]
      /\ UNCHANGED <<user, subscribed, rows>>
      /\ slips' = {} => slips = {} /\ page[t].step \in {"key", "subscribe", "posted"}
  BY DEF PushInv, PushTypeOK, FailEnable, Page
<1>3. slips' = {} => AloneAtWork(t) /\ OnCourse(t)'
  BY <1>2, AtItsStep DEF OnCourse, Registered
<1>4. Undisturbed'
  BY <1>2, <1>3, KeepsCourse DEF PushInv
<1> QED
  BY <1>1, <1>2, <1>4 DEF PushInv

-----------------------------------------------------------------------------
\* Switching off.

LEMMA DisableStep ==
    ASSUME PushInv, NEW t \in Pages, Disable(t)
    PROVE  PushInv'
<1>1. /\ page[t].step = "idle" /\ slips' = Racing(t)
      /\ UNCHANGED <<user, subscribed, made, rows>>
  BY DEF Disable, Doing
<1>2. slips' = {} => slips = {} /\ AloneAtWork(t) /\ Rest /\ Registered
  BY <1>1, RacingShows DEF Rest, AloneAtWork, PushInv, Undisturbed
<1>3. CASE subscribed = 0 /\ End(t)
  <2>1. Shown \in {"unsubscribed", "subscribed"}
    BY DEF Shown
  <2>2. page' = [page EXCEPT ![t] = [status |-> Shown, step |-> "idle", endpoint |-> 0]]
    BY <1>3 DEF End
  <2> HIDE DEF Shown
  <2>3. PushTypeOK'
    BY <1>1, <2>1, <2>2, RacingShows, MaxEndpointsAssumption
       DEF PushInv, PushTypeOK, Page
  <2>4. page'[t].step = "idle" /\ \A s \in Pages \ {t} : page'[s] = page[s]
    BY <2>2 DEF PushInv, PushTypeOK
  <2>5. slips' = {} => AloneAtWork(t) /\ OnCourse(t)'
    BY <1>1, <1>2, <2>4 DEF OnCourse, Registered
  <2>6. Undisturbed'
    BY <2>4, <2>5, KeepsCourse DEF PushInv
  <2> QED
    BY <1>1, <2>3, <2>6 DEF PushInv
<1>4. CASE /\ subscribed # 0
           /\ page' = [page EXCEPT ![t].step = "unpost", ![t].endpoint = subscribed]
  <2>1. PushTypeOK'
    BY <1>1, <1>4, RacingShows DEF PushInv, PushTypeOK, Page
  <2>2. /\ page'[t].step = "unpost" /\ page'[t].endpoint = subscribed
        /\ \A s \in Pages \ {t} : page'[s] = page[s]
    BY <1>4 DEF PushInv, PushTypeOK, Page
  <2>3. slips' = {} => AloneAtWork(t) /\ OnCourse(t)'
    BY <1>1, <1>2, <1>4, <2>2 DEF OnCourse, Registered
  <2>4. Undisturbed'
    BY <2>2, <2>3, KeepsCourse DEF PushInv
  <2> QED
    BY <1>1, <2>1, <2>4 DEF PushInv
<1> QED
  BY <1>3, <1>4 DEF Disable

LEMMA ServeDeleteStep ==
    ASSUME PushInv, NEW t \in Pages, ServeDelete(t)
    PROVE  PushInv'
<1>1. PushTypeOK' /\ rows' \subseteq rows
  BY DEF PushInv, PushTypeOK, ServeDelete, Doing, Goto, Page
<1>2. IsFiniteSet(rows')
  BY <1>1, FS_Subset DEF PushInv
<1>3. /\ page[t].step = "unpost" /\ page'[t].step = "undrop"
      /\ page'[t].endpoint = page[t].endpoint
      /\ \A s \in Pages \ {t} : page'[s] = page[s]
      /\ UNCHANGED <<user, subscribed, slips>>
      /\ rows' = rows \ {r \in rows : r.endpoint = page[t].endpoint}
  BY DEF PushInv, PushTypeOK, ServeDelete, Doing, Goto, Page, RowsOf
<1>4. slips' = {} => AloneAtWork(t) /\ OnCourse(t)'
  <2> SUFFICES ASSUME slips = {} PROVE AloneAtWork(t) /\ OnCourse(t)'
    BY <1>3
  <2>1. AloneAtWork(t) /\ Registered /\ subscribed # 0 /\ page[t].endpoint = subscribed
    BY <1>3, AtItsStep DEF OnCourse
  <2>2. rows' = {}
    BY <1>3, <2>1 DEF Registered
  <2> QED
    BY <1>3, <2>1, <2>2 DEF OnCourse, Unregistered
<1>5. Undisturbed'
  BY <1>3, <1>4, KeepsCourse DEF PushInv
<1> QED
  BY <1>1, <1>2, <1>5 DEF PushInv

LEMMA LoseDeleteStep ==
    ASSUME PushInv, NEW t \in Pages, LoseDelete(t)
    PROVE  PushInv'
<1>1. PushTypeOK'
  BY DEF PushInv, PushTypeOK, LoseDelete, Doing, Goto, Page
<1>2. slips' # {} /\ rows' = rows
  BY DEF LoseDelete
<1> QED
  BY <1>1, <1>2 DEF PushInv, Undisturbed

LEMMA DropStep ==
    ASSUME PushInv, NEW t \in Pages, Drop(t)
    PROVE  PushInv'
<1>1. /\ page[t].step = "undrop" /\ End(t)
      /\ subscribed' = IF subscribed = page[t].endpoint THEN 0 ELSE subscribed
      /\ UNCHANGED <<user, made, rows, slips>>
  BY DEF Drop, Doing
<1>2. subscribed' \in 0 .. MaxEndpoints
  BY <1>1, MaxEndpointsAssumption DEF PushInv, PushTypeOK
<1>3. slips = {} => Registered'
  BY <1>1, AtItsStep DEF OnCourse, Unregistered, Registered
<1> QED
  BY <1>1, <1>2, <1>3, EndStep

LEMMA PostedStep ==
    ASSUME PushInv, NEW t \in Pages, Posted(t)
    PROVE  PushInv'
<1>1. page[t].step = "posted" /\ UNCHANGED <<user, subscribed, made, rows, slips>> /\ End(t)
  BY DEF Posted, Doing
<1>2. slips = {} => Registered'
  BY <1>1, AtItsStep DEF OnCourse, Registered
<1>3. subscribed' \in 0 .. MaxEndpoints
  BY <1>1 DEF PushInv, PushTypeOK
<1> QED
  BY <1>1, <1>2, <1>3, EndStep

-----------------------------------------------------------------------------
LEMMA PushNextInv ==
    ASSUME PushInv, [PushNext]_pushVars
    PROVE  PushInv'
<1>1. CASE UNCHANGED pushVars
  BY <1>1 DEF pushVars, PushInv, PushTypeOK, Undisturbed, Rest, Registered,
              AloneAtWork, OnCourse, Unregistered
<1>2. ASSUME NEW t \in Pages, MountPage(t) \/ Enable(t) \/ Disable(t)
      PROVE  PushInv'
  BY <1>2, MountPageStep, EnableStep, DisableStep
<1>3. ASSUME NEW t \in Pages, Enabling(t) PROVE PushInv'
  BY <1>3, KeyAnsweredStep, DropExistingStep, SubscribeStep, ServeUpsertStep,
     InsertStep, PostedStep, FailEnableStep DEF Enabling
<1>4. ASSUME NEW t \in Pages, Disabling(t) PROVE PushInv'
  BY <1>4, ServeDeleteStep, LoseDeleteStep, DropStep DEF Disabling
<1>5. ASSUME NEW u \in Users, SwitchUser(u) PROVE PushInv'
  BY <1>5, SwitchUserStep
<1> QED
  BY <1>1, <1>2, <1>3, <1>4, <1>5 DEF PushNext

\* The rows follow the handler at work, for any number of tabs, users and
\* subscriptions: the strengthened invariant is inductive.
THEOREM PushInvariant == PushSpec => []PushInv
<1>1. PushInit => PushInv
  BY PushInitInv
<1>2. PushInv /\ [PushNext]_pushVars => PushInv'
  BY PushNextInv
<1> QED
  BY <1>1, <1>2, PTL DEF PushSpec

\* A request about a row names the subscription it is about.
THEOREM PushTypes == PushSpec => []PushTypeOK
<1>1. PushInv => PushTypeOK
  BY DEF PushInv
<1> QED
  BY <1>1, PushInvariant, PTL

\* At rest the service has one row, of the signed-in user, for the browser's
\* subscription and none for any other, outside the excused cases: enablePush
\* and disablePush (push.ts) keep the two sides together by themselves only.
THEOREM PushRegistryMatches == PushSpec => []RegistryMatchesBrowser
<1>1. PushInv => RegistryMatchesBrowser
  BY RegisteredIsMatch DEF PushInv, Undisturbed, RegistryMatchesBrowser
<1> QED
  BY <1>1, PushInvariant, PTL

(***************************************************************************)
(* The notification switches.  What the card shows at rest depends on what *)
(* each request carries: a request that met no other one is the only one   *)
(* out, its `undo` is the row until it is saved, and its `copy` is the row *)
(* once it is answered.                                                    *)
(***************************************************************************)
Shapes ==
    /\ prefs \in Prefs
    /\ shown \in [ready: BOOLEAN, prefs: Prefs]
    /\ busy \in Fields \cup {NoField}
    /\ toggle \in [Toggles -> ToggleCall]
    /\ drifted \in BOOLEAN

\* What is known of request c while it is out.
Alone(c) ==
    toggle[c].step # "none" =>
        /\ shown.ready
        /\ ~toggle[c].met =>
              /\ \A d \in Toggles \ {c} : toggle[d].step = "none"
              /\ toggle[c].step \in {"asked", "loaded"} =>
                    toggle[c].undo = prefs \/ drifted
              /\ toggle[c].step = "answered" => toggle[c].copy = prefs

BusyIsOut == busy # NoField => \E c \in Toggles : toggle[c].step # "none"

RestIsTrue ==
    (\A c \in Toggles : toggle[c].step = "none") /\ shown.ready
        => shown.prefs = prefs \/ drifted

PrefsInv ==
    /\ Shapes
    /\ \A c \in Toggles : Alone(c)
    /\ BusyIsOut
    /\ RestIsTrue

-----------------------------------------------------------------------------
\* The invariant says what the two properties say.
LEMMA PrefsInvSuffices == PrefsInv => PrefsTypeOK /\ RestShowsThePrefs
  BY DEF PrefsInv, Shapes, BusyIsOut, RestIsTrue, PrefsTypeOK, RestShowsThePrefs, Out

\* A card that is being mounted has the defaults, and nothing out.
LEMMA PrefsInitInv == PrefsInit => PrefsInv
  <1> SUFFICES ASSUME PrefsInit PROVE PrefsInv
    OBVIOUS
  <1>1. AllOn \in Prefs
    BY DEF AllOn, Prefs
  <1>2. NoToggle \in ToggleCall
    BY <1>1 DEF NoToggle, ToggleCall
  <1>3. NoToggle.step = "none"
    BY DEF NoToggle
  <1> QED
    BY <1>1, <1>2, <1>3
       DEF PrefsInit, PrefsInv, Shapes, Alone, BusyIsOut, RestIsTrue

\* A step that takes request c out of the toggles, and sets what the card shows
\* and whether it may differ from the row, to any values that fit.
LEMMA TakenOut ==
  ASSUME PrefsInv, NEW c \in Toggles, toggle[c].step # "none",
         NEW p \in Prefs, shown' = [ready |-> shown.ready, prefs |-> p],
         UNCHANGED prefs, drifted' \in BOOLEAN,
         busy' = NoField, toggle' = [toggle EXCEPT ![c] = NoToggle],
         ~toggle[c].met => p = prefs \/ drifted',
         toggle[c].met => drifted'
  PROVE  PrefsInv'
  <1>1. NoToggle \in ToggleCall /\ NoToggle.step = "none"
    BY DEF NoToggle, ToggleCall, AllOn, Prefs
  <1>2. toggle \in [Toggles -> ToggleCall]
    BY DEF PrefsInv, Shapes
  <1>3. \A d \in Toggles : toggle'[d] = IF d = c THEN NoToggle ELSE toggle[d]
    BY <1>2
  <1>4. /\ shown' \in [ready: BOOLEAN, prefs: Prefs]
        /\ shown'.ready = shown.ready /\ shown'.prefs = p
    BY DEF PrefsInv, Shapes
  <1>5. Shapes'
    BY <1>1, <1>2, <1>4 DEF PrefsInv, Shapes
  <1>6. ASSUME NEW d \in Toggles PROVE Alone(d)'
    <2>1. CASE d = c
      BY <1>1, <1>3, <2>1 DEF Alone
    <2>2. CASE d # c /\ toggle[d].step # "none"
      \* Both were out: each has met the other.
      <3>1. toggle[d].met
        BY <2>2 DEF PrefsInv, Alone
      <3> QED
        BY <1>3, <1>4, <2>2, <3>1 DEF PrefsInv, Alone
    <2>3. CASE d # c /\ toggle[d].step = "none"
      BY <1>3, <2>3 DEF Alone
    <2> QED
      BY <2>1, <2>2, <2>3
  <1>7. BusyIsOut'
    BY DEF BusyIsOut
  <1>8. RestIsTrue'
    BY <1>4 DEF RestIsTrue
  <1> QED
    BY <1>5, <1>6, <1>7, <1>8 DEF PrefsInv

\* A step of request c, which stays out; it may write the row.
LEMMA Served ==
  ASSUME PrefsInv, NEW c \in Toggles, toggle[c].step # "none",
         NEW moved \in ToggleCall, toggle' = [toggle EXCEPT ![c] = moved],
         moved.step # "none", moved.met = toggle[c].met, moved.undo = toggle[c].undo,
         prefs' \in Prefs, UNCHANGED <<shown, busy, drifted>>,
         moved.step \in {"asked", "loaded"} =>
            prefs' = prefs /\ toggle[c].step \in {"asked", "loaded"},
         moved.step = "answered" => moved.copy = prefs'
  PROVE  PrefsInv'
  <1>1. toggle \in [Toggles -> ToggleCall]
    BY DEF PrefsInv, Shapes
  <1>2. \A d \in Toggles : toggle'[d] = IF d = c THEN moved ELSE toggle[d]
    BY <1>1
  <1>3. Shapes'
    BY <1>1 DEF PrefsInv, Shapes
  <1>4. Alone(c)'
    BY <1>2 DEF PrefsInv, Alone
  <1>5. ASSUME NEW d \in Toggles \ {c} PROVE Alone(d)'
    \* If d is out it has met c, which is out too.
    <2>1. toggle[d].step # "none" => toggle[d].met
      BY DEF PrefsInv, Alone
    <2> QED
      BY <1>2, <2>1 DEF PrefsInv, Alone
  <1>6. BusyIsOut'
    BY <1>2 DEF BusyIsOut
  <1>7. RestIsTrue'
    BY <1>2 DEF RestIsTrue
  <1> QED
    BY <1>3, <1>4, <1>5, <1>6, <1>7 DEF PrefsInv

\* A toggle: every request that is out has met the new one.
LEMMA Toggled ==
  ASSUME PrefsInv, NEW c \in Toggles, NEW f \in Fields, Toggle(c, f)
  PROVE  PrefsInv'
  <1> DEFINE card  == [shown.prefs EXCEPT ![f] = ~shown.prefs[f]]
             other == \E d \in Toggles : toggle[d].step # "none"
             new   == [NoToggle EXCEPT !.step = "asked", !.field = f,
                         !.next = ~shown.prefs[f], !.undo = shown.prefs,
                         !.met = Out # {}]
             met(d) == [toggle[d] EXCEPT !.met = d \in Out]
  <1>1. toggle \in [Toggles -> ToggleCall] /\ toggle[c].step = "none" /\ shown.ready
    BY DEF PrefsInv, Shapes, Toggle, SwitchOffered
  <1>2. shown.prefs \in Prefs /\ card \in Prefs /\ (~shown.prefs[f]) \in BOOLEAN
    <2>1. shown.prefs \in Prefs
      BY DEF PrefsInv, Shapes
    <2>2. (~shown.prefs[f]) \in BOOLEAN
      OBVIOUS
    <2>3. card \in Prefs
      BY <2>1, <2>2, Zenon DEF Prefs
    <2> QED
      BY <2>1, <2>2, <2>3
  <1>3. /\ new \in ToggleCall
        /\ new.step = "asked" /\ new.undo = shown.prefs /\ new.met = other
    BY <1>2 DEF NoToggle, AllOn, ToggleCall, Prefs, Out
  <1>4. \A d \in Toggles :
           /\ met(d) \in ToggleCall
           /\ met(d).step = toggle[d].step /\ met(d).undo = toggle[d].undo
           /\ met(d).copy = toggle[d].copy
           /\ toggle[d].step # "none" => met(d).met
    <2> SUFFICES ASSUME NEW d \in Toggles
                 PROVE  /\ met(d) \in ToggleCall
                        /\ met(d).step = toggle[d].step /\ met(d).undo = toggle[d].undo
                        /\ met(d).copy = toggle[d].copy
                        /\ toggle[d].step # "none" => met(d).met
      OBVIOUS
    <2> DEFINE out == d \in Out
    <2>1. toggle[d] \in ToggleCall /\ met(d) = [toggle[d] EXCEPT !.met = out]
      BY <1>1
    <2>2. out \in BOOLEAN /\ (toggle[d].step # "none" => out)
      BY DEF Out
    <2> HIDE DEF out, met
    <2> QED
      BY <2>1, <2>2 DEF ToggleCall
  <1>5. \A d \in Toggles : toggle'[d] = IF d = c THEN new ELSE met(d)
    BY DEF Toggle
  <1>6. toggle' = [d \in Toggles |-> IF d = c THEN new ELSE met(d)]
    BY DEF Toggle
  <1>7. /\ shown' = [shown EXCEPT !.prefs = card]
        /\ busy' = f /\ UNCHANGED <<prefs, drifted>>
    BY <1>1 DEF Toggle, PrefsInv, Shapes
  <1> HIDE DEF card, new, met
  <1>8. Shapes'
    BY <1>2, <1>3, <1>4, <1>6, <1>7 DEF PrefsInv, Shapes
  <1>9. Alone(c)'
    <2>1. ~other => shown.prefs = prefs \/ drifted
      BY <1>1 DEF PrefsInv, RestIsTrue
    <2>2. shown'.ready
      BY <1>1, <1>7 DEF PrefsInv, Shapes
    <2>3. ~other => \A d \in Toggles \ {c} : toggle'[d].step = "none"
      BY <1>4, <1>5
    <2> QED
      BY <1>3, <1>5, <1>7, <2>1, <2>2, <2>3 DEF Alone
  <1>10. ASSUME NEW d \in Toggles \ {c} PROVE Alone(d)'
    BY <1>1, <1>4, <1>5, <1>7 DEF Alone, PrefsInv, Shapes
  <1>11. BusyIsOut'
    BY <1>3, <1>5 DEF BusyIsOut
  <1>12. RestIsTrue'
    BY <1>3, <1>5 DEF RestIsTrue
  <1> QED
    BY <1>8, <1>9, <1>10, <1>11, <1>12 DEF PrefsInv

-----------------------------------------------------------------------------
\* Every step of the card and of its requests preserves the invariant.
LEMMA PrefsNextInv == PrefsInv /\ [PrefsNext]_prefsVars => PrefsInv'
  <1> SUFFICES ASSUME PrefsInv, [PrefsNext]_prefsVars PROVE PrefsInv'
    OBVIOUS
  <1>0. toggle \in [Toggles -> ToggleCall] /\ prefs \in Prefs
    BY DEF PrefsInv, Shapes
  <1>1. CASE ShowPrefs
    <2>1. /\ shown' = [ready |-> TRUE, prefs |-> prefs]
          /\ UNCHANGED <<prefs, busy, toggle, drifted>>
      BY <1>1 DEF ShowPrefs
    <2> QED
      BY <2>1 DEF PrefsInv, Shapes, Alone, BusyIsOut, RestIsTrue
  <1>2. ASSUME NEW c \in Toggles, NEW f \in Fields, Toggle(c, f) PROVE PrefsInv'
    BY <1>2, Toggled
  <1>3. ASSUME NEW c \in Toggles, LoadPrefs(c) PROVE PrefsInv'
    <2> DEFINE moved == [toggle[c] EXCEPT !.step = "loaded", !.copy = prefs]
    <2>1. /\ moved \in ToggleCall
          /\ moved.step = "loaded" /\ moved.met = toggle[c].met
          /\ moved.undo = toggle[c].undo
      BY <1>0 DEF ToggleCall
    <2>2. toggle[c].step = "asked" /\ UNCHANGED <<prefs, shown, busy, drifted>>
      BY <1>3 DEF LoadPrefs
    <2>3. toggle' = [toggle EXCEPT ![c] = moved]
      BY <1>0, <1>3 DEF LoadPrefs
    <2> HIDE DEF moved
    <2> QED
      BY <1>0, <2>1, <2>2, <2>3, Served
  <1>4. ASSUME NEW c \in Toggles, SavePrefs(c) PROVE PrefsInv'
    <2> DEFINE moved == [toggle[c] EXCEPT !.step = "saved"]
    <2>1. /\ moved \in ToggleCall
          /\ moved.step = "saved" /\ moved.met = toggle[c].met
          /\ moved.undo = toggle[c].undo
      BY <1>0 DEF ToggleCall
    <2>2. toggle[c].step = "loaded" /\ UNCHANGED <<shown, busy, drifted>>
      BY <1>4 DEF SavePrefs
    <2>3. toggle' = [toggle EXCEPT ![c] = moved]
      BY <1>0, <1>4 DEF SavePrefs
    <2>4. toggle[c].next \in BOOLEAN
      BY <1>0 DEF ToggleCall
    <2>5. prefs' \in Prefs
      BY <1>0, <1>4, <2>4 DEF SavePrefs, Prefs
    <2> HIDE DEF moved
    <2> QED
      BY <2>1, <2>2, <2>3, <2>5, Served
  <1>5. ASSUME NEW c \in Toggles, RefreshPrefs(c) PROVE PrefsInv'
    <2> DEFINE moved == [toggle[c] EXCEPT !.step = "answered", !.copy = prefs]
    <2>1. /\ moved \in ToggleCall
          /\ moved.step = "answered" /\ moved.met = toggle[c].met
          /\ moved.undo = toggle[c].undo /\ moved.copy = prefs
      BY <1>0 DEF ToggleCall
    <2>2. toggle[c].step = "saved" /\ UNCHANGED <<prefs, shown, busy, drifted>>
      BY <1>5 DEF RefreshPrefs
    <2>3. toggle' = [toggle EXCEPT ![c] = moved]
      BY <1>0, <1>5 DEF RefreshPrefs
    <2> HIDE DEF moved
    <2> QED
      BY <1>0, <2>1, <2>2, <2>3, Served
  <1>6. ASSUME NEW c \in Toggles, ToggleAnswered(c) PROVE PrefsInv'
    <2>1. /\ toggle[c].step = "answered"
          /\ toggle[c].copy \in Prefs /\ toggle[c].met \in BOOLEAN
      BY <1>0, <1>6 DEF ToggleAnswered, ToggleCall
    <2>2. shown' = [ready |-> shown.ready, prefs |-> toggle[c].copy]
      BY <1>6 DEF ToggleAnswered, PrefsInv, Shapes
    <2>3. ~toggle[c].met => toggle[c].copy = prefs
      BY <2>1 DEF PrefsInv, Alone
    <2>4. /\ busy' = NoField /\ drifted' = toggle[c].met /\ UNCHANGED prefs
          /\ toggle' = [toggle EXCEPT ![c] = NoToggle]
      BY <1>6 DEF ToggleAnswered
    <2> QED
      BY <2>1, <2>2, <2>3, <2>4, TakenOut
  <1>7. ASSUME NEW c \in Toggles, ToggleLost(c) PROVE PrefsInv'
    <2>1. /\ toggle[c].step # "none"
          /\ toggle[c].undo \in Prefs /\ toggle[c].met \in BOOLEAN
          /\ toggle[c].step \in {"asked", "loaded", "saved", "answered"}
      BY <1>0, <1>7 DEF ToggleLost, ToggleCall
    <2>2. shown' = [ready |-> shown.ready, prefs |-> toggle[c].undo]
      BY <1>7 DEF ToggleLost, PrefsInv, Shapes
    <2>3. /\ busy' = NoField /\ UNCHANGED prefs
          /\ toggle' = [toggle EXCEPT ![c] = NoToggle]
          /\ drifted' = (drifted \/ toggle[c].met
                           \/ toggle[c].step \in {"saved", "answered"})
      BY <1>7 DEF ToggleLost
    <2>4. drifted' \in BOOLEAN /\ (toggle[c].met => drifted')
      BY <2>3
    <2>5. ~toggle[c].met => toggle[c].undo = prefs \/ drifted'
      BY <2>1, <2>3 DEF PrefsInv, Alone
    <2> QED
      BY <2>1, <2>2, <2>3, <2>4, <2>5, TakenOut
  <1>8. CASE UNCHANGED prefsVars
    BY <1>8 DEF prefsVars, PrefsInv, Shapes, Alone, BusyIsOut, RestIsTrue
  <1> QED
    BY <1>1, <1>2, <1>3, <1>4, <1>5, <1>6, <1>7, <1>8 DEF PrefsNext

\* The invariant of the switches.
THEOREM PrefsInvariant == PrefsSpec => []PrefsInv
  BY PrefsInitInv, PrefsNextInv, PTL DEF PrefsSpec

\* The card and its requests keep their shapes, and no switch stays disabled
\* after the last request has ended.
THEOREM PrefsTypes == PrefsSpec => []PrefsTypeOK
  BY PrefsInvariant, PrefsInvSuffices, PTL

\* However many toggles overlap, the card at rest shows the row unless a toggle
\* met another one or its answer was lost, and none was answered alone since.
THEOREM PrefsShown == PrefsSpec => []RestShowsThePrefs
  BY PrefsInvariant, PrefsInvSuffices, PTL

-----------------------------------------------------------------------------
\* The three side by side: each behaviour of the account is one of the session,
\* one of the push switch and one of the notification switches.
THEOREM AccountIsItsParts ==
    AccountSpec =>
        /\ SessionInit /\ [][SessionNext]_sessionVars
        /\ PushInit /\ [][PushNext]_pushVars
        /\ PrefsInit /\ [][PrefsNext]_prefsVars
<1>1. AccountInit => SessionInit /\ PushInit /\ PrefsInit
  BY DEF AccountInit
<1>2. [AccountNext]_accountVars =>
        [SessionNext]_sessionVars /\ [PushNext]_pushVars /\ [PrefsNext]_prefsVars
  BY Zenon DEF AccountNext, InSession, accountVars
<1> QED
  BY <1>1, <1>2, PTL DEF AccountSpec

\* So there too nobody who has changed the password is asked to change it again,
\* the registry matches the browser and the card shows the row, outside the
\* cases each of these names.
THEOREM AccountIsSafe ==
    AccountSpec => [](ClaimIsCurrent /\ RegistryMatchesBrowser /\ RestShowsThePrefs)
<1>1. SessionInit => SessionInv
  BY SessionInitInv
<1>2. SessionInv /\ [SessionNext]_sessionVars => SessionInv'
  BY SessionNextInv
<1>3. SessionInv => ClaimIsCurrent
  BY DEF SessionInv, ClaimHasReason, Changing, ClaimIsCurrent
<1> QED
  BY <1>1, <1>2, <1>3, AccountIsItsParts, PushRegistryMatches, PrefsShown, PTL
     DEF PushSpec, PrefsSpec

(***************************************************************************)
(* One-time tokens.  Whatever the calls of the account routes do between   *)
(* each other's steps, a token lets one call through, an acceptance keeps  *)
(* its evidence, an account has a password exactly when it was accepted,   *)
(* and mints that race leave few live links.                               *)
(***************************************************************************)

\* What a call relies on until its next step: the account it found is there, the
\* account of a reset is accepted, the token it holds is in the state it read.
Fits(c) ==
    /\ c.step = "creating" => c.email \in Emails
    /\ c.step \in {"reviving", "refusing", "minting", "deleting", "changing",
                   "removing"} => c.email \in DOMAIN users
    /\ c.step \in {"minting", "deleting"} /\ c.purpose = "password_reset" =>
         Accepted(c.email)
    /\ c.step = "changing" => Accepted(c.email)
    /\ c.step = "consuming" => /\ c.token \in Tokens
                               /\ tokens[c.token].state = "outstanding"
    /\ c.step = "storing" => /\ c.token \in Tokens
                             /\ tokens[c.token].state = "consumed"

CallsFit == \A r \in Requests : Fits(call[r])

LocksExclude ==
    \A r, q \in Requests :
        /\ At(r, "consuming") /\ At(q, "consuming")
        /\ call[r].token = call[q].token
        => r = q

TokensHaveAccounts ==
    \A t \in Tokens :
        tokens[t].state # "unborn" =>
            /\ tokens[t].email \in DOMAIN users
            /\ tokens[t].purpose = "password_reset" => Accepted(tokens[t].email)

GrantsCountConsumptions ==
    \A t \in Tokens : grants[t] = IF tokens[t].state = "consumed" THEN 1 ELSE 0

AuthInv ==
    /\ AuthTypeOK
    /\ CallsFit
    /\ LocksExclude
    /\ TokensHaveAccounts
    /\ GrantsCountConsumptions
    /\ PasswordMeansAccepted
    /\ AcceptanceHasEvidence

\* What a step may do to the accounts: add some, and never take an acceptance
\* back.
UsersGrow ==
    /\ DOMAIN users \subseteq DOMAIN users' /\ DOMAIN users' \subseteq Emails
    /\ \A e \in DOMAIN users' : users'[e] \in User
    /\ \A e \in DOMAIN users :
         Accepted(e) => users'[e].acceptedWith = users[e].acceptedWith
    /\ PasswordMeansAccepted'

-----------------------------------------------------------------------------
\* Steps that change one call, and accounts at the most.

LEMMA CallStep ==
    ASSUME AuthInv, UsersGrow, AcceptanceHasEvidence',
           NEW r \in Requests, NEW c \in Call,
           call' = [call EXCEPT ![r] = c],
           Fits(c)', c.step # "consuming",
           UNCHANGED <<tokens, grants>>
    PROVE  AuthInv'
<1>1. /\ call' \in [Requests -> Call]
      /\ call'[r] = c
      /\ \A q \in Requests \ {r} : call'[q] = call[q]
  BY DEF AuthInv, AuthTypeOK
<1>2. AuthTypeOK'
  BY <1>1 DEF AuthInv, AuthTypeOK, UsersGrow
<1>3. CallsFit'
  <2> SUFFICES ASSUME NEW q \in Requests PROVE Fits(call[q])'
    BY DEF CallsFit
  <2>1. CASE q = r
    BY <1>1, <2>1 DEF Fits, Accepted
  <2>2. CASE q # r
    <3>1. call'[q] = call[q] /\ Fits(call[q])
      BY <1>1, <2>2 DEF AuthInv, CallsFit
    <3> QED BY <3>1 DEF Fits, Accepted, UsersGrow
  <2> QED BY <2>1, <2>2
<1>4. LocksExclude'
  BY <1>1 DEF AuthInv, LocksExclude, At
<1>5. TokensHaveAccounts'
  BY DEF AuthInv, TokensHaveAccounts, Accepted, UsersGrow
<1>6. GrantsCountConsumptions'
  BY DEF AuthInv, GrantsCountConsumptions
<1> QED
  BY <1>2, <1>3, <1>4, <1>5, <1>6 DEF AuthInv, UsersGrow

\* The part of the steps that look and decide.
LEMMA LookStep ==
    ASSUME AuthInv,
           NEW r \in Requests, NEW c \in Call,
           call' = [call EXCEPT ![r] = c],
           Fits(c), c.step # "consuming",
           UNCHANGED <<users, tokens, grants>>
    PROVE  AuthInv'
<1>1. UsersGrow /\ AcceptanceHasEvidence'
  BY DEF AuthInv, AuthTypeOK, UsersGrow, PasswordMeansAccepted,
         AcceptanceHasEvidence
<1>2. Fits(c)'
  BY DEF Fits, Accepted
<1> QED BY <1>1, <1>2, CallStep

LEMMA Finished == NoCall \in Call /\ NoCall.step = "idle" /\ Fits(NoCall)
BY DEF NoCall, Call, Purposes, Fits

\* Going on to a step of the route with an account.
LEMMA GoStep ==
    ASSUME AuthInv,
           NEW r \in Requests, NEW e \in Emails, NEW p \in Purposes,
           NEW step \in {"creating", "reviving", "refusing", "minting",
                         "changing", "removing"},
           step # "creating" => e \in DOMAIN users,
           step = "minting" /\ p = "password_reset" => Accepted(e),
           step = "changing" => Accepted(e),
           Go(r, step, e, p),
           UNCHANGED <<users, tokens, grants>>
    PROVE  AuthInv'
<1> DEFINE c == [NoCall EXCEPT !.step = step, !.email = e, !.purpose = p]
<1>1. c \in Call /\ c.step = step /\ c.email = e /\ c.purpose = p
  BY DEF NoCall, Call, Purposes
<1>2. call' = [call EXCEPT ![r] = c]
  BY DEF Go
<1> HIDE DEF c
<1>3. Fits(c) /\ c.step # "consuming"
  BY <1>1 DEF Fits
<1> QED BY <1>1, <1>2, <1>3, LookStep

\* Going on to the mint from a step that has changed the account.
LEMMA MintNextStep ==
    ASSUME AuthInv, UsersGrow, AcceptanceHasEvidence',
           NEW r \in Requests, NEW e \in Emails, e \in DOMAIN users',
           Go(r, "minting", e, "invitation"),
           UNCHANGED <<tokens, grants>>
    PROVE  AuthInv'
<1> DEFINE c == [NoCall EXCEPT !.step = "minting", !.email = e,
                               !.purpose = "invitation"]
<1>1. c \in Call /\ c.step = "minting" /\ c.email = e /\ c.purpose = "invitation"
  BY DEF NoCall, Call, Purposes
<1>2. call' = [call EXCEPT ![r] = c]
  BY DEF Go
<1> HIDE DEF c
<1>3. Fits(c)'
  BY <1>1 DEF Fits
<1> QED BY <1>1, <1>2, <1>3, CallStep

LEMMA FinishStep ==
    ASSUME AuthInv, UsersGrow, AcceptanceHasEvidence',
           NEW r \in Requests, Finish(r), UNCHANGED <<tokens, grants>>
    PROVE  AuthInv'
<1>1. Fits(NoCall)'
  BY Finished DEF Fits, NoCall
<1> QED BY <1>1, Finished, CallStep DEF Finish

-----------------------------------------------------------------------------
\* The actions.

LEMMA FindInviteeStep ==
    ASSUME AuthInv, NEW r \in Requests, NEW e \in Emails, FindInvitee(r, e)
    PROVE  AuthInv'
<1> DEFINE step == IF e \notin DOMAIN users THEN "creating"
                   ELSE IF Accepted(e) THEN "refusing" ELSE "reviving"
<1>1. step \in {"creating", "refusing", "reviving"}
      /\ (step # "creating" => e \in DOMAIN users)
  OBVIOUS
<1>2. Go(r, step, e, "invitation") /\ UNCHANGED <<users, tokens, grants>>
  BY DEF FindInvitee
<1> HIDE DEF step
<1> QED BY <1>1, <1>2, GoStep DEF Purposes

LEMMA DecideStep ==
    ASSUME AuthInv, NEW r \in Requests, NEW e \in Emails,
           Resend(r, e) \/ RequestReset(r, e) \/ VerifyPassword(r, e)
             \/ FindTarget(r, e)
    PROVE  AuthInv'
<1>1. CASE Resend(r, e)
  BY <1>1, GoStep DEF Resend, Active, Purposes
<1>2. CASE RequestReset(r, e)
  BY <1>2, GoStep DEF RequestReset, Active, Purposes
<1>3. CASE VerifyPassword(r, e)
  <2>1. e \in DOMAIN users /\ Accepted(e)
    BY <1>3 DEF VerifyPassword, Active, Accepted, AuthInv, PasswordMeansAccepted
  <2> QED BY <1>3, <2>1, GoStep DEF VerifyPassword, Purposes
<1>4. CASE FindTarget(r, e)
  BY <1>4, GoStep DEF FindTarget, Active, Purposes
<1> QED BY <1>1, <1>2, <1>3, <1>4

LEMMA LeaveCallStep ==
    ASSUME AuthInv, NEW r \in Requests, LeaveCall(r)
    PROVE  AuthInv'
<1> QED BY Finished, LookStep DEF LeaveCall, Finish

LEMMA CreateInviteeStep ==
    ASSUME AuthInv, NEW r \in Requests, CreateInvitee(r)
    PROVE  AuthInv'
<1>1. PICK e \in Emails : e = call[r].email /\ e \notin DOMAIN users
  BY DEF AuthInv, CallsFit, Fits, CreateInvitee, At, Account
<1>2. users' = [d \in DOMAIN users \cup {e} |->
                  IF d = e THEN Pending ELSE users[d]]
  BY <1>1 DEF CreateInvitee, Account
<1>3. Go(r, "minting", e, "invitation") /\ UNCHANGED <<tokens, grants>>
  BY <1>1 DEF CreateInvitee, Account, Go
<1>4. Pending \in User /\ Pending.acceptedWith = "nothing"
      /\ Pending.password = "nothing"
  BY DEF Pending, User, Source
<1>5. UsersGrow
  BY <1>1, <1>2, <1>4 DEF AuthInv, AuthTypeOK, UsersGrow, Accepted,
                          PasswordMeansAccepted
<1>6. AcceptanceHasEvidence'
  BY <1>1, <1>2, <1>3, <1>4, AuthAssumption DEF AuthInv, AcceptanceHasEvidence
<1> QED BY <1>1, <1>2, <1>3, <1>5, <1>6, MintNextStep

\* Reviving and removing touch deleted alone.
LEMMA DeletedGrows ==
    ASSUME AuthInv, NEW e \in DOMAIN users, NEW b \in BOOLEAN,
           users' = [users EXCEPT ![e].deleted = b], UNCHANGED tokens
    PROVE  UsersGrow /\ AcceptanceHasEvidence' /\ DOMAIN users' = DOMAIN users
<1> DEFINE u == [users[e] EXCEPT !.deleted = b]
<1>1. users[e] \in User
  BY DEF AuthInv, AuthTypeOK
<1>2. /\ u \in User
      /\ u.acceptedWith = users[e].acceptedWith /\ u.password = users[e].password
  BY <1>1 DEF User
<1>3. users' = [users EXCEPT ![e] = u]
  OBVIOUS
<1> HIDE DEF u
<1> QED BY <1>1, <1>2, <1>3 DEF AuthInv, AuthTypeOK, UsersGrow, Accepted,
           PasswordMeansAccepted, AcceptanceHasEvidence

LEMMA ReviveInviteeStep ==
    ASSUME AuthInv, NEW r \in Requests, ReviveInvitee(r)
    PROVE  AuthInv'
<1>1. PICK e \in DOMAIN users : e = call[r].email
  BY DEF AuthInv, CallsFit, Fits, ReviveInvitee, At
<1>2. UsersGrow /\ AcceptanceHasEvidence' /\ DOMAIN users' = DOMAIN users
  BY <1>1, DeletedGrows DEF ReviveInvitee, Account
<1>3. CASE At(r, "refusing")
  BY <1>2, <1>3, FinishStep DEF ReviveInvitee
<1>4. CASE ~At(r, "refusing")
  <2>1. Go(r, "minting", e, "invitation") /\ e \in Emails
    BY <1>1, <1>4 DEF ReviveInvitee, Account, Go, AuthInv, AuthTypeOK
  <2> QED BY <1>1, <1>2, <2>1, MintNextStep DEF ReviveInvitee
<1> QED BY <1>3, <1>4

LEMMA SoftDeleteUserStep ==
    ASSUME AuthInv, NEW r \in Requests, SoftDeleteUser(r)
    PROVE  AuthInv'
<1>1. call[r].email \in DOMAIN users
  BY DEF AuthInv, CallsFit, Fits, SoftDeleteUser, At
<1>2. UsersGrow /\ AcceptanceHasEvidence'
  BY <1>1, DeletedGrows DEF SoftDeleteUser, Account
<1> QED BY <1>2, FinishStep DEF SoftDeleteUser

\* A password is stored for an account that is accepted, or becomes so with it.
LEMMA PasswordGrows ==
    ASSUME AuthInv, NEW e \in DOMAIN users,
           NEW source \in Source \ {"nothing"}, Accepted(e),
           SetPassword(e, source), UNCHANGED tokens
    PROVE  UsersGrow /\ AcceptanceHasEvidence'
<1> DEFINE u == [users[e] EXCEPT !.password = source]
<1>1. users[e] \in User
  BY DEF AuthInv, AuthTypeOK
<1>2. /\ u \in User
      /\ u.acceptedWith = users[e].acceptedWith /\ u.password = source
  BY <1>1 DEF User
<1>3. users' = [users EXCEPT ![e] = u]
  BY DEF SetPassword
<1> HIDE DEF u
<1> QED BY <1>1, <1>2, <1>3 DEF AuthInv, AuthTypeOK, UsersGrow, Accepted,
           PasswordMeansAccepted, AcceptanceHasEvidence

LEMMA AcceptGrows ==
    ASSUME AuthInv, NEW t \in Tokens, NEW e \in DOMAIN users,
           tokens[t].email = e, tokens[t].purpose = "invitation",
           tokens[t].state = "consumed",
           AcceptInvitedUser(e, t), UNCHANGED tokens
    PROVE  UsersGrow /\ AcceptanceHasEvidence'
<1> DEFINE first == IF users[e].acceptedWith = "nothing" THEN t
                    ELSE users[e].acceptedWith
           u == [users[e] EXCEPT !.password = t, !.acceptedWith = first]
<1>1. users[e] \in User /\ t \in Source /\ t # "nothing"
  BY AuthAssumption DEF AuthInv, AuthTypeOK, Source
<1>2. u \in User /\ u.acceptedWith = first /\ u.password = t
  BY <1>1 DEF User
<1>3. users' = [users EXCEPT ![e] = u]
  BY <1>1 DEF AcceptInvitedUser, User
<1>4. tokens[t] = [email |-> e, purpose |-> "invitation", state |-> "consumed"]
  BY DEF AuthInv, AuthTypeOK, Token
<1> HIDE DEF u
<1> QED BY <1>1, <1>2, <1>3, <1>4 DEF AuthInv, AuthTypeOK, UsersGrow, Accepted,
           PasswordMeansAccepted, AcceptanceHasEvidence

LEMMA StorePasswordStep ==
    ASSUME AuthInv, NEW r \in Requests, StorePassword(r)
    PROVE  AuthInv'
<1>1. PICK t \in Tokens : t = call[r].token /\ tokens[t].state = "consumed"
  BY DEF AuthInv, CallsFit, Fits, StorePassword, At
<1>2. PICK e \in DOMAIN users : e = tokens[t].email
  BY <1>1 DEF AuthInv, TokensHaveAccounts
<1>3. UNCHANGED <<tokens, grants>> /\ Finish(r)
  BY DEF StorePassword
<1>4. t \in Source \ {"nothing"}
  BY AuthAssumption DEF Source
<1>5. UsersGrow /\ AcceptanceHasEvidence'
  <2>1. CASE tokens[t].purpose = "invitation" /\ AcceptInvitedUser(e, t)
    BY <1>1, <1>2, <1>3, <2>1, AcceptGrows
  <2>2. CASE tokens[t].purpose = "password_reset" /\ SetPassword(e, t)
    <3>1. Accepted(e)
      BY <1>1, <1>2, <2>2 DEF AuthInv, TokensHaveAccounts
    <3> QED BY <1>3, <1>4, <2>2, <3>1, PasswordGrows
  <2> QED BY <1>1, <1>2, <2>1, <2>2 DEF StorePassword
<1> QED BY <1>3, <1>5, FinishStep

LEMMA ChangePasswordStep ==
    ASSUME AuthInv, NEW r \in Requests, ChangePassword(r)
    PROVE  AuthInv'
<1>1. PICK e \in DOMAIN users : e = call[r].email /\ Accepted(e)
  BY DEF AuthInv, CallsFit, Fits, ChangePassword, At
<1>2. UsersGrow /\ AcceptanceHasEvidence'
  BY <1>1, PasswordGrows DEF ChangePassword, Account, Source
<1> QED BY <1>2, FinishStep DEF ChangePassword

-----------------------------------------------------------------------------
\* The tokens.

LEMMA FindEarlierStep ==
    ASSUME AuthInv, NEW r \in Requests, FindEarlier(r)
    PROVE  AuthInv'
<1> DEFINE found == {t \in Tokens : Superseded(t, call[r].email, call[r].purpose)}
           d == [call[r] EXCEPT !.step = "deleting", !.doomed = found]
<1>1. call[r] \in Call /\ found \in SUBSET Tokens
  BY DEF AuthInv, AuthTypeOK
<1>2. call' = [call EXCEPT ![r] = d]
  BY DEF FindEarlier
<1> HIDE DEF found
<1>3. /\ d \in Call /\ d.step = "deleting"
      /\ d.email = call[r].email /\ d.purpose = call[r].purpose
  BY <1>1 DEF Call
<1> HIDE DEF d
<1>4. PICK c \in Call : c = d
  BY <1>3
<1>5. Fits(c) /\ c.step # "consuming"
  BY <1>3, <1>4 DEF FindEarlier, AuthInv, CallsFit, Fits, At
<1> QED BY <1>2, <1>4, <1>5, LookStep DEF FindEarlier

LEMMA MintTokenStep ==
    ASSUME AuthInv, NEW r \in Requests, NEW t \in Tokens, MintToken(r, t)
    PROVE  AuthInv'
<1> DEFINE minted == [email |-> call[r].email, purpose |-> call[r].purpose,
                      state |-> "outstanding"]
<1>1. /\ call[r] \in Call /\ call[r].email \in DOMAIN users
      /\ call[r].purpose = "password_reset" => Accepted(call[r].email)
  BY DEF AuthInv, AuthTypeOK, CallsFit, Fits, MintToken, At
<1>2. /\ tokens'[t] = minted /\ tokens[t].state = "unborn"
      /\ \A s \in Tokens \ {t} :
           \/ tokens'[s] = tokens[s]
           \/ /\ s \in call[r].doomed /\ tokens[s].state = "outstanding"
              /\ tokens'[s] = [tokens[s] EXCEPT !.state = "deleted"]
  BY DEF MintToken, Superseded
<1>3. minted \in Token /\ minted.state = "outstanding"
      /\ minted.email = call[r].email /\ minted.purpose = call[r].purpose
  BY <1>1 DEF Token, Call, AuthInv, AuthTypeOK
<1> HIDE DEF minted
<1>4. \A s \in Tokens \ {t} :
         \/ tokens'[s] = tokens[s]
         \/ /\ s \in call[r].doomed /\ tokens[s].state = "outstanding"
            /\ tokens'[s] \in Token /\ tokens'[s].state = "deleted"
            /\ tokens'[s].email = tokens[s].email
            /\ tokens'[s].purpose = tokens[s].purpose
  <2> SUFFICES ASSUME NEW s \in Tokens \ {t}, tokens'[s] # tokens[s]
               PROVE  /\ s \in call[r].doomed /\ tokens[s].state = "outstanding"
                      /\ tokens'[s] \in Token /\ tokens'[s].state = "deleted"
                      /\ tokens'[s].email = tokens[s].email
                      /\ tokens'[s].purpose = tokens[s].purpose
    OBVIOUS
  <2>1. tokens[s] \in Token
    BY DEF AuthInv, AuthTypeOK
  <2> QED BY <1>2, <2>1 DEF Token
<1>5. tokens' \in [Tokens -> Token]
  <2>1. \A s \in Tokens : tokens'[s] \in Token
    BY <1>2, <1>3, <1>4 DEF AuthInv, AuthTypeOK
  <2>2. \E f : tokens' = [s \in Tokens |-> f[s]]
    <3>1. tokens' = [s \in Tokens |-> tokens'[s]]
      BY DEF MintToken
    <3> QED BY <3>1
  <2> QED BY <2>1, <2>2
<1>6. /\ call' = [call EXCEPT ![r] = NoCall]
      /\ call'[r] = NoCall
      /\ \A q \in Requests \ {r} : call'[q] = call[q]
      /\ UNCHANGED <<users, grants>>
  BY DEF MintToken, Finish, AuthInv, AuthTypeOK
<1>7. AuthTypeOK'
  BY <1>5, <1>6, Finished DEF AuthInv, AuthTypeOK
<1>8. CallsFit'
  <2> SUFFICES ASSUME NEW q \in Requests PROVE Fits(call[q])'
    BY DEF CallsFit
  <2>1. CASE q = r
    BY <1>6, <2>1, Finished DEF Fits
  <2>2. CASE q # r
    <3>1. call'[q] = call[q] /\ Fits(call[q])
      BY <1>6, <2>2 DEF AuthInv, CallsFit
    <3>2. call[q].step = "consuming" => call[q].token \notin call[r].doomed
      BY DEF MintToken, At
    <3> QED BY <1>2, <1>4, <1>6, <3>1, <3>2 DEF Fits, Accepted
  <2> QED BY <2>1, <2>2
<1>9. LocksExclude'
  BY <1>6, Finished DEF AuthInv, LocksExclude, At
<1>10. TokensHaveAccounts'
  BY <1>1, <1>2, <1>3, <1>4, <1>6 DEF AuthInv, TokensHaveAccounts, Accepted
<1>11. GrantsCountConsumptions'
  BY <1>2, <1>3, <1>4, <1>6 DEF AuthInv, GrantsCountConsumptions
<1>12. PasswordMeansAccepted'
  BY <1>6 DEF AuthInv, PasswordMeansAccepted
<1>13. AcceptanceHasEvidence'
  BY <1>2, <1>4, <1>6 DEF AuthInv, AcceptanceHasEvidence
<1> QED BY <1>7, <1>8, <1>9, <1>10, <1>11, <1>12, <1>13 DEF AuthInv

LEMMA ReadTokenStep ==
    ASSUME AuthInv, NEW r \in Requests, NEW t \in Tokens, ReadToken(r, t)
    PROVE  AuthInv'
<1> DEFINE c == [call[r] EXCEPT !.step = "consuming", !.token = t]
<1>1. c \in Call /\ c.step = "consuming" /\ c.token = t
  BY DEF AuthInv, AuthTypeOK, Call
<1>2. call' = [call EXCEPT ![r] = c] /\ UNCHANGED <<users, tokens, grants>>
  BY DEF ReadToken, AuthInv, AuthTypeOK
<1> HIDE DEF c
<1>3. /\ call'[r] = c
      /\ \A q \in Requests \ {r} : call'[q] = call[q]
  BY <1>2 DEF AuthInv, AuthTypeOK
<1>4. AuthTypeOK'
  BY <1>1, <1>2 DEF AuthInv, AuthTypeOK
<1>5. CallsFit'
  <2> SUFFICES ASSUME NEW q \in Requests PROVE Fits(call[q])'
    BY DEF CallsFit
  <2>1. CASE q = r
    BY <1>1, <1>2, <1>3, <2>1 DEF Fits, ReadToken
  <2>2. CASE q # r
    BY <1>2, <1>3, <2>2 DEF AuthInv, CallsFit, Fits, Accepted
  <2> QED BY <2>1, <2>2
<1>6. LocksExclude'
  <2>1. \A q \in Requests \ {r} :
           call[q].step = "consuming" => call[q].token # t
    BY DEF ReadToken, Unlocked, At
  <2> QED BY <1>1, <1>3, <2>1 DEF AuthInv, LocksExclude, At
<1> QED BY <1>2, <1>4, <1>5, <1>6
        DEF AuthInv, TokensHaveAccounts, GrantsCountConsumptions,
            PasswordMeansAccepted, AcceptanceHasEvidence, Accepted

LEMMA ConsumeTokenStep ==
    ASSUME AuthInv, NEW r \in Requests, ConsumeToken(r)
    PROVE  AuthInv'
<1>1. PICK t \in Tokens : t = call[r].token /\ tokens[t].state = "outstanding"
  BY DEF AuthInv, CallsFit, Fits, ConsumeToken, At
<1> DEFINE c == [call[r] EXCEPT !.step = "storing"]
           used == [tokens[t] EXCEPT !.state = "consumed"]
<1>2. c \in Call /\ c.step = "storing" /\ c.token = t
  BY <1>1 DEF AuthInv, AuthTypeOK, Call
<1>3. /\ used \in Token /\ used.state = "consumed"
      /\ used.email = tokens[t].email /\ used.purpose = tokens[t].purpose
  BY DEF AuthInv, AuthTypeOK, Token
<1>4. /\ call' = [call EXCEPT ![r] = c]
      /\ tokens' = [tokens EXCEPT ![t] = used]
      /\ grants' = [grants EXCEPT ![t] = grants[t] + 1]
      /\ UNCHANGED users
  BY <1>1 DEF ConsumeToken
<1> HIDE DEF c, used
<1>5. /\ call'[r] = c
      /\ \A q \in Requests \ {r} : call'[q] = call[q]
      /\ tokens'[t] = used
      /\ \A s \in Tokens \ {t} : tokens'[s] = tokens[s]
      /\ grants'[t] = grants[t] + 1
      /\ \A s \in Tokens \ {t} : grants'[s] = grants[s]
  BY <1>4 DEF AuthInv, AuthTypeOK
<1>6. AuthTypeOK'
  <2>1. grants' \in [Tokens -> Nat]
    BY <1>4 DEF AuthInv, AuthTypeOK
  <2> QED BY <1>2, <1>3, <1>4, <2>1 DEF AuthInv, AuthTypeOK
<1>7. CallsFit'
  <2> SUFFICES ASSUME NEW q \in Requests PROVE Fits(call[q])'
    BY DEF CallsFit
  <2>1. CASE q = r
    BY <1>2, <1>3, <1>5, <2>1 DEF Fits
  <2>2. CASE q # r
    <3>1. call[q].step = "consuming" => call[q].token # t
      BY <1>1, <2>2 DEF AuthInv, LocksExclude, ConsumeToken, At
    <3> QED BY <1>3, <1>4, <1>5, <2>2, <3>1 DEF AuthInv, CallsFit, Fits, Accepted
  <2> QED BY <2>1, <2>2
<1>8. LocksExclude'
  BY <1>2, <1>5 DEF AuthInv, LocksExclude, At
<1>9. TokensHaveAccounts'
  BY <1>1, <1>3, <1>4, <1>5 DEF AuthInv, TokensHaveAccounts, Accepted
<1>10. GrantsCountConsumptions'
  BY <1>1, <1>3, <1>5 DEF AuthInv, GrantsCountConsumptions
<1>11. PasswordMeansAccepted' /\ AcceptanceHasEvidence'
  BY <1>1, <1>4, <1>5 DEF AuthInv, PasswordMeansAccepted, AcceptanceHasEvidence
<1> QED BY <1>6, <1>7, <1>8, <1>9, <1>10, <1>11 DEF AuthInv

-----------------------------------------------------------------------------
\* The theorems.

LEMMA AuthStarts == AuthInit => AuthInv
<1> SUFFICES ASSUME AuthInit PROVE AuthInv
  OBVIOUS
<1>1. /\ Seed \in User /\ Seed.password = "seed" /\ Seed.acceptedWith = "seed"
      /\ Unborn \in Token /\ Unborn.state = "unborn"
  BY DEF Seed, User, Source, Unborn, Token, Purposes
<1>2. AuthTypeOK
  BY <1>1, Finished, AuthAssumption DEF AuthInit, AuthTypeOK
<1>3. CallsFit /\ LocksExclude
  BY Finished DEF AuthInit, CallsFit, LocksExclude, At
<1>4. TokensHaveAccounts /\ GrantsCountConsumptions
  BY <1>1 DEF AuthInit, TokensHaveAccounts, GrantsCountConsumptions
<1>5. PasswordMeansAccepted /\ AcceptanceHasEvidence
  BY <1>1, AuthAssumption DEF AuthInit, PasswordMeansAccepted,
                              AcceptanceHasEvidence
<1> QED BY <1>2, <1>3, <1>4, <1>5 DEF AuthInv

LEMMA AuthNextKeeps == AuthInv /\ [AuthNext]_vars => AuthInv'
<1> SUFFICES ASSUME AuthInv, [AuthNext]_vars PROVE AuthInv'
  OBVIOUS
<1>1. CASE UNCHANGED vars
  BY <1>1 DEF vars, AuthInv, AuthTypeOK, CallsFit, Fits, LocksExclude, At,
              TokensHaveAccounts, GrantsCountConsumptions, Accepted,
              PasswordMeansAccepted, AcceptanceHasEvidence
<1>2. CASE AuthNext
  <2> SUFFICES ASSUME NEW r \in Requests,
                      \/ \E e \in Emails : \/ FindInvitee(r, e)
                                           \/ Resend(r, e)
                                           \/ RequestReset(r, e)
                                           \/ VerifyPassword(r, e)
                                           \/ FindTarget(r, e)
                      \/ CreateInvitee(r)
                      \/ ReviveInvitee(r)
                      \/ FindEarlier(r)
                      \/ \E t \in Tokens : MintToken(r, t) \/ ReadToken(r, t)
                      \/ ConsumeToken(r)
                      \/ StorePassword(r)
                      \/ ChangePassword(r)
                      \/ SoftDeleteUser(r)
                      \/ LeaveCall(r)
               PROVE  AuthInv'
    BY <1>2 DEF AuthNext
  <2> QED BY FindInviteeStep, DecideStep, CreateInviteeStep, ReviveInviteeStep,
             FindEarlierStep, MintTokenStep, ReadTokenStep, ConsumeTokenStep,
             StorePasswordStep, ChangePasswordStep, SoftDeleteUserStep,
             LeaveCallStep
<1> QED BY <1>1, <1>2 DEF AuthNext

\* Accounts, tokens and calls in flight fit together, for any number of calls,
\* accounts and tokens.
THEOREM AuthInvariant == AuthSpec => []AuthInv
<1> QED BY AuthStarts, AuthNextKeeps, PTL DEF AuthSpec

\* Rows and calls keep their types.
THEOREM AuthTypes == AuthSpec => []AuthTypeOK
<1>1. AuthInv => AuthTypeOK
  BY DEF AuthInv
<1> QED BY <1>1, AuthInvariant, PTL

\* However many calls present one link at once, one gets through.
THEOREM AuthTokenUsedOnce == AuthSpec => []TokenUsedOnce
<1>1. AuthInv => TokenUsedOnce
  BY DEF AuthInv, GrantsCountConsumptions, TokenUsedOnce
<1> QED BY <1>1, AuthInvariant, PTL

\* An acceptance keeps the consumed invitation it rests on.
THEOREM AuthAcceptanceHasEvidence == AuthSpec => []AcceptanceHasEvidence
<1>1. AuthInv => AcceptanceHasEvidence
  BY DEF AuthInv
<1> QED BY <1>1, AuthInvariant, PTL

\* No interleaving gives a password to an account that was not accepted.
THEOREM AuthPasswordMeansAccepted == AuthSpec => []PasswordMeansAccepted
<1>1. AuthInv => PasswordMeansAccepted
  BY DEF AuthInv
<1> QED BY <1>1, AuthInvariant, PTL

\* One column of one account changes, and it is not acceptedWith, or the first
\* acceptance is written.
LEMMA AcceptanceKept ==
    ASSUME AuthInv, AuthNext
    PROVE  \A e \in DOMAIN users :
             Accepted(e) => users'[e].acceptedWith = users[e].acceptedWith
<1>0. SUFFICES ASSUME NEW e \in DOMAIN users, Accepted(e)
               PROVE  users'[e].acceptedWith = users[e].acceptedWith
  OBVIOUS
<1>1. users[e] \in User /\ users[e].acceptedWith # "nothing"
  BY <1>0 DEF AuthInv, AuthTypeOK, Accepted
<1>2. PICK r \in Requests :
        \/ UNCHANGED users
        \/ CreateInvitee(r)
        \/ ReviveInvitee(r)
        \/ StorePassword(r)
        \/ ChangePassword(r)
        \/ SoftDeleteUser(r)
  BY DEF AuthNext, FindInvitee, Resend, RequestReset, VerifyPassword, FindTarget,
         FindEarlier, MintToken, ReadToken, ConsumeToken, LeaveCall
<1>3. CASE UNCHANGED users
  BY <1>3
<1>4. CASE CreateInvitee(r)
  BY <1>4 DEF CreateInvitee
<1>5. CASE ReviveInvitee(r) \/ SoftDeleteUser(r)
  BY <1>1, <1>5 DEF ReviveInvitee, SoftDeleteUser, User
<1>6. ASSUME NEW d, NEW source, SetPassword(d, source)
      PROVE  users'[e].acceptedWith = users[e].acceptedWith
  BY <1>1, <1>6 DEF SetPassword, User
<1>7. ASSUME NEW d, NEW t, AcceptInvitedUser(d, t)
      PROVE  users'[e].acceptedWith = users[e].acceptedWith
  BY <1>1, <1>7 DEF AcceptInvitedUser, User
<1>8. CASE StorePassword(r)
  BY <1>6, <1>7, <1>8 DEF StorePassword
<1>9. CASE ChangePassword(r)
  BY <1>6, <1>9 DEF ChangePassword
<1> QED BY <1>2, <1>3, <1>4, <1>5, <1>8, <1>9

\* A second link that is consumed later does not rewrite the first acceptance.
THEOREM AuthFirstAcceptanceStands == AuthSpec => FirstAcceptanceStands
<1>1. AuthInv /\ [AuthNext]_vars =>
        [\A e \in DOMAIN users :
            users[e].acceptedWith # "nothing" =>
                users'[e].acceptedWith = users[e].acceptedWith]_users
  BY AcceptanceKept DEF Accepted, vars
<1> QED BY <1>1, AuthInvariant, PTL DEF AuthSpec, FirstAcceptanceStands

-----------------------------------------------------------------------------
\* Mints that race.

\* The calls that are about to delete what they found, and insert.
Deleters(e, p) ==
    {r \in Requests : At(r, "deleting") /\ call[r].email = e /\ call[r].purpose = p}

Doomed(S) == UNION {call[q].doomed : q \in S}

\* The links that some of those calls will not delete, and the calls themselves,
\* are together no more than there are calls.
RoomFor(e, p) ==
    /\ IsFiniteSet(OutstandingFor(e, p))
    /\ \A S \in SUBSET Deleters(e, p) :
         Cardinality(OutstandingFor(e, p) \ Doomed(S)) + Cardinality(S)
             =< Cardinality(Requests)

MintsHaveRoom == \A e \in Emails, p \in Purposes : RoomFor(e, p)

\* With no call at all: every link.
LEMMA RoomIsEnough == MintsHaveRoom => StaleTokensBounded
<1> SUFFICES ASSUME MintsHaveRoom, NEW e \in Emails, NEW p \in Purposes
             PROVE  Cardinality(OutstandingFor(e, p)) <= Cardinality(Requests)
  BY DEF StaleTokensBounded
<1>1. {} \in SUBSET Deleters(e, p) /\ OutstandingFor(e, p) \ Doomed({})
                                       = OutstandingFor(e, p)
  BY DEF Doomed
<1>2. IsFiniteSet(OutstandingFor(e, p)) /\ Cardinality({}) = 0
  BY FS_EmptySet DEF MintsHaveRoom, RoomFor
<1>3. Cardinality(OutstandingFor(e, p)) \in Nat /\ Cardinality(Requests) \in Nat
  BY <1>2, AuthAssumption, FS_CardinalityType
<1>4. Cardinality(OutstandingFor(e, p) \ Doomed({})) + Cardinality({})
          <= Cardinality(Requests)
  BY <1>1 DEF MintsHaveRoom, RoomFor
<1> QED
  BY <1>1, <1>2, <1>3, <1>4

\* What is left of finite sets is counted.
LEMMA RoomSizes ==
    ASSUME NEW T, IsFiniteSet(T), NEW D, NEW S \in SUBSET Requests
    PROVE  /\ IsFiniteSet(T \ D) /\ Cardinality(T \ D) \in Nat
           /\ IsFiniteSet(S) /\ Cardinality(S) \in Nat
           /\ Cardinality(S) =< Cardinality(Requests)
           /\ Cardinality(Requests) \in Nat
<1>1. T \ D \in SUBSET T
  OBVIOUS
<1> QED
  BY <1>1, AuthAssumption, FS_Subset, FS_CardinalityType

\* Fewer links and fewer calls that are about to delete need no more room.
LEMMA LessNeedsNoRoom ==
    ASSUME NEW e, NEW p, RoomFor(e, p),
           OutstandingFor(e, p)' \subseteq OutstandingFor(e, p),
           \A q \in Deleters(e, p)' :
               q \in Deleters(e, p) /\ call'[q].doomed = call[q].doomed
    PROVE  RoomFor(e, p)'
<1> DEFINE T == OutstandingFor(e, p)
           U == OutstandingFor(e, p)'
<1>1. IsFiniteSet(T) /\ IsFiniteSet(U)
  BY FS_Subset DEF RoomFor
<1>2. ASSUME NEW S \in SUBSET Deleters(e, p)'
      PROVE  Cardinality(U \ Doomed(S)') + Cardinality(S) =< Cardinality(Requests)
  <2>1. S \in SUBSET Deleters(e, p) /\ S \in SUBSET Requests
    BY <1>2 DEF Deleters
  <2>2. Doomed(S)' = Doomed(S)
    BY <1>2 DEF Doomed
  <2>3. U \ Doomed(S) \subseteq T \ Doomed(S)
    OBVIOUS
  <2>4. Cardinality(T \ Doomed(S)) + Cardinality(S) =< Cardinality(Requests)
    BY <2>1 DEF RoomFor
  <2> HIDE DEF T, U
  <2>5. /\ Cardinality(U \ Doomed(S)) =< Cardinality(T \ Doomed(S))
        /\ Cardinality(U \ Doomed(S)) \in Nat /\ Cardinality(T \ Doomed(S)) \in Nat
        /\ Cardinality(S) \in Nat /\ Cardinality(Requests) \in Nat
    BY <1>1, <2>1, <2>3, RoomSizes, FS_Subset
  <2> QED
    BY <2>2, <2>4, <2>5
<1> QED
  BY <1>1, <1>2 DEF RoomFor

\* A step that mints nothing and looks for nothing to delete.
LEMMA QuietStepKeepsRoom ==
    ASSUME MintsHaveRoom,
           \A t \in Tokens : tokens'[t].state = "outstanding" => tokens'[t] = tokens[t],
           \A q \in Requests : call'[q].step = "deleting" => call'[q] = call[q]
    PROVE  MintsHaveRoom'
<1> SUFFICES ASSUME NEW e \in Emails, NEW p \in Purposes PROVE RoomFor(e, p)'
  BY DEF MintsHaveRoom
<1>1. RoomFor(e, p)
  BY DEF MintsHaveRoom
<1>2. OutstandingFor(e, p)' \subseteq OutstandingFor(e, p)
  BY DEF OutstandingFor
<1>3. \A q \in Deleters(e, p)' :
          q \in Deleters(e, p) /\ call'[q].doomed = call[q].doomed
  BY DEF Deleters, At
<1> QED
  BY <1>1, <1>2, <1>3, LessNeedsNoRoom

\* A call that looks dooms every link there is, and leaves as much room as before
\* to those that looked earlier.
LEMMA LookKeepsRoom ==
    ASSUME AuthInv, MintsHaveRoom, NEW r \in Requests, FindEarlier(r)
    PROVE  MintsHaveRoom'
<1> SUFFICES ASSUME NEW e \in Emails, NEW p \in Purposes PROVE RoomFor(e, p)'
  BY DEF MintsHaveRoom
<1>1. /\ RoomFor(e, p) /\ tokens' = tokens
      /\ OutstandingFor(e, p)' = OutstandingFor(e, p)
      /\ IsFiniteSet(OutstandingFor(e, p))
  BY DEF MintsHaveRoom, RoomFor, FindEarlier, OutstandingFor
<1>2. /\ \A q \in Requests \ {r} : call'[q] = call[q]
      /\ call'[r].email = call[r].email /\ call'[r].purpose = call[r].purpose
      /\ call'[r].doomed =
           {t \in Tokens : Superseded(t, call[r].email, call[r].purpose)}
  BY DEF AuthInv, AuthTypeOK, FindEarlier, Call
<1>3. CASE call[r].email = e /\ call[r].purpose = p
  <2>1. ASSUME NEW S \in SUBSET Deleters(e, p)'
        PROVE  Cardinality(OutstandingFor(e, p) \ Doomed(S)') + Cardinality(S)
                   =< Cardinality(Requests)
    <3>0. S \in SUBSET Requests
      BY <2>1 DEF Deleters
    <3>1. CASE r \in S
      <4>1. OutstandingFor(e, p) \subseteq call'[r].doomed
        BY <1>2, <1>3 DEF OutstandingFor, Superseded
      <4>2. OutstandingFor(e, p) \ Doomed(S)' = {}
        BY <3>1, <4>1 DEF Doomed
      <4>3. /\ Cardinality(S) \in Nat /\ Cardinality(Requests) \in Nat
            /\ Cardinality(S) =< Cardinality(Requests)
        BY <1>1, <3>0, RoomSizes
      <4> QED
        BY <4>2, <4>3, FS_EmptySet
    <3>2. CASE r \notin S
      <4>1. \A q \in S : call'[q] = call[q]
        BY <1>2, <3>0, <3>2
      <4>2. S \in SUBSET Deleters(e, p) /\ Doomed(S)' = Doomed(S)
        BY <2>1, <4>1 DEF Deleters, At, Doomed
      <4> QED
        BY <1>1, <4>2 DEF RoomFor
    <3> QED
      BY <3>1, <3>2
  <2> QED
    BY <1>1, <2>1 DEF RoomFor
<1>4. CASE ~(call[r].email = e /\ call[r].purpose = p)
  <2>1. \A q \in Deleters(e, p)' :
            q \in Deleters(e, p) /\ call'[q].doomed = call[q].doomed
    BY <1>2, <1>4 DEF Deleters, At
  <2> QED
    BY <1>1, <2>1, LessNeedsNoRoom
<1> QED
  BY <1>3, <1>4

\* A call that mints adds a link, deletes those it doomed, and is done.
LEMMA MintKeepsRoom ==
    ASSUME AuthInv, MintsHaveRoom, NEW r \in Requests, NEW t \in Tokens,
           MintToken(r, t)
    PROVE  MintsHaveRoom'
<1> SUFFICES ASSUME NEW e \in Emails, NEW p \in Purposes PROVE RoomFor(e, p)'
  BY DEF MintsHaveRoom
<1>1. RoomFor(e, p) /\ IsFiniteSet(OutstandingFor(e, p))
  BY DEF MintsHaveRoom, RoomFor
<1>2. /\ \A q \in Requests \ {r} : call'[q] = call[q]
      /\ call'[r].step = "idle"
      /\ call[r].step = "deleting"
  BY DEF AuthInv, AuthTypeOK, MintToken, Finish, NoCall, At
<1>3. /\ tokens'[t].email = call[r].email /\ tokens'[t].purpose = call[r].purpose
      /\ \A s \in Tokens \ {t} :
           tokens'[s].state = "outstanding" =>
              /\ tokens'[s] = tokens[s]
              /\ ~(s \in call[r].doomed /\ Superseded(s, call[r].email, call[r].purpose))
  <2> SUFFICES ASSUME NEW s \in Tokens \ {t}, tokens'[s].state = "outstanding"
               PROVE  /\ tokens'[s] = tokens[s]
                      /\ ~(s \in call[r].doomed
                             /\ Superseded(s, call[r].email, call[r].purpose))
    BY DEF MintToken
  <2>1. tokens[s] \in Token
    BY DEF AuthInv, AuthTypeOK
  <2> QED
    BY <2>1 DEF MintToken, Token
<1>4. \A q \in Deleters(e, p)' : /\ q \in Deleters(e, p) /\ q # r
                                 /\ call'[q].doomed = call[q].doomed
  BY <1>2 DEF Deleters, At
<1>5. CASE call[r].email = e /\ call[r].purpose = p
  <2> DEFINE T == OutstandingFor(e, p)
  <2>1. OutstandingFor(e, p)' \subseteq (T \ call[r].doomed) \cup {t}
    BY <1>3, <1>5 DEF OutstandingFor, Superseded
  <2>2. IsFiniteSet(OutstandingFor(e, p)')
    <3>1. IsFiniteSet(T \ call[r].doomed)
      BY <1>1, RoomSizes
    <3>2. IsFiniteSet((T \ call[r].doomed) \cup {t})
      BY <3>1, FS_AddElement
    <3> QED
      BY <2>1, <3>2, FS_Subset
  <2>3. ASSUME NEW S \in SUBSET Deleters(e, p)'
        PROVE  Cardinality(OutstandingFor(e, p)' \ Doomed(S)') + Cardinality(S)
                   =< Cardinality(Requests)
    <3> DEFINE both == S \cup {r}
               left == T \ Doomed(both)
               now == OutstandingFor(e, p)' \ Doomed(S)'
    <3>1. /\ both \in SUBSET Deleters(e, p) /\ r \notin S
          /\ both \in SUBSET Requests /\ S \in SUBSET Requests
      BY <1>2, <1>4, <1>5, <2>3 DEF Deleters, At
    <3>2. Doomed(S)' = Doomed(S) /\ Doomed(both) = Doomed(S) \cup call[r].doomed
      <4>1. \A q \in S : call'[q].doomed = call[q].doomed
        BY <1>4, <2>3
      <4> QED
        BY <4>1 DEF Doomed
    <3>3. now \subseteq left \cup {t}
      BY <2>1, <3>2
    <3>4. Cardinality(left) + Cardinality(both) =< Cardinality(Requests)
      BY <1>1, <3>1 DEF RoomFor
    <3>5. /\ IsFiniteSet(left) /\ Cardinality(left) \in Nat
          /\ IsFiniteSet(S) /\ Cardinality(S) \in Nat
          /\ Cardinality(Requests) \in Nat
      BY <1>1, <3>1, RoomSizes
    <3>6. Cardinality(both) = Cardinality(S) + 1
      BY <3>1, <3>5, FS_AddElement
    <3> HIDE DEF left, now, both
    <3>7. Cardinality(now) =< Cardinality(left) + 1 /\ Cardinality(now) \in Nat
      <4>1. /\ IsFiniteSet(left \cup {t})
            /\ Cardinality(left \cup {t}) \in {Cardinality(left), Cardinality(left) + 1}
        BY <3>5, FS_AddElement
      <4>2. /\ Cardinality(now) =< Cardinality(left \cup {t})
            /\ IsFiniteSet(now)
        BY <3>3, <4>1, FS_Subset
      <4> QED
        BY <3>5, <4>1, <4>2, FS_CardinalityType
    <3>8. Cardinality(now) + Cardinality(S) =< Cardinality(Requests)
      BY <3>4, <3>5, <3>6, <3>7
    <3> QED
      BY <3>8 DEF now
  <2> QED
    BY <2>2, <2>3 DEF RoomFor
<1>6. CASE ~(call[r].email = e /\ call[r].purpose = p)
  <2>1. OutstandingFor(e, p)' \subseteq OutstandingFor(e, p)
    BY <1>3, <1>6 DEF OutstandingFor
  <2> QED
    BY <1>1, <1>4, <2>1, LessNeedsNoRoom
<1> QED
  BY <1>5, <1>6

\* Every step leaves room.
LEMMA RoomStep ==
    ASSUME AuthInv, MintsHaveRoom, [AuthNext]_vars
    PROVE  MintsHaveRoom'
<1>1. CASE UNCHANGED vars
  BY <1>1, QuietStepKeepsRoom DEF vars
<1>2. ASSUME NEW r \in Requests, NEW c, call' = [call EXCEPT ![r] = c],
             c.step # "deleting"
      PROVE  \A q \in Requests : call'[q].step = "deleting" => call'[q] = call[q]
  BY <1>2 DEF AuthInv, AuthTypeOK
<1>3. ASSUME NEW r \in Requests,
             \/ \E e \in Emails : \/ FindInvitee(r, e)
                                  \/ Resend(r, e)
                                  \/ RequestReset(r, e)
                                  \/ VerifyPassword(r, e)
                                  \/ FindTarget(r, e)
             \/ CreateInvitee(r)
             \/ ReviveInvitee(r)
             \/ StorePassword(r)
             \/ ChangePassword(r)
             \/ SoftDeleteUser(r)
             \/ LeaveCall(r)
      PROVE  MintsHaveRoom'
  <2>1. tokens' = tokens
    BY <1>3 DEF FindInvitee, Resend, RequestReset, VerifyPassword, FindTarget,
                CreateInvitee, ReviveInvitee, StorePassword, ChangePassword,
                SoftDeleteUser, LeaveCall
  <2>2. \E c : c.step # "deleting" /\ call' = [call EXCEPT ![r] = c]
    <3>1. ASSUME NEW step \in {"creating", "refusing", "reviving", "minting",
                              "changing", "removing"},
                 NEW e, NEW p, Go(r, step, e, p)
          PROVE  \E c : c.step # "deleting" /\ call' = [call EXCEPT ![r] = c]
      <4> DEFINE c == [NoCall EXCEPT !.step = step, !.email = e, !.purpose = p]
      <4>1. c.step # "deleting" /\ call' = [call EXCEPT ![r] = c]
        BY <3>1 DEF Go, NoCall
      <4> HIDE DEF c
      <4> QED
        BY <4>1
    <3>2. Finish(r) => \E c : c.step # "deleting" /\ call' = [call EXCEPT ![r] = c]
      BY DEF Finish, NoCall
    <3> QED
      BY <1>3, <3>1, <3>2
      DEF FindInvitee, Resend, RequestReset, VerifyPassword, FindTarget,
          CreateInvitee, ReviveInvitee, StorePassword, ChangePassword,
          SoftDeleteUser, LeaveCall
  <2>3. \A q \in Requests : call'[q].step = "deleting" => call'[q] = call[q]
    BY <1>2, <2>2
  <2> QED
    BY <2>1, <2>3, QuietStepKeepsRoom
<1>4. ASSUME NEW r \in Requests, NEW t \in Tokens, ReadToken(r, t)
      PROVE  MintsHaveRoom'
  <2>1. /\ tokens' = tokens
        /\ \A q \in Requests : call'[q].step = "deleting" => call'[q] = call[q]
    BY <1>4 DEF ReadToken, AuthInv, AuthTypeOK, Call
  <2> QED
    BY <2>1, QuietStepKeepsRoom
<1>5. ASSUME NEW r \in Requests, ConsumeToken(r) PROVE MintsHaveRoom'
  <2>1. \A q \in Requests : call'[q].step = "deleting" => call'[q] = call[q]
    BY <1>5 DEF ConsumeToken, AuthInv, AuthTypeOK, Call
  <2>2. \A t \in Tokens : tokens'[t].state = "outstanding" => tokens'[t] = tokens[t]
    BY <1>5 DEF ConsumeToken, AuthInv, AuthTypeOK, Token
  <2> QED
    BY <2>1, <2>2, QuietStepKeepsRoom
<1> QED
  BY <1>1, <1>3, <1>4, <1>5, LookKeepsRoom, MintKeepsRoom DEF AuthNext

\* However many mints race, an address has no more live links of a kind than
\* there are calls in flight.
THEOREM AuthStaleTokensBounded == AuthSpec => []StaleTokensBounded
<1>1. AuthInit => MintsHaveRoom
  <2> SUFFICES ASSUME AuthInit, NEW e \in Emails, NEW p \in Purposes
               PROVE  RoomFor(e, p)
    BY DEF MintsHaveRoom
  <2>1. OutstandingFor(e, p) = {} /\ Deleters(e, p) = {}
    BY DEF AuthInit, OutstandingFor, Deleters, Unborn, NoCall, At
  <2>2. \A S \in SUBSET Deleters(e, p) :
            Cardinality(OutstandingFor(e, p) \ Doomed(S)) = 0 /\ Cardinality(S) = 0
    BY <2>1, FS_EmptySet
  <2>3. Cardinality(Requests) \in Nat
    BY AuthAssumption, FS_CardinalityType
  <2> QED
    BY <2>1, <2>2, <2>3, FS_EmptySet DEF RoomFor
<1>2. AuthInv /\ MintsHaveRoom /\ [AuthNext]_vars => MintsHaveRoom'
  BY RoomStep
<1> QED
  BY <1>1, <1>2, AuthInvariant, RoomIsEnough, PTL DEF AuthSpec

=============================================================================
