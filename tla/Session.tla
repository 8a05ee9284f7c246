------------------------------- MODULE Session -------------------------------
(***************************************************************************)
(* The signed-in state of one browser tab: the row of the user in the      *)
(* database, the claims in the session cookie, what useSession last        *)
(* fetched of them, and the page the middleware and the effects of the     *)
(* pages have led to.                                                      *)
(*                                                                         *)
(* The claims are read from the row at sign-in and at no other time: every *)
(* read of the session signs the claims it was sent once more and sets the *)
(* cookie again.  Requests are made for the API all the time, and each of  *)
(* them begins with such a read; its answer may come after a sign-out or a *)
(* sign-in that it does not know of.                                       *)
(***************************************************************************)
EXTENDS Naturals, Sequences, SequencesExt, FiniteSets

CONSTANTS
    Passwords,
    MaxReads      \* bound on the session reads in flight beside a handler's

ASSUME SessionAssumption == Passwords # {} /\ MaxReads \in Nat \ {0}

\* "plain" and "must" are claims with must_change_password false and true.
Claims == {"off", "plain", "must"}

\* Other pages behind the layout are like /projects, /accept-invite is like
\* /reset-password.
Home == "/"
Inside == "/projects"
ChangePage == "/change-password"
TokenPage == "/reset-password"
Paths == {Home, Inside, ChangePage, TokenPage}

PUBLIC_PATHS == {Home, TokenPage}

VARIABLES
    account,   \* the row of the user
    cookie,    \* the claims in the session cookie
    tab,       \* the page that is shown, and the session useSession holds
    reads,     \* session reads in flight, with the claims they were sent
    flow,      \* the submit handler at work
    excuse     \* history: why the claims may be older than the row

sessionVars == <<account, cookie, tab, reads, flow, excuse>>

AccountRow == [live: BOOLEAN, accepted: BOOLEAN, must: BOOLEAN, password: Passwords]

Tab == [path: Paths, session: Claims \cup {"loading"}]

\* `mine` reads set the session of the tab, the others are getAccessToken's.
Read == [claims: Claims, mine: BOOLEAN]

Kinds == {"signin", "change", "accept", "reset", "logout"}

\* Broken on purpose: the form does not sign in again.
RequestsWithoutSignIn(kind) ==
    CASE kind = "signin" -> <<"signin", "read">>
      [] kind = "change" -> <<"change", "read">>
      [] kind = "accept" -> <<"accept", "signin", "read">>
      [] kind = "reset"  -> <<"reset">>
      [] kind = "logout" -> <<"signout", "read">>

\* The requests of each handler, in order: onSubmit of the three pages and
\* handleLogout.  next-auth's signIn and signOut end by a read of the session.
RequestsOf(kind) ==
    CASE kind = "signin" -> <<"signin", "read">>
      [] kind = "change" -> <<"change", "signout", "read", "signin", "read">>
      [] kind = "accept" -> <<"accept", "signin", "read">>
      [] kind = "reset"  -> <<"reset">>
      [] kind = "logout" -> <<"signout", "read">>

Words == {"signin", "signout", "read", "change", "accept", "reset"}

Flow == [kind: Kinds \cup {"none"}, rest: Seq(Words), step: {"asked", "ok"},
         claims: Claims,        \* sent with the request, and set by its answer
         current: Passwords, new: Passwords]

NoFlow == [kind |-> "none", rest |-> <<>>, step |-> "asked", claims |-> "off",
           current |-> CHOOSE p \in Passwords : TRUE,
           new |-> CHOOSE p \in Passwords : TRUE]

-----------------------------------------------------------------------------
\* Where a request for a page ends up.

\* Broken on purpose: a user who must change the password is sent home.
MiddlewareSendingHome(claims, path) ==
    CASE claims = "off"   -> IF path \in PUBLIC_PATHS THEN path ELSE Home
      [] claims = "must"  -> Home
      [] claims = "plain" -> IF path = Home THEN Inside ELSE path

Middleware(claims, path) ==
    CASE claims = "off"   -> IF path \in PUBLIC_PATHS THEN path ELSE Home
      [] claims = "must"  -> ChangePage
      [] claims = "plain" -> IF path = Home THEN Inside ELSE path

GoTo(path) == [tab EXCEPT !.path = Middleware(cookie, path)]

\* A link, or the address bar: the first keeps the session, the second loads the
\* page anew, with a read of the session, and takes its handler away.
FollowLink(path) ==
    /\ path # tab.path
    /\ tab' = GoTo(path)
    /\ UNCHANGED <<account, cookie, reads, flow, excuse>>

\* What is served of a handler that ends early stays.
Broken == IF flow.kind = "change" THEN excuse \cup {"broken"} ELSE excuse

OpenPage(path) ==
    /\ Len(reads) < MaxReads
    /\ tab' = [GoTo(path) EXCEPT !.session = "loading"]
    /\ reads' = Append([i \in DOMAIN reads |-> [reads[i] EXCEPT !.mine = FALSE]],
                       [claims |-> cookie, mine |-> TRUE])
    /\ flow' = NoFlow
    /\ excuse' = Broken
    /\ UNCHANGED <<account, cookie>>

\* The effect of the home page, of a user who is signed in.
HomeEffect ==
    /\ tab.path = Home /\ tab.session \in {"plain", "must"}
    /\ tab' = GoTo(IF tab.session = "must" THEN ChangePage ELSE Inside)
    /\ UNCHANGED <<account, cookie, reads, flow, excuse>>

\* The effect of the layout of the other pages.
LayoutEffect ==
    /\ tab.path \in {Inside, ChangePage}
    /\ \/ tab.session = "off" /\ tab' = GoTo(Home)
       \/ tab.session = "must" /\ tab.path # ChangePage /\ tab' = GoTo(ChangePage)
    /\ UNCHANGED <<account, cookie, reads, flow, excuse>>

-----------------------------------------------------------------------------
\* Reads of the session: on focus, on a message of another tab, and before each
\* request to the API.

AskSession(mine) ==
    /\ Len(reads) < MaxReads
    /\ reads' = Append(reads, [claims |-> cookie, mine |-> mine])
    /\ UNCHANGED <<account, cookie, tab, flow, excuse>>

\* jwt, encode and session: the claims it was sent with a new expiry, or nothing.
SessionAnswered(i) ==
    LET read == reads[i]
    IN  /\ cookie' = IF read.claims = "off" THEN cookie ELSE read.claims
        /\ tab' = IF read.mine THEN [tab EXCEPT !.session = read.claims] ELSE tab
        /\ excuse' = IF cookie' = cookie THEN excuse ELSE excuse \cup {"overtaken"}
        /\ reads' = RemoveAt(reads, i)
        /\ UNCHANGED <<account, flow>>

\* A read that fails is no session.
SessionLost(i) ==
    /\ tab' = IF reads[i].mine THEN [tab EXCEPT !.session = "off"] ELSE tab
    /\ reads' = RemoveAt(reads, i)
    /\ UNCHANGED <<account, cookie, flow, excuse>>

\* The token in the cookie expires.
Expire ==
    /\ cookie # "off"
    /\ cookie' = "off"
    /\ UNCHANGED <<account, tab, reads, flow, excuse>>

-----------------------------------------------------------------------------
\* The handlers.

Offered(kind) ==
    CASE kind = "signin" -> tab.path = Home
      [] kind = "change" -> tab.path = ChangePage /\ tab.session \in {"plain", "must"}
      [] kind = "logout" -> /\ tab.path \in {Inside, ChangePage}
                            /\ tab.session \in {"plain", "must"}
      [] OTHER -> tab.path = TokenPage

Submit(kind, current, new) ==
    /\ flow.kind = "none"
    /\ Offered(kind)
    /\ flow' = [kind |-> kind, rest |-> RequestsOf(kind), step |-> "asked",
                claims |-> cookie, current |-> current, new |-> new]
    /\ UNCHANGED <<account, cookie, tab, reads, excuse>>

Asked(request) == flow.kind # "none" /\ flow.step = "asked" /\ Head(flow.rest) = request

\* authorize: the account is live and accepted and the password is its own.
ServeSignIn ==
    /\ Asked("signin")
    /\ account.live /\ account.accepted
    /\ account.password = IF flow.kind = "signin" THEN flow.current ELSE flow.new
    /\ flow' = [flow EXCEPT !.step = "ok",
                            !.claims = IF account.must THEN "must" ELSE "plain"]
    /\ UNCHANGED <<account, cookie, tab, reads, excuse>>

\* signOut, and the reads of this handler; one that fails is no session.
ServeCookie ==
    /\ Asked("signout") \/ Asked("read")
    /\ \E claims \in IF Asked("signout") THEN {"off"} ELSE {flow.claims, "off"} :
          flow' = [flow EXCEPT !.step = "ok", !.claims = claims]
    /\ UNCHANGED <<account, cookie, tab, reads, excuse>>

\* change-password, accept-invite and reset (AuthTokens has the tokens): the
\* first asks for the session and the current password.
ServePassword ==
    /\ \/ Asked("change") /\ flow.claims # "off" /\ account.live
          /\ account.accepted /\ account.password = flow.current
       \/ Asked("accept") /\ ~account.accepted
       \/ Asked("reset") /\ account.accepted
    /\ account' = [account EXCEPT !.password = flow.new, !.must = FALSE,
                                  !.accepted = TRUE]
    /\ flow' = [flow EXCEPT !.step = "ok"]
    /\ excuse' = IF account.must /\ ~Asked("change") THEN excuse \cup {"elsewhere"}
                                                    ELSE excuse
    /\ UNCHANGED <<cookie, tab, reads>>

\* router.replace when the last request is answered; the sign-in form leaves it
\* to the effect of its page.
Destination(kind, claims) ==
    CASE kind \in {"change", "accept"} -> Middleware(claims, Inside)
      [] kind \in {"reset", "logout"}  -> Middleware(claims, Home)
      [] kind = "signin"               -> tab.path

\* What the answer to a request sets the cookie to.
SetCookie(request) ==
    CASE request \in {"signin", "signout"} -> flow.claims
      [] request = "read" /\ flow.claims # "off" -> flow.claims
      [] OTHER -> cookie

Stale(claims) == claims = "must" /\ ~account.must

Answered ==
    /\ flow.kind # "none" /\ flow.step = "ok"
    /\ LET request == Head(flow.rest)
           rest    == Tail(flow.rest)
           next    == SetCookie(request)
           session == IF request = "read" THEN flow.claims ELSE tab.session
       IN  /\ cookie' = next
           /\ flow' = IF rest = <<>> THEN NoFlow
                      ELSE [flow EXCEPT !.rest = rest, !.step = "asked",
                                        !.claims = next]
           /\ tab' = [session |-> session,
                      path |-> IF rest = <<>> THEN Destination(flow.kind, next)
                                              ELSE tab.path]
           /\ excuse' = IF request = "signin"
                        THEN IF Stale(next) THEN {"elsewhere"} ELSE {}
                        ELSE IF request = "read" /\ next # cookie
                        THEN excuse \cup {"overtaken"}
                        ELSE excuse
    /\ UNCHANGED <<account, reads>>

\* The request is refused, or it or its answer is lost: a toast.  A sign-in that
\* is refused after the password was set leads home.
Failed ==
    /\ flow.kind # "none" /\ Head(flow.rest) # "read"
    /\ tab' = IF Asked("signin") /\ flow.kind # "signin" THEN GoTo(Home) ELSE tab
    /\ flow' = NoFlow
    /\ excuse' = Broken
    /\ UNCHANGED <<account, cookie, reads>>

\* On another device: a reset, by a link in a mail; or the CEO removes the user.
Elsewhere ==
    /\ account.live
    /\ \/ \E p \in Passwords : account.accepted
             /\ account' = [account EXCEPT !.password = p, !.must = FALSE]
       \/ account' = [account EXCEPT !.live = FALSE]
    /\ excuse' = IF account'.must # account.must THEN excuse \cup {"elsewhere"}
                                                 ELSE excuse
    /\ UNCHANGED <<cookie, tab, reads, flow>>

-----------------------------------------------------------------------------
\* A user made by the bootstrap, one of long standing, and one just invited.
SessionInit ==
    /\ \E accepted, must \in BOOLEAN :
          /\ must => accepted
          /\ account = [live |-> TRUE, accepted |-> accepted, must |-> must,
                        password |-> CHOOSE p \in Passwords : TRUE]
    /\ cookie = "off"
    /\ tab = [path |-> Home, session |-> "loading"]
    /\ reads = <<[claims |-> "off", mine |-> TRUE]>>
    /\ flow = NoFlow
    /\ excuse = {}

Effects == HomeEffect \/ LayoutEffect

Reading == \E i \in DOMAIN reads : SessionAnswered(i) \/ SessionLost(i)

Handling == ServeSignIn \/ ServeCookie \/ ServePassword \/ Answered \/ Failed

SessionNext ==
    \/ \E path \in Paths : FollowLink(path) \/ OpenPage(path)
    \/ \E mine \in BOOLEAN : AskSession(mine)
    \/ \E kind \in Kinds, current, new \in Passwords : Submit(kind, current, new)
    \/ Effects \/ Reading \/ Handling
    \/ Expire \/ Elsewhere

\* Effects run, and requests are answered or fail.
SessionFairness ==
    /\ WF_sessionVars(Effects)
    /\ WF_sessionVars(Reading)
    /\ WF_sessionVars(Handling)

SessionSpec == SessionInit /\ [][SessionNext]_sessionVars /\ SessionFairness

-----------------------------------------------------------------------------
\* The shapes; the tab shows a page that there is, and a handler at work has a
\* request out.
SessionTypeOK ==
    /\ account \in AccountRow
    /\ cookie \in Claims
    /\ tab \in Tab
    /\ reads \in Seq(Read) /\ Len(reads) =< MaxReads
    /\ flow \in Flow /\ (flow.kind # "none" => flow.rest # <<>>)
    /\ excuse \subseteq {"broken", "overtaken", "elsewhere"}

\* Who has changed the password is not asked to change it again: the claim is
\* as old as that only while the change is at work, or it ended half-way, or was
\* made elsewhere, or an answer to an older read of the session came last.
ClaimIsCurrent ==
    cookie = "must" /\ ~account.must /\ flow.kind # "change" => excuse # {}

\* No pair of redirections goes on for ever: a tab that knows its user has to
\* change the password comes to the page for it, unless the cookie is gone, which
\* the tab does not know, or does not say so any more.
PinnedTabArrives ==
    cookie = "must" /\ tab.session = "must" /\ tab.path \in {Home, Inside}
        ~> tab.path = ChangePage \/ cookie # "must" \/ tab.session # "must"
           \/ tab.path = TokenPage

=============================================================================
