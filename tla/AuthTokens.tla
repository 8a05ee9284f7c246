----------------------------- MODULE AuthTokens -----------------------------
(***************************************************************************)
(* Accounts, invitations and password resets: frontend/src/server/users.ts *)
(* and tokens.ts, with the routes of frontend/src/app/api/auth that call   *)
(* them.                                                                   *)
(*                                                                         *)
(* Each statement or transaction commits by itself, and a route strings    *)
(* several together: it looks at the account, then mints; it consumes the  *)
(* token, then stores the password.  Other calls come in between, and a    *)
(* call may stop after any of them.                                        *)
(***************************************************************************)
EXTENDS Naturals, FiniteSets

CONSTANTS
    Requests,           \* calls of the routes in flight at one moment
    Emails,             \* addresses, one account each at the most
    Seeded,             \* the addresses seed_demo.py gave an account: the CEO
    Tokens,             \* the random tokens that may ever be minted
    NoEmail, NoToken    \* not an address, not a token

ASSUME AuthAssumption ==
    /\ Seeded \subseteq Emails
    /\ NoEmail \notin Emails
    /\ NoToken \notin Tokens
    /\ {"nothing", "seed", "own"} \cap Tokens = {}
    /\ IsFiniteSet(Requests)

VARIABLES
    users,      \* the committed account of each address that has one
    tokens,     \* what has become of each token
    call,       \* how far each call has come
    grants      \* history: how many calls each token has let through

vars == <<users, tokens, call, grants>>

Purposes == {"invitation", "password_reset"}

\* What a column was last set by: a token's holder, the seed script (which asks
\* for another password), or the owner of the account.
Source == Tokens \cup {"nothing", "seed", "own"}

\* acceptedWith stands for accepted_at, password for password_hash.
User == [deleted: BOOLEAN, acceptedWith: Source, password: Source]

Pending == [deleted |-> FALSE, acceptedWith |-> "nothing", password |-> "nothing"]
Seed == [deleted |-> FALSE, acceptedWith |-> "seed", password |-> "seed"]

\* A token of state "unborn" or "deleted" has no row.
Token == [email: Emails \cup {NoEmail}, purpose: Purposes,
          state: {"unborn", "outstanding", "consumed", "deleted"}]

Unborn == [email |-> NoEmail, purpose |-> "invitation", state |-> "unborn"]

Call == [step: {"idle", "creating", "reviving", "refusing", "minting",
                "deleting", "consuming", "storing", "changing", "removing"},
         email: Emails \cup {NoEmail}, purpose: Purposes,
         token: Tokens \cup {NoToken}, doomed: SUBSET Tokens]

NoCall == [step |-> "idle", email |-> NoEmail, purpose |-> "invitation",
           token |-> NoToken, doomed |-> {}]

At(r, step) == call[r].step = step

Account(r) == call[r].email

\* r goes on to a step of its route, about an account.
Go(r, step, e, p) ==
    call' = [call EXCEPT ![r] = [NoCall EXCEPT !.step = step, !.email = e,
                                               !.purpose = p]]

Finish(r) == call' = [call EXCEPT ![r] = NoCall]

\* getActiveUserById, getActiveUserByEmail
Active(e) == e \in DOMAIN users /\ ~users[e].deleted

Accepted(e) == users[e].acceptedWith # "nothing"

-----------------------------------------------------------------------------
\* POST invite, resend and request-reset, up to the mint.

\* The SELECT of findOrCreateInvitedUser.
FindInvitee(r, e) ==
    /\ At(r, "idle")
    /\ Go(r, IF e \notin DOMAIN users THEN "creating"
             ELSE IF Accepted(e) THEN "refusing" ELSE "reviving",
          e, "invitation")
    /\ UNCHANGED <<users, tokens, grants>>

\* Its INSERT, which fails when another call has created the account meanwhile.
CreateInvitee(r) ==
    /\ At(r, "creating")
    /\ Account(r) \notin DOMAIN users
    /\ users' = [e \in DOMAIN users \cup {Account(r)} |->
                   IF e = Account(r) THEN Pending ELSE users[e]]
    /\ Go(r, "minting", Account(r), "invitation")
    /\ UNCHANGED <<tokens, grants>>

\* Its UPDATE: an account that has accepted is revived too, then refused.
ReviveInvitee(r) ==
    /\ At(r, "reviving") \/ At(r, "refusing")
    /\ users' = [users EXCEPT ![Account(r)].deleted = FALSE]
    /\ IF At(r, "refusing") THEN Finish(r)
                            ELSE Go(r, "minting", Account(r), "invitation")
    /\ UNCHANGED <<tokens, grants>>

Resend(r, e) ==
    /\ At(r, "idle")
    /\ Active(e) /\ ~Accepted(e)
    /\ Go(r, "minting", e, "invitation")
    /\ UNCHANGED <<users, tokens, grants>>

\* Broken on purpose: a reset for whoever has an account.
RequestResetPending(r, e) ==
    /\ At(r, "idle")
    /\ Active(e)
    /\ Go(r, "minting", e, "password_reset")
    /\ UNCHANGED <<users, tokens, grants>>

RequestReset(r, e) ==
    /\ At(r, "idle")
    /\ Active(e) /\ Accepted(e)
    /\ Go(r, "minting", e, "password_reset")
    /\ UNCHANGED <<users, tokens, grants>>

-----------------------------------------------------------------------------
\* mintToken

\* Broken on purpose: without consumed_at IS NULL.
HasRow(t, e, p) ==
    /\ tokens[t].email = e /\ tokens[t].purpose = p
    /\ tokens[t].state \in {"outstanding", "consumed"}

\* Broken on purpose: nothing is deleted.
Never(t, e, p) == FALSE

\* The WHERE clause of the DELETE.
Superseded(t, e, p) ==
    /\ tokens[t].email = e /\ tokens[t].purpose = p
    /\ tokens[t].state = "outstanding"

\* What the DELETE finds when it starts.
FindEarlier(r) ==
    LET c == call[r]
    IN  /\ At(r, "minting")
        /\ call' = [call EXCEPT ![r] =
             [c EXCEPT !.step = "deleting",
                       !.doomed = {t \in Tokens :
                                     Superseded(t, c.email, c.purpose)}]]
        /\ UNCHANGED <<users, tokens, grants>>

\* DELETE, INSERT and COMMIT.  The DELETE waits for a call that has locked one of
\* the rows, and evaluates the WHERE clause again when it gets the lock.
MintToken(r, t) ==
    LET c == call[r]
    IN  /\ At(r, "deleting")
        /\ tokens[t].state = "unborn"
        /\ \A q \in Requests : At(q, "consuming") => call[q].token \notin c.doomed
        /\ tokens' = [s \in Tokens |->
             IF s = t THEN [email |-> c.email, purpose |-> c.purpose,
                            state |-> "outstanding"]
             ELSE IF s \in c.doomed /\ Superseded(s, c.email, c.purpose)
                  THEN [tokens[s] EXCEPT !.state = "deleted"]
             ELSE tokens[s]]
        /\ Finish(r)
        /\ UNCHANGED <<users, grants>>

-----------------------------------------------------------------------------
\* consumeToken, then the password: POST accept-invite and reset.

\* Broken on purpose: the SELECT without FOR UPDATE.
AlwaysUnlocked(t) == TRUE

\* FOR UPDATE: one call at a time holds the row.
Unlocked(t) ==
    \A q \in Requests : At(q, "consuming") => call[q].token # t

\* The SELECT and the checks of what it read.  An expired token is refused, as is
\* one with no row or one that was used: the call stops (LeaveCall).
ReadToken(r, t) ==
    /\ At(r, "idle")
    /\ tokens[t].state = "outstanding"
    /\ Unlocked(t)
    /\ call' = [call EXCEPT ![r].step = "consuming", ![r].token = t]
    /\ UNCHANGED <<users, tokens, grants>>

\* UPDATE and COMMIT.
ConsumeToken(r) ==
    LET t == call[r].token
    IN  /\ At(r, "consuming")
        /\ tokens' = [tokens EXCEPT ![t].state = "consumed"]
        /\ grants' = [grants EXCEPT ![t] = @ + 1]
        /\ call' = [call EXCEPT ![r].step = "storing"]
        /\ UNCHANGED users

\* Broken on purpose: accepted_at = now().
AcceptAnew(e, t) ==
    users' = [users EXCEPT ![e].password = t, ![e].acceptedWith = t]

\* acceptInvitedUser; COALESCE(accepted_at, now()).
AcceptInvitedUser(e, t) ==
    users' = [users EXCEPT ![e].password = t,
                           ![e].acceptedWith = IF @ = "nothing" THEN t ELSE @]

SetPassword(e, source) == users' = [users EXCEPT ![e].password = source]

\* The hash is computed first: a password of a wrong length stops the call here,
\* with the token consumed.
StorePassword(r) ==
    LET t == call[r].token
        e == tokens[t].email
    IN  /\ At(r, "storing")
        /\ \/ tokens[t].purpose = "invitation" /\ AcceptInvitedUser(e, t)
           \/ tokens[t].purpose = "password_reset" /\ SetPassword(e, t)
        /\ Finish(r)
        /\ UNCHANGED <<tokens, grants>>

-----------------------------------------------------------------------------
\* The other routes: POST change-password and DELETE users/[id].

VerifyPassword(r, e) ==
    /\ At(r, "idle")
    /\ Active(e) /\ users[e].password # "nothing"
    /\ Go(r, "changing", e, "password_reset")
    /\ UNCHANGED <<users, tokens, grants>>

ChangePassword(r) ==
    /\ At(r, "changing")
    /\ SetPassword(Account(r), "own")
    /\ Finish(r)
    /\ UNCHANGED <<tokens, grants>>

\* The CEO removes somebody else.
FindTarget(r, e) ==
    /\ At(r, "idle")
    /\ Active(e) /\ e \notin Seeded
    /\ Go(r, "removing", e, "invitation")
    /\ UNCHANGED <<users, tokens, grants>>

SoftDeleteUser(r) ==
    /\ At(r, "removing")
    /\ users' = [users EXCEPT ![Account(r)].deleted = TRUE]
    /\ Finish(r)
    /\ UNCHANGED <<tokens, grants>>

\* A call is refused, fails or is cut off; its open transaction rolls back.
LeaveCall(r) ==
    /\ ~At(r, "idle")
    /\ Finish(r)
    /\ UNCHANGED <<users, tokens, grants>>

AuthInit ==
    /\ users = [e \in Seeded |-> Seed]
    /\ tokens = [t \in Tokens |-> Unborn]
    /\ call = [r \in Requests |-> NoCall]
    /\ grants = [t \in Tokens |-> 0]

AuthNext ==
    \E r \in Requests :
        \/ \E e \in Emails : \/ FindInvitee(r, e)
                             \/ Resend(r, e)
                             \/ RequestReset(r, e)
                             \/ VerifyPassword(r, e)
                             \/ FindTarget(r, e)
        \/ CreateInvitee(r)
        \/ ReviveInvitee(r)
        \/ FindEarlier(r)
        \/ \E t \in Tokens : MintToken(r, t) \/ ReadToken(r, t)
        \/ ConsumeToken(r)
        \/ StorePassword(r)
        \/ ChangePassword(r)
        \/ SoftDeleteUser(r)
        \/ LeaveCall(r)

AuthSpec == AuthInit /\ [][AuthNext]_vars

-----------------------------------------------------------------------------
\* Properties.

\* Types of the rows and of the calls.
AuthTypeOK ==
    /\ DOMAIN users \subseteq Emails
    /\ \A e \in DOMAIN users : users[e] \in User
    /\ tokens \in [Tokens -> Token]
    /\ call \in [Requests -> Call]
    /\ grants \in [Tokens -> Nat]

\* However many calls present one link at once, consumeToken lets one through.
TokenUsedOnce == \A t \in Tokens : grants[t] <= 1

\* An account that was accepted with an invitation was accepted with one of its
\* own, which is on record as consumed: no later mint deletes the evidence, and
\* no interleaving accepts on another one's (acceptInvitedUser, mintToken).
AcceptanceHasEvidence ==
    \A e \in DOMAIN users : \A t \in Tokens :
        users[e].acceptedWith = t =>
            tokens[t] = [email |-> e, purpose |-> "invitation",
                         state |-> "consumed"]

\* "active iff password_hash IS NOT NULL AND accepted_at IS NOT NULL"
\* (models/user.py): accounts get the two together, whatever becomes of
\* invitations, resets and changes that were decided on an earlier row.
PasswordMeansAccepted ==
    \A e \in DOMAIN users :
        (users[e].password = "nothing") <=> (users[e].acceptedWith = "nothing")

\* The first acceptance stands, also when a second link is consumed after it.
FirstAcceptanceStands ==
    [][\A e \in DOMAIN users :
          users[e].acceptedWith # "nothing" =>
              users'[e].acceptedWith = users[e].acceptedWith]_users

OutstandingFor(e, p) ==
    {t \in Tokens : /\ tokens[t].email = e /\ tokens[t].purpose = p
                    /\ tokens[t].state = "outstanding"}

\* Mints that race leave no more live links than there were of them, however
\* often they repeat.
StaleTokensBounded ==
    \A e \in Emails, p \in Purposes :
        Cardinality(OutstandingFor(e, p)) <= Cardinality(Requests)

=============================================================================
