---------------------------- MODULE AdminAccounts ----------------------------
(***************************************************************************)
(* The operators' accounts (app/admin_auth.py, the account endpoints of    *)
(* app/routers/admin.py, scripts/admin_user.py): who may sign in, with a   *)
(* password or with a provider's identity, the sessions that come of it,   *)
(* and the changes an owner makes while others are signing in.             *)
(*                                                                         *)
(* Every statement is sent to Postgres on a connection of its own and      *)
(* commits by itself, so every await is the boundary of a step.  A sign-in *)
(* with a provider begins here where OidcService.complete has ended: with  *)
(* a subject and the address it now has.                                   *)
(***************************************************************************)
EXTENDS Integers, FiniteSets, Functions

CONSTANTS
    Users,          \* addresses, each the name of at most one account
    Passwords,
    Subjects,       \* the stable ids of one provider's identities
    Tokens,         \* session tokens
    Callers,        \* requests that may be under way at once
    Changes,        \* bodies of PATCH: the columns each names.  A new scope of cities is
                    \* not told from a new password: all it does here is end sessions
    Nobody,         \* no user, subject, password
    Overlap,        \* two changes of accounts may be under way at once
    Provision,      \* OIDC_AUTO_PROVISION_DOMAINS is set
    MaxChanges, MaxFailures     \* bounds on a behaviour

Columns == {"role", "disabled", "password", "weak"}
Row == [role : {"owner", "admin"}, disabled : BOOLEAN, password : Passwords \cup {Nobody},
        weak : BOOLEAN]

ASSUME ChangesAssumption ==
    \A ch \in Changes : /\ DOMAIN ch \subseteq {"role", "disabled", "password"}
                        /\ "role" \in DOMAIN ch => ch.role \in {"owner", "admin"}
                        /\ "disabled" \in DOMAIN ch => ch.disabled \in BOOLEAN
                        /\ "password" \in DOMAIN ch => ch.password \in Passwords
ASSUME SwitchesAssumption == {Overlap, Provision} \subseteq BOOLEAN
ASSUME NumbersAssumption == {MaxChanges, MaxFailures} \subseteq Nat
ASSUME NobodyAssumption == Nobody \notin Users \cup Passwords \cup Subjects

VARIABLES
    user,       \* admin_user: address -> row
    session,    \* admin_session: token -> [user, via]
    link,       \* admin_identity: subject -> address
    at,         \* where each request is
    who,        \* the account it is about
    word,       \* the password typed
    via,        \* the subject that signs in
    change,     \* the fields of a PATCH
    \* history:
    old,        \* tokens of sessions a change has overtaken
    cut,        \* accounts a change of which failed before its sessions were deleted
    unlinked,   \* subjects that were unlinked
    lockout,    \* the shell disabled the last enabled owner
    changes, failures   \* used of the bounds

dbVars == <<user, session, link>>
callVars == <<at, who, word, via, change>>
logVars == <<old, cut, unlinked, lockout, changes, failures>>
vars == <<dbVars, callVars, logVars>>

NoChange == [f \in {} |-> Nobody]
Places == {"idle", "rehash", "provision", "identity", "subject", "link",
           "issue", "create", "guard", "write", "shell", "revoke"}

Owner(u) == u \in DOMAIN user /\ user[u].role = "owner" /\ ~user[u].disabled
SessionsOf(u) == {k \in DOMAIN session : session[k].user = u}
Goto(c, p) == at' = [at EXCEPT ![c] = p]
\* The request is answered: its locals are gone.
Answer(c) == /\ at' = [at EXCEPT ![c] = "idle"] /\ who' = [who EXCEPT ![c] = Nobody]
             /\ word' = [word EXCEPT ![c] = Nobody] /\ via' = [via EXCEPT ![c] = Nobody]
             /\ change' = [change EXCEPT ![c] = NoChange]
Locals == <<who, word, via, change>>

-----------------------------------------------------------------------------
(* Signing in with a password.                                             *)

\* No account, a wrong password and a disabled account are the same failure.
Known(u, p) == u \in DOMAIN user /\ user[u].password = p /\ ~user[u].disabled

\* authenticate: the attempts that fail, and those LoginThrottle blocks, change
\* nothing here.
Login(c) ==
    /\ at[c] = "idle"
    /\ \E u \in Users, p \in Passwords :
          /\ Known(u, p)
          /\ who' = [who EXCEPT ![c] = u]
          /\ IF user[u].weak THEN Goto(c, "rehash") /\ word' = [word EXCEPT ![c] = p]
                            ELSE Goto(c, "issue") /\ UNCHANGED word
    /\ UNCHANGED <<dbVars, via, change, logVars>>

\* The digest of the password typed replaces whatever the row has by now.
Rehash(c) ==
    /\ at[c] = "rehash"
    /\ user' = [user EXCEPT ![who[c]].password = word[c], ![who[c]].weak = FALSE]
    /\ Goto(c, "issue") /\ word' = [word EXCEPT ![c] = Nobody]
    /\ UNCHANGED <<session, link, who, via, change, logVars>>

-----------------------------------------------------------------------------
(* Signing in with a provider: sign_in_with_identity.                      *)

\* by_email: without an enabled account the sign-in is refused.
ProviderLogin(c) ==
    /\ at[c] = "idle"
    /\ \E u \in Users :
          /\ who' = [who EXCEPT ![c] = u]
          /\ \/ u \in DOMAIN user /\ ~user[u].disabled /\ Goto(c, "identity")
             \/ u \notin DOMAIN user /\ Provision /\ Goto(c, "provision")
    /\ UNCHANGED <<dbVars, word, via, change, logVars>>

NewRow(role, p) == [role |-> role, disabled |-> FALSE, password |-> p, weak |-> FALSE]
Insert(u, row) == user' = [x \in DOMAIN user \cup {u} |-> IF x = u THEN row ELSE user[x]]

\* The account gets a password nobody knows; a conflict is answered 409.
ProvisionAccount(c) ==
    /\ at[c] = "provision"
    /\ IF who[c] \in DOMAIN user THEN Answer(c) /\ UNCHANGED user
       ELSE Insert(who[c], NewRow("admin", Nobody)) /\ Goto(c, "identity") /\ UNCHANGED Locals
    /\ UNCHANGED <<session, link, logVars>>

\* Mutant: the subject's account is not compared.
ElsewhereNever(s, u) == FALSE

Elsewhere(s, u) == s \in DOMAIN link /\ link[s] # u

\* The provider may give a subject another address from one time to the next,
\* and an address to another subject.
ReadIdentity(c) ==
    /\ at[c] = "identity"
    /\ \E s \in Subjects :
          IF Elsewhere(s, who[c]) THEN Answer(c)
          ELSE /\ via' = [via EXCEPT ![c] = s]
               /\ Goto(c, IF s \in DOMAIN link THEN "issue" ELSE "subject")
               /\ UNCHANGED <<who, word, change>>
    /\ UNCHANGED <<dbVars, logVars>>

SubjectsOf(u) == {s \in DOMAIN link : link[s] = u}

ReadSubject(c) ==
    /\ at[c] = "subject"
    /\ IF SubjectsOf(who[c]) \subseteq {via[c]} THEN Goto(c, "link") /\ UNCHANGED Locals
       ELSE Answer(c)
    /\ UNCHANGED <<dbVars, logVars>>

\* Mutant: what the subject or the account was linked to is replaced.
FreeAlways(s, u) == TRUE

\* The primary key and the unique index on (user_id, provider).
Free(s, u) == s \notin DOMAIN link /\ SubjectsOf(u) = {}

Linked(s, u) == [x \in DOMAIN link \cup {s} |-> IF x = s THEN u ELSE link[x]]

\* A second link of either side violates a key: the request fails.
LinkIdentity(c) ==
    /\ at[c] = "link"
    /\ IF Free(via[c], who[c]) THEN link' = Linked(via[c], who[c]) /\ Goto(c, "issue") /\ UNCHANGED Locals
       ELSE UNCHANGED link /\ Answer(c)
    /\ UNCHANGED <<user, session, logVars>>

\* open_session: neither the account nor the link is read again.
Issue(c) ==
    /\ at[c] = "issue"
    /\ \E k \in Tokens \ DOMAIN session :
          session' = [x \in DOMAIN session \cup {k} |->
                        IF x = k THEN [user |-> who[c], via |-> via[c]] ELSE session[x]]
    /\ Answer(c)
    /\ UNCHANGED <<user, link, logVars>>

\* logout, or the session's hours are over.
EndSession ==
    /\ \E k \in DOMAIN session :
          session' = Restrict(session, DOMAIN session \ {k}) /\ old' = old \ {k}
    /\ UNCHANGED <<user, link, callVars, cut, unlinked, lockout, changes, failures>>

-----------------------------------------------------------------------------
(* Changing accounts: create_user, update_user and disable_user, by a      *)
(* signed-in owner, and the shell's commands.                              *)

OwnerSignedIn == \E k \in DOMAIN session : Owner(session[k].user)
Changing == {"guard", "write", "shell", "revoke"}
MayChange == Overlap \/ \A c \in Callers : at[c] \notin Changing

StartCreate(c) ==
    /\ at[c] = "idle" /\ OwnerSignedIn
    /\ Goto(c, "create")
    /\ UNCHANGED <<dbVars, Locals, logVars>>

\* An address that has an account by then is answered 409.
Create(c) ==
    /\ at[c] = "create"
    /\ \/ UNCHANGED user
       \/ \E u \in Users \ DOMAIN user, role \in {"owner", "admin"}, p \in Passwords :
             Insert(u, NewRow(role, p))
    /\ Answer(c)
    /\ UNCHANGED <<session, link, logVars>>

\* Mutant: a change of role is not looked at.
DemotesIfDisabled(ch) == "disabled" \in DOMAIN ch /\ ch.disabled

Demotes(ch) == \/ "disabled" \in DOMAIN ch /\ ch.disabled
               \/ "role" \in DOMAIN ch /\ ch.role # "owner"

\* The caller is an owner when the request begins.
StartChange(c) ==
    /\ at[c] = "idle" /\ OwnerSignedIn /\ MayChange
    /\ changes < MaxChanges /\ changes' = changes + 1
    /\ \E u \in DOMAIN user, ch \in Changes :
          /\ who' = [who EXCEPT ![c] = u] /\ change' = [change EXCEPT ![c] = ch]
          /\ Goto(c, IF Demotes(ch) THEN "guard" ELSE "write")
    /\ UNCHANGED <<dbVars, word, via, old, cut, unlinked, lockout, failures>>

LastOwner(u) == {x \in DOMAIN user : Owner(x)} = {u}

Guard(c) ==
    /\ at[c] = "guard"
    /\ IF LastOwner(who[c]) THEN Answer(c) ELSE Goto(c, "write") /\ UNCHANGED Locals
    /\ UNCHANGED <<dbVars, logVars>>

\* Only the columns the change names are written; a new digest is not weak.
Changed(row, ch) ==
    [f \in Columns |-> CASE f \in DOMAIN ch -> ch[f]
                         [] f = "weak" /\ "password" \in DOMAIN ch -> FALSE
                         [] OTHER -> row[f]]
Update(c) == user' = [user EXCEPT ![who[c]] = Changed(@, change[c])]
Overtake(c) == old' = IF change[c] = NoChange THEN old ELSE old \cup SessionsOf(who[c])

Revokes(c) == /\ Goto(c, "revoke") /\ change' = [change EXCEPT ![c] = NoChange]
              /\ UNCHANGED <<who, word, via>>

\* A name is not modelled: a change of nothing else deletes no session.
Write(c) ==
    /\ at[c] = "write"
    /\ Update(c) /\ Overtake(c)
    /\ IF change[c] = NoChange THEN Answer(c) ELSE Revokes(c)
    /\ UNCHANGED <<session, link, cut, unlinked, lockout, changes, failures>>

\* Mutant: only the session that had signed in with a password.
RevokedByPassword(u) == {k \in SessionsOf(u) : session[k].via = Nobody}

Revoked(u) == SessionsOf(u)

\* delete_sessions_of: whatever sessions the account has by now.
Revoke(c) ==
    /\ at[c] = "revoke"
    /\ session' = Restrict(session, DOMAIN session \ Revoked(who[c]))
    /\ old' = old \ Revoked(who[c])
    /\ Answer(c)
    /\ UNCHANGED <<user, link, cut, unlinked, lockout, changes, failures>>

\* passwd, disable and enable of the shell: no owner is counted.
StartShell(c) ==
    /\ at[c] = "idle" /\ MayChange
    /\ changes < MaxChanges /\ changes' = changes + 1
    /\ \E u \in DOMAIN user, ch \in Changes :
          /\ DOMAIN ch \in {{"password"}, {"disabled"}}
          /\ who' = [who EXCEPT ![c] = u] /\ change' = [change EXCEPT ![c] = ch]
    /\ Goto(c, "shell")
    /\ UNCHANGED <<dbVars, word, via, old, cut, unlinked, lockout, failures>>

\* enable deletes no session.
Enables(ch) == "disabled" \in DOMAIN ch /\ ~ch.disabled

Shell(c) ==
    /\ at[c] = "shell"
    /\ Update(c)
    /\ IF Enables(change[c]) THEN Answer(c) /\ UNCHANGED old
       ELSE Overtake(c) /\ Revokes(c)
    /\ lockout' = (lockout \/ (Demotes(change[c]) /\ LastOwner(who[c])))
    /\ UNCHANGED <<session, link, cut, unlinked, changes, failures>>

Unlink ==
    /\ \E s \in DOMAIN link :
          link' = Restrict(link, DOMAIN link \ {s}) /\ unlinked' = unlinked \cup {s}
    /\ UNCHANGED <<user, session, callVars, old, cut, lockout, changes, failures>>

\* A statement fails, or the process stops: the request goes no further.
Fail(c) ==
    /\ at[c] # "idle" /\ failures < MaxFailures
    /\ failures' = failures + 1
    /\ cut' = IF at[c] = "revoke" THEN cut \cup {who[c]} ELSE cut
    /\ Answer(c)
    /\ UNCHANGED <<dbVars, old, unlinked, lockout, changes>>

-----------------------------------------------------------------------------
\* bootstrap_owner has made the first account.
Init ==
    /\ \E u \in Users, p \in Passwords, weak \in BOOLEAN :
          user = [x \in {u} |-> [NewRow("owner", p) EXCEPT !.weak = weak]]
    /\ session = [k \in {} |-> Nobody] /\ link = [s \in {} |-> Nobody]
    /\ at = [c \in Callers |-> "idle"] /\ who = [c \in Callers |-> Nobody]
    /\ word = [c \in Callers |-> Nobody] /\ via = [c \in Callers |-> Nobody]
    /\ change = [c \in Callers |-> NoChange]
    /\ old = {} /\ cut = {} /\ unlinked = {} /\ lockout = FALSE /\ changes = 0 /\ failures = 0

Next ==
    \/ EndSession \/ Unlink
    \/ \E c \in Callers :
          \/ Login(c) \/ Rehash(c)
          \/ ProviderLogin(c) \/ ProvisionAccount(c) \/ ReadIdentity(c)
          \/ ReadSubject(c) \/ LinkIdentity(c) \/ Issue(c)
          \/ StartCreate(c) \/ Create(c) \/ StartChange(c) \/ Guard(c) \/ Write(c) \/ Revoke(c)
          \/ StartShell(c) \/ Shell(c) \/ Fail(c)

Spec == Init /\ [][Next]_vars

-----------------------------------------------------------------------------
(* Properties.                                                             *)

TypeOK ==
    /\ DOMAIN user \subseteq Users /\ user \in [DOMAIN user -> Row]
    /\ DOMAIN session \subseteq Tokens
    /\ session \in [DOMAIN session -> [user : DOMAIN user, via : Subjects \cup {Nobody}]]
    /\ DOMAIN link \subseteq Subjects /\ link \in [DOMAIN link -> DOMAIN user]
    /\ at \in [Callers -> Places] /\ who \in [Callers -> Users \cup {Nobody}]
    /\ word \in [Callers -> Passwords \cup {Nobody}]
    /\ via \in [Callers -> Subjects \cup {Nobody}] /\ change \in [Callers -> Changes \cup {NoChange}]
    /\ old \subseteq DOMAIN session /\ cut \subseteq Users /\ unlinked \subseteq Subjects
    /\ lockout \in BOOLEAN /\ changes \in 0 .. MaxChanges /\ failures \in 0 .. MaxFailures

\* routers/admin.py:290, _last_owner: while changes of accounts are made one
\* at a time, the API never leaves the deployment without an enabled owner,
\* whatever signs in, fails or is created meanwhile.
OwnerLeft == lockout \/ \E u \in Users : Owner(u)

\* routers/admin.py:336, "must not wait for the old session to lapse": a
\* session that was there when its account was changed is gone once the
\* change's request is over, unless the request failed between its two statements.
SessionsCurrent ==
    \A k \in old : \/ session[k].user \in cut
                   \/ \E c \in Callers : at[c] = "revoke" /\ who[c] = session[k].user

\* admin_auth.py:545, "never a silent re-link": however sign-ins race, a linked
\* subject stays with its account and a linked account with its subject.
LinkNeverMoves ==
    [][\A s \in DOMAIN link, t \in DOMAIN link' :
          s = t \/ link[s] = link'[t] => s = t /\ link[s] = link'[t]]_vars

\* A session a provider's identity opened belongs to the account the identity
\* is linked to, unless a person has unlinked it.
LinkedFirst ==
    \A k \in DOMAIN session :
        LET s == session[k].via
        IN  s = Nobody \/ s \in unlinked \/ (s \in DOMAIN link /\ link[s] = session[k].user)

=============================================================================
