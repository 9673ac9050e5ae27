------------------------- MODULE AdminPanel_proofs --------------------------
(***************************************************************************)
(* What the accounts, the sessions and the editable configuration of the   *)
(* panel promise, for every value of their constants.                      *)
(***************************************************************************)
EXTENDS AdminAccounts, CityConfig, LoginThrottle, OidcSignIn, FiniteSetTheorems, TLAPS

-----------------------------------------------------------------------------
(***************************************************************************)
(* Accounts, sessions and links.                                           *)
(***************************************************************************)

\* The parts of the type.
UserOK == DOMAIN user \subseteq Users /\ user \in [DOMAIN user -> Row]
SessionOK ==
    /\ DOMAIN session \subseteq Tokens
    /\ session \in [DOMAIN session -> [user : DOMAIN user, via : Subjects \cup {Nobody}]]
LinkOK == DOMAIN link \subseteq Subjects /\ link \in [DOMAIN link -> DOMAIN user]
CallOK ==
    /\ at \in [Callers -> Places] /\ who \in [Callers -> Users \cup {Nobody}]
    /\ word \in [Callers -> Passwords \cup {Nobody}]
    /\ via \in [Callers -> Subjects \cup {Nobody}] /\ change \in [Callers -> Changes \cup {NoChange}]
LogOK ==
    /\ old \subseteq DOMAIN session /\ cut \subseteq Users /\ unlinked \subseteq Subjects
    /\ lockout \in BOOLEAN /\ changes \in 0 .. MaxChanges /\ failures \in 0 .. MaxFailures

\* A request past its first read is about an account there is (none is deleted),
\* and knows the subject it is to link.
AccountKnown ==
    \A c \in Callers :
        /\ at[c] \notin {"idle", "provision", "create"} => who[c] \in DOMAIN user
        /\ at[c] = "provision" => who[c] \in Users
        /\ at[c] \in {"subject", "link"} => via[c] \in Subjects

TypeInv == UserOK /\ SessionOK /\ LinkOK /\ CallOK /\ LogOK /\ AccountKnown

LEMMA TypeParts == TypeInv => TypeOK
  BY DEF TypeInv, TypeOK, UserOK, SessionOK, LinkOK, CallOK, LogOK

LEMMA InitType == Init => TypeInv
<1> SUFFICES ASSUME Init PROVE TypeInv  OBVIOUS
<1> USE DEF Init
<1>1. PICK u \in Users, p \in Passwords, weak \in BOOLEAN :
          user = [x \in {u} |-> [NewRow("owner", p) EXCEPT !.weak = weak]]
  OBVIOUS
<1>2. [NewRow("owner", p) EXCEPT !.weak = weak] \in Row
  BY DEF NewRow, Row
<1>3. DOMAIN user \subseteq Users /\ user \in [DOMAIN user -> Row]
  BY <1>1, <1>2
<1>4. session \in [DOMAIN session -> [user : DOMAIN user, via : Subjects \cup {Nobody}]]
  OBVIOUS
<1>5. at \in [Callers -> Places] /\ change \in [Callers -> Changes \cup {NoChange}]
  BY DEF Places
<1>6. changes \in 0 .. MaxChanges /\ failures \in 0 .. MaxFailures
  BY NumbersAssumption
<1> QED
  BY <1>3, <1>4, <1>5, <1>6
     DEF TypeInv, UserOK, SessionOK, LinkOK, CallOK, LogOK, AccountKnown

\* A account one of whose columns are replaced is a account.
LEMMA ChangedRow ==
  ASSUME NEW account \in Row, NEW ch \in Changes \cup {NoChange}
  PROVE  Changed(account, ch) \in Row
<1>1. Changed(account, ch).role \in {"owner", "admin"}
  BY ChangesAssumption DEF Changed, Columns, Row, NoChange
<1>2. Changed(account, ch).disabled \in BOOLEAN
  BY ChangesAssumption DEF Changed, Columns, Row, NoChange
<1>3. Changed(account, ch).password \in Passwords \cup {Nobody}
  BY ChangesAssumption DEF Changed, Columns, Row, NoChange
<1>4. Changed(account, ch).weak \in BOOLEAN
  BY ChangesAssumption DEF Changed, Columns, Row, NoChange
<1> QED  BY <1>1, <1>2, <1>3, <1>4 DEF Changed, Columns, Row

\* An answered request leaves the others where they are.
LEMMA AnswerCalls ==
  ASSUME CallOK, AccountKnown, DOMAIN user \subseteq DOMAIN user', NEW c \in Callers, Answer(c)
  PROVE  CallOK' /\ AccountKnown'
  BY DEF CallOK, AccountKnown, Answer, Places, NoChange

\* A new account, under an address that has none.
LEMMA InsertUser ==
  ASSUME UserOK, NEW u \in Users, NEW account \in Row, Insert(u, account)
  PROVE  UserOK' /\ DOMAIN user' = DOMAIN user \cup {u}
  BY DEF UserOK, Insert

\* The rows keep their addresses.
LEMMA UpdateUser ==
  ASSUME UserOK, CallOK, NEW c \in Callers, who[c] \in DOMAIN user, Update(c)
  PROVE  UserOK' /\ DOMAIN user' = DOMAIN user
<1>1. Changed(user[who[c]], change[c]) \in Row
  BY ChangedRow DEF UserOK, CallOK
<1> QED  BY <1>1 DEF UserOK, Update

\* More accounts make no session and no link ill-typed.
LEMMA MoreUsers ==
  ASSUME SessionOK, LinkOK, DOMAIN user \subseteq DOMAIN user', UNCHANGED <<session, link>>
  PROVE  SessionOK' /\ LinkOK'
  BY DEF SessionOK, LinkOK

LEMMA RestrictSession ==
  ASSUME SessionOK, NEW D, session' = Restrict(session, DOMAIN session \ D), UNCHANGED user
  PROVE  /\ SessionOK' /\ DOMAIN session' = DOMAIN session \ D
         /\ \A k \in DOMAIN session' : session'[k] = session[k]
  BY DEF SessionOK, Restrict

-----------------------------------------------------------------------------
LEMMA SignInType ==
  ASSUME TypeInv, NEW c \in Callers,
         Login(c) \/ Rehash(c) \/ ProviderLogin(c) \/ ProvisionAccount(c) \/ ReadIdentity(c)
            \/ ReadSubject(c) \/ LinkIdentity(c) \/ Issue(c)
  PROVE  TypeInv'
<1> USE DEF TypeInv
<1>1. CASE Login(c)
  <2>1. UserOK' /\ SessionOK' /\ LinkOK' /\ LogOK'
    BY <1>1 DEF Login, UserOK, SessionOK, LinkOK, LogOK, dbVars, logVars
  <2>2. CallOK' /\ AccountKnown'
    BY <1>1 DEF Login, Known, Goto, CallOK, AccountKnown, Places, dbVars
  <2> QED  BY <2>1, <2>2
<1>2. CASE Rehash(c)
  <2>1. who[c] \in DOMAIN user /\ word[c] \in Passwords \cup {Nobody}
    BY <1>2 DEF Rehash, AccountKnown, CallOK
  <2>2. UserOK' /\ DOMAIN user' = DOMAIN user
    BY <1>2, <2>1 DEF Rehash, UserOK, Row
  <2>3. SessionOK' /\ LinkOK'
    BY <1>2, <2>2, MoreUsers DEF Rehash
  <2>4. LogOK'
    BY <1>2 DEF Rehash, LogOK, logVars
  <2>5. CallOK' /\ AccountKnown'
    BY <1>2, <2>1, <2>2 DEF Rehash, Goto, CallOK, AccountKnown, Places
  <2> QED  BY <2>2, <2>3, <2>4, <2>5
<1>3. CASE ProviderLogin(c)
  <2>1. UserOK' /\ SessionOK' /\ LinkOK' /\ LogOK'
    BY <1>3 DEF ProviderLogin, UserOK, SessionOK, LinkOK, LogOK, dbVars, logVars
  <2>2. CallOK' /\ AccountKnown'
    BY <1>3 DEF ProviderLogin, Goto, CallOK, AccountKnown, Places, dbVars
  <2> QED  BY <2>1, <2>2
<1>4. CASE ProvisionAccount(c)
  <2>1. LogOK'
    BY <1>4 DEF ProvisionAccount, LogOK, logVars
  <2>2. CASE who[c] \in DOMAIN user
    <3>1. UNCHANGED user /\ Answer(c)
      BY <1>4, <2>2 DEF ProvisionAccount
    <3> QED
      BY <1>4, <2>1, <3>1, AnswerCalls, MoreUsers DEF ProvisionAccount, UserOK
  <2>3. CASE who[c] \notin DOMAIN user
    <3>1. Insert(who[c], NewRow("admin", Nobody)) /\ Goto(c, "identity") /\ UNCHANGED Locals
      BY <1>4, <2>3 DEF ProvisionAccount
    <3>2. who[c] \in Users
      BY <1>4 DEF ProvisionAccount, AccountKnown
    <3>3. NewRow("admin", Nobody) \in Row
      BY DEF NewRow, Row
    <3>4. UserOK' /\ DOMAIN user' = DOMAIN user \cup {who[c]}
      BY <3>1, <3>2, <3>3, InsertUser
    <3>5. SessionOK' /\ LinkOK'
      BY <1>4, <3>4, MoreUsers DEF ProvisionAccount
    <3>6. CallOK' /\ AccountKnown'
      BY <3>1, <3>4 DEF Goto, Locals, CallOK, AccountKnown, Places
    <3> QED  BY <2>1, <3>4, <3>5, <3>6
  <2> QED  BY <2>2, <2>3
<1>5. CASE ReadIdentity(c)
  <2>1. UserOK' /\ SessionOK' /\ LinkOK' /\ LogOK'
    BY <1>5 DEF ReadIdentity, UserOK, SessionOK, LinkOK, LogOK, dbVars, logVars
  <2>2. CallOK' /\ AccountKnown'
    <3>1. CASE Answer(c)
      BY <1>5, <3>1, AnswerCalls DEF ReadIdentity, dbVars
    <3>2. CASE ~Answer(c)
      BY <1>5, <3>2 DEF ReadIdentity, Goto, CallOK, AccountKnown, Places, dbVars
    <3> QED  BY <3>1, <3>2
  <2> QED  BY <2>1, <2>2
<1>6. CASE ReadSubject(c)
  <2>1. UserOK' /\ SessionOK' /\ LinkOK' /\ LogOK'
    BY <1>6 DEF ReadSubject, UserOK, SessionOK, LinkOK, LogOK, dbVars, logVars
  <2>2. CallOK' /\ AccountKnown'
    <3>1. CASE Answer(c)
      BY <1>6, <3>1, AnswerCalls DEF ReadSubject, dbVars
    <3>2. CASE ~Answer(c)
      BY <1>6, <3>2 DEF ReadSubject, Goto, Locals, CallOK, AccountKnown, Places, dbVars
    <3> QED  BY <3>1, <3>2
  <2> QED  BY <2>1, <2>2
<1>7. CASE LinkIdentity(c)
  <2>1. who[c] \in DOMAIN user
    BY <1>7 DEF LinkIdentity, AccountKnown
  <2>2. UserOK' /\ SessionOK' /\ LogOK'
    BY <1>7 DEF LinkIdentity, UserOK, SessionOK, LogOK, logVars
  <2>3. CASE Free(via[c], who[c])
    <3>1. via[c] \in Subjects
      BY <1>7 DEF LinkIdentity, AccountKnown
    <3>2. LinkOK' /\ CallOK' /\ AccountKnown'
      BY <1>7, <2>1, <2>3, <3>1
         DEF LinkIdentity, Linked, LinkOK, Goto, Locals, CallOK, AccountKnown, Places
    <3> QED  BY <2>2, <3>2
  <2>4. CASE ~Free(via[c], who[c])
    BY <1>7, <2>2, <2>4, AnswerCalls DEF LinkIdentity, LinkOK
  <2> QED  BY <2>3, <2>4
<1>8. CASE Issue(c)
  <2>1. who[c] \in DOMAIN user /\ via[c] \in Subjects \cup {Nobody}
    BY <1>8 DEF Issue, AccountKnown, CallOK
  <2>2. SessionOK' /\ DOMAIN session \subseteq DOMAIN session'
    BY <1>8, <2>1 DEF Issue, SessionOK
  <2>3. UserOK' /\ LinkOK' /\ LogOK'
    BY <1>8, <2>2 DEF Issue, UserOK, LinkOK, LogOK, logVars
  <2>4. CallOK' /\ AccountKnown'
    BY <1>8, AnswerCalls DEF Issue
  <2> QED  BY <2>2, <2>3, <2>4
<1> QED  BY <1>1, <1>2, <1>3, <1>4, <1>5, <1>6, <1>7, <1>8

LEMMA ChangeType ==
  ASSUME TypeInv, NEW c \in Callers,
         StartCreate(c) \/ Create(c) \/ StartChange(c) \/ Guard(c) \/ Write(c) \/ Revoke(c)
            \/ StartShell(c) \/ Shell(c) \/ Fail(c)
  PROVE  TypeInv'
<1> USE DEF TypeInv
<1>1. CASE StartCreate(c)
  BY <1>1 DEF StartCreate, Goto, Locals, UserOK, SessionOK, LinkOK, LogOK, CallOK, AccountKnown,
              Places, dbVars, logVars
<1>2. CASE Create(c)
  <2>1. UserOK' /\ DOMAIN user \subseteq DOMAIN user'
    <3>1. CASE UNCHANGED user
      BY <3>1 DEF UserOK
    <3>2. CASE \E u \in Users \ DOMAIN user, role \in {"owner", "admin"}, p \in Passwords :
                  Insert(u, NewRow(role, p))
      <4>1. PICK u \in Users, role \in {"owner", "admin"}, p \in Passwords :
                Insert(u, NewRow(role, p))
        BY <3>2
      <4>2. NewRow(role, p) \in Row
        BY DEF NewRow, Row
      <4> QED  BY <4>1, <4>2, InsertUser
    <3> QED  BY <1>2, <3>1, <3>2 DEF Create
  <2>2. SessionOK' /\ LinkOK'
    BY <1>2, <2>1, MoreUsers DEF Create
  <2>3. LogOK'
    BY <1>2 DEF Create, LogOK, logVars
  <2>4. CallOK' /\ AccountKnown'
    BY <1>2, <2>1, AnswerCalls DEF Create
  <2> QED  BY <2>1, <2>2, <2>3, <2>4
<1>3. CASE StartChange(c) \/ StartShell(c)
  <2>1. UserOK' /\ SessionOK' /\ LinkOK'
    BY <1>3 DEF StartChange, StartShell, UserOK, SessionOK, LinkOK, dbVars
  <2>2. LogOK'
    BY <1>3, NumbersAssumption DEF StartChange, StartShell, LogOK, dbVars
  <2>3. CallOK' /\ AccountKnown'
    BY <1>3 DEF StartChange, StartShell, Goto, UserOK, CallOK, AccountKnown, Places, dbVars
  <2> QED  BY <2>1, <2>2, <2>3
<1>4. CASE Guard(c)
  <2>1. UserOK' /\ SessionOK' /\ LinkOK' /\ LogOK'
    BY <1>4 DEF Guard, UserOK, SessionOK, LinkOK, LogOK, dbVars, logVars
  <2>2. CallOK' /\ AccountKnown'
    <3>1. CASE Answer(c)
      BY <1>4, <3>1, AnswerCalls DEF Guard, dbVars
    <3>2. CASE ~Answer(c)
      BY <1>4, <3>2 DEF Guard, Goto, Locals, CallOK, AccountKnown, Places, dbVars
    <3> QED  BY <3>1, <3>2
  <2> QED  BY <2>1, <2>2
<1>5. CASE Write(c) \/ Shell(c)
  <2>1. who[c] \in DOMAIN user /\ Update(c)
    BY <1>5 DEF Write, Shell, AccountKnown
  <2>2. UserOK' /\ DOMAIN user' = DOMAIN user
    BY <2>1, UpdateUser
  <2>3. SessionOK' /\ LinkOK'
    BY <1>5, <2>2, MoreUsers DEF Write, Shell
  <2>4. old' \subseteq old \cup SessionsOf(who[c])
    BY <1>5 DEF Write, Shell, Overtake
  <2>5. lockout' \in BOOLEAN
    BY <1>5 DEF Write, Shell, LogOK
  <2>6. LogOK'
    BY <1>5, <2>4, <2>5 DEF Write, Shell, LogOK, SessionsOf
  <2>7. CallOK' /\ AccountKnown'
    <3>1. CASE Answer(c)
      BY <3>1, <2>2, AnswerCalls
    <3>2. CASE Revokes(c)
      BY <1>5, <2>1, <2>2, <3>2 DEF Revokes, Goto, CallOK, AccountKnown, Places, NoChange
    <3> QED  BY <1>5, <3>1, <3>2 DEF Write, Shell
  <2> QED  BY <2>2, <2>3, <2>6, <2>7
<1>6. CASE Revoke(c)
  <2>1. SessionOK' /\ DOMAIN session' = DOMAIN session \ Revoked(who[c])
    BY <1>6, RestrictSession DEF Revoke
  <2>2. UserOK' /\ LinkOK' /\ LogOK'
    BY <1>6, <2>1 DEF Revoke, UserOK, LinkOK, LogOK
  <2>3. CallOK' /\ AccountKnown'
    BY <1>6, AnswerCalls DEF Revoke
  <2> QED  BY <2>1, <2>2, <2>3
<1>7. CASE Fail(c)
  <2>1. cut' \subseteq Users
    BY <1>7 DEF Fail, UserOK, AccountKnown, LogOK
  <2>2. UserOK' /\ SessionOK' /\ LinkOK' /\ LogOK'
    BY <1>7, <2>1, NumbersAssumption DEF Fail, UserOK, SessionOK, LinkOK, LogOK, dbVars
  <2>3. CallOK' /\ AccountKnown'
    BY <1>7, AnswerCalls DEF Fail, dbVars
  <2> QED  BY <2>2, <2>3
<1> QED  BY <1>1, <1>2, <1>3, <1>4, <1>5, <1>6, <1>7

LEMMA StepType == TypeInv /\ [Next]_vars => TypeInv'
<1> SUFFICES ASSUME TypeInv, [Next]_vars PROVE TypeInv'  OBVIOUS
<1> USE DEF TypeInv
<1>1. CASE EndSession
  <2>1. PICK k \in DOMAIN session :
            session' = Restrict(session, DOMAIN session \ {k}) /\ old' = old \ {k}
    BY <1>1 DEF EndSession
  <2>2. SessionOK' /\ DOMAIN session' = DOMAIN session \ {k}
    BY <1>1, <2>1, RestrictSession DEF EndSession
  <2> QED
    BY <1>1, <2>1, <2>2 DEF EndSession, callVars, UserOK, LinkOK, LogOK, CallOK, AccountKnown
<1>2. CASE Unlink
  <2>1. PICK s \in DOMAIN link :
            link' = Restrict(link, DOMAIN link \ {s}) /\ unlinked' = unlinked \cup {s}
    BY <1>2 DEF Unlink
  <2>2. LinkOK'
    BY <1>2, <2>1 DEF Unlink, LinkOK, Restrict
  <2> QED
    BY <1>2, <2>1, <2>2 DEF Unlink, callVars, UserOK, SessionOK, LinkOK, LogOK, CallOK, AccountKnown
<1>3. CASE UNCHANGED vars
  BY <1>3 DEF vars, dbVars, callVars, logVars, UserOK, SessionOK, LinkOK, LogOK, CallOK, AccountKnown
<1> QED  BY <1>1, <1>2, <1>3, SignInType, ChangeType DEF Next

\* The tables, the requests and the records keep their types, and a request
\* is about an account there is.
THEOREM TypeCorrect == Spec => []TypeOK
<1>1. Init => TypeInv  BY InitType
<1>2. TypeInv /\ [Next]_vars => TypeInv'  BY StepType
<1>3. TypeInv => TypeOK  BY TypeParts
<1> QED  BY <1>1, <1>2, <1>3, PTL DEF Spec

-----------------------------------------------------------------------------
(* Sessions.                                                               *)

CallerStep(c) ==
    \/ Login(c) \/ Rehash(c) \/ ProviderLogin(c) \/ ProvisionAccount(c) \/ ReadIdentity(c)
    \/ ReadSubject(c) \/ LinkIdentity(c) \/ Issue(c)
    \/ StartCreate(c) \/ Create(c) \/ StartChange(c) \/ Guard(c) \/ Write(c) \/ Revoke(c)
    \/ StartShell(c) \/ Shell(c) \/ Fail(c)

\* A request moves nobody but itself.
LEMMA OthersStay ==
  ASSUME CallOK, NEW c \in Callers, CallerStep(c), NEW d \in Callers, d # c
  PROVE  /\ at'[d] = at[d] /\ who'[d] = who[d] /\ via'[d] = via[d] /\ change'[d] = change[d]
<1> USE DEF CallOK, Goto, Answer, Locals
<1>1. CASE Login(c) \/ Rehash(c) \/ ProviderLogin(c) \/ ProvisionAccount(c)
  BY <1>1 DEF Login, Rehash, ProviderLogin, ProvisionAccount
<1>2. CASE ReadIdentity(c) \/ ReadSubject(c) \/ LinkIdentity(c) \/ Issue(c)
  BY <1>2 DEF ReadIdentity, ReadSubject, LinkIdentity, Issue
<1>3. CASE StartCreate(c) \/ Create(c) \/ StartChange(c) \/ Guard(c)
  BY <1>3 DEF StartCreate, Create, StartChange, Guard
<1>4. CASE Write(c) \/ Revoke(c) \/ StartShell(c) \/ Shell(c) \/ Fail(c)
  BY <1>4 DEF Write, Revoke, Revokes, StartShell, Shell, Fail
<1> QED  BY <1>1, <1>2, <1>3, <1>4 DEF CallerStep

\* Nothing but a change puts sessions among the overtaken.
LEMMA OldStays ==
  ASSUME TypeInv, NEW c \in Callers, CallerStep(c), at[c] \notin {"write", "shell", "revoke"}
  PROVE  /\ old' = old /\ cut \subseteq cut'
         /\ \A k \in old : session'[k] = session[k]
<1>1. CASE Login(c) \/ Rehash(c) \/ ProviderLogin(c) \/ ProvisionAccount(c) \/ ReadIdentity(c)
             \/ ReadSubject(c) \/ LinkIdentity(c)
  BY <1>1 DEF Login, Rehash, ProviderLogin, ProvisionAccount, ReadIdentity, ReadSubject,
              LinkIdentity, dbVars, logVars
<1>2. CASE Issue(c)
  BY <1>2 DEF Issue, logVars, TypeInv, LogOK
<1>3. CASE StartCreate(c) \/ Create(c) \/ StartChange(c) \/ Guard(c) \/ StartShell(c) \/ Fail(c)
  BY <1>3 DEF StartCreate, Create, StartChange, Guard, StartShell, Fail, dbVars, logVars
<1> QED  BY <1>1, <1>2, <1>3 DEF CallerStep, Write, Shell, Revoke

LEMMA SessionsStep == TypeInv /\ SessionsCurrent /\ [Next]_vars => SessionsCurrent'
<1> SUFFICES ASSUME TypeInv, SessionsCurrent, [Next]_vars, NEW k \in old'
             PROVE  \/ session'[k].user \in cut'
                    \/ \E c \in Callers : at'[c] = "revoke" /\ who'[c] = session'[k].user
  BY DEF SessionsCurrent
<1>1. CASE EndSession
  BY <1>1 DEF EndSession, callVars, SessionsCurrent, Restrict, TypeInv, LogOK
<1>2. CASE Unlink
  BY <1>2 DEF Unlink, callVars, SessionsCurrent
<1>3. CASE UNCHANGED vars
  BY <1>3 DEF vars, dbVars, callVars, logVars, SessionsCurrent
<1>4. ASSUME NEW c \in Callers, CallerStep(c)
      PROVE  \/ session'[k].user \in cut'
             \/ \E d \in Callers : at'[d] = "revoke" /\ who'[d] = session'[k].user
  <2>1. \A d \in Callers \ {c} : at'[d] = at[d] /\ who'[d] = who[d]
    BY <1>4, OthersStay DEF TypeInv
  <2>2. CASE at[c] \notin {"write", "shell", "revoke"}
    <3>1. k \in old /\ session'[k] = session[k] /\ cut \subseteq cut'
      BY <1>4, <2>2, OldStays
    <3> QED  BY <2>1, <2>2, <3>1 DEF SessionsCurrent
  <2>3. CASE Write(c) \/ Shell(c)
    <3>1. session' = session /\ cut' = cut
      BY <2>3 DEF Write, Shell
    <3>2. CASE k \in old
      <4>1. at[c] # "revoke"
        BY <2>3 DEF Write, Shell
      <4> QED  BY <2>1, <3>1, <3>2, <4>1 DEF SessionsCurrent
    <3>3. CASE k \notin old
      <4>1. k \in SessionsOf(who[c]) /\ Revokes(c)
        BY <2>3, <3>3 DEF Write, Shell, Overtake
      <4>2. at'[c] = "revoke" /\ who'[c] = who[c]
        BY <4>1 DEF Revokes, Goto, TypeInv, CallOK
      <4> QED  BY <3>1, <4>1, <4>2 DEF SessionsOf
    <3> QED  BY <3>2, <3>3
  <2>4. CASE Revoke(c)
    <3>1. k \in old /\ k \in DOMAIN session /\ k \notin SessionsOf(who[c]) /\ cut' = cut
      BY <2>4 DEF Revoke, Revoked, TypeInv, LogOK
    <3>2. session'[k] = session[k] /\ session[k].user # who[c]
      BY <2>4, <3>1 DEF Revoke, Revoked, SessionsOf, Restrict
    <3> QED  BY <2>1, <3>1, <3>2 DEF SessionsCurrent
  <2>5. CASE Fail(c)
    <3>1. k \in old /\ session' = session
      BY <2>5 DEF Fail, dbVars
    <3>2. CASE at[c] = "revoke"
      BY <2>1, <2>5, <3>1, <3>2 DEF Fail, SessionsCurrent
    <3>3. CASE at[c] # "revoke"
      BY <2>1, <2>5, <3>1, <3>3 DEF Fail, SessionsCurrent
    <3> QED  BY <3>2, <3>3
  <2>6. at[c] \in {"write", "shell", "revoke"} => Write(c) \/ Shell(c) \/ Revoke(c) \/ Fail(c)
    BY <1>4 DEF CallerStep, Login, Rehash, ProviderLogin, ProvisionAccount, ReadIdentity,
                ReadSubject, LinkIdentity, Issue, StartCreate, Create, StartChange, Guard,
                StartShell
  <2> QED  BY <2>2, <2>3, <2>4, <2>5, <2>6
<1> QED  BY <1>1, <1>2, <1>3, <1>4 DEF Next, CallerStep

\* routers/admin.py:336: however many requests run at once, a session an
\* account's change has overtaken goes with the change's request.
THEOREM SessionsCorrect == Spec => []SessionsCurrent
<1>1. Init => TypeInv /\ SessionsCurrent
  BY InitType DEF Init, SessionsCurrent
<1>2. TypeInv /\ SessionsCurrent /\ [Next]_vars => (TypeInv /\ SessionsCurrent)'
  BY StepType, SessionsStep
<1> QED  BY <1>1, <1>2, PTL DEF Spec

-----------------------------------------------------------------------------
(* Identities.                                                             *)

\* What an identity that may open a session has been found or made to be.
LinkedTo(s, u, gone, links) == s = Nobody \/ s \in gone \/ (s \in DOMAIN links /\ links[s] = u)

LinkInjective == \A s, t \in DOMAIN link : link[s] = link[t] => s = t

Vouched ==
    \A c \in Callers : /\ at[c] \notin {"subject", "link"} => LinkedTo(via[c], who[c], unlinked, link)
                       /\ at[c] \notin {"subject", "link", "issue"} => via[c] = Nobody

LinkInv == LinkInjective /\ Vouched /\ LinkedFirst

LEMMA LinkedByParts ==
  LinkedFirst <=> \A k \in DOMAIN session : LinkedTo(session[k].via, session[k].user, unlinked, link)
  BY DEF LinkedFirst, LinkedTo

\* Links are only added, under free keys, or recorded as removed.
LinksKept ==
    /\ unlinked \subseteq unlinked'
    /\ \A s \in DOMAIN link : s \in unlinked' \/ (s \in DOMAIN link' /\ link'[s] = link[s])

LEMMA KeptSubject ==
  ASSUME LinksKept, NEW s, NEW u, LinkedTo(s, u, unlinked, link)
  PROVE  LinkedTo(s, u, unlinked', link')
  BY DEF LinksKept, LinkedTo

LEMMA LinksStep ==
  ASSUME TypeInv, LinkInjective, [Next]_vars
  PROVE  LinksKept /\ LinkInjective'
<1>1. CASE Unlink
  BY <1>1 DEF Unlink, LinksKept, LinkInjective, Restrict
<1>2. ASSUME NEW c \in Callers, LinkIdentity(c) PROVE LinksKept /\ LinkInjective'
  <2>1. CASE Free(via[c], who[c])
    BY <1>2, <2>1 DEF LinkIdentity, Linked, Free, SubjectsOf, LinksKept, LinkInjective, logVars
  <2>2. CASE ~Free(via[c], who[c])
    BY <1>2, <2>2 DEF LinkIdentity, LinksKept, LinkInjective, logVars
  <2> QED  BY <2>1, <2>2
<1>3. CASE UNCHANGED <<link, unlinked>>
  BY <1>3 DEF LinksKept, LinkInjective
<1>4. CASE EndSession \/ UNCHANGED vars
  BY <1>3, <1>4 DEF EndSession, vars, dbVars, logVars
<1>5. ASSUME NEW c \in Callers, CallerStep(c), ~LinkIdentity(c) PROVE UNCHANGED <<link, unlinked>>
  BY <1>5 DEF CallerStep, Login, Rehash, ProviderLogin, ProvisionAccount, ReadIdentity, ReadSubject,
              Issue, StartCreate, Create, StartChange, Guard, Write, Revoke, StartShell, Shell, Fail,
              dbVars, logVars
<1> QED  BY <1>1, <1>2, <1>3, <1>4, <1>5 DEF Next, CallerStep

LEMMA VouchedStep ==
  ASSUME TypeInv, Vouched, LinksKept, NEW c \in Callers, CallerStep(c)
  PROVE  Vouched'
<1>1. ASSUME NEW d \in Callers, d # c
      PROVE  /\ at'[d] \notin {"subject", "link"} => LinkedTo(via'[d], who'[d], unlinked', link')
             /\ at'[d] \notin {"subject", "link", "issue"} => via'[d] = Nobody
  <2>1. at'[d] = at[d] /\ who'[d] = who[d] /\ via'[d] = via[d]
    BY <1>1, OthersStay DEF TypeInv
  <2>2. /\ at[d] \notin {"subject", "link"} => LinkedTo(via[d], who[d], unlinked, link)
        /\ at[d] \notin {"subject", "link", "issue"} => via[d] = Nobody
    BY DEF Vouched
  <2>3. LinkedTo(via[d], who[d], unlinked, link) => LinkedTo(via'[d], who'[d], unlinked', link')
    BY <2>1, KeptSubject
  <2> QED  BY <2>1, <2>2, <2>3
<1>2. /\ at'[c] \notin {"subject", "link"} => LinkedTo(via'[c], who'[c], unlinked', link')
      /\ at'[c] \notin {"subject", "link", "issue"} => via'[c] = Nobody
  <2> USE DEF TypeInv, CallOK, Goto
  <2>1. CASE Answer(c)
    BY <2>1 DEF Answer, LinkedTo
  <2>2. CASE ~Answer(c) /\ (ReadIdentity(c) \/ ReadSubject(c))
    BY <2>2 DEF ReadIdentity, ReadSubject, Elsewhere, LinkedTo, Locals, dbVars
  <2>3. CASE ~Answer(c) /\ LinkIdentity(c)
    BY <2>3 DEF LinkIdentity, Linked, LinkedTo, Locals
  <2>4. CASE Login(c) \/ Rehash(c) \/ ProviderLogin(c)
    BY <2>4 DEF Login, Rehash, ProviderLogin, Vouched, LinkedTo
  <2>5. CASE ~Answer(c) /\ ProvisionAccount(c)
    BY <2>5 DEF ProvisionAccount, Locals, Vouched, LinkedTo
  <2>6. CASE ~Answer(c) /\ (StartCreate(c) \/ StartChange(c) \/ Guard(c) \/ StartShell(c))
    BY <2>6 DEF StartCreate, StartChange, Guard, StartShell, Locals, Vouched, LinkedTo
  <2>7. CASE ~Answer(c) /\ (Write(c) \/ Shell(c))
    BY <2>7 DEF Write, Shell, Revokes, Vouched, LinkedTo
  <2>8. CASE Issue(c) \/ Create(c) \/ Revoke(c) \/ Fail(c)
    BY <2>1, <2>8 DEF Issue, Create, Revoke, Fail
  <2> QED  BY <1>1, <2>1, <2>2, <2>3, <2>4, <2>5, <2>6, <2>7, <2>8 DEF CallerStep
<1> QED  BY <1>1, <1>2 DEF Vouched

LEMMA LinkStep == TypeInv /\ LinkInv /\ [Next]_vars => LinkInv'
<1> SUFFICES ASSUME TypeInv, LinkInv, [Next]_vars PROVE LinkInv'  OBVIOUS
<1>1. LinksKept /\ LinkInjective'
  BY LinksStep DEF LinkInv
<1>2. Vouched'
  <2>1. CASE EndSession \/ Unlink \/ UNCHANGED vars
    BY <1>1, <2>1, KeptSubject
       DEF LinkInv, Vouched, LinkedTo, EndSession, Unlink, vars, callVars
  <2>2. ASSUME NEW c \in Callers, CallerStep(c) PROVE Vouched'
    BY <1>1, <2>2, VouchedStep DEF LinkInv
  <2> QED  BY <2>1, <2>2 DEF Next, CallerStep
<1>3. ASSUME NEW k \in DOMAIN session'
      PROVE  LinkedTo(session'[k].via, session'[k].user, unlinked', link')
  <2>1. CASE k \in DOMAIN session /\ session'[k] = session[k]
    BY <1>1, <2>1, LinkedByParts, KeptSubject DEF LinkInv, LinkedTo
  <2>2. CASE EndSession \/ Unlink \/ UNCHANGED vars
    BY <2>1, <2>2 DEF EndSession, Unlink, Restrict, vars, dbVars
  <2>3. ASSUME NEW c \in Callers, Issue(c) PROVE LinkedTo(session'[k].via, session'[k].user, unlinked', link')
    <3>1. LinkedTo(via[c], who[c], unlinked, link)
      BY <2>3 DEF Issue, LinkInv, Vouched
    <3>2. k \in DOMAIN session => session'[k] = session[k]
      BY <2>3 DEF Issue
    <3>3. k \notin DOMAIN session => session'[k] = [user |-> who[c], via |-> via[c]]
      BY <2>3 DEF Issue
    <3>4. CASE k \notin DOMAIN session
      <4>1. LinkedTo(via[c], who[c], unlinked', link')
        BY <1>1, <3>1, KeptSubject
      <4>2. session'[k].user = who[c] /\ session'[k].via = via[c]
        BY <3>3, <3>4
      <4> QED  BY <4>1, <4>2
    <3> QED  BY <2>1, <3>2, <3>4
  <2>4. ASSUME NEW c \in Callers, CallerStep(c), ~Issue(c)
        PROVE  k \in DOMAIN session /\ session'[k] = session[k]
    BY <2>4 DEF CallerStep, Login, Rehash, ProviderLogin, ProvisionAccount, ReadIdentity, ReadSubject,
                LinkIdentity, StartCreate, Create, StartChange, Guard, Write, Revoke, StartShell,
                Shell, Fail, Restrict, dbVars
  <2> QED  BY <2>1, <2>2, <2>3, <2>4 DEF Next, CallerStep
<1> QED  BY <1>1, <1>2, <1>3 DEF LinkInv, LinkedFirst, LinkedTo

\* A session that a provider's identity opened belongs to the account the
\* identity is linked to, as long as nobody unlinks it.
THEOREM LinkedCorrect == Spec => []LinkedFirst
<1>1. Init => TypeInv /\ LinkInv
  BY InitType DEF Init, LinkInv, LinkInjective, Vouched, LinkedTo, LinkedFirst
<1>2. TypeInv /\ LinkInv /\ [Next]_vars => (TypeInv /\ LinkInv)'
  BY StepType, LinkStep
<1>3. LinkInv => LinkedFirst  BY DEF LinkInv
<1> QED  BY <1>1, <1>2, <1>3, PTL DEF Spec

\* The primary key and the unique index do it, however sign-ins race: a linked
\* subject keeps its account and a linked account its subject.
THEOREM LinkNeverMovesCorrect == Spec => LinkNeverMoves
<1> DEFINE Kept == \A s \in DOMAIN link, t \in DOMAIN link' :
                      s = t \/ link[s] = link'[t] => s = t /\ link[s] = link'[t]
<1>1. TypeInv /\ LinkInv /\ [Next]_vars => [Kept]_vars
  <2> SUFFICES ASSUME TypeInv, LinkInjective, [Next]_vars PROVE Kept
    BY DEF LinkInv
  <2>1. CASE UNCHANGED link
    BY <2>1 DEF LinkInjective
  <2>2. CASE Unlink
    BY <2>2 DEF Unlink, LinkInjective, Restrict
  <2>3. ASSUME NEW c \in Callers, LinkIdentity(c), Free(via[c], who[c]) PROVE Kept
    BY <2>3 DEF LinkIdentity, Linked, Free, SubjectsOf, LinkInjective
  <2>4. ASSUME NEW c \in Callers, LinkIdentity(c), ~Free(via[c], who[c]) PROVE UNCHANGED link
    BY <2>4 DEF LinkIdentity
  <2>5. ASSUME NEW c \in Callers, CallerStep(c), ~LinkIdentity(c) PROVE UNCHANGED link
    BY <2>5 DEF CallerStep, Login, Rehash, ProviderLogin, ProvisionAccount, ReadIdentity, ReadSubject,
                Issue, StartCreate, Create, StartChange, Guard, Write, Revoke, StartShell, Shell,
                Fail, dbVars
  <2>6. CASE EndSession \/ UNCHANGED vars
    BY <2>1, <2>6 DEF EndSession, vars, dbVars
  <2> QED  BY <2>1, <2>2, <2>3, <2>4, <2>5, <2>6 DEF Next, CallerStep
<1>2. Init => TypeInv /\ LinkInv
  BY InitType DEF Init, LinkInv, LinkInjective, Vouched, LinkedTo, LinkedFirst
<1>3. TypeInv /\ LinkInv /\ [Next]_vars => (TypeInv /\ LinkInv)'
  BY StepType, LinkStep
<1> QED  BY <1>1, <1>2, <1>3, PTL DEF Spec, LinkNeverMoves

-----------------------------------------------------------------------------
(* Owners.                                                                 *)

\* One change at a time, as the shell's and the panel's users take turns.
OneChange == \A c, d \in Callers : at[c] \in Changing /\ at[d] \in Changing => c = d

\* What the guard has seen is still so when the change is written.
GuardHolds ==
    \A c \in Callers : at[c] = "write" /\ Demotes(change[c]) =>
        lockout \/ \E u \in Users \ {who[c]} : Owner(u)

OwnerInv == OneChange /\ GuardHolds /\ OwnerLeft

\* Only the write of a change may take ownership away, and only from its account.
LEMMA OwnersStay ==
  ASSUME TypeInv, [Next]_vars, NEW u \in Users, Owner(u)
  PROVE  \/ Owner(u)'
         \/ \E c \in Callers : /\ at[c] \in {"write", "shell"} /\ who[c] = u
                                /\ Demotes(change[c]) /\ (Write(c) \/ Shell(c))
<1> USE DEF TypeInv, UserOK
<1>1. CASE UNCHANGED user
  BY <1>1 DEF Owner
<1>2. ASSUME NEW x \in Users \ DOMAIN user, NEW account, Insert(x, account) PROVE Owner(u)'
  BY <1>2 DEF Insert, Owner
<1>3. ASSUME NEW c \in Callers, Rehash(c) PROVE Owner(u)'
  <2>1. /\ DOMAIN user' = DOMAIN user
        /\ user'[u].role = user[u].role /\ user'[u].disabled = user[u].disabled
    BY <1>3 DEF Rehash, Owner, Row
  <2> QED  BY <2>1 DEF Owner
<1>4. ASSUME NEW c \in Callers, Write(c) \/ Shell(c), ~(who[c] = u /\ Demotes(change[c]))
      PROVE  Owner(u)'
  <2>1. Update(c) /\ who[c] \in DOMAIN user /\ change[c] \in Changes \cup {NoChange}
    BY <1>4 DEF Write, Shell, AccountKnown, CallOK
  <2>2. CASE who[c] # u
    BY <2>1, <2>2 DEF Update, Owner
  <2>3. CASE who[c] = u /\ ~Demotes(change[c])
    <3>1. user'[u] = Changed(user[u], change[c]) /\ u \in DOMAIN user'
      BY <2>1, <2>3 DEF Update
    <3>2. Changed(user[u], change[c]).role = "owner"
      BY <2>3 DEF Changed, Columns, Demotes, Owner
    <3>3. ~Changed(user[u], change[c]).disabled
      BY <2>3 DEF Changed, Columns, Demotes, Owner
    <3> QED  BY <3>1, <3>2, <3>3 DEF Owner
  <2> QED  BY <1>4, <2>2, <2>3
<1>5. ASSUME NEW c \in Callers, ProvisionAccount(c) PROVE Owner(u)'
  <2>1. CASE who[c] \in DOMAIN user
    BY <1>1, <1>5, <2>1 DEF ProvisionAccount, Owner
  <2>2. CASE who[c] \notin DOMAIN user
    <3>1. who[c] \in Users \ DOMAIN user /\ Insert(who[c], NewRow("admin", Nobody))
      BY <1>5, <2>2 DEF ProvisionAccount, AccountKnown
    <3> QED  BY <1>2, <3>1
  <2> QED  BY <2>1, <2>2
<1>6. ASSUME NEW c \in Callers, Create(c) PROVE Owner(u)'
  BY <1>1, <1>2, <1>6 DEF Create, Owner
<1>7. ASSUME NEW c \in Callers, CallerStep(c), ~Rehash(c), ~ProvisionAccount(c), ~Create(c),
             ~Write(c), ~Shell(c)
      PROVE  UNCHANGED user
  BY <1>7 DEF CallerStep, Login, ProviderLogin, ReadIdentity, ReadSubject, LinkIdentity, Issue,
              StartCreate, StartChange, Guard, Revoke, StartShell, Fail, dbVars
<1>8. CASE EndSession \/ Unlink \/ UNCHANGED vars
  BY <1>1, <1>8 DEF EndSession, Unlink, vars, dbVars, Owner
<1>9. ASSUME NEW c \in Callers, CallerStep(c)
      PROVE  Owner(u)' \/ ((Write(c) \/ Shell(c)) /\ who[c] = u /\ Demotes(change[c]))
  BY <1>1, <1>3, <1>4, <1>5, <1>6, <1>7, <1>9 DEF Owner
<1> QED  BY <1>8, <1>9 DEF Next, CallerStep, Write, Shell

LEMMA OneChangeStep == ~Overlap /\ TypeInv /\ OneChange /\ [Next]_vars => OneChange'
<1> SUFFICES ASSUME ~Overlap, TypeInv, OneChange, [Next]_vars PROVE OneChange'  OBVIOUS
<1>1. CASE EndSession \/ Unlink \/ UNCHANGED vars
  BY <1>1 DEF EndSession, Unlink, vars, callVars, OneChange
<1>2. ASSUME NEW c \in Callers, CallerStep(c) PROVE OneChange'
  <2>1. \A d \in Callers \ {c} : at'[d] = at[d]
    BY <1>2, OthersStay DEF TypeInv
  <2>2. CASE StartChange(c) \/ StartShell(c)
    BY <2>1, <2>2 DEF StartChange, StartShell, MayChange, OneChange
  <2>3. CASE at'[c] \in Changing => at[c] \in Changing
    BY <2>1, <2>3 DEF OneChange
  <2>4. ~StartChange(c) /\ ~StartShell(c) => (at'[c] \in Changing => at[c] \in Changing)
    BY <1>2 DEF CallerStep, Login, Rehash, ProviderLogin, ProvisionAccount, ReadIdentity, ReadSubject,
                LinkIdentity, Issue, StartCreate, Create, Guard, Write, Revoke, Revokes, Shell,
                Fail, Answer, Goto, Changing, TypeInv, CallOK
  <2> QED  BY <2>2, <2>3, <2>4
<1> QED  BY <1>1, <1>2 DEF Next, CallerStep

LEMMA LockoutStays == [Next]_vars => (lockout => lockout')
  BY DEF Next, EndSession, Unlink, Login, Rehash, ProviderLogin, ProvisionAccount, ReadIdentity,
         ReadSubject, LinkIdentity, Issue, StartCreate, Create, StartChange, Guard, Write, Revoke,
         StartShell, Shell, Fail, vars, logVars

\* An owner other than the one being changed outlives the step.
LEMMA OtherOwnerStays ==
  ASSUME TypeInv, OneChange, [Next]_vars, NEW u \in Users, Owner(u),
         NEW c \in Callers, at[c] \in {"write", "shell"}, who[c] # u
  PROVE  Owner(u)'
  BY OwnersStay DEF OneChange, Changing

LEMMA GuardStep ==
  ~Overlap /\ TypeInv /\ OwnerInv /\ [Next]_vars => GuardHolds'
<1> SUFFICES ASSUME ~Overlap, TypeInv, OwnerInv, [Next]_vars,
                    NEW c \in Callers, at'[c] = "write", Demotes(change'[c]), ~lockout'
             PROVE  \E u \in Users \ {who'[c]} : Owner(u)'
  BY DEF GuardHolds, Demotes
<1>1. ~lockout
  BY LockoutStays
<1>2. CASE at[c] = "write" /\ who'[c] = who[c] /\ change'[c] = change[c]
  <2>1. PICK u \in Users \ {who[c]} : Owner(u)
    BY <1>1, <1>2 DEF OwnerInv, GuardHolds
  <2>2. Owner(u)'
    BY <1>2, <2>1, OtherOwnerStays DEF OwnerInv
  <2> QED  BY <1>2, <2>1, <2>2
<1>3. CASE EndSession \/ Unlink \/ UNCHANGED vars
  BY <1>2, <1>3 DEF EndSession, Unlink, vars, callVars
<1>4. ASSUME NEW d \in Callers, CallerStep(d), d # c
      PROVE  at[c] = "write" /\ who'[c] = who[c] /\ change'[c] = change[c]
  BY <1>4, OthersStay DEF TypeInv
<1>5. CASE Guard(c)
  <2>1. ~LastOwner(who[c]) /\ user' = user /\ who' = who
    BY <1>5 DEF Guard, Answer, Locals, dbVars, TypeInv, CallOK
  <2>2. PICK u \in Users : Owner(u)
    BY <1>1 DEF OwnerInv, OwnerLeft
  <2>3. PICK v \in Users \ {who[c]} : Owner(v)
    <3>1. CASE u # who[c]
      BY <2>2, <3>1
    <3>2. CASE u = who[c]
      BY <2>1, <2>2, <3>2 DEF LastOwner, Owner, TypeInv, UserOK
    <3> QED  BY <3>1, <3>2
  <2> QED  BY <2>1, <2>3 DEF Owner
<1>6. ASSUME CallerStep(c), ~Guard(c) PROVE FALSE
  <2>1. CASE StartChange(c)
    BY <2>1 DEF StartChange, Goto, TypeInv, CallOK
  <2>2. CASE ~StartChange(c)
    BY <1>6, <2>2
       DEF CallerStep, Login, Rehash, ProviderLogin, ProvisionAccount, ReadIdentity, ReadSubject,
           LinkIdentity, Issue, StartCreate, Create, Write, Revoke, Revokes, StartShell, Shell,
           Fail, Answer, Goto, TypeInv, CallOK
  <2> QED  BY <2>1, <2>2
<1> QED  BY <1>2, <1>3, <1>4, <1>5, <1>6 DEF Next, CallerStep

LEMMA OwnerLeftStep ==
  TypeInv /\ OwnerInv /\ [Next]_vars => OwnerLeft'
<1> SUFFICES ASSUME TypeInv, OwnerInv, [Next]_vars, ~lockout' PROVE \E u \in Users : Owner(u)'
  BY DEF OwnerLeft
<1>1. PICK u \in Users : Owner(u)
  BY LockoutStays DEF OwnerInv, OwnerLeft
<1>2. CASE Owner(u)'
  BY <1>2
<1>3. ASSUME NEW c \in Callers, at[c] \in {"write", "shell"}, who[c] = u, Demotes(change[c]),
             Write(c) \/ Shell(c)
      PROVE  \E v \in Users : Owner(v)'
  <2>1. PICK v \in Users \ {u} : Owner(v)
    <3>1. CASE Write(c)
      BY <1>3, <3>1, LockoutStays DEF Write, OwnerInv, GuardHolds
    <3>2. CASE Shell(c)
      BY <1>1, <1>3, <3>2 DEF Shell, LastOwner, Owner, TypeInv, UserOK
    <3> QED  BY <1>3, <3>1, <3>2
  <2> QED  BY <1>3, <2>1, OtherOwnerStays DEF OwnerInv
<1> QED  BY <1>1, <1>2, <1>3, OwnersStay

\* routers/admin.py:290: while changes of accounts take turns, the panel never
\* leaves the deployment without an enabled owner.
THEOREM OwnerCorrect == ~Overlap => (Spec => []OwnerLeft)
<1> SUFFICES ASSUME ~Overlap PROVE Spec => []OwnerLeft  OBVIOUS
<1>1. Init => TypeInv /\ OwnerInv
  <2> SUFFICES ASSUME Init PROVE OwnerInv
    BY InitType
  <2>1. OneChange /\ GuardHolds
    BY DEF Init, OneChange, GuardHolds, Changing
  <2>2. OwnerLeft
    BY DEF Init, OwnerLeft, Owner, NewRow
  <2> QED  BY <2>1, <2>2 DEF OwnerInv
<1>2. TypeInv /\ OwnerInv /\ [Next]_vars => (TypeInv /\ OwnerInv)'
  BY StepType, OneChangeStep, GuardStep, OwnerLeftStep DEF OwnerInv
<1>3. OwnerInv => OwnerLeft  BY DEF OwnerInv
<1> QED  BY <1>1, <1>2, <1>3, PTL DEF Spec

-----------------------------------------------------------------------------
(***************************************************************************)
(* The configuration of a city. As long as no request arrives while        *)
(* another one is under way, what a process serves is what the table       *)
(* holds, whenever it is stopped; and nothing invalid is stored, however   *)
(* requests overlap.                                                       *)
(***************************************************************************)

ConfigPlaces == {"idle", "save", "load", "clear", "apply"}

\* One request at a time.
Alone == \A c, d \in Calls : c # d => pc[c] = "idle" \/ pc[d] = "idle"

Carries(kept) == kept.data = row.data /\ (row.revision # 0 => kept.revision = row.revision)

\* What a request is about to apply is what the table holds: nobody else has
\* written to it since.
ApplyInv ==
    /\ pc \in [Calls -> ConfigPlaces] /\ DOMAIN result = Calls
    /\ Alone
    /\ \A c \in Calls : pc[c] = "clear" => result[c].data = Empty
    /\ \A c \in Calls : pc[c] = "apply" => Carries(result[c])
    /\ Resting /\ ~astray => Carries(memory)

LEMMA ApplyInit == ConfigInit => ApplyInv
  BY DEF ConfigInit, ApplyInv, Alone, Carries, Resting, ConfigPlaces, NoOverride

LEMMA ApplyStep == ~Overlapping /\ ApplyInv /\ [ConfigNext]_configVars => ApplyInv'
<1> SUFFICES ASSUME ~Overlapping, ApplyInv, [ConfigNext]_configVars PROVE ApplyInv'
  OBVIOUS
<1>1. CASE UNCHANGED configVars
  BY <1>1 DEF configVars, configCallVars, boundVars, ApplyInv, Alone, Carries, Resting
<1>2. CASE Restart
  <2>1. pc' = [c \in Calls |-> "idle"] /\ result' = [c \in Calls |-> NoRow] /\ row' = row
    BY <1>2 DEF Restart
  <2>2. memory' = row \/ astray'
    BY <1>2 DEF Restart
  <2> QED BY <2>1, <2>2 DEF ApplyInv, Alone, Carries, Resting, ConfigPlaces
<1>3. ASSUME NEW c \in Calls, Put(c) PROVE ApplyInv'
  BY <1>3 DEF Put, MayStart, Go, Resting, ApplyInv, Alone, Carries, ConfigPlaces
<1>4. ASSUME NEW c \in Calls, Save(c) PROVE ApplyInv'
  <2>1. \A d \in Calls \ {c} : pc[d] = "idle"
    BY <1>4 DEF Save, ApplyInv, Alone
  <2>2. pc' = [pc EXCEPT ![c] = "load"] /\ UNCHANGED result
    BY <1>4 DEF Save, Go
  <2> QED BY <2>1, <2>2 DEF ApplyInv, Alone, Resting, ConfigPlaces
<1>5. ASSUME NEW c \in Calls, Load(c) PROVE ApplyInv'
  <2>1. \A d \in Calls \ {c} : pc[d] = "idle"
    BY <1>5 DEF Load, ApplyInv, Alone
  <2>2. /\ pc' = [pc EXCEPT ![c] = "apply"] /\ result' = [result EXCEPT ![c] = row]
        /\ UNCHANGED <<row, memory, astray>>
    BY <1>5 DEF Load, Go, Reread
  <2> QED BY <2>1, <2>2 DEF ApplyInv, Alone, Carries, Resting, ConfigPlaces
<1>6. ASSUME NEW c \in Calls, Delete(c) PROVE ApplyInv'
  <2>1. \A d \in Calls : pc[d] = "idle"
    BY <1>6 DEF Delete, MayStart, Resting
  <2>2. /\ pc' = [pc EXCEPT ![c] = "clear"]
        /\ result' = [result EXCEPT ![c] = [data |-> Empty, revision |-> row.revision + 1]]
    BY <1>6 DEF Delete, Go
  <2> QED BY <2>1, <2>2 DEF ApplyInv, Alone, Resting, ConfigPlaces
<1>7. ASSUME NEW c \in Calls, Clear(c) PROVE ApplyInv'
  <2>1. \A d \in Calls \ {c} : pc[d] = "idle"
    BY <1>7 DEF Clear, ApplyInv, Alone
  <2>2. /\ pc[c] = "clear" /\ pc' = [pc EXCEPT ![c] = "apply"] /\ row' = NoRow
        /\ UNCHANGED result
    BY <1>7 DEF Clear, Go
  <2>3. Carries(result[c])'
    BY <2>2 DEF ApplyInv, Carries, NoRow
  <2> QED BY <2>1, <2>2, <2>3 DEF ApplyInv, Alone, Resting, ConfigPlaces
<1>8. ASSUME NEW c \in Calls, Apply(c) PROVE ApplyInv'
  <2>1. \A d \in Calls \ {c} : pc[d] = "idle"
    BY <1>8 DEF Apply, ApplyInv, Alone
  <2>2. /\ pc[c] = "apply" /\ pc' = [pc EXCEPT ![c] = "idle"] /\ memory' = result[c]
        /\ result' = [result EXCEPT ![c] = NoRow] /\ UNCHANGED <<row, astray>>
    BY <1>8 DEF Apply, Go
  <2>3. Carries(memory)'
    BY <2>2 DEF ApplyInv, Carries
  <2> QED BY <2>1, <2>2, <2>3 DEF ApplyInv, Alone, Resting, ConfigPlaces
<1> QED BY <1>1, <1>2, <1>3, <1>4, <1>5, <1>6, <1>7, <1>8 DEF ConfigNext

\* Where requests come one at a time, the process serves what is stored
\* whenever none is under way, however often it was stopped in the middle of
\* one.  With two at a time it may not: the one that
\* saved second may apply first, and the other's override is then what is served.
THEOREM MemoryCorrect == ASSUME ~Overlapping PROVE ConfigSpec => []MemoryMatches
<1>1. ApplyInv => MemoryMatches
  BY DEF ApplyInv, MemoryMatches, Carries
<1>2. ConfigInit => ApplyInv
  BY ApplyInit
<1>3. ApplyInv /\ [ConfigNext]_configVars => ApplyInv'
  BY ApplyStep
<1> QED BY <1>1, <1>2, <1>3, PTL DEF ConfigSpec

-----------------------------------------------------------------------------
\* deep_merge touches no key the patch does not name, whatever nulls it has and
\* whether or not the override has its sections (admin_config.py:640).
LEMMA MergePartial ==
    ASSUME NEW base, NEW p, NEW s, NEW k, ~Named(p, s, k)
    PROVE  At(Merge(base, p), s, k) = At(base, s, k)
<1> DEFINE new == Merge(base, p)
<1>1. CASE s \notin DOMAIN p
  <2>1. s \in DOMAIN new <=> s \in DOMAIN base
    BY <1>1 DEF Merge
  <2>2. s \in DOMAIN base => new[s] = base[s]
    BY <1>1 DEF Merge
  <2> QED BY <2>1, <2>2 DEF At
<1>2. CASE s \in DOMAIN p
  <2>1. p[s] # Null /\ k \notin DOMAIN p[s]
    BY <1>2 DEF Named
  <2>2. s \in DOMAIN new
    BY <1>2, <2>1 DEF Merge
  <2>3. CASE s \notin DOMAIN base
    <3>1. new[s] = p[s]
      BY <1>2, <2>1, <2>3 DEF Merge
    <3> QED BY <2>1, <2>2, <2>3, <3>1 DEF At
  <2>4. CASE s \in DOMAIN base
    <3>1. new[s] = MergeKeys(base[s], p[s])
      BY <1>2, <2>1, <2>4 DEF Merge
    <3>2. k \in DOMAIN new[s] <=> k \in DOMAIN base[s]
      BY <2>1, <3>1 DEF MergeKeys
    <3>3. k \in DOMAIN base[s] => new[s][k] = base[s][k]
      BY <2>1, <3>1 DEF MergeKeys
    <3> QED BY <2>2, <2>4, <3>2, <3>3 DEF At
  <2> QED BY <2>3, <2>4
<1> QED BY <1>1, <1>2

\* What a PUT is about to save was merged into what the table still holds.
MergedInv ==
    /\ ApplyInv
    /\ DOMAIN patch = Calls /\ DOMAIN merged = Calls
    /\ \A c \in Calls : pc[c] = "save" =>
          /\ merged[c] = Merge(memory.data, patch[c])
          /\ ~astray => memory.data = row.data

LEMMA MergedInit == ConfigInit => MergedInv
  BY ApplyInit DEF MergedInv, ConfigInit

LEMMA MergedStep == ~Overlapping /\ MergedInv /\ [ConfigNext]_configVars => MergedInv'
<1> SUFFICES ASSUME ~Overlapping, MergedInv, [ConfigNext]_configVars PROVE MergedInv'
  OBVIOUS
<1> USE DEF MergedInv
<1>0. ApplyInv'
  BY ApplyStep
<1>1. CASE UNCHANGED configVars
  BY <1>0, <1>1 DEF configVars, configCallVars, boundVars
<1>2. CASE Restart
  BY <1>0, <1>2 DEF Restart
<1>3. ASSUME NEW c \in Calls, Put(c) PROVE MergedInv'
  <2>1. Resting /\ (~astray => memory.data = row.data)
    BY <1>3 DEF Put, MayStart, ApplyInv, Carries
  <2>2. PICK p : /\ patch' = [patch EXCEPT ![c] = p]
                 /\ merged' = [merged EXCEPT ![c] = Merge(memory.data, p)]
    BY <1>3 DEF Put
  <2>3. pc' = [pc EXCEPT ![c] = "save"] /\ UNCHANGED <<row, memory, astray>>
    BY <1>3 DEF Put, Go
  <2> QED BY <1>0, <2>1, <2>2, <2>3 DEF Resting
\* Nobody else is about to save when a request writes or applies.
<1>4. ASSUME NEW c \in Calls, pc[c] \in {"save", "clear", "apply"},
             pc' \in [Calls -> ConfigPlaces], pc'[c] # "save",
             \A d \in Calls \ {c} : pc'[d] = pc[d],
             DOMAIN patch' = Calls, DOMAIN merged' = Calls
      PROVE  MergedInv'
  <2>1. \A d \in Calls \ {c} : pc[d] = "idle"
    BY <1>4 DEF ApplyInv, Alone
  <2> QED BY <1>0, <1>4, <2>1
<1>5. ASSUME NEW c \in Calls, Save(c) PROVE MergedInv'
  BY <1>0, <1>4, <1>5 DEF Save, Go, ApplyInv
<1>6. ASSUME NEW c \in Calls, Load(c) PROVE MergedInv'
  BY <1>0, <1>6 DEF Load, Go, ApplyInv
<1>7. ASSUME NEW c \in Calls, Delete(c) PROVE MergedInv'
  BY <1>0, <1>7 DEF Delete, Go, ApplyInv
<1>8. ASSUME NEW c \in Calls, Clear(c) PROVE MergedInv'
  BY <1>0, <1>4, <1>8 DEF Clear, Go, ApplyInv
<1>9. ASSUME NEW c \in Calls, Apply(c) PROVE MergedInv'
  BY <1>0, <1>4, <1>9 DEF Apply, Go, ApplyInv
<1> QED BY <1>1, <1>2, <1>3, <1>5, <1>6, <1>7, <1>8, <1>9 DEF ConfigNext

\* Where requests come one at a time, whatever stops in between and whatever the
\* body says, a save changes no key that its body does not name.  With two at a time
\* the second undoes what the first saved.
THEOREM SaveIsPartialCorrect == ASSUME ~Overlapping PROVE ConfigSpec => SaveIsPartial
<1> DEFINE Partially ==
      \A c \in Calls : Save(c) /\ ~astray =>
         \A s \in Sections, k \in Keys :
            ~Named(patch[c], s, k) => At(row'.data, s, k) = At(row.data, s, k)
<1>1. MergedInv /\ [ConfigNext]_configVars => [Partially]_configVars
  <2> SUFFICES ASSUME MergedInv PROVE Partially
    OBVIOUS
  <2> SUFFICES ASSUME NEW c \in Calls, Save(c), ~astray, NEW s \in Sections, NEW k \in Keys,
                      ~Named(patch[c], s, k)
               PROVE  At(row'.data, s, k) = At(row.data, s, k)
    OBVIOUS
  <2>1. row'.data = Merge(row.data, patch[c])
    BY DEF Save, MergedInv
  <2> QED BY <2>1, MergePartial
<1>2. ConfigInit => MergedInv
  BY MergedInit
<1>3. MergedInv /\ [ConfigNext]_configVars => MergedInv'
  BY MergedStep
<1> QED BY <1>1, <1>2, <1>3, PTL DEF ConfigSpec, SaveIsPartial

-----------------------------------------------------------------------------
\* What is on its way to the table or to the memory is valid too.
ValidInv ==
    /\ DOMAIN pc = Calls /\ DOMAIN merged = Calls /\ DOMAIN result = Calls
    /\ StoredValid
    /\ \A c \in Calls : pc[c] = "save" => Valid(merged[c])
    /\ \A c \in Calls : pc[c] \in {"clear", "apply"} => Valid(result[c].data)

\* Nothing stored leaves the city the YAML describes.
LEMMA EmptyValid == Valid(Empty)
  BY ConfigAssumption DEF Valid, Effective, Merge, Yaml, Empty

LEMMA ValidInit == ConfigInit => ValidInv
  BY EmptyValid DEF ConfigInit, ValidInv, StoredValid, NoRow, NoOverride

LEMMA ValidStep == ValidInv /\ [ConfigNext]_configVars => ValidInv'
<1> SUFFICES ASSUME ValidInv, [ConfigNext]_configVars PROVE ValidInv'
  OBVIOUS
<1> USE DEF ValidInv, StoredValid
<1>1. CASE UNCHANGED configVars
  BY <1>1 DEF configVars, configCallVars, boundVars, Valid
<1>2. CASE Restart
  BY <1>2, EmptyValid DEF Restart, NoOverride, NoRow
<1>3. ASSUME NEW c \in Calls, Put(c) PROVE ValidInv'
  <2>1. PICK new : Valid(new) /\ merged' = [merged EXCEPT ![c] = new]
    BY <1>3 DEF Put, Accepts
  <2>2. pc' = [pc EXCEPT ![c] = "save"] /\ UNCHANGED <<row, memory, result>>
    BY <1>3 DEF Put, Go
  <2> QED BY <2>1, <2>2
<1>4. ASSUME NEW c \in Calls, Save(c) PROVE ValidInv'
  <2>1. pc[c] = "save" /\ row'.data = merged[c]
    BY <1>4 DEF Save
  <2>2. pc' = [pc EXCEPT ![c] = "load"] /\ UNCHANGED <<memory, merged, result>>
    BY <1>4 DEF Save, Go
  <2> QED BY <2>1, <2>2
<1>5. ASSUME NEW c \in Calls, Load(c) PROVE ValidInv'
  <2>1. pc' = [pc EXCEPT ![c] = "apply"] /\ result' = [result EXCEPT ![c] = row]
    BY <1>5 DEF Load, Go, Reread
  <2>2. UNCHANGED <<row, memory, merged>>
    BY <1>5 DEF Load
  <2> QED BY <2>1, <2>2
<1>6. ASSUME NEW c \in Calls, Delete(c) PROVE ValidInv'
  <2>1. pc' = [pc EXCEPT ![c] = "clear"] /\ UNCHANGED <<row, memory, merged>>
    BY <1>6 DEF Delete, Go
  <2>2. result' = [result EXCEPT ![c] = [data |-> Empty, revision |-> row.revision + 1]]
    BY <1>6 DEF Delete
  <2> QED BY <2>1, <2>2, EmptyValid
<1>7. ASSUME NEW c \in Calls, Clear(c) PROVE ValidInv'
  <2>1. pc[c] = "clear" /\ row' = NoRow /\ pc' = [pc EXCEPT ![c] = "apply"]
    BY <1>7 DEF Clear, Go
  <2>2. UNCHANGED <<memory, merged, result>>
    BY <1>7 DEF Clear
  <2> QED BY <2>1, <2>2, EmptyValid DEF NoRow
<1>8. ASSUME NEW c \in Calls, Apply(c) PROVE ValidInv'
  <2>1. pc[c] = "apply" /\ memory' = result[c] /\ pc' = [pc EXCEPT ![c] = "idle"]
    BY <1>8 DEF Apply, Go
  <2>2. /\ merged' = [merged EXCEPT ![c] = Empty] /\ result' = [result EXCEPT ![c] = NoRow]
        /\ UNCHANGED row
    BY <1>8 DEF Apply
  <2> QED BY <2>1, <2>2
<1> QED BY <1>1, <1>2, <1>3, <1>4, <1>5, <1>6, <1>7, <1>8 DEF ConfigNext

\* However requests overlap, fail to load and restart, what is stored and what is
\* served is an override whose city is valid: validate_sections is asked of the
\* city that would result, and what it accepted is what is written (admin_config.py:668).
THEOREM StoredValidCorrect == ConfigSpec => []StoredValid
<1>1. ValidInv => StoredValid
  BY DEF ValidInv
<1> QED BY <1>1, ValidInit, ValidStep, PTL DEF ConfigSpec

(***************************************************************************)
(* The throttle. The failures a key has are numbered, so that the last one *)
(* counted bounds the age of the others; what was guessed is a part of     *)
(* what is remembered.                                                     *)
(***************************************************************************)

AttemptTypes == {NoAttempt} \cup [mail : Mails, host : Hosts, at : Nat]
Failure == [no : Nat, at : Nat]
ThrottleTyped ==
    /\ clock \in Nat /\ failed \in Nat
    /\ attempts \in [Attempts -> AttemptTypes]
    /\ DOMAIN guesses = Names
    /\ \A k \in Names : /\ IsFiniteSet(FailsOf(fails, k)) /\ IsFiniteSet(guesses[k])
                       /\ FailsOf(fails, k) \subseteq Failure /\ guesses[k] \subseteq Failure
ChecksInTime == \A a \in Attempts : attempts[a] # NoAttempt => attempts[a].at <= clock /\ clock <= attempts[a].at + CheckTime
\* Failures are numbered as they are counted, and no check is so slow that one
\* counted before another was asked long after it.
FailuresInOrder ==
    \A k \in Names : \A f \in FailsOf(fails, k) :
        /\ f.no <= failed /\ f.at <= clock
        /\ \A g \in FailsOf(fails, k) : g.no <= f.no => g.at <= f.at + CheckTime
\* What has been guessed in the window less a check has not been forgotten.
GuessesKnown == \A k \in Names : Guessed(k) \subseteq FailsOf(fails, k)
ThrottleInv == ThrottleTyped /\ ChecksInTime /\ FailuresInOrder /\ GuessesKnown /\ GuessesBounded

LEMMA KeysApart == Mails \subseteq Names /\ Hosts \subseteq Names /\ \A m \in Mails, h \in Hosts : m # h
  BY ThrottleAssumption DEF Names

-----------------------------------------------------------------------------
(* What the helpers do to the failures of a key.                           *)
LEMMA LookedAt ==
    ASSUME NEW fs, NEW k, NEW j
    PROVE  FailsOf(Looked(fs, k), j) = IF j = k THEN Recent(FailsOf(fs, k), clock) ELSE FailsOf(fs, j)
  BY DEF FailsOf, Looked

LEMMA FailureAdded ==
    ASSUME NEW fs, NEW k, NEW f, NEW j
    PROVE  FailsOf(WithFailure(fs, k, f), j) = IF j = k THEN FailsOf(fs, k) \cup {f} ELSE FailsOf(fs, j)
  BY DEF FailsOf, WithFailure

LEMMA Cleaned ==
    ASSUME NEW fs, NEW instant, NEW j
    PROVE  \/ FailsOf(CleanedUp(fs, instant), j) = FailsOf(fs, j)
           \/ FailsOf(CleanedUp(fs, instant), j) = {} /\ LongAgo(FailsOf(fs, j), instant)
  BY DEF FailsOf, CleanedUp

\* A key's failures after one is counted: they and perhaps the new one, or none
\* and the last of them is old.
LEMMA FailureCounted ==
    ASSUME NEW fs, NEW k, NEW f, NEW j
    PROVE  /\ j = k => FailsOf(CountFail(fs, k, f), j) = FailsOf(fs, j) \cup {f} \/ LongAgo(FailsOf(fs, j) \cup {f}, f.at)
           /\ j # k =>
                \/ FailsOf(CountFail(fs, k, f), j) = FailsOf(fs, j)
                \/ FailsOf(CountFail(fs, k, f), j) = {} /\ LongAgo(FailsOf(fs, j), f.at)
  <1>1. \/ FailsOf(CountFail(fs, k, f), j) = FailsOf(WithFailure(fs, k, f), j)
        \/ FailsOf(CountFail(fs, k, f), j) = {} /\ LongAgo(FailsOf(WithFailure(fs, k, f), j), f.at)
    BY Cleaned DEF CountFail
  <1>2. CASE j = k
    <2>1. FailsOf(WithFailure(fs, k, f), j) = FailsOf(fs, j) \cup {f} BY <1>2, FailureAdded
    <2> QED BY <1>1, <1>2, <2>1
  <1>3. CASE j # k
    <2>1. FailsOf(WithFailure(fs, k, f), j) = FailsOf(fs, j) BY <1>3, FailureAdded
    <2> QED BY <1>1, <1>3, <2>1
  <1> QED BY <1>2, <1>3

\* A list to which a failure of now was just added is not old.
LEMMA NewIsLast ==
    ASSUME NEW times, NEW f, f.at \in Nat, f.no \in Nat, \A g \in times : g.no \in Nat /\ g.no < f.no
    PROVE  ~LongAgo(times \cup {f}, f.at)
  BY ThrottleAssumption DEF LongAgo

-----------------------------------------------------------------------------
LEMMA GuessedFinite == ASSUME ThrottleTyped, NEW k \in Names
                       PROVE  IsFiniteSet(Guessed(k)) /\ Cardinality(Guessed(k)) \in Nat
  <1>1. Guessed(k) \in SUBSET guesses[k] /\ IsFiniteSet(guesses[k]) BY DEF Guessed, ThrottleTyped
  <1> QED BY <1>1, FS_Subset, FS_CardinalityType

LEMMA TryingFinite == ASSUME NEW k
                      PROVE  /\ IsFiniteSet(Trying(k)) /\ Cardinality(Trying(k)) \in Nat
                             /\ Cardinality(Trying(k)) <= Cardinality(Attempts) /\ Cardinality(Attempts) \in Nat
                             /\ IsFiniteSet(Trying(k)') /\ Cardinality(Trying(k)') \in Nat
                             /\ Cardinality(Trying(k)') <= Cardinality(Attempts)
  <1>1. IsFiniteSet(Attempts) BY ThrottleAssumption
  <1>2. Trying(k) \in SUBSET Attempts /\ Trying(k)' \in SUBSET Attempts BY DEF Trying
  <1> QED BY <1>1, <1>2, FS_Subset, FS_CardinalityType

LEMMA ThrottleFirst == ThrottleInit => ThrottleInv
  <1> SUFFICES ASSUME ThrottleInit PROVE ThrottleInv OBVIOUS
  <1> USE ThrottleAssumption DEF ThrottleInit
  <1>1. \A k \in Names : FailsOf(fails, k) = {} /\ guesses[k] = {} BY DEF FailsOf
  <1>2. ThrottleTyped BY <1>1, FS_EmptySet DEF ThrottleTyped, AttemptTypes
  <1>3. ChecksInTime BY DEF ChecksInTime
  <1>4. FailuresInOrder BY <1>1 DEF FailuresInOrder
  <1>5. \A k \in Names : Guessed(k) = {} /\ Trying(k) = {} BY <1>1 DEF Guessed, Trying
  <1>6. GuessesKnown BY <1>5 DEF GuessesKnown
  <1>7. GuessesBounded
    <2> SUFFICES ASSUME NEW k \in Names PROVE Cardinality(Guessed(k)) + Cardinality(Trying(k)) <= FailLimit - 1 + Cardinality(Attempts)
      BY DEF GuessesBounded
    <2>1. Cardinality(Guessed(k)) = 0 /\ Cardinality(Trying(k)) = 0 BY <1>5, FS_EmptySet
    <2> QED BY <2>1, TryingFinite
  <1> QED BY <1>2, <1>3, <1>4, <1>6, <1>7 DEF ThrottleInv

\* Forgetting what is out of the window, of one key or of two.
LEMMA ForgettingKeeps ==
    ASSUME ThrottleInv, UNCHANGED <<clock, failed, guesses>>,
           \A k \in Names : FailsOf(fails', k) \in {FailsOf(fails, k), Recent(FailsOf(fails, k), clock)}
    PROVE  /\ \A k \in Names : /\ IsFiniteSet(FailsOf(fails', k)) /\ FailsOf(fails', k) \subseteq Failure
                              /\ Guessed(k)' = Guessed(k)
           /\ FailuresInOrder' /\ GuessesKnown'
  <1> USE ThrottleAssumption DEF ThrottleInv
  <1>1. \A k \in Names : FailsOf(fails', k) \in SUBSET FailsOf(fails, k) BY DEF Recent
  <1>2. \A k \in Names : IsFiniteSet(FailsOf(fails', k)) /\ FailsOf(fails', k) \subseteq Failure
    BY <1>1, FS_Subset DEF ThrottleTyped
  <1>3. \A k \in Names : Guessed(k)' = Guessed(k) BY DEF Guessed
  <1>4. FailuresInOrder' BY <1>1 DEF FailuresInOrder
  <1>5. ASSUME NEW k \in Names, NEW g \in Guessed(k) PROVE g \in FailsOf(fails', k)
    <2>1. g \in FailsOf(fails, k) BY DEF GuessesKnown
    <2>2. clock - g.at < FailWindow BY <2>1 DEF Guessed, ThrottleTyped, Failure
    <2> QED BY <2>1, <2>2 DEF Recent
  <1>6. GuessesKnown' BY <1>3, <1>5 DEF GuessesKnown
  <1> QED BY <1>2, <1>3, <1>4, <1>6

LEMMA AskKeeps ==
    ASSUME ThrottleInv, NEW a \in Attempts, NEW mail \in Mails, NEW host \in Hosts, Ask(a, mail, host)
    PROVE  ThrottleInv'
  <1> USE ThrottleAssumption DEF ThrottleInv
  <1>0. mail \in Names /\ host \in Names /\ mail # host BY KeysApart
  <1>1. UNCHANGED <<clock, failed, guesses>> /\ ~Blocked(mail) /\ ~Blocked(host) BY DEF Ask
  <1>2. \A k \in Names : FailsOf(fails', k) \in {FailsOf(fails, k), Recent(FailsOf(fails, k), clock)}
    BY <1>0, LookedAt DEF Ask
  <1>3. attempts' = [attempts EXCEPT ![a] = [mail |-> mail, host |-> host, at |-> clock]] BY DEF Ask
  <1>4. /\ \A k \in Names : /\ IsFiniteSet(FailsOf(fails', k)) /\ FailsOf(fails', k) \subseteq Failure
                            /\ Guessed(k)' = Guessed(k)
        /\ FailuresInOrder' /\ GuessesKnown'
    BY <1>1, <1>2, ForgettingKeeps
  <1>5. ThrottleTyped' BY <1>1, <1>3, <1>4 DEF ThrottleTyped, AttemptTypes
  <1>6. ChecksInTime' BY <1>1, <1>3 DEF ChecksInTime, ThrottleTyped
  <1>7. GuessesBounded'
    <2> SUFFICES ASSUME NEW k \in Names
                 PROVE  Cardinality(Guessed(k)) + Cardinality(Trying(k)') <= FailLimit - 1 + Cardinality(Attempts)
      BY <1>4 DEF GuessesBounded
    <2>1. Cardinality(Guessed(k)) \in Nat BY GuessedFinite
    <2>2. CASE k \in {mail, host}
      <3>1. Guessed(k) \in SUBSET Recent(FailsOf(fails, k), clock)
        <4> SUFFICES ASSUME NEW g \in Guessed(k) PROVE g \in Recent(FailsOf(fails, k), clock) OBVIOUS
        <4>1. g \in FailsOf(fails, k) BY DEF GuessesKnown
        <4> QED BY <4>1 DEF Recent, Guessed, ThrottleTyped, Failure
      <3>2. IsFiniteSet(Recent(FailsOf(fails, k), clock))
        <4>1. Recent(FailsOf(fails, k), clock) \in SUBSET FailsOf(fails, k) BY DEF Recent
        <4> QED BY <4>1, FS_Subset DEF ThrottleTyped
      <3>3. Cardinality(Guessed(k)) <= Cardinality(Recent(FailsOf(fails, k), clock))
            /\ Cardinality(Recent(FailsOf(fails, k), clock)) \in Nat
        BY <3>1, <3>2, FS_Subset, FS_CardinalityType
      <3>4. Cardinality(Recent(FailsOf(fails, k), clock)) < FailLimit BY <1>1, <2>2, <3>3 DEF Blocked
      <3> QED BY <2>1, <3>3, <3>4, TryingFinite
    <2>3. CASE k \notin {mail, host}
      <3>1. Trying(k)' = Trying(k) BY <1>3, <2>3 DEF Trying, Ask, ThrottleTyped
      <3> QED BY <3>1 DEF GuessesBounded
    <2> QED BY <2>2, <2>3
  <1> QED BY <1>4, <1>5, <1>6, <1>7

LEMMA RefuseKeeps ==
    ASSUME ThrottleInv, NEW mail \in Mails, NEW host \in Hosts, TurnAway(mail, host) PROVE ThrottleInv'
  <1> USE DEF ThrottleInv
  <1>0. mail \in Names /\ host \in Names /\ mail # host BY KeysApart
  <1>1. UNCHANGED <<clock, failed, attempts, guesses>> BY DEF TurnAway
  <1>2. \A k \in Names : FailsOf(fails', k) \in {FailsOf(fails, k), Recent(FailsOf(fails, k), clock)}
    BY <1>0, LookedAt DEF TurnAway
  <1>4. /\ \A k \in Names : /\ IsFiniteSet(FailsOf(fails', k)) /\ FailsOf(fails', k) \subseteq Failure
                            /\ Guessed(k)' = Guessed(k)
        /\ FailuresInOrder' /\ GuessesKnown'
    BY <1>1, <1>2, ForgettingKeeps
  <1>5. ThrottleTyped' BY <1>1, <1>4 DEF ThrottleTyped
  <1>6. ChecksInTime' BY <1>1 DEF ChecksInTime
  <1>7. \A k \in Names : Trying(k)' = Trying(k) BY <1>1 DEF Trying
  <1>8. GuessesBounded' BY <1>4, <1>7 DEF GuessesBounded
  <1> QED BY <1>4, <1>5, <1>6, <1>8

\* An attempt that ends is no longer trying its keys.
LEMMA AttemptEnds ==
    ASSUME ThrottleInv, NEW a \in Attempts, attempts[a] # NoAttempt, attempts' = [attempts EXCEPT ![a] = NoAttempt],
           NEW k
    PROVE  IF k \in {attempts[a].mail, attempts[a].host}
           THEN Cardinality(Trying(k)) = Cardinality(Trying(k)') + 1 ELSE Trying(k)' = Trying(k)
  <1> USE DEF ThrottleInv
  <1>1. CASE k \in {attempts[a].mail, attempts[a].host}
    <2>1. Trying(k)' = Trying(k) \ {a} /\ a \in Trying(k) BY <1>1 DEF Trying, ThrottleTyped
    <2>2. Cardinality(Trying(k) \ {a}) = Cardinality(Trying(k)) - 1
      BY <2>1, TryingFinite, FS_RemoveElement
    <2> QED BY <1>1, <2>1, <2>2, TryingFinite
  <1>2. CASE k \notin {attempts[a].mail, attempts[a].host}
    BY <1>2 DEF Trying, ThrottleTyped
  <1> QED BY <1>1, <1>2

LEMMA RightPasswordKeeps == ASSUME ThrottleInv, NEW a \in Attempts, RightPassword(a) PROVE ThrottleInv'
  <1> USE ThrottleAssumption DEF ThrottleInv
  <1>1. UNCHANGED <<clock, failed>> /\ attempts[a] # NoAttempt /\ attempts' = [attempts EXCEPT ![a] = NoAttempt]
    BY DEF RightPassword
  <1>2. PICK tried : tried = {attempts[a].mail, attempts[a].host} OBVIOUS
  <1>3. \A k \in Names : /\ FailsOf(fails', k) = IF k \in tried THEN {} ELSE FailsOf(fails, k)
                        /\ guesses'[k] = IF k \in tried THEN {} ELSE guesses[k]
    BY <1>2 DEF RightPassword, FailsOf
  <1>4. \A k \in Names : Guessed(k)' = IF k \in tried THEN {} ELSE Guessed(k)
    BY <1>1, <1>3 DEF Guessed
  <1>5. DOMAIN guesses' = Names BY DEF RightPassword
  <1>6. ThrottleTyped' BY <1>1, <1>3, <1>5, FS_EmptySet DEF ThrottleTyped, AttemptTypes
  <1>7. ChecksInTime' BY <1>1 DEF ChecksInTime, ThrottleTyped
  <1>8. FailuresInOrder' BY <1>1, <1>3 DEF FailuresInOrder
  <1>9. GuessesKnown' BY <1>3, <1>4 DEF GuessesKnown
  <1>10. GuessesBounded'
    <2> SUFFICES ASSUME NEW k \in Names
                 PROVE  Cardinality(Guessed(k)') + Cardinality(Trying(k)') <= FailLimit - 1 + Cardinality(Attempts)
      BY DEF GuessesBounded
    <2>1. CASE k \in tried
      <3>1. Cardinality(Guessed(k)') = 0 BY <1>4, <2>1, FS_EmptySet
      <3> QED BY <3>1, TryingFinite
    <2>2. CASE k \notin tried
      <3>1. Trying(k)' = Trying(k) BY <1>1, <1>2, <2>2, AttemptEnds
      <3> QED BY <1>4, <2>2, <3>1 DEF GuessesBounded
    <2> QED BY <2>1, <2>2
  <1> QED BY <1>6, <1>7, <1>8, <1>9, <1>10

LEMMA ThrottleTickKeeps == ASSUME ThrottleInv, ThrottleTick PROVE ThrottleInv'
  <1> USE ThrottleAssumption DEF ThrottleInv
  <1>1. clock' = clock + 1 /\ UNCHANGED <<failed, fails, attempts, guesses>> BY DEF ThrottleTick
  <1>2. ThrottleTyped' BY <1>1 DEF ThrottleTyped
  <1>3. ChecksInTime'
    <2> SUFFICES ASSUME NEW a \in Attempts, attempts[a] # NoAttempt
                 PROVE  attempts[a].at <= clock + 1 /\ clock + 1 <= attempts[a].at + CheckTime
      BY <1>1 DEF ChecksInTime
    <2>1. attempts[a].at \in Nat BY DEF ThrottleTyped, AttemptTypes
    <2> QED BY <2>1 DEF ThrottleTick, ChecksInTime, ThrottleTyped
  <1>4. FailuresInOrder'
    <2> SUFFICES ASSUME NEW k \in Names, NEW f \in FailsOf(fails, k)
                 PROVE  /\ f.no <= failed /\ f.at <= clock + 1
                        /\ \A g \in FailsOf(fails, k) : g.no <= f.no => g.at <= f.at + CheckTime
      BY <1>1 DEF FailuresInOrder
    <2>1. f.at \in Nat /\ clock \in Nat BY DEF ThrottleTyped, Failure
    <2>2. /\ f.no <= failed /\ f.at <= clock
          /\ \A g \in FailsOf(fails, k) : g.no <= f.no => g.at <= f.at + CheckTime
      BY DEF FailuresInOrder
    <2> QED BY <2>1, <2>2
  <1>5. \A k \in Names : Guessed(k)' \in SUBSET Guessed(k)
    BY <1>1 DEF Guessed, ThrottleTyped, Failure
  <1>6. GuessesKnown' BY <1>1, <1>5 DEF GuessesKnown
  <1>7. GuessesBounded'
    <2> SUFFICES ASSUME NEW k \in Names
                 PROVE  Cardinality(Guessed(k)') + Cardinality(Trying(k)') <= FailLimit - 1 + Cardinality(Attempts)
      BY DEF GuessesBounded
    <2>1. Trying(k)' = Trying(k) BY <1>1 DEF Trying
    <2>2. IsFiniteSet(Guessed(k)) /\ Cardinality(Guessed(k)) \in Nat BY GuessedFinite
    <2>3. Cardinality(Guessed(k)') <= Cardinality(Guessed(k)) /\ Cardinality(Guessed(k)') \in Nat
      BY <1>5, <2>2, FS_Subset, FS_CardinalityType
    <2>4. Cardinality(Guessed(k)) + Cardinality(Trying(k)) <= FailLimit - 1 + Cardinality(Attempts) BY DEF GuessesBounded
    <2> QED BY <2>1, <2>2, <2>3, <2>4, TryingFinite
  <1> QED BY <1>2, <1>3, <1>4, <1>6, <1>7

\* What a failure leaves of a key: all it had, or nothing if the last of them is
\* old; and the new one, if it is the key's.
LEMMA FailureLeaves ==
    ASSUME ThrottleInv, NEW a \in Attempts, WrongPassword(a), NEW f, f = [no |-> failed + 1, at |-> attempts[a].at],
           NEW k \in Names
    PROVE  LET mine == IF k \in {attempts[a].mail, attempts[a].host} THEN {f} ELSE {}
           IN  \/ FailsOf(fails', k) = FailsOf(fails, k) \cup mine
               \/ FailsOf(fails', k) = mine /\ LongAgo(FailsOf(fails, k), f.at)
  <1> USE DEF ThrottleInv
  <1>1. PICK mail \in Mails, host \in Hosts : mail = attempts[a].mail /\ host = attempts[a].host
    BY DEF WrongPassword, ThrottleTyped, AttemptTypes, NoAttempt
  <1>2. attempts[a].at \in Nat BY DEF WrongPassword, ThrottleTyped, AttemptTypes, NoAttempt
  <1>3. PICK first : first = CountFail(fails, mail, f) OBVIOUS
  <1>4. fails' = CountFail(first, host, f) BY <1>1, <1>3 DEF WrongPassword
  <1>5. mail # host BY KeysApart
  <1>6. \A g \in FailsOf(fails, k) : g.no \in Nat /\ g.no < f.no BY DEF ThrottleTyped, Failure, FailuresInOrder
  <1>7. f.at \in Nat /\ f.no \in Nat BY <1>2 DEF ThrottleTyped
  <1>8. CASE k = mail
    <2>1. ~LongAgo(FailsOf(fails, k) \cup {f}, f.at) BY <1>6, <1>7, NewIsLast
    <2>2. FailsOf(first, k) = FailsOf(fails, k) \cup {f} BY <1>3, <1>8, <2>1, FailureCounted
    <2>3. FailsOf(fails', k) = FailsOf(first, k)
      <3>1. ~LongAgo(FailsOf(first, k), f.at) BY <2>1, <2>2
      <3>2. k # host BY <1>5, <1>8
      <3> QED BY <1>4, <3>1, <3>2, FailureCounted
    <2> QED BY <1>1, <1>8, <2>2, <2>3
  <1>9. CASE k = host
    <2>1. \/ FailsOf(first, k) = FailsOf(fails, k)
          \/ FailsOf(first, k) = {} /\ LongAgo(FailsOf(fails, k), f.at)
      BY <1>3, <1>5, <1>9, FailureCounted
    <2>2. ~LongAgo(FailsOf(first, k) \cup {f}, f.at) BY <1>6, <1>7, <2>1, NewIsLast
    <2>3. FailsOf(fails', k) = FailsOf(first, k) \cup {f} BY <1>4, <1>9, <2>2, FailureCounted
    <2> QED BY <1>1, <1>9, <2>1, <2>3
  <1>10. CASE k \notin {mail, host}
    <2>1. \/ FailsOf(first, k) = FailsOf(fails, k)
          \/ FailsOf(first, k) = {} /\ LongAgo(FailsOf(fails, k), f.at)
      BY <1>3, <1>10, FailureCounted
    <2>2. \/ FailsOf(fails', k) = FailsOf(first, k)
          \/ FailsOf(fails', k) = {} /\ LongAgo(FailsOf(first, k), f.at)
      BY <1>4, <1>10, FailureCounted
    <2>3. ~LongAgo({}, f.at) BY DEF LongAgo
    <2> QED BY <1>1, <1>10, <2>1, <2>2, <2>3
  <1> QED BY <1>8, <1>9, <1>10

LEMMA WrongPasswordKeeps == ASSUME ThrottleInv, NEW a \in Attempts, WrongPassword(a) PROVE ThrottleInv'
  <1> USE ThrottleAssumption DEF ThrottleInv
  <1>1. /\ clock' = clock /\ failed' = failed + 1 /\ attempts[a] # NoAttempt
        /\ attempts' = [attempts EXCEPT ![a] = NoAttempt]
    BY DEF WrongPassword
  <1>2. PICK tried : tried = {attempts[a].mail, attempts[a].host} OBVIOUS
  <1>3. PICK f : f = [no |-> failed + 1, at |-> attempts[a].at] OBVIOUS
  <1>4. f \in Failure /\ f.no = failed + 1 /\ f.at <= clock /\ clock <= f.at + CheckTime
    BY <1>1, <1>3 DEF ThrottleTyped, AttemptTypes, Failure, ChecksInTime
  <1>5. ASSUME NEW k \in Names
        PROVE  LET mine == IF k \in tried THEN {f} ELSE {}
               IN  \/ FailsOf(fails', k) = FailsOf(fails, k) \cup mine
                   \/ FailsOf(fails', k) = mine /\ LongAgo(FailsOf(fails, k), f.at)
    BY <1>2, <1>3, FailureLeaves
  <1>6. \A k \in Names : guesses'[k] = IF k \in tried THEN Recent(guesses[k], clock) \cup {f} ELSE guesses[k]
    BY <1>2, <1>3 DEF WrongPassword
  <1>7. DOMAIN guesses' = Names BY DEF WrongPassword
  <1>8. ThrottleTyped'
    <2>1. ASSUME NEW k \in Names
          PROVE  /\ IsFiniteSet(FailsOf(fails', k)) /\ IsFiniteSet(guesses'[k])
                 /\ FailsOf(fails', k) \subseteq Failure /\ guesses'[k] \subseteq Failure
      <3>1. FailsOf(fails', k) \in SUBSET (FailsOf(fails, k) \cup {f}) BY <1>5
      <3>2. guesses'[k] \in SUBSET (guesses[k] \cup {f}) BY <1>6 DEF Recent
      <3>3. IsFiniteSet(FailsOf(fails, k) \cup {f}) /\ IsFiniteSet(guesses[k] \cup {f})
        BY FS_AddElement DEF ThrottleTyped
      <3> QED BY <1>4, <3>1, <3>2, <3>3, FS_Subset DEF ThrottleTyped
    <2> QED BY <1>1, <1>7, <2>1 DEF ThrottleTyped, AttemptTypes
  <1>9. ChecksInTime' BY <1>1 DEF ChecksInTime, ThrottleTyped
  <1>10. FailuresInOrder'
    <2> SUFFICES ASSUME NEW k \in Names, NEW h \in FailsOf(fails', k)
                 PROVE  /\ h.no <= failed + 1 /\ h.at <= clock
                        /\ \A g \in FailsOf(fails', k) : g.no <= h.no => g.at <= h.at + CheckTime
      BY <1>1 DEF FailuresInOrder
    <2>1. \A g \in FailsOf(fails', k) : g = f \/ g \in FailsOf(fails, k) BY <1>5
    <2>2. \A g \in FailsOf(fails, k) : g \in Failure /\ g.no <= failed /\ g.at <= clock
      BY DEF FailuresInOrder, ThrottleTyped
    <2>3. h.no <= failed + 1 /\ h.at <= clock BY <1>4, <2>1, <2>2 DEF ThrottleTyped, Failure
    <2>4. ASSUME NEW g \in FailsOf(fails', k), g.no <= h.no PROVE g.at <= h.at + CheckTime
      <3>1. CASE h = f BY <1>4, <2>1, <2>2, <3>1 DEF ThrottleTyped, Failure
      <3>2. CASE h # f
        <4>1. h \in FailsOf(fails, k) BY <2>1, <3>2
        <4>2. g # f BY <1>4, <2>2, <2>4, <4>1 DEF ThrottleTyped, Failure
        <4> QED BY <2>1, <2>4, <4>1, <4>2 DEF FailuresInOrder
      <3> QED BY <3>1, <3>2
    <2> QED BY <2>3, <2>4
  <1>11. \A k \in Names : Guessed(k)' \in SUBSET (Guessed(k) \cup (IF k \in tried THEN {f} ELSE {}))
    BY <1>1, <1>6 DEF Guessed, Recent
  <1>12. GuessesKnown'
    <2> SUFFICES ASSUME NEW k \in Names, NEW g \in Guessed(k)' PROVE g \in FailsOf(fails', k)
      BY DEF GuessesKnown
    <2>1. CASE g = f /\ k \in tried BY <1>5, <2>1
    <2>2. CASE g \in Guessed(k)
      <3>1. g \in FailsOf(fails, k) BY <2>2 DEF GuessesKnown
      <3>2. ~LongAgo(FailsOf(fails, k), f.at)
        <4> SUFFICES ASSUME NEW h \in FailsOf(fails, k), f.at - h.at >= FailWindow, g.no <= h.no PROVE FALSE
          BY <3>1 DEF LongAgo
        <4>1. g.at <= h.at + CheckTime BY <3>1 DEF FailuresInOrder
        <4>2. clock - g.at < FailWindow - CheckTime BY <2>2 DEF Guessed
        <4>3. g.at \in Nat /\ h.at \in Nat /\ f.at \in Nat /\ clock \in Nat BY <1>4, <3>1 DEF ThrottleTyped, Failure
        <4> QED BY <1>4, <4>1, <4>2, <4>3
      <3> QED BY <1>5, <3>1, <3>2
    <2> QED BY <1>11, <2>1, <2>2
  <1>13. GuessesBounded'
    <2> SUFFICES ASSUME NEW k \in Names
                 PROVE  Cardinality(Guessed(k)') + Cardinality(Trying(k)') <= FailLimit - 1 + Cardinality(Attempts)
      BY DEF GuessesBounded
    <2>1. IsFiniteSet(Guessed(k)) /\ Cardinality(Guessed(k)) \in Nat BY GuessedFinite
    <2>2. Cardinality(Guessed(k)) + Cardinality(Trying(k)) <= FailLimit - 1 + Cardinality(Attempts) BY DEF GuessesBounded
    <2>3. CASE k \in tried
      <3>1. Guessed(k)' \in SUBSET (Guessed(k) \cup {f}) BY <1>11, <2>3
      <3>2. IsFiniteSet(Guessed(k) \cup {f}) /\ Cardinality(Guessed(k) \cup {f}) <= Cardinality(Guessed(k)) + 1
            /\ Cardinality(Guessed(k) \cup {f}) \in Nat
        <4>1. IsFiniteSet(Guessed(k) \cup {f}) BY <2>1, FS_AddElement
        <4>2. Cardinality(Guessed(k) \cup {f}) =
                IF f \in Guessed(k) THEN Cardinality(Guessed(k)) ELSE Cardinality(Guessed(k)) + 1
          BY <2>1, FS_AddElement
        <4> QED BY <2>1, <4>1, <4>2
      <3>3. Cardinality(Guessed(k)') <= Cardinality(Guessed(k) \cup {f}) /\ Cardinality(Guessed(k)') \in Nat
        BY <3>1, <3>2, FS_Subset, FS_CardinalityType
      <3>4. Cardinality(Trying(k)) = Cardinality(Trying(k)') + 1 BY <1>1, <1>2, <2>3, AttemptEnds
      <3> QED BY <2>1, <2>2, <3>2, <3>3, <3>4, TryingFinite
    <2>4. CASE k \notin tried
      <3>1. Guessed(k)' \in SUBSET Guessed(k) BY <1>11, <2>4
      <3>2. Cardinality(Guessed(k)') <= Cardinality(Guessed(k)) /\ Cardinality(Guessed(k)') \in Nat
        BY <2>1, <3>1, FS_Subset, FS_CardinalityType
      <3>3. Trying(k)' = Trying(k) BY <1>1, <1>2, <2>4, AttemptEnds
      <3> QED BY <2>1, <2>2, <3>2, <3>3, TryingFinite
    <2> QED BY <2>3, <2>4
  <1> QED BY <1>8, <1>9, <1>10, <1>12, <1>13

\* However sign-ins overlap between the question to the throttle and the
\* failure it counts (routers/admin.py:145), and whatever lists its cleanup
\* drops (admin_auth.py:196): of the failures in a window less the time of a
\* check and the attempts in progress, a key has no more than FailLimit - 1 and
\* one for each attempt that may be in progress.
THEOREM GuessesAreBounded == ThrottleSpec => []GuessesBounded
  <1>1. ASSUME ThrottleInv, [ThrottleNext]_throttle PROVE ThrottleInv'
    <2>1. CASE UNCHANGED throttle
      BY <1>1, <2>1 DEF throttle, ThrottleInv, ThrottleTyped, ChecksInTime, FailuresInOrder, GuessesKnown, GuessesBounded,
         Guessed, Trying
    <2>2. CASE ThrottleNext
      BY <1>1, <2>2, AskKeeps, RefuseKeeps, WrongPasswordKeeps, RightPasswordKeeps, ThrottleTickKeeps DEF ThrottleNext
    <2> QED BY <1>1, <2>1, <2>2
  <1>2. ThrottleInv => GuessesBounded BY DEF ThrottleInv
  <1> QED BY ThrottleFirst, <1>1, <1>2, PTL DEF ThrottleSpec


-----------------------------------------------------------------------------
(***************************************************************************)
(* The sign-in by a provider. A sign-in happens at most once, and a key    *)
(* that a provider has published keeps nobody out for longer than the      *)
(* pause between two looks for it.                                         *)
(***************************************************************************)

Exchanging == [stage : {"exchange"}, state : States]
Verifying  == [stage : {"verify"}, state : States, mine : BOOLEAN, kid : Nat]

OidcTypes ==
    /\ second \in Nat
    /\ DOMAIN stored \subseteq States
    /\ callbacks \in [Callbacks -> {Unused} \cup Exchanging \cup Verifying]
    /\ signing \in Nat /\ jwks.keys \in Nat /\ jwks.at \in Int
    /\ rotated \in Int /\ missAt \in Int /\ failedAt \in Int
    /\ proved \in [States -> Nat]
    /\ keptOut \in Int

\* A state is in the table, or in one hand, or has proved one identity: never two
\* of these.
InOneHand ==
    \A s \in States :
        /\ s \in DOMAIN stored => Holding(s) = {} /\ proved[s] = 0
        /\ \A c, d \in Holding(s) : c = d
        /\ Holding(s) # {} => proved[s] = 0
        /\ proved[s] <= 1

\* While the cache lacks a published key, the last look for one failed or came
\* before the key.
KeysKnown ==
    /\ missAt <= second /\ jwks.keys <= signing
    /\ jwks.keys < signing => missAt <= failedAt \/ missAt <= rotated

OidcInv == OidcTypes /\ InOneHand /\ KeysKnown /\ RotationHeals

-----------------------------------------------------------------------------
LEMMA OidcInitial == OidcInit => OidcInv
<1> SUFFICES ASSUME OidcInit PROVE OidcInv
  OBVIOUS
<1>1. OidcTypes
  BY DEF OidcInit, OidcTypes, Never
<1>2. \A s \in States : Holding(s) = {}
  BY DEF OidcInit, Holding
<1>3. InOneHand
  BY <1>2 DEF OidcInit, InOneHand
<1>4. KeysKnown /\ RotationHeals
  BY OidcAssumption DEF OidcInit, KeysKnown, RotationHeals, Never
<1> QED BY <1>1, <1>3, <1>4 DEF OidcInv

LEMMA OidcTypesStep == OidcTypes /\ [OidcNext]_oidc => OidcTypes'
<1> SUFFICES ASSUME OidcTypes, [OidcNext]_oidc PROVE OidcTypes'
  OBVIOUS
<1> USE DEF OidcTypes
<1>1. CASE UNCHANGED oidc
  BY <1>1 DEF oidc
<1>2. ASSUME NEW s \in States, NEW b \in Browsers, NEW p \in Providers, Start(s, b, p) PROVE OidcTypes'
  BY <1>2 DEF Start
<1>3. ASSUME NEW c \in Callbacks, NEW s \in States, NEW b \in Browsers, NEW p \in Providers, Take(c, s, b, p)
      PROVE  OidcTypes'
  BY <1>3 DEF Take, TakeState, Exchanging
<1>4. ASSUME NEW c \in Callbacks, NEW mine \in BOOLEAN, NEW kid \in {signing, signing + 1},
             Exchange(c, mine, kid)
      PROVE  OidcTypes'
  <2>1. callbacks[c] \in Exchanging
    BY <1>4 DEF Exchange, Exchanging, Verifying, Unused
  <2>2. callbacks' = [callbacks EXCEPT ![c] =
                        [stage |-> "verify", state |-> callbacks[c].state, mine |-> mine, kid |-> kid]]
    BY <1>4 DEF Exchange
  <2>3. [stage |-> "verify", state |-> callbacks[c].state, mine |-> mine, kid |-> kid] \in Verifying
    BY <2>1 DEF Exchanging, Verifying
  <2>4. callbacks' \in [Callbacks -> {Unused} \cup Exchanging \cup Verifying]
    BY <2>2, <2>3
  <2> QED BY <1>4, <2>4 DEF Exchange
<1>5. ASSUME NEW c \in Callbacks, GiveUp(c) PROVE OidcTypes'
  BY <1>5 DEF GiveUp
<1>6. ASSUME NEW c \in Callbacks, Verify(c) PROVE OidcTypes'
  <2>1. callbacks[c] \in Verifying
    BY <1>6 DEF Verify, Exchanging, Verifying, Unused
  <2>2. callbacks' = [callbacks EXCEPT ![c] = Unused] /\ UNCHANGED <<second, stored, signing, rotated, failedAt>>
    BY <1>6 DEF Verify
  <2>3. jwks' = jwks \/ jwks' = [keys |-> signing, at |-> second]
    BY <1>6 DEF Verify
  <2>4. missAt' = missAt \/ missAt' = second
    BY <1>6 DEF Verify
  <2>5. proved' = proved \/ proved' = [proved EXCEPT ![callbacks[c].state] = @ + 1]
    BY <1>6 DEF Verify
  <2>6. \/ keptOut' = keptOut
        \/ keptOut' = second - failedAt
        \/ keptOut' = second - rotated
    BY <1>6 DEF Verify
  <2> QED BY <2>1, <2>2, <2>3, <2>4, <2>5, <2>6 DEF Verifying
<1>7. ASSUME NEW c \in Callbacks, VerifyWithoutKeys(c) PROVE OidcTypes'
  BY <1>7 DEF VerifyWithoutKeys
<1>8. CASE Rotate
  BY <1>8 DEF Rotate
<1>9. CASE DropExpiredStates
  BY <1>9 DEF DropExpiredStates
<1>10. CASE OidcTick
  BY <1>10 DEF OidcTick
<1> QED BY <1>1, <1>2, <1>3, <1>4, <1>5, <1>6, <1>7, <1>8, <1>9, <1>10 DEF OidcNext

-----------------------------------------------------------------------------
\* A callback that lets go of its state leaves it to nobody.
LEMMA LetGo ==
    ASSUME OidcTypes, InOneHand, NEW c \in Callbacks, callbacks[c] # Unused,
           callbacks' = [callbacks EXCEPT ![c] = Unused], UNCHANGED stored,
           \/ UNCHANGED proved
           \/ proved' = [proved EXCEPT ![callbacks[c].state] = @ + 1]
    PROVE  InOneHand'
<1>1. PICK held \in States : held = callbacks[c].state /\ c \in Holding(held)
  BY DEF OidcTypes, Exchanging, Verifying, Holding
<1>2. proved[held] = 0 /\ held \notin DOMAIN stored
  BY <1>1 DEF InOneHand
<1>3. \A s \in States : Holding(s)' = Holding(s) \ {c}
  BY DEF Holding, OidcTypes
<1>4. Holding(held)' = {}
  <2>1. Holding(held) = {c}
    BY <1>1 DEF InOneHand
  <2> QED BY <1>1, <1>3, <2>1
<1>5. proved'[held] <= 1 /\ \A s \in States \ {held} : proved'[s] = proved[s]
  BY <1>1, <1>2 DEF OidcTypes
<1> QED BY <1>1, <1>2, <1>3, <1>4, <1>5 DEF InOneHand

LEMMA InOneHandStep == OidcTypes /\ InOneHand /\ [OidcNext]_oidc => InOneHand'
<1> SUFFICES ASSUME OidcTypes, InOneHand, [OidcNext]_oidc PROVE InOneHand'
  OBVIOUS
<1>0. ASSUME UNCHANGED <<stored, callbacks, proved>> PROVE InOneHand'
  BY <1>0 DEF InOneHand, Holding
<1>1. CASE UNCHANGED oidc
  BY <1>0, <1>1 DEF oidc
<1>2. ASSUME NEW s \in States, NEW b \in Browsers, NEW p \in Providers, Start(s, b, p) PROVE InOneHand'
  <2>1. /\ Holding(s) = {} /\ proved[s] = 0 /\ DOMAIN stored' = DOMAIN stored \cup {s}
        /\ UNCHANGED <<callbacks, proved>>
    BY <1>2 DEF Start
  <2> QED BY <2>1 DEF InOneHand, Holding
<1>3. ASSUME NEW c \in Callbacks, NEW s \in States, NEW b \in Browsers, NEW p \in Providers, Take(c, s, b, p)
      PROVE  InOneHand'
  <2>1. /\ s \in DOMAIN stored /\ DOMAIN stored' = DOMAIN stored \ {s}
        /\ callbacks[c] = Unused /\ UNCHANGED proved
    BY <1>3 DEF Take, TakeState
  <2>2. Holding(s) = {} /\ proved[s] = 0
    BY <2>1 DEF InOneHand
  <2>3. CASE UNCHANGED callbacks
    BY <2>1, <2>3 DEF InOneHand, Holding
  <2>4. CASE callbacks' = [callbacks EXCEPT ![c] = [stage |-> "exchange", state |-> s]]
    <3>1. [stage |-> "exchange", state |-> s] # Unused
      BY DEF Unused
    <3>2. Holding(s)' = {c}
      BY <2>1, <2>2, <2>4, <3>1 DEF Holding, OidcTypes
    <3>3. \A x \in States \ {s} : Holding(x)' = Holding(x)
      BY <2>1, <2>4, <3>1 DEF Holding, OidcTypes
    <3> QED BY <2>1, <2>2, <3>2, <3>3 DEF InOneHand, OidcTypes
  <2> QED BY <1>3, <2>3, <2>4 DEF Take
<1>4. ASSUME NEW c \in Callbacks, NEW mine \in BOOLEAN, NEW kid \in {signing, signing + 1},
             Exchange(c, mine, kid)
      PROVE  InOneHand'
  <2>1. /\ callbacks[c] # Unused
        /\ callbacks' = [callbacks EXCEPT ![c] =
                           [stage |-> "verify", state |-> callbacks[c].state, mine |-> mine, kid |-> kid]]
        /\ UNCHANGED <<stored, proved>>
    BY <1>4 DEF Exchange, Unused
  <2>2. [stage |-> "verify", state |-> callbacks[c].state, mine |-> mine, kid |-> kid] # Unused
    BY DEF Unused
  <2>3. \A s \in States : Holding(s)' = Holding(s)
    BY <2>1, <2>2 DEF Holding, OidcTypes
  <2> QED BY <2>1, <2>3 DEF InOneHand
<1>5. ASSUME NEW c \in Callbacks, GiveUp(c) PROVE InOneHand'
  <2>1. callbacks[c] # Unused /\ callbacks' = [callbacks EXCEPT ![c] = Unused] /\ UNCHANGED <<stored, proved>>
    BY <1>5 DEF GiveUp, Unused
  <2> QED BY <2>1, LetGo
<1>6. ASSUME NEW c \in Callbacks, Verify(c) PROVE InOneHand'
  <2>1. callbacks[c] # Unused /\ callbacks' = [callbacks EXCEPT ![c] = Unused] /\ UNCHANGED stored
    BY <1>6 DEF Verify, Unused
  <2>2. proved' = proved \/ proved' = [proved EXCEPT ![callbacks[c].state] = @ + 1]
    BY <1>6 DEF Verify
  <2> QED BY <2>1, <2>2, LetGo
<1>7. ASSUME NEW c \in Callbacks, VerifyWithoutKeys(c) PROVE InOneHand'
  <2>1. callbacks[c] # Unused /\ callbacks' = [callbacks EXCEPT ![c] = Unused] /\ UNCHANGED <<stored, proved>>
    BY <1>7 DEF VerifyWithoutKeys, Unused
  <2> QED BY <2>1, LetGo
<1>8. CASE Rotate
  BY <1>0, <1>8 DEF Rotate
<1>9. CASE DropExpiredStates
  <2>1. DOMAIN stored' \subseteq DOMAIN stored /\ UNCHANGED <<callbacks, proved>>
    BY <1>9 DEF DropExpiredStates
  <2> QED BY <2>1 DEF InOneHand, Holding
<1>10. CASE OidcTick
  BY <1>0, <1>10 DEF OidcTick
<1> QED BY <1>1, <1>2, <1>3, <1>4, <1>5, <1>6, <1>7, <1>8, <1>9, <1>10 DEF OidcNext

-----------------------------------------------------------------------------
LEMMA KeysStep ==
    OidcTypes /\ KeysKnown /\ RotationHeals /\ [OidcNext]_oidc => KeysKnown' /\ RotationHeals'
<1> SUFFICES ASSUME OidcTypes, KeysKnown, RotationHeals, [OidcNext]_oidc
             PROVE  KeysKnown' /\ RotationHeals'
  OBVIOUS
<1> USE DEF KeysKnown, RotationHeals
<1>0. ASSUME UNCHANGED <<second, signing, rotated, jwks, missAt, failedAt, keptOut>>
      PROVE  KeysKnown' /\ RotationHeals'
  BY <1>0
<1>1. CASE UNCHANGED oidc
  BY <1>0, <1>1 DEF oidc
<1>2. ASSUME NEW s \in States, NEW b \in Browsers, NEW p \in Providers, Start(s, b, p)
      PROVE  KeysKnown' /\ RotationHeals'
  BY <1>0, <1>2 DEF Start
<1>3. ASSUME NEW c \in Callbacks, NEW s \in States, NEW b \in Browsers, NEW p \in Providers, Take(c, s, b, p)
      PROVE  KeysKnown' /\ RotationHeals'
  BY <1>0, <1>3 DEF Take
<1>4. ASSUME NEW c \in Callbacks, NEW mine \in BOOLEAN, NEW kid \in {signing, signing + 1},
             Exchange(c, mine, kid)
      PROVE  KeysKnown' /\ RotationHeals'
  BY <1>0, <1>4 DEF Exchange
<1>5. ASSUME NEW c \in Callbacks, GiveUp(c) PROVE KeysKnown' /\ RotationHeals'
  BY <1>0, <1>5 DEF GiveUp
<1>6. ASSUME NEW c \in Callbacks, Verify(c) PROVE KeysKnown' /\ RotationHeals'
  <2> DEFINE kid == callbacks[c].kid
  <2>0. kid \in Nat /\ UNCHANGED <<second, signing, rotated, failedAt>>
    BY <1>6 DEF Verify, OidcTypes, Exchanging, Verifying, Unused
  <2>1. CASE OldKeys \/ LooksAgain(kid)
    <3>1. jwks' = [keys |-> signing, at |-> second]
      BY <1>6, <2>1 DEF Verify
    <3>2. missAt' = missAt \/ missAt' = second
      BY <1>6 DEF Verify
    <3>3. keptOut' = keptOut
      BY <1>6, <2>0, <3>1 DEF Verify, OidcTypes
    <3> QED BY <2>0, <3>1, <3>2, <3>3 DEF OidcTypes
  <2>2. CASE ~(OldKeys \/ LooksAgain(kid))
    <3>1. jwks' = jwks /\ missAt' = missAt
      BY <1>6, <2>2 DEF Verify
    <3>2. CASE kid > jwks.keys /\ kid <= signing
      <4>1. second - missAt < MinRefetch
        BY <2>2, <3>2, OidcAssumption DEF LooksAgain, OidcTypes
      <4>2. missAt <= failedAt \/ missAt <= rotated
        BY <2>0, <3>2 DEF OidcTypes
      <4>3. \/ keptOut' = keptOut
            \/ failedAt > rotated /\ keptOut' = second - failedAt
            \/ ~(failedAt > rotated) /\ keptOut' = second - rotated
        BY <1>6 DEF Verify
      <4>4. keptOut' < MinRefetch
        BY <4>1, <4>2, <4>3, OidcAssumption DEF OidcTypes
      <4> QED BY <2>0, <3>1, <4>4
    <3>3. CASE ~(kid > jwks.keys /\ kid <= signing)
      <4>1. keptOut' = keptOut
        BY <1>6, <3>1, <3>3 DEF Verify
      <4> QED BY <2>0, <3>1, <4>1
    <3> QED BY <3>2, <3>3
  <2> QED BY <2>1, <2>2
<1>7. ASSUME NEW c \in Callbacks, VerifyWithoutKeys(c) PROVE KeysKnown' /\ RotationHeals'
  BY <1>7 DEF VerifyWithoutKeys, OidcTypes
<1>8. CASE Rotate
  BY <1>8 DEF Rotate, OidcTypes
<1>9. CASE DropExpiredStates
  BY <1>0, <1>9 DEF DropExpiredStates
<1>10. CASE OidcTick
  BY <1>10 DEF OidcTick, OidcTypes
<1> QED BY <1>1, <1>2, <1>3, <1>4, <1>5, <1>6, <1>7, <1>8, <1>9, <1>10 DEF OidcNext

-----------------------------------------------------------------------------
\* However many callbacks bring the same state at once, one of them at most ends
\* in an identity (oidc.py:193); and a user whose provider has changed its key is
\* refused for less than MinRefetch after the change or the last look that
\* failed (oidc.py:323).
THEOREM SignInCorrect == OidcSpec => []SignInSound
<1>1. OidcInv => SignInSound
  <2> SUFFICES ASSUME OidcInv, NEW s \in States
               PROVE  /\ proved[s] + Cardinality(Holding(s)) <= 1
                      /\ s \in DOMAIN stored => proved[s] = 0
    BY DEF OidcInv, SignInSound, SignInOnce
  <2> USE DEF OidcInv, InOneHand, OidcTypes
  <2>1. CASE Holding(s) = {}
    BY <2>1, FS_EmptySet
  <2>2. CASE Holding(s) # {}
    <3>1. PICK c \in Holding(s) : Holding(s) = {c}
      BY <2>2
    <3>2. Cardinality(Holding(s)) = 1
      BY <3>1, FS_Singleton
    <3>3. proved[s] = 0 /\ (s \in DOMAIN stored => proved[s] = 0)
      BY <2>2
    <3> QED BY <3>2, <3>3
  <2> QED BY <2>1, <2>2
<1>2. OidcInv /\ [OidcNext]_oidc => OidcInv'
  BY OidcTypesStep, InOneHandStep, KeysStep DEF OidcInv
<1> QED BY <1>1, <1>2, OidcInitial, PTL DEF OidcSpec
=============================================================================
