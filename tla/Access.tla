------------------------------- MODULE Access -------------------------------
(***************************************************************************)
(* Accounts, sessions, service tokens and wall links (internal/auth, the   *)
(* routes of internal/httpapi that use it).                                *)
(*                                                                         *)
(* Every operation reads a record, decides, and writes the record it read  *)
(* with its revision: the store refuses a stale one.  Requests interleave  *)
(* between those steps.  A session is loaded when the request arrives and  *)
(* stored when it is answered, if the request changed it.                  *)
(*                                                                         *)
(* A secret (a password of a person, a token of a service account) is the  *)
(* number under which it was made.  Elapsed time (a session or sudo window *)
(* that lapsed) and a failing store are the action Fails.                  *)
(***************************************************************************)
EXTENDS Naturals, FiniteSets

CONSTANTS
    Ids,         \* account ids
    Names,       \* usernames
    Identities,  \* issuer and subject at the identity provider
    Requests,    \* requests in flight at once
    MaxTokens,   \* session tokens made
    MaxLinks,    \* MaxWallLinks
    MaxServed,   \* requests that arrive
    Nobody       \* no account, no session, no identity

ASSUME AccessAssumption ==
    /\ MaxTokens \in Nat \ {0, 1}
    /\ MaxLinks \in Nat \ {0}
    /\ MaxServed \in Nat
    /\ Cardinality(Ids) > 2
    /\ Cardinality(Names) > 1

VARIABLES
    users,    \* [Ids -> the stored record or Nobody]
    deleted,  \* ids whose record was deleted
    settings, \* the settings record: wall links and revision
    revoked,  \* wall links that were revoked
    sess,     \* [Tokens -> what the session store holds or Nobody]
    req,      \* [Requests -> the request in flight]
    setupMu,  \* the request that holds setupMu, or Nobody
    made,     \* secrets, session tokens and links made so far
    served

accessVars == <<users, deleted, settings, revoked, sess, req, setupMu, made, served>>

Tokens == 1 .. MaxTokens

User(kind, role, name, secret) ==
    [kind |-> kind, role |-> role, name |-> name, secret |-> secret, ident |-> Nobody, rev |-> 0]

Session(user, link) == [user |-> user, link |-> link]

Idle == [pc |-> "idle", op |-> Nobody, id |-> Nobody, rec |-> Nobody, arg |-> Nobody,
         tok |-> 0, data |-> Nobody, dirty |-> FALSE, tries |-> 0]

Present == {i \in Ids : users[i] # Nobody}
People == {i \in Present : users[i].kind = "person"}
Admins == {i \in Present : users[i].role = "admin"}

TwoAdmins(i, j, p, q) ==
    [k \in Ids |-> IF k = i THEN [User("person", "admin", p, 1) EXCEPT !.rev = 1]
                  ELSE IF k = j THEN [User("person", "admin", q, 2) EXCEPT !.rev = 1]
                  ELSE Nobody]

\* An instance before setup, and one with two admins who are signed in.
AccessInit ==
    /\ \/ users = [i \in Ids |-> Nobody] /\ sess = [t \in Tokens |-> Nobody]
       \/ \E i, j \in Ids, p, q \in Names :
            /\ i # j /\ p # q
            /\ users = TwoAdmins(i, j, p, q)
            /\ sess = [t \in Tokens |-> IF t = 1 THEN Session(i, Nobody)
                                   ELSE IF t = 2 THEN Session(j, Nobody) ELSE Nobody]
    /\ made = [secret |-> 2, token |-> 2, link |-> 0]
    /\ settings = [links |-> {}, rev |-> IF Present = {} THEN 0 ELSE 1]
    /\ deleted = {} /\ revoked = {}
    /\ req = [r \in Requests |-> Idle]
    /\ setupMu = Nobody
    /\ served = 0
----------------------------------------------------------------------------
(***************************************************************************)
(* What an operation reads and the conditional write of the store.         *)
(***************************************************************************)
CurrentUser(d) ==
    /\ d # Nobody
    /\ d.user \in People
    /\ d.link # Nobody => users[d.user].ident = d.link

FindByUsername(n) == {i \in Present : users[i].name = n}
FindByIdentity(x) == {i \in People : users[i].ident = x}
refuseIfLastAdmin(id) == Admins \ {id} = {}

\* newID is random: an id that no account has or had and no request names.
newID(id) == id \notin deleted \cup Present \cup {req[q].id : q \in Requests}

\* userStore.Put takes the record when its revision is the stored one.
Puts(id, rec) == rec.rev = IF users[id] = Nobody THEN 0 ELSE users[id].rev

Stored(id, rec) == [users EXCEPT ![id] = [rec EXCEPT !.rev = @ + 1]]

To(r, pc) == [req EXCEPT ![r].pc = pc]
Answered(r) == [req EXCEPT ![r] = Idle]
\* The sudo middleware stamps the session of a request that succeeded.
Touched(r) == [req EXCEPT ![r].pc = "answer", ![r].dirty = req[r].data # Nobody]

AdminOps == {"createUser", "createServiceAccount", "setRole", "deleteUser", "setPassword",
             "rotateToken", "unlinkIdentity", "createWallLink", "revokeWallLink"}

SelfOps == {"changePassword", "openSudo"}

\* wrapRoute: the session is loaded, the account and its role are read.
Arrive(r, t, op, id) ==
    /\ req[r].pc = "idle" /\ served < MaxServed
    /\ CurrentUser(sess[t])
    /\ op \in AdminOps => users[sess[t].user].role = "admin"
    /\ op \in {"createUser", "createServiceAccount"} => newID(id)
    /\ op \in SelfOps \cup {"createWallLink", "revokeWallLink"} => id = sess[t].user
    /\ req' = [req EXCEPT ![r] = [Idle EXCEPT !.pc = "get", !.op = op, !.id = id,
                                              !.tok = t, !.data = sess[t]]]
    /\ served' = served + 1
    /\ UNCHANGED <<users, deleted, settings, revoked, sess, setupMu, made>>

\* The store fails, the client is gone, or a window lapsed: nothing more is written.
Fails(r) ==
    /\ req[r].pc \notin {"idle", "answer"}
    /\ req' = Answered(r)
    /\ setupMu' = IF setupMu = r THEN Nobody ELSE setupMu
    /\ UNCHANGED <<users, deleted, settings, revoked, sess, made, served>>

\* LoadAndSave stores a session the request changed, whether or not it is still there.
Answer(r) ==
    /\ req[r].pc = "answer"
    /\ sess' = IF req[r].dirty THEN [sess EXCEPT ![req[r].tok] = req[r].data] ELSE sess
    /\ req' = Answered(r)
    /\ setupMu' = IF setupMu = r THEN Nobody ELSE setupMu
    /\ UNCHANGED <<users, deleted, settings, revoked, made, served>>

\* RenewToken deletes the session t the request came with; q goes on in a new one,
\* which Answer stores.
StartSession(r, t, q, data) ==
    /\ made.token < MaxTokens
    /\ made' = [made EXCEPT !.token = @ + 1]
    /\ sess' = IF t = 0 THEN sess ELSE [sess EXCEPT ![t] = Nobody]
    /\ req' = [req EXCEPT ![r] = [q EXCEPT !.tok = made.token + 1, !.data = data, !.dirty = TRUE]]

\* Users().Get: the record, and where the operation goes with it.
Get(r) ==
    /\ req[r].pc = "get"
    /\ req[r].op \in {"setRole", "deleteUser", "setPassword", "rotateToken",
                      "unlinkIdentity", "changePassword"}
    /\ LET u == users[req[r].id] IN
       req' = IF \/ u = Nobody
                 \/ req[r].op = "rotateToken" /\ u.kind # "service"
                 \/ req[r].op = "unlinkIdentity" /\ u.ident = Nobody
                 \/ req[r].op = "setRole" /\ u.role = "admin" /\ req[r].id = req[r].data.user
                 \/ req[r].op = "changePassword" /\ ~CurrentUser(req[r].data)
                THEN Answered(r)
                ELSE [req EXCEPT ![r].rec = u,
                                 ![r].pc = IF req[r].op \in {"setRole", "deleteUser"}
                                              /\ u.role = "admin" THEN "list" ELSE "put"]
    /\ UNCHANGED <<users, deleted, settings, revoked, sess, setupMu, made, served>>

\* refuseIfLastAdmin lists the accounts, in a step of its own.
List(r) ==
    /\ req[r].pc = "list"
    /\ req' = IF refuseIfLastAdmin(req[r].id) THEN Answered(r) ELSE To(r, "put")
    /\ UNCHANGED <<users, deleted, settings, revoked, sess, setupMu, made, served>>

\* A conditional write of what the operation made of the record it read.
Write(r, rec) ==
    /\ IF Puts(req[r].id, rec)
         THEN users' = Stored(req[r].id, rec) /\ req' = Touched(r)
         ELSE users' = users /\ req' = Answered(r)
    /\ UNCHANGED <<deleted, settings, revoked, sess, setupMu, served>>

SetRole(r) ==
    /\ req[r].op = "setRole" /\ req[r].pc = "put"
    /\ Write(r, [req[r].rec EXCEPT !.role = IF @ = "admin" THEN "reader" ELSE "admin"])
    /\ UNCHANGED made

SetPassword(r) ==
    /\ req[r].op = "setPassword" /\ req[r].pc = "put"
    /\ Write(r, [req[r].rec EXCEPT !.secret = made.secret + 1])
    /\ made' = [made EXCEPT !.secret = @ + 1]

RotateToken(r) ==
    /\ req[r].op = "rotateToken" /\ req[r].pc = "put"
    /\ Write(r, [req[r].rec EXCEPT !.secret = made.secret + 1])
    /\ made' = [made EXCEPT !.secret = @ + 1]

\* A session through the link that is gone ends with the request.
UnlinkIdentity(r) ==
    /\ req[r].op = "unlinkIdentity" /\ req[r].pc = "put"
    /\ LET own == req[r].data.user = req[r].id /\ req[r].data.link # Nobody
           ok == Puts(req[r].id, req[r].rec) IN
       /\ users' = IF ok THEN Stored(req[r].id, [req[r].rec EXCEPT !.ident = Nobody]) ELSE users
       /\ sess' = IF ok /\ own THEN [sess EXCEPT ![req[r].tok] = Nobody] ELSE sess
       /\ req' = IF ok /\ ~own THEN Touched(r) ELSE Answered(r)
    /\ UNCHANGED <<deleted, settings, revoked, setupMu, made, served>>

\* The delete carries no revision.
DeleteUser(r) ==
    /\ req[r].op = "deleteUser" /\ req[r].pc = "put"
    /\ users' = [users EXCEPT ![req[r].id] = Nobody]
    /\ deleted' = deleted \cup {req[r].id}
    /\ req' = IF users[req[r].id] = Nobody THEN Answered(r) ELSE Touched(r)
    /\ UNCHANGED <<settings, revoked, sess, setupMu, made, served>>

\* ChangePassword: the record is stored, then the sessions are listed and deleted.
ChangePassword(r) ==
    /\ req[r].op = "changePassword" /\ req[r].pc = "put"
    /\ made' = [made EXCEPT !.secret = @ + 1]
    /\ LET rec == [req[r].rec EXCEPT !.secret = made.secret + 1] IN
       IF Puts(req[r].id, rec)
         THEN users' = Stored(req[r].id, rec) /\ req' = To(r, "invalidate")
         ELSE users' = users /\ req' = Answered(r)
    /\ UNCHANGED <<deleted, settings, revoked, sess, setupMu, served>>

InvalidateList(r) ==
    /\ req[r].pc = "invalidate"
    /\ req' = [req EXCEPT ![r].pc = "invalidating",
                          ![r].arg = {t \in Tokens : sess[t] # Nobody} \ {req[r].tok}]
    /\ UNCHANGED <<users, deleted, settings, revoked, sess, setupMu, made, served>>

InvalidateAllExcept(r) ==
    /\ req[r].pc = "invalidating"
    /\ sess' = [t \in Tokens |-> IF t \in req[r].arg THEN Nobody ELSE sess[t]]
    /\ req' = Touched(r)
    /\ UNCHANGED <<users, deleted, settings, revoked, setupMu, made, served>>

\* CreateUser and CreateServiceAccount look for the name and then store a new record.
FindName(r, n) ==
    /\ req[r].pc = "get" /\ req[r].op \in {"createUser", "createServiceAccount"}
    /\ req' = IF FindByUsername(n) # {} THEN Answered(r)
              ELSE [req EXCEPT ![r].pc = "put", ![r].arg = n]
    /\ UNCHANGED <<users, deleted, settings, revoked, sess, setupMu, made, served>>

CreateUser(r, role) ==
    /\ req[r].op = "createUser" /\ req[r].pc = "put"
    /\ Write(r, User("person", role, req[r].arg, made.secret + 1))
    /\ made' = [made EXCEPT !.secret = @ + 1]

CreateServiceAccount(r, role) ==
    /\ req[r].op = "createServiceAccount" /\ req[r].pc = "put"
    /\ Write(r, User("service", role, req[r].arg, made.secret + 1))
    /\ made' = [made EXCEPT !.secret = @ + 1]
----------------------------------------------------------------------------
(***************************************************************************)
(* Signing in: by password, by token, through the provider; first setup.   *)
(***************************************************************************)
\* Login with the right password, with or without a session cookie.
Login(r, i, t) ==
    /\ req[r].pc = "idle" /\ served < MaxServed
    /\ i \in People
    /\ StartSession(r, t, [Idle EXCEPT !.pc = "rehash", !.op = "login", !.id = i, !.rec = users[i]],
                    Session(i, Nobody))
    /\ served' = served + 1
    /\ UNCHANGED <<users, deleted, settings, revoked, setupMu>>

\* rehashIfOutdated stores the record the login read, or the hash is up to date.
rehashIfOutdated(r) ==
    /\ req[r].pc = "rehash"
    /\ users' \in {users} \cup IF Puts(req[r].id, req[r].rec)
                                 THEN {Stored(req[r].id, req[r].rec)} ELSE {}
    /\ req' = To(r, "answer")
    /\ UNCHANGED <<deleted, settings, revoked, sess, setupMu, made, served>>

\* The password, or a fresh sign-in at the provider under the identity the account is
\* linked to, opens the sudo window: a stamp in the session.
openSudo(r) ==
    /\ req[r].pc = "get" /\ req[r].op = "openSudo"
    /\ req' = IF CurrentUser(req[r].data) THEN Touched(r) ELSE Answered(r)
    /\ UNCHANGED <<users, deleted, settings, revoked, sess, setupMu, made, served>>

completeSudo(r, x) ==
    /\ req[r].pc = "get" /\ req[r].op = "openSudo"
    /\ CurrentUser(req[r].data) /\ users[req[r].id].ident = x
    /\ req' = Touched(r)
    /\ UNCHANGED <<users, deleted, settings, revoked, sess, setupMu, made, served>>

\* A session that is over is removed by whoever lists the sessions.
reapExpired(t) ==
    /\ sess[t] # Nobody
    /\ sess' = [sess EXCEPT ![t] = Nobody]
    /\ UNCHANGED <<users, deleted, settings, revoked, req, setupMu, made, served>>

Logout(r, t) ==
    /\ req[r].pc = "idle" /\ served < MaxServed
    /\ sess[t] # Nobody
    /\ sess' = [sess EXCEPT ![t] = Nobody]
    /\ served' = served + 1
    /\ UNCHANGED <<users, deleted, settings, revoked, req, setupMu, made>>

\* AuthenticateToken finds the account whose token this is.
AuthenticateToken(r, i) ==
    /\ req[r].pc = "idle" /\ served < MaxServed
    /\ users[i] # Nobody /\ users[i].kind = "service"
    /\ req' = [req EXCEPT ![r] = [Idle EXCEPT !.pc = "note", !.id = i, !.rec = users[i]]]
    /\ served' = served + 1
    /\ UNCHANGED <<users, deleted, settings, revoked, sess, setupMu, made>>

\* noteTokenUse stores that record with the time of use; a refusal is ignored.
noteTokenUse(r) ==
    /\ req[r].pc = "note"
    /\ users' = IF Puts(req[r].id, req[r].rec) THEN Stored(req[r].id, req[r].rec) ELSE users
    /\ req' = Answered(r)
    /\ UNCHANGED <<deleted, settings, revoked, sess, setupMu, made, served>>

\* createFirstUser: setupMu is held until the answer.
SetupLock(r) ==
    /\ req[r].pc = "idle" /\ served < MaxServed
    /\ setupMu = Nobody
    /\ setupMu' = r
    /\ req' = [req EXCEPT ![r] = [Idle EXCEPT !.pc = "setup", !.op = "setup"]]
    /\ served' = served + 1
    /\ UNCHANGED <<users, deleted, settings, revoked, sess, made>>

SetupList(r) ==
    /\ req[r].pc = "setup"
    /\ req' = IF Present # {} THEN Answered(r) ELSE To(r, "setupPut")
    /\ setupMu' = IF Present # {} THEN Nobody ELSE setupMu
    /\ UNCHANGED <<users, deleted, settings, revoked, sess, made, served>>

SetupUser(r, i, n) ==
    /\ req[r].pc = "setupPut" /\ newID(i)
    /\ users' = Stored(i, User("person", "admin", n, made.secret + 1))
    /\ made' = [made EXCEPT !.secret = @ + 1]
    /\ req' = [req EXCEPT ![r].pc = "setupSettings", ![r].id = i]
    /\ UNCHANGED <<deleted, settings, revoked, sess, setupMu, served>>

\* The settings record is new, or setup ends in an error; then the session starts.
SetupSettings(r) ==
    /\ req[r].pc = "setupSettings"
    /\ IF settings.rev = 0
         THEN /\ settings' = [settings EXCEPT !.rev = 1]
              /\ StartSession(r, 0, [req[r] EXCEPT !.pc = "answer"], Session(req[r].id, Nobody))
              /\ setupMu' = setupMu
         ELSE /\ req' = Answered(r) /\ setupMu' = Nobody
              /\ UNCHANGED <<settings, sess, made>>
    /\ UNCHANGED <<users, deleted, revoked, served>>

\* oidcCallback comes back with identity x: the account bound to it, or the first binding.
completeLogin(r, x) ==
    /\ req[r].pc = "idle" /\ served < MaxServed
    /\ served' = served + 1
    /\ req' = [req EXCEPT ![r] = [Idle EXCEPT !.op = "oidc", !.arg = x,
                    !.pc = IF FindByIdentity(x) = {} THEN "single" ELSE "provider",
                    !.id = IF FindByIdentity(x) = {} THEN Nobody
                           ELSE CHOOSE i \in FindByIdentity(x) : TRUE]]
    /\ UNCHANGED <<users, deleted, settings, revoked, sess, setupMu, made>>

\* bindFirstIdentity: only where one person has an account.
bindFirstIdentity(r) ==
    /\ req[r].pc = "single"
    /\ req' = IF Cardinality(People) # 1 THEN Answered(r)
              ELSE [req EXCEPT ![r].pc = "bind", ![r].id = CHOOSE i \in People : TRUE]
    /\ UNCHANGED <<users, deleted, settings, revoked, sess, setupMu, made, served>>

\* The loop of BindIdentity reads the account,
BindRead(r) ==
    /\ req[r].pc = "bind"
    /\ LET u == users[req[r].id] IN
       req' = IF u = Nobody \/ u.kind = "service" THEN Answered(r)
              ELSE IF u.ident = Nobody THEN [req EXCEPT ![r].pc = "bindPut", ![r].rec = u]
              ELSE IF u.ident = req[r].arg THEN To(r, "provider")
              ELSE Answered(r)
    /\ UNCHANGED <<users, deleted, settings, revoked, sess, setupMu, made, served>>

\* and stores it; a conflict is tried once more.
BindIdentity(r) ==
    /\ req[r].pc = "bindPut"
    /\ IF Puts(req[r].id, req[r].rec)
         THEN /\ users' = Stored(req[r].id, [req[r].rec EXCEPT !.ident = req[r].arg])
              /\ req' = To(r, "provider")
         ELSE /\ users' = users
              /\ req' = IF req[r].tries = 0
                          THEN [req EXCEPT ![r].pc = "bind", ![r].tries = 1] ELSE Answered(r)
    /\ UNCHANGED <<deleted, settings, revoked, sess, setupMu, made, served>>

\* The session remembers the link it came through.
StartProviderSession(r) ==
    /\ req[r].pc = "provider"
    /\ StartSession(r, 0, [req[r] EXCEPT !.pc = "answer"], Session(req[r].id, req[r].arg))
    /\ UNCHANGED <<users, deleted, settings, revoked, setupMu, served>>
----------------------------------------------------------------------------
(***************************************************************************)
(* Wall links live in the settings record.                                 *)
(***************************************************************************)
\* currentSettings; a full list takes no further link.
GetSettings(r) ==
    /\ req[r].pc = "get" /\ req[r].op \in {"createWallLink", "revokeWallLink"}
    /\ req' = IF req[r].op = "createWallLink" /\ Cardinality(settings.links) >= MaxLinks
                THEN Answered(r) ELSE [req EXCEPT ![r].pc = "put", ![r].rec = settings]
    /\ UNCHANGED <<users, deleted, settings, revoked, sess, setupMu, made, served>>

WriteLinks(r, links) ==
    /\ IF req[r].rec.rev = settings.rev
         THEN settings' = [links |-> links, rev |-> settings.rev + 1] /\ req' = Touched(r)
         ELSE settings' = settings /\ req' = Answered(r)
    /\ UNCHANGED <<users, deleted, sess, setupMu, served>>

CreateWallLink(r) ==
    /\ req[r].op = "createWallLink" /\ req[r].pc = "put"
    /\ WriteLinks(r, req[r].rec.links \cup {made.link + 1})
    /\ made' = [made EXCEPT !.link = @ + 1]
    /\ UNCHANGED revoked

RevokeWallLink(r, k) ==
    /\ req[r].op = "revokeWallLink" /\ req[r].pc = "put"
    /\ k \in req[r].rec.links
    /\ WriteLinks(r, req[r].rec.links \ {k})
    /\ revoked' = IF req[r].rec.rev = settings.rev THEN revoked \cup {k} ELSE revoked
    /\ UNCHANGED made

\* AuthenticateWallLink reads the settings the link is in,
AuthenticateWallLink(r, k) ==
    /\ req[r].pc = "idle" /\ served < MaxServed
    /\ k \in settings.links
    /\ req' = [req EXCEPT ![r] = [Idle EXCEPT !.pc = "noteLink", !.rec = settings]]
    /\ served' = served + 1
    /\ UNCHANGED <<users, deleted, settings, revoked, sess, setupMu, made>>

\* Mutant: the use is noted whatever happened to the record in between.
noteAlways(r) ==
    /\ req[r].pc = "noteLink"
    /\ settings' = [req[r].rec EXCEPT !.rev = settings.rev + 1]
    /\ req' = Answered(r)
    /\ UNCHANGED <<users, deleted, revoked, sess, setupMu, made, served>>

\* and noteWallLinkUse stores them with the time of use.
noteWallLinkUse(r) ==
    /\ req[r].pc = "noteLink"
    /\ settings' = IF req[r].rec.rev = settings.rev
                     THEN [req[r].rec EXCEPT !.rev = @ + 1] ELSE settings
    /\ req' = Answered(r)
    /\ UNCHANGED <<users, deleted, revoked, sess, setupMu, made, served>>
----------------------------------------------------------------------------
AccessNext ==
    \/ \E t \in Tokens : reapExpired(t)
    \/ \E r \in Requests :
       \/ \E t \in Tokens, op \in AdminOps \cup SelfOps, i \in Ids : Arrive(r, t, op, i)
       \/ Fails(r) \/ Answer(r) \/ Get(r) \/ List(r)
       \/ SetRole(r) \/ SetPassword(r) \/ RotateToken(r) \/ UnlinkIdentity(r)
       \/ DeleteUser(r) \/ ChangePassword(r) \/ InvalidateList(r) \/ InvalidateAllExcept(r)
       \/ \E n \in Names : FindName(r, n)
       \/ \E role \in {"admin", "reader"} : CreateUser(r, role) \/ CreateServiceAccount(r, role)
       \/ \E i \in Ids, t \in Tokens \cup {0} : Login(r, i, t)
       \/ rehashIfOutdated(r) \/ noteTokenUse(r)
       \/ \E t \in Tokens : Logout(r, t)
       \/ \E i \in Ids : AuthenticateToken(r, i)
       \/ SetupLock(r) \/ SetupList(r) \/ SetupSettings(r)
       \/ \E i \in Ids, n \in Names : SetupUser(r, i, n)
       \/ openSudo(r)
       \/ \E x \in Identities : completeLogin(r, x) \/ completeSudo(r, x)
       \/ bindFirstIdentity(r) \/ BindRead(r) \/ BindIdentity(r) \/ StartProviderSession(r)
       \/ GetSettings(r) \/ CreateWallLink(r) \/ noteWallLinkUse(r)
       \/ \E k \in 1 .. made.link : RevokeWallLink(r, k) \/ AuthenticateWallLink(r, k)

AccessSpec == AccessInit /\ [][AccessNext]_accessVars
----------------------------------------------------------------------------
(***************************************************************************)
(* Properties.                                                             *)
(***************************************************************************)
\* What was replaced or withdrawn never works again: a changed password or a rotated
\* token, a deleted account and a revoked wall link.  The writes of a sign-in, of a use
\* of a token or a link that was read before the change must not bring it back
\* (rehashIfOutdated, noteTokenUse, noteWallLinkUse store the record they read).
RevokedStaysRevoked ==
    [][/\ settings'.links \cap revoked' = {}
       /\ deleted' \cap Present' = {}
       /\ \A i \in Present \cap Present' : users'[i].secret >= users[i].secret]_accessVars

=============================================================================
