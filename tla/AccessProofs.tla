---------------------------- MODULE AccessProofs ----------------------------
(***************************************************************************)
(* Theorems about who may do what, for any number of accounts, sessions,   *)
(* requests, links and routes taken at once.                               *)
(***************************************************************************)
EXTENDS Access, HttpChain, FiniteSetTheorems, TLAPS

----------------------------------------------------------------------------
(***************************************************************************)
(* Accounts and links: what was withdrawn stays withdrawn.                 *)
(***************************************************************************)

Creating == {"createUser", "createServiceAccount"}
OfLinks == {"createWallLink", "revokeWallLink"}

\* A stored account.
IsUser(u) ==
    /\ DOMAIN u = {"kind", "role", "name", "secret", "ident", "rev"}
    /\ u.secret \in Nat /\ u.rev \in Nat \ {0}

\* The requests that carry an account they read, those that carry the settings, and
\* those that carry an id they are going to make an account of.
HoldsUser(r) ==
    \/ req[r].pc \in {"rehash", "note", "bindPut"}
    \/ req[r].pc \in {"list", "put"} /\ req[r].op \notin Creating \cup OfLinks
HoldsLinks(r) ==
    \/ req[r].pc = "noteLink"
    \/ req[r].pc = "put" /\ req[r].op \in OfLinks
HoldsNewId(r) == req[r].pc \in {"get", "put"} /\ req[r].op \in Creating
NamesAnId(r) == req[r].pc \in {"get", "list", "put", "rehash", "note", "bind", "bindPut"}

ReqInv ==
    /\ DOMAIN req = Requests
    /\ \A r \in Requests :
         /\ DOMAIN req[r] = {"pc", "op", "id", "rec", "arg", "tok", "data", "dirty", "tries"}
         /\ NamesAnId(r) => req[r].id \in Ids
         /\ req[r].pc = "list" => req[r].op \notin Creating \cup OfLinks

\* A secret is never newer than the last one made.
UsersInv ==
    /\ DOMAIN users = Ids
    /\ \A i \in Present : IsUser(users[i]) /\ users[i].secret <= made.secret
    /\ deleted \cap Present = {}
    /\ DOMAIN made = {"secret", "token", "link"} /\ made.secret \in Nat

\* A record a request read is older than the stored one, or is the stored one.
ReadInv ==
    \A r \in Requests : HoldsUser(r) =>
      /\ IsUser(req[r].rec)
      /\ req[r].id \in Present =>
           \/ req[r].rec.rev < users[req[r].id].rev
           \/ req[r].rec = users[req[r].id]

\* The id of an account to come is nobody's, and no other request has it in hand.
NewIdInv ==
    \A r \in Requests : HoldsNewId(r) =>
      /\ req[r].id \notin deleted \cup Present
      /\ \A q \in Requests \ {r} : HoldsNewId(q) \/ HoldsUser(q) => req[q].id # req[r].id

LinksInv ==
    /\ DOMAIN settings = {"links", "rev"} /\ settings.rev \in Nat
    /\ made.link \in Nat
    /\ settings.links \subseteq 1 .. made.link /\ revoked \subseteq 1 .. made.link
    /\ settings.links \cap revoked = {}
    /\ \A r \in Requests : HoldsLinks(r) =>
         /\ DOMAIN req[r].rec = {"links", "rev"} /\ req[r].rec.rev \in Nat
         /\ req[r].rec.rev < settings.rev \/ req[r].rec = settings

AccessInv == ReqInv /\ UsersInv /\ ReadInv /\ NewIdInv /\ LinksInv

\* No step brings back what was withdrawn.
AccessStep ==
    /\ settings'.links \cap revoked' = {}
    /\ deleted' \cap Present' = {}
    /\ \A i \in Present \cap Present' : users'[i].secret >= users[i].secret

\* Secrets may have been made, and no link.
SecretsAdvance ==
    /\ DOMAIN made' = DOMAIN made /\ made'.link = made.link
    /\ made'.secret \in Nat /\ made'.secret >= made.secret

\* What requests read and named is only looked at: an action that lets one request go on
\* without a record keeps all of it.
LEMMA RequestMoves ==
    ASSUME AccessInv, UNCHANGED <<users, deleted, settings, revoked>>,
           made' = made \/ SecretsAdvance,
           NEW r \in Requests, DOMAIN req' = Requests,
           \A q \in Requests \ {r} : req'[q] = req[q],
           DOMAIN req'[r] = DOMAIN req[r],
           NamesAnId(r)' => req'[r].id \in Ids,
           req'[r].pc = "list" => req'[r].op \notin Creating \cup OfLinks,
           HoldsUser(r)' => /\ IsUser(req'[r].rec)
                            /\ req'[r].id \in Present =>
                                 \/ req'[r].rec.rev < users[req'[r].id].rev
                                 \/ req'[r].rec = users[req'[r].id]
                            /\ \A q \in Requests \ {r} : HoldsNewId(q) => req[q].id # req'[r].id,
           HoldsNewId(r)' => /\ req'[r].id \notin deleted \cup Present
                             /\ \A q \in Requests \ {r} :
                                  HoldsNewId(q) \/ HoldsUser(q) => req[q].id # req'[r].id,
           HoldsLinks(r)' => /\ DOMAIN req'[r].rec = {"links", "rev"} /\ req'[r].rec.rev \in Nat
                             /\ req'[r].rec.rev < settings.rev \/ req'[r].rec = settings
    PROVE  AccessInv' /\ AccessStep
<1>1. /\ Present' = Present
      /\ \A q \in Requests \ {r} : /\ HoldsUser(q)' <=> HoldsUser(q)
                                   /\ HoldsLinks(q)' <=> HoldsLinks(q)
                                   /\ HoldsNewId(q)' <=> HoldsNewId(q)
                                   /\ NamesAnId(q)' <=> NamesAnId(q)
    BY DEF Present, HoldsUser, HoldsLinks, HoldsNewId, NamesAnId
<1>2. ReqInv'
    BY <1>1 DEF AccessInv, ReqInv
<1>3. UsersInv'
    BY <1>1 DEF AccessInv, UsersInv, SecretsAdvance, IsUser
<1>4. ReadInv'
    BY <1>1 DEF AccessInv, ReadInv
<1>5. NewIdInv'
    BY <1>1 DEF AccessInv, NewIdInv
<1>6. LinksInv'
    BY <1>1 DEF AccessInv, LinksInv, SecretsAdvance
<1>7. AccessStep
    BY <1>1 DEF AccessStep, AccessInv, LinksInv, UsersInv, IsUser
<1> QED
    BY <1>2, <1>3, <1>4, <1>5, <1>6, <1>7 DEF AccessInv

\* A request that is over, or that carries nothing any more.
Bare(r) == ~NamesAnId(r)' /\ ~HoldsLinks(r)'

\* A request that puts its record down and changes nothing else.
LEMMA RequestDone ==
    ASSUME AccessInv, UNCHANGED <<users, deleted, settings, revoked>>,
           made' = made \/ SecretsAdvance,
           NEW r \in Requests, DOMAIN req' = Requests,
           \A q \in Requests \ {r} : req'[q] = req[q],
           DOMAIN req'[r] = DOMAIN req[r],
           Bare(r)
    PROVE  AccessInv' /\ AccessStep
<1>1. ~HoldsUser(r)' /\ ~HoldsNewId(r)'
    BY DEF Bare, NamesAnId, HoldsUser, HoldsNewId
<1>2. req'[r].pc # "list"
    BY DEF Bare, NamesAnId
<1> QED
    BY <1>1, <1>2, RequestMoves DEF Bare

\* The conditional write: what is stored was made of the stored record itself.
LEMMA RecordRewritten ==
    ASSUME AccessInv, UNCHANGED <<deleted, settings, revoked>>,
           SecretsAdvance,
           NEW r \in Requests, HoldsUser(r), DOMAIN req' = Requests,
           \A q \in Requests \ {r} : req'[q] = req[q],
           DOMAIN req'[r] = DOMAIN req[r],
           Bare(r),
           NEW rec, DOMAIN rec = DOMAIN req[r].rec, rec.rev = req[r].rec.rev,
           rec.secret \in Nat,
           \/ rec.secret = req[r].rec.secret
           \/ rec.secret >= made.secret /\ rec.secret <= made'.secret,
           Puts(req[r].id, rec), users' = Stored(req[r].id, rec)
    PROVE  AccessInv' /\ AccessStep
<1> DEFINE i == req[r].id
           new == [rec EXCEPT !.rev = @ + 1]
<1>1. i \in Ids /\ IsUser(req[r].rec)
    BY DEF AccessInv, ReqInv, ReadInv, HoldsUser, NamesAnId
<1>2. i \in Present /\ rec.rev = users[i].rev /\ req[r].rec = users[i]
    <2>1. users[i] # Nobody /\ rec.rev = users[i].rev
        BY <1>1 DEF Puts, IsUser
    <2>2. i \in Present
        BY <1>1, <2>1 DEF Present
    <2>3. users[i].rev \in Nat
        BY <2>2 DEF AccessInv, UsersInv, IsUser
    <2>4. req[r].rec.rev < users[i].rev \/ req[r].rec = users[i]
        BY <2>2 DEF AccessInv, ReadInv
    <2> QED
        BY <2>1, <2>2, <2>3, <2>4
<1>m. rec.secret >= users[i].secret /\ rec.secret <= made'.secret
    BY <1>2 DEF AccessInv, UsersInv, IsUser, SecretsAdvance
<1>3. IsUser(new) /\ new.rev = users[i].rev + 1 /\ new.secret = rec.secret
    BY <1>1, <1>2 DEF IsUser
<1>4. /\ DOMAIN users' = Ids /\ users'[i] = new
      /\ \A j \in Ids \ {i} : users'[j] = users[j]
    BY <1>1 DEF Stored, AccessInv, UsersInv
<1> HIDE DEF i, new
<1>5. Present' \subseteq Present
    BY <1>2, <1>4 DEF Present
<1>6. /\ \A q \in Requests \ {r} : /\ HoldsUser(q)' <=> HoldsUser(q)
                                   /\ HoldsLinks(q)' <=> HoldsLinks(q)
                                   /\ HoldsNewId(q)' <=> HoldsNewId(q)
                                   /\ NamesAnId(q)' <=> NamesAnId(q)
      /\ ~HoldsUser(r)' /\ ~HoldsLinks(r)' /\ ~HoldsNewId(r)' /\ ~NamesAnId(r)'
    BY DEF Bare, HoldsUser, HoldsLinks, HoldsNewId, NamesAnId
<1>7. ReqInv'
    BY <1>6 DEF AccessInv, ReqInv, NamesAnId
<1>8. UsersInv'
    <2>1. \A j \in Present' : IsUser(users'[j]) /\ users'[j].secret <= made'.secret
        <3> TAKE j \in Present'
        <3>1. CASE j = i
            BY <3>1, <1>m, <1>3, <1>4
        <3>2. CASE j # i
            BY <3>2, <1>4, <1>5 DEF AccessInv, UsersInv, IsUser, Present, SecretsAdvance
        <3> QED
            BY <3>1, <3>2
    <2> QED
        BY <2>1, <1>4, <1>5 DEF AccessInv, UsersInv, SecretsAdvance
<1>9. ReadInv'
    <2> SUFFICES ASSUME NEW q \in Requests, HoldsUser(q)'
                 PROVE  /\ IsUser(req'[q].rec)
                        /\ req'[q].id \in Present' =>
                             \/ req'[q].rec.rev < users'[req'[q].id].rev
                             \/ req'[q].rec = users'[req'[q].id]
        BY DEF ReadInv
    <2>1. q # r /\ HoldsUser(q) /\ req'[q] = req[q] /\ IsUser(req[q].rec)
        BY <1>6 DEF AccessInv, ReadInv
    <2>2. CASE req[q].id = i
        BY <2>1, <2>2, <1>2, <1>3, <1>4 DEF AccessInv, ReadInv, IsUser
    <2>3. CASE req[q].id # i
        BY <2>1, <2>3, <1>4, <1>5 DEF AccessInv, ReadInv, Present
    <2> QED
        BY <2>2, <2>3
<1>10. NewIdInv'
    <2>1. \A q \in Requests : HoldsNewId(q)' => q # r
        BY <1>6
    <2> QED
        BY <1>5, <1>6, <2>1 DEF AccessInv, NewIdInv
<1>11. LinksInv'
    BY <1>6 DEF AccessInv, LinksInv, SecretsAdvance
<1>12. AccessStep
    BY <1>m, <1>3, <1>4, <1>5
    DEF AccessStep, AccessInv, LinksInv, UsersInv, IsUser, Present
<1> QED
    BY <1>7, <1>8, <1>9, <1>10, <1>11, <1>12 DEF AccessInv

\* A new account, under an id that is nobody's.
LEMMA RecordCreated ==
    ASSUME AccessInv, UNCHANGED <<deleted, settings, revoked>>,
           SecretsAdvance,
           NEW r \in Requests, DOMAIN req' = Requests,
           \A q \in Requests \ {r} : req'[q] = req[q],
           DOMAIN req'[r] = DOMAIN req[r],
           Bare(r),
           NEW i \in Ids, i \notin deleted \cup Present,
           \A q \in Requests \ {r} : HoldsNewId(q) \/ HoldsUser(q) => req[q].id # i,
           NEW u, IsUser(u), u.secret <= made'.secret,
           users' = [users EXCEPT ![i] = u]
    PROVE  AccessInv' /\ AccessStep
<1>4. /\ DOMAIN users' = Ids /\ users'[i] = u
      /\ \A j \in Ids \ {i} : users'[j] = users[j]
    BY DEF AccessInv, UsersInv
<1>5. Present' \subseteq Present \cup {i}
    BY <1>4 DEF Present
<1>6. /\ \A q \in Requests \ {r} : /\ HoldsUser(q)' <=> HoldsUser(q)
                                   /\ HoldsLinks(q)' <=> HoldsLinks(q)
                                   /\ HoldsNewId(q)' <=> HoldsNewId(q)
                                   /\ NamesAnId(q)' <=> NamesAnId(q)
      /\ ~HoldsUser(r)' /\ ~HoldsLinks(r)' /\ ~HoldsNewId(r)' /\ ~NamesAnId(r)'
    BY DEF Bare, HoldsUser, HoldsLinks, HoldsNewId, NamesAnId
<1>7. ReqInv'
    BY <1>6 DEF AccessInv, ReqInv, NamesAnId
<1>8. UsersInv'
    <2>1. \A j \in Present' : IsUser(users'[j]) /\ users'[j].secret <= made'.secret
        <3> TAKE j \in Present'
        <3>1. CASE j = i
            BY <3>1, <1>4
        <3>2. CASE j # i
            BY <3>2, <1>4, <1>5 DEF AccessInv, UsersInv, IsUser, Present, SecretsAdvance
        <3> QED
            BY <3>1, <3>2
    <2> QED
        BY <2>1, <1>4, <1>5 DEF AccessInv, UsersInv, SecretsAdvance
<1>9. ReadInv'
    <2> SUFFICES ASSUME NEW q \in Requests, HoldsUser(q)'
                 PROVE  /\ IsUser(req'[q].rec)
                        /\ req'[q].id \in Present' =>
                             \/ req'[q].rec.rev < users'[req'[q].id].rev
                             \/ req'[q].rec = users'[req'[q].id]
        BY DEF ReadInv
    <2>1. q # r /\ HoldsUser(q) /\ req'[q] = req[q] /\ IsUser(req[q].rec) /\ req[q].id # i
        BY <1>6 DEF AccessInv, ReadInv
    <2> QED
        BY <2>1, <1>4, <1>5 DEF AccessInv, ReadInv, Present
<1>10. NewIdInv'
    <2>1. \A q \in Requests : HoldsNewId(q)' => q # r /\ req[q].id # i
        BY <1>6
    <2> QED
        BY <1>5, <1>6, <2>1 DEF AccessInv, NewIdInv
<1>11. LinksInv'
    BY <1>6 DEF AccessInv, LinksInv, SecretsAdvance
<1>12. AccessStep
    BY <1>4, <1>5 DEF AccessStep, AccessInv, LinksInv, UsersInv, IsUser, Present
<1> QED
    BY <1>7, <1>8, <1>9, <1>10, <1>11, <1>12 DEF AccessInv

\* A link was made and the settings had changed: it is nowhere.
LEMMA LinksKept ==
    ASSUME AccessInv, UNCHANGED <<users, deleted, settings, revoked>>,
           DOMAIN made' = DOMAIN made, made'.secret = made.secret, made'.link = made.link + 1,
           NEW r \in Requests, DOMAIN req' = Requests,
           \A q \in Requests \ {r} : req'[q] = req[q],
           DOMAIN req'[r] = DOMAIN req[r],
           Bare(r)
    PROVE  AccessInv' /\ AccessStep
<1>1. Present' = Present
    BY DEF Present
<1>6. /\ \A q \in Requests \ {r} : /\ HoldsUser(q)' <=> HoldsUser(q)
                                   /\ HoldsLinks(q)' <=> HoldsLinks(q)
                                   /\ HoldsNewId(q)' <=> HoldsNewId(q)
                                   /\ NamesAnId(q)' <=> NamesAnId(q)
      /\ ~HoldsUser(r)' /\ ~HoldsLinks(r)' /\ ~HoldsNewId(r)' /\ ~NamesAnId(r)'
    BY DEF Bare, HoldsUser, HoldsLinks, HoldsNewId, NamesAnId
<1>7. ReqInv'
    BY <1>6 DEF AccessInv, ReqInv, NamesAnId
<1>8. UsersInv'
    BY <1>1 DEF AccessInv, UsersInv
<1>9. ReadInv'
    BY <1>1, <1>6 DEF AccessInv, ReadInv
<1>10. NewIdInv'
    BY <1>1, <1>6 DEF AccessInv, NewIdInv
<1>11. LinksInv'
    BY <1>6 DEF AccessInv, LinksInv
<1>12. AccessStep
    BY <1>1 DEF AccessStep, AccessInv, UsersInv, LinksInv, IsUser
<1> QED
    BY <1>7, <1>8, <1>9, <1>10, <1>11, <1>12 DEF AccessInv

\* The settings written back with what was read of them.
LEMMA LinksRewritten ==
    ASSUME AccessInv, UNCHANGED <<users, deleted>>,
           DOMAIN made' = DOMAIN made, made'.secret = made.secret,
           made'.link \in Nat, made'.link >= made.link,
           NEW r \in Requests, DOMAIN req' = Requests,
           \A q \in Requests \ {r} : req'[q] = req[q],
           DOMAIN req'[r] = DOMAIN req[r],
           Bare(r),
           DOMAIN settings' = {"links", "rev"}, settings'.rev = settings.rev + 1,
           settings'.links \subseteq 1 .. made'.link, revoked' \subseteq 1 .. made'.link,
           settings'.links \cap revoked' = {}
    PROVE  AccessInv' /\ AccessStep
<1>1. Present' = Present
    BY DEF Present
<1>6. /\ \A q \in Requests \ {r} : /\ HoldsUser(q)' <=> HoldsUser(q)
                                   /\ HoldsLinks(q)' <=> HoldsLinks(q)
                                   /\ HoldsNewId(q)' <=> HoldsNewId(q)
                                   /\ NamesAnId(q)' <=> NamesAnId(q)
      /\ ~HoldsUser(r)' /\ ~HoldsLinks(r)' /\ ~HoldsNewId(r)' /\ ~NamesAnId(r)'
    BY DEF Bare, HoldsUser, HoldsLinks, HoldsNewId, NamesAnId
<1>7. ReqInv'
    BY <1>6 DEF AccessInv, ReqInv, NamesAnId
<1>8. UsersInv'
    BY <1>1 DEF AccessInv, UsersInv
<1>9. ReadInv'
    BY <1>1, <1>6 DEF AccessInv, ReadInv
<1>10. NewIdInv'
    BY <1>1, <1>6 DEF AccessInv, NewIdInv
<1>11. LinksInv'
    BY <1>6 DEF AccessInv, LinksInv, SecretsAdvance
<1>12. AccessStep
    BY <1>1 DEF AccessStep, AccessInv, UsersInv, IsUser
<1> QED
    BY <1>7, <1>8, <1>9, <1>10, <1>11, <1>12 DEF AccessInv

\* A step that touches neither the records nor the requests.
LEMMA RecordsUntouched ==
    ASSUME AccessInv, UNCHANGED <<users, deleted, settings, revoked, req, made>>
    PROVE  AccessInv' /\ AccessStep
BY DEF AccessInv, ReqInv, UsersInv, ReadInv, NewIdInv, LinksInv, Present, HoldsUser, HoldsLinks,
       HoldsNewId, NamesAnId, AccessStep, IsUser

\* Requests that put down what they carry, or never carried anything.
LEMMA BareSteps ==
    ASSUME AccessInv, NEW r \in Requests,
           \/ Fails(r) \/ Answer(r) \/ InvalidateList(r) \/ InvalidateAllExcept(r)
           \/ SetupLock(r) \/ SetupList(r) \/ openSudo(r) \/ StartProviderSession(r)
           \/ \E x \in Identities : completeLogin(r, x) \/ completeSudo(r, x)
    PROVE  AccessInv' /\ AccessStep
<1>1. /\ DOMAIN req = Requests /\ DOMAIN made = {"secret", "token", "link"} /\ made.secret \in Nat
      /\ DOMAIN req[r] = {"pc", "op", "id", "rec", "arg", "tok", "data", "dirty", "tries"}
    BY DEF AccessInv, ReqInv, UsersInv
<1>2. UNCHANGED <<users, deleted, settings, revoked>>
    BY DEF Fails, Answer, InvalidateList, InvalidateAllExcept, SetupLock, SetupList, openSudo,
           StartProviderSession, StartSession, completeLogin, completeSudo
<1>3. made' = made \/ SecretsAdvance
    <2>1. made' = made \/ made' = [made EXCEPT !.token = @ + 1]
        BY DEF Fails, Answer, InvalidateList, InvalidateAllExcept, SetupLock, SetupList, openSudo,
               StartProviderSession, StartSession, completeLogin, completeSudo
    <2> QED
        BY <1>1, <2>1 DEF SecretsAdvance
<1>4. /\ DOMAIN req' = Requests
      /\ \A q \in Requests \ {r} : req'[q] = req[q]
      /\ DOMAIN req'[r] = DOMAIN req[r]
      /\ req'[r].pc \in {"idle", "answer", "invalidating", "setup", "setupPut", "single", "provider"}
    <2>1. CASE Fails(r) \/ Answer(r) \/ InvalidateList(r) \/ InvalidateAllExcept(r)
        BY <2>1, <1>1 DEF Fails, Answer, InvalidateList, InvalidateAllExcept, Answered, Touched, Idle
    <2>2. CASE SetupLock(r)
        BY <2>2, <1>1 DEF SetupLock, Idle
    <2>6. CASE SetupList(r)
        <3>1. req' = Answered(r) \/ req' = To(r, "setupPut")
            BY <2>6 DEF SetupList
        <3> QED
            BY <1>1, <3>1 DEF Answered, To, Idle
    <2>5. CASE openSudo(r) \/ \E x \in Identities : completeSudo(r, x)
        BY <2>5, <1>1 DEF openSudo, completeSudo, Answered, Touched, Idle
    <2>3. CASE StartProviderSession(r)
        BY <2>3, <1>1 DEF StartProviderSession, StartSession
    <2>4. CASE \E x \in Identities : completeLogin(r, x)
        <3> PICK x \in Identities : completeLogin(r, x)
            BY <2>4
        <3> DEFINE pc == IF FindByIdentity(x) = {} THEN "single" ELSE "provider"
                   i == IF FindByIdentity(x) = {} THEN Nobody
                        ELSE CHOOSE j \in FindByIdentity(x) : TRUE
        <3>1. req' = [req EXCEPT ![r] = [Idle EXCEPT !.op = "oidc", !.arg = x, !.pc = pc, !.id = i]]
            BY Zenon DEF completeLogin
        <3>2. pc \in {"single", "provider"}
            OBVIOUS
        <3> HIDE DEF pc, i
        <3> QED
            BY <1>1, <3>1, <3>2 DEF Idle
    <2> QED
        BY <2>1, <2>2, <2>3, <2>4, <2>5, <2>6
<1>5. Bare(r)
    BY <1>4 DEF Bare, NamesAnId, HoldsLinks
<1> QED
    BY <1>2, <1>3, <1>4, <1>5, RequestDone

\* Requests that read an account, the settings or a new id.
LEMMA ReadingSteps ==
    ASSUME AccessInv, NEW r \in Requests,
           \/ \E t \in Tokens, op \in AdminOps \cup SelfOps, i \in Ids : Arrive(r, t, op, i)
           \/ Get(r) \/ List(r) \/ bindFirstIdentity(r) \/ BindRead(r) \/ GetSettings(r)
           \/ \E n \in Names : FindName(r, n)
           \/ \E i \in Ids, t \in Tokens \cup {0} : Login(r, i, t)
           \/ \E i \in Ids : AuthenticateToken(r, i)
           \/ \E k \in 1 .. made.link : AuthenticateWallLink(r, k)
    PROVE  AccessInv' /\ AccessStep
<1>1. /\ DOMAIN req = Requests /\ DOMAIN made = {"secret", "token", "link"} /\ made.secret \in Nat
      /\ DOMAIN req[r] = {"pc", "op", "id", "rec", "arg", "tok", "data", "dirty", "tries"}
      /\ NamesAnId(r) => req[r].id \in Ids
    BY DEF AccessInv, ReqInv, UsersInv
<1>u. \A i \in Present : IsUser(users[i])
    BY DEF AccessInv, UsersInv
<1>n. \A i \in Present, q \in Requests : HoldsNewId(q) => req[q].id # i
    BY DEF AccessInv, NewIdInv
<1>2. ASSUME NEW t \in Tokens, NEW op \in AdminOps \cup SelfOps, NEW i \in Ids, Arrive(r, t, op, i)
      PROVE  AccessInv' /\ AccessStep
    <2>1. /\ UNCHANGED <<users, deleted, settings, revoked, made>>
          /\ DOMAIN req' = Requests /\ \A q \in Requests \ {r} : req'[q] = req[q]
          /\ DOMAIN req'[r] = DOMAIN req[r]
          /\ req'[r].pc = "get" /\ req'[r].op = op /\ req'[r].id = i
        BY <1>1, <1>2 DEF Arrive, Idle
    <2>2. ~HoldsUser(r)' /\ ~HoldsLinks(r)'
        BY <2>1 DEF HoldsUser, HoldsLinks
    <2>3. HoldsNewId(r)' => i \notin deleted \cup Present \cup {req[q].id : q \in Requests}
        BY <1>2, <2>1 DEF HoldsNewId, Arrive, newID, Creating
    <2> QED
        BY <2>1, <2>2, <2>3, RequestMoves
<1>3. CASE Get(r)
    <2>1. /\ UNCHANGED <<users, deleted, settings, revoked, made>>
          /\ DOMAIN req' = Requests /\ \A q \in Requests \ {r} : req'[q] = req[q]
          /\ DOMAIN req'[r] = DOMAIN req[r]
        BY <1>1, <1>3 DEF Get, Answered, Idle
    <2>2. CASE req'[r].pc = "idle"
        BY <2>1, <2>2, RequestDone DEF Bare, NamesAnId, HoldsLinks
    <2>3. CASE req'[r].pc # "idle"
        <3>1. /\ users[req[r].id] # Nobody /\ req'[r].rec = users[req[r].id]
              /\ req'[r].id = req[r].id /\ req'[r].op = req[r].op
              /\ req[r].op \notin Creating \cup OfLinks
              /\ req[r].pc = "get" /\ req'[r].pc \in {"list", "put"}
            BY <1>1, <1>3, <2>3 DEF Get, Answered, Idle, Creating, OfLinks
        <3>2. req[r].id \in Present
            BY <1>1, <3>1 DEF Present, NamesAnId
        <3>3. ~HoldsNewId(r)' /\ ~HoldsLinks(r)'
            BY <3>1 DEF HoldsNewId, HoldsLinks
        <3>4. req'[r].id \in Ids /\ IsUser(req'[r].rec)
            BY <1>u, <3>1, <3>2 DEF Present
        <3> QED
            BY <1>n, <2>1, <3>1, <3>2, <3>3, <3>4, RequestMoves
    <2> QED
        BY <2>2, <2>3
<1>4. CASE List(r)
    <2>1. /\ UNCHANGED <<users, deleted, settings, revoked, made>>
          /\ DOMAIN req' = Requests /\ \A q \in Requests \ {r} : req'[q] = req[q]
          /\ DOMAIN req'[r] = DOMAIN req[r]
        BY <1>1, <1>4 DEF List, Answered, Idle, To
    <2>2. CASE req'[r].pc = "idle"
        BY <2>1, <2>2, RequestDone DEF Bare, NamesAnId, HoldsLinks
    <2>3. CASE req'[r].pc # "idle"
        <3>1. /\ req'[r].rec = req[r].rec /\ req'[r].id = req[r].id /\ req'[r].op = req[r].op
              /\ req[r].pc = "list" /\ req'[r].pc = "put"
            BY <1>1, <1>4, <2>3 DEF List, Answered, Idle, To
        <3>2. /\ HoldsUser(r) /\ ~HoldsNewId(r)' /\ ~HoldsLinks(r)'
              /\ req'[r].id \in Ids
            BY <1>1, <3>1 DEF AccessInv, ReqInv, HoldsUser, HoldsNewId, HoldsLinks, NamesAnId
        <3>3. \A q \in Requests \ {r} : HoldsNewId(q) => req[q].id # req[r].id
            BY <3>2 DEF AccessInv, NewIdInv
        <3>4. /\ IsUser(req[r].rec)
              /\ req[r].id \in Present =>
                   \/ req[r].rec.rev < users[req[r].id].rev
                   \/ req[r].rec = users[req[r].id]
            BY <3>2 DEF AccessInv, ReadInv
        <3> QED
            BY <2>1, <3>1, <3>2, <3>3, <3>4, RequestMoves
    <2> QED
        BY <2>2, <2>3
<1>5. CASE bindFirstIdentity(r)
    <2>1. /\ UNCHANGED <<users, deleted, settings, revoked, made>>
          /\ DOMAIN req' = Requests /\ \A q \in Requests \ {r} : req'[q] = req[q]
          /\ DOMAIN req'[r] = DOMAIN req[r]
        BY <1>1, <1>5 DEF bindFirstIdentity, Answered, Idle
    <2>2. CASE Cardinality(People) # 1
        <3>1. req'[r].pc = "idle"
            BY <1>1, <1>5, <2>2 DEF bindFirstIdentity, Answered, Idle
        <3> QED
            BY <2>1, <3>1, RequestDone DEF Bare, NamesAnId, HoldsLinks
    <2>3. CASE Cardinality(People) = 1
        <3>1. People # {} /\ People \subseteq Ids
            <4>1. Cardinality({}) = 0
                BY FS_EmptySet
            <4>2. People # {}
                BY <2>3, <4>1
            <4> QED
                BY <4>2 DEF People, Present
        <3>2. req'[r].pc = "bind" /\ req'[r].id \in Ids
            BY <1>1, <1>5, <2>3, <3>1 DEF bindFirstIdentity
        <3>3. ~HoldsUser(r)' /\ ~HoldsNewId(r)' /\ ~HoldsLinks(r)'
            BY <3>2 DEF HoldsUser, HoldsNewId, HoldsLinks
        <3> QED
            BY <2>1, <3>2, <3>3, RequestMoves
    <2> QED
        BY <2>2, <2>3
<1>6. CASE BindRead(r)
    <2>1. /\ UNCHANGED <<users, deleted, settings, revoked, made>>
          /\ DOMAIN req' = Requests /\ \A q \in Requests \ {r} : req'[q] = req[q]
          /\ DOMAIN req'[r] = DOMAIN req[r]
          /\ req'[r].pc \in {"idle", "provider", "bindPut"}
        BY <1>1, <1>6 DEF BindRead, Answered, Idle, To
    <2>2. CASE req'[r].pc # "bindPut"
        BY <2>1, <2>2, RequestDone DEF Bare, NamesAnId, HoldsLinks
    <2>3. CASE req'[r].pc = "bindPut"
        <3>1. /\ users[req[r].id] # Nobody /\ req'[r].rec = users[req[r].id]
              /\ req'[r].id = req[r].id /\ req[r].pc = "bind"
            BY <1>1, <1>6, <2>3 DEF BindRead, Answered, Idle, To
        <3>2. req[r].id \in Present
            BY <1>1, <3>1 DEF Present, NamesAnId
        <3>3. ~HoldsNewId(r)' /\ ~HoldsLinks(r)'
            BY <2>3 DEF HoldsNewId, HoldsLinks
        <3>4. req'[r].id \in Ids /\ IsUser(req'[r].rec)
            BY <1>u, <3>1, <3>2 DEF Present
        <3> QED
            BY <1>n, <2>1, <2>3, <3>1, <3>2, <3>3, <3>4, RequestMoves
    <2> QED
        BY <2>2, <2>3
<1>7. CASE GetSettings(r)
    <2>1. /\ UNCHANGED <<users, deleted, settings, revoked, made>>
          /\ DOMAIN req' = Requests /\ \A q \in Requests \ {r} : req'[q] = req[q]
          /\ DOMAIN req'[r] = DOMAIN req[r]
        BY <1>1, <1>7 DEF GetSettings, Answered, Idle
    <2>2. CASE req'[r].pc = "idle"
        BY <2>1, <2>2, RequestDone DEF Bare, NamesAnId, HoldsLinks
    <2>3. CASE req'[r].pc # "idle"
        <3>1. /\ req'[r].rec = settings /\ req'[r].id = req[r].id /\ req'[r].op = req[r].op
              /\ req'[r].pc = "put" /\ req[r].pc = "get" /\ req[r].op \in OfLinks
            BY <1>1, <1>7, <2>3 DEF GetSettings, Answered, Idle, OfLinks
        <3>2. ~HoldsNewId(r)' /\ ~HoldsUser(r)' /\ req'[r].id \in Ids
            BY <1>1, <3>1 DEF HoldsNewId, HoldsUser, NamesAnId, OfLinks, Creating
        <3>3. DOMAIN settings = {"links", "rev"} /\ settings.rev \in Nat
            BY DEF AccessInv, LinksInv
        <3> QED
            BY <2>1, <3>1, <3>2, <3>3, RequestMoves
    <2> QED
        BY <2>2, <2>3
<1>8. ASSUME NEW n \in Names, FindName(r, n)
      PROVE  AccessInv' /\ AccessStep
    <2>1. /\ UNCHANGED <<users, deleted, settings, revoked, made>>
          /\ DOMAIN req' = Requests /\ \A q \in Requests \ {r} : req'[q] = req[q]
          /\ DOMAIN req'[r] = DOMAIN req[r]
        BY <1>1, <1>8 DEF FindName, Answered, Idle
    <2>2. CASE req'[r].pc = "idle"
        BY <2>1, <2>2, RequestDone DEF Bare, NamesAnId, HoldsLinks
    <2>3. CASE req'[r].pc # "idle"
        <3>1. /\ req'[r].id = req[r].id /\ req'[r].op = req[r].op
              /\ req'[r].pc = "put" /\ req[r].pc = "get" /\ req[r].op \in Creating
            BY <1>1, <1>8, <2>3 DEF FindName, Answered, Idle, Creating
        <3>2. ~HoldsLinks(r)' /\ ~HoldsUser(r)' /\ req'[r].id \in Ids /\ HoldsNewId(r)
            BY <1>1, <3>1 DEF HoldsNewId, HoldsLinks, HoldsUser, NamesAnId, OfLinks, Creating
        <3>3. /\ req[r].id \notin deleted \cup Present
              /\ \A q \in Requests \ {r} : HoldsNewId(q) \/ HoldsUser(q) => req[q].id # req[r].id
            BY <3>2 DEF AccessInv, NewIdInv
        <3> QED
            BY <2>1, <3>1, <3>2, <3>3, RequestMoves
    <2> QED
        BY <2>2, <2>3
<1>9. ASSUME NEW i \in Ids, \/ \E t \in Tokens \cup {0} : Login(r, i, t)
                            \/ AuthenticateToken(r, i)
      PROVE  AccessInv' /\ AccessStep
    <2>0. /\ UNCHANGED <<users, deleted, settings, revoked>> /\ i \in Present
          /\ made' = made \/ made' = [made EXCEPT !.token = @ + 1]
        BY <1>9 DEF Login, StartSession, AuthenticateToken, People, Present
    <2>1. /\ DOMAIN req' = Requests /\ \A q \in Requests \ {r} : req'[q] = req[q]
          /\ DOMAIN req'[r] = DOMAIN req[r]
          /\ req'[r].pc \in {"rehash", "note"} /\ req'[r].id = i /\ req'[r].rec = users[i]
        <3>1. CASE AuthenticateToken(r, i)
            BY <1>1, <3>1 DEF AuthenticateToken, Idle
        <3>2. ASSUME NEW t \in Tokens \cup {0}, Login(r, i, t)
              PROVE  /\ DOMAIN req' = Requests /\ \A q \in Requests \ {r} : req'[q] = req[q]
                     /\ DOMAIN req'[r] = DOMAIN req[r]
                     /\ req'[r].pc \in {"rehash", "note"} /\ req'[r].id = i
                     /\ req'[r].rec = users[i]
            BY <1>1, <3>2 DEF Login, StartSession, Idle
        <3> QED
            BY <1>9, <3>1, <3>2
    <2>2. made' = made \/ SecretsAdvance
        BY <1>1, <2>0 DEF SecretsAdvance
    <2>3. ~HoldsNewId(r)' /\ ~HoldsLinks(r)'
        BY <2>1 DEF HoldsNewId, HoldsLinks
    <2>4. IsUser(users[i]) /\ \A q \in Requests \ {r} : HoldsNewId(q) => req[q].id # i
        BY <1>u, <1>n, <2>0
    <2> QED
        BY <2>0, <2>1, <2>2, <2>3, <2>4, RequestMoves
<1>10. ASSUME NEW k \in 1 .. made.link, AuthenticateWallLink(r, k)
       PROVE  AccessInv' /\ AccessStep
    <2>1. /\ UNCHANGED <<users, deleted, settings, revoked, made>>
          /\ DOMAIN req' = Requests /\ \A q \in Requests \ {r} : req'[q] = req[q]
          /\ DOMAIN req'[r] = DOMAIN req[r]
          /\ req'[r].pc = "noteLink" /\ req'[r].rec = settings
        BY <1>1, <1>10 DEF AuthenticateWallLink, Idle
    <2>2. ~HoldsNewId(r)' /\ ~HoldsUser(r)' /\ ~NamesAnId(r)'
        BY <2>1 DEF HoldsNewId, HoldsUser, NamesAnId
    <2>3. DOMAIN settings = {"links", "rev"} /\ settings.rev \in Nat
        BY DEF AccessInv, LinksInv
    <2> QED
        BY <2>1, <2>2, <2>3, RequestMoves
<1> QED
    BY <1>2, <1>3, <1>4, <1>5, <1>6, <1>7, <1>8, <1>9, <1>10

\* Operations that store the account they read.
LEMMA RewritingSteps ==
    ASSUME AccessInv, NEW r \in Requests,
           \/ SetRole(r) \/ SetPassword(r) \/ RotateToken(r) \/ UnlinkIdentity(r)
           \/ ChangePassword(r) \/ rehashIfOutdated(r) \/ noteTokenUse(r) \/ BindIdentity(r)
    PROVE  AccessInv' /\ AccessStep
<1>1. /\ DOMAIN req = Requests /\ DOMAIN made = {"secret", "token", "link"} /\ made.secret \in Nat
      /\ DOMAIN req[r] = {"pc", "op", "id", "rec", "arg", "tok", "data", "dirty", "tries"}
      /\ NamesAnId(r) => req[r].id \in Ids
    BY DEF AccessInv, ReqInv, UsersInv
<1> DEFINE old == req[r].rec
<1>2. HoldsUser(r)
    BY DEF HoldsUser, SetRole, SetPassword, RotateToken, UnlinkIdentity, ChangePassword,
           rehashIfOutdated, noteTokenUse, BindIdentity, Creating, OfLinks
<1>3. /\ DOMAIN old = {"kind", "role", "name", "secret", "ident", "rev"}
      /\ old.secret \in Nat /\ old.rev \in Nat \ {0}
    BY <1>2 DEF AccessInv, ReadInv, IsUser
<1>4. UNCHANGED <<deleted, settings, revoked>>
    BY DEF SetRole, SetPassword, RotateToken, UnlinkIdentity, ChangePassword, rehashIfOutdated,
           noteTokenUse, BindIdentity, Write
<1>5. SecretsAdvance
    <2>1. made' = made \/ made' = [made EXCEPT !.secret = @ + 1]
        BY DEF SetRole, SetPassword, RotateToken, UnlinkIdentity, ChangePassword, rehashIfOutdated,
               noteTokenUse, BindIdentity
    <2> QED
        BY <1>1, <2>1 DEF SecretsAdvance
<1>6. /\ DOMAIN req' = Requests /\ \A q \in Requests \ {r} : req'[q] = req[q]
      /\ DOMAIN req'[r] = DOMAIN req[r]
      /\ req'[r].pc \in {"idle", "answer", "invalidate", "provider", "bind"}
      /\ req'[r].pc = "bind" => users' = users /\ made' = made /\ req'[r].id = req[r].id
    <2>1. CASE SetRole(r) \/ SetPassword(r) \/ RotateToken(r)
        <3>1. req' = Touched(r) \/ req' = Answered(r)
            BY <2>1 DEF SetRole, SetPassword, RotateToken, Write
        <3> QED
            BY <1>1, <3>1 DEF Touched, Answered, Idle
    <2>2. CASE UnlinkIdentity(r)
        <3>1. req' = Touched(r) \/ req' = Answered(r)
            BY <2>2 DEF UnlinkIdentity
        <3> QED
            BY <1>1, <3>1 DEF Touched, Answered, Idle
    <2>3. CASE ChangePassword(r)
        <3>1. req' = To(r, "invalidate") \/ req' = Answered(r)
            BY <2>3 DEF ChangePassword
        <3> QED
            BY <1>1, <3>1 DEF To, Answered, Idle
    <2>4. CASE rehashIfOutdated(r) \/ noteTokenUse(r)
        <3>1. req' = To(r, "answer") \/ req' = Answered(r)
            BY <2>4 DEF rehashIfOutdated, noteTokenUse
        <3> QED
            BY <1>1, <3>1 DEF To, Answered, Idle
    <2>5. CASE BindIdentity(r)
        <3>1. \/ req' = To(r, "provider") \/ req' = Answered(r)
              \/ /\ req' = [req EXCEPT ![r].pc = "bind", ![r].tries = 1]
                 /\ users' = users /\ made' = made
            BY <2>5 DEF BindIdentity
        <3> QED
            BY <1>1, <3>1 DEF To, Answered, Idle
    <2> QED
        BY <2>1, <2>2, <2>3, <2>4, <2>5
<1>7. CASE req'[r].pc = "bind"
    <2>1. ~HoldsUser(r)' /\ ~HoldsNewId(r)' /\ ~HoldsLinks(r)'
        BY <1>7 DEF HoldsUser, HoldsNewId, HoldsLinks
    <2>2. req[r].id \in Ids
        BY <1>1, <1>2 DEF HoldsUser, NamesAnId
    <2> QED
        BY <1>4, <1>6, <1>7, <2>1, <2>2, RequestMoves
<1> SUFFICES ASSUME req'[r].pc # "bind" PROVE AccessInv' /\ AccessStep
    BY <1>7
<1>8. Bare(r)
    BY <1>6 DEF Bare, NamesAnId, HoldsLinks
<1>9. \/ users' = users
      \/ \E rec : /\ DOMAIN rec = DOMAIN old /\ rec.rev = old.rev /\ rec.secret \in Nat
                  /\ rec.secret = old.secret \/ (rec.secret = made.secret + 1 /\ made'.secret = rec.secret)
                  /\ Puts(req[r].id, rec) /\ users' = Stored(req[r].id, rec)
    <2> SUFFICES ASSUME users' # users
                 PROVE  \E rec : /\ DOMAIN rec = DOMAIN old /\ rec.rev = old.rev
                                 /\ rec.secret \in Nat
                                 /\ \/ rec.secret = old.secret
                                    \/ rec.secret = made.secret + 1 /\ made'.secret = rec.secret
                                 /\ Puts(req[r].id, rec) /\ users' = Stored(req[r].id, rec)
        OBVIOUS
    <2>1. CASE SetRole(r)
        <3> DEFINE rec == [old EXCEPT !.role = IF @ = "admin" THEN "reader" ELSE "admin"]
        <3>1. Puts(req[r].id, rec) /\ users' = Stored(req[r].id, rec)
            BY <2>1 DEF SetRole, Write
        <3>2. DOMAIN rec = DOMAIN old /\ rec.rev = old.rev /\ rec.secret = old.secret
            BY <1>3
        <3> HIDE DEF rec
        <3> QED
            BY <1>3, <3>1, <3>2
    <2>2. CASE SetPassword(r) \/ RotateToken(r) \/ ChangePassword(r)
        <3> DEFINE rec == [old EXCEPT !.secret = made.secret + 1]
        <3>1. Puts(req[r].id, rec) /\ users' = Stored(req[r].id, rec)
            BY <2>2 DEF SetPassword, RotateToken, ChangePassword, Write
        <3>2. DOMAIN rec = DOMAIN old /\ rec.rev = old.rev /\ rec.secret = made.secret + 1
            BY <1>3
        <3>3. made'.secret = made.secret + 1
            BY <1>1, <2>2 DEF SetPassword, RotateToken, ChangePassword
        <3> HIDE DEF rec
        <3> QED
            BY <1>1, <1>3, <3>1, <3>2, <3>3
    <2>3. CASE UnlinkIdentity(r)
        <3> DEFINE rec == [old EXCEPT !.ident = Nobody]
        <3>1. Puts(req[r].id, old) /\ users' = Stored(req[r].id, rec)
            BY <2>3 DEF UnlinkIdentity
        <3>2. DOMAIN rec = DOMAIN old /\ rec.rev = old.rev /\ rec.secret = old.secret
            BY <1>3
        <3> HIDE DEF rec
        <3>3. Puts(req[r].id, rec)
            BY <3>1, <3>2 DEF Puts
        <3> QED
            BY <1>3, <3>1, <3>2, <3>3
    <2>4. CASE rehashIfOutdated(r) \/ noteTokenUse(r)
        <3>1. Puts(req[r].id, old) /\ users' = Stored(req[r].id, old)
            BY <2>4 DEF rehashIfOutdated, noteTokenUse
        <3> QED
            BY <1>3, <3>1
    <2>5. CASE BindIdentity(r)
        <3> DEFINE rec == [old EXCEPT !.ident = req[r].arg]
        <3>1. Puts(req[r].id, old) /\ users' = Stored(req[r].id, rec)
            BY <2>5 DEF BindIdentity
        <3>2. DOMAIN rec = DOMAIN old /\ rec.rev = old.rev /\ rec.secret = old.secret
            BY <1>3
        <3> HIDE DEF rec
        <3>3. Puts(req[r].id, rec)
            BY <3>1, <3>2 DEF Puts
        <3> QED
            BY <1>3, <3>1, <3>2, <3>3
    <2> QED
        BY <2>1, <2>2, <2>3, <2>4, <2>5
<1>10. CASE users' = users
    BY <1>4, <1>5, <1>6, <1>8, <1>10, RequestDone
<1>11. ASSUME NEW rec, DOMAIN rec = DOMAIN old, rec.rev = old.rev, rec.secret \in Nat,
              rec.secret = old.secret \/ (rec.secret = made.secret + 1 /\ made'.secret = rec.secret),
              Puts(req[r].id, rec), users' = Stored(req[r].id, rec)
       PROVE  AccessInv' /\ AccessStep
    BY <1>1, <1>2, <1>3, <1>4, <1>5, <1>6, <1>8, <1>11, RecordRewritten
<1> QED
    BY <1>9, <1>10, <1>11

\* Operations that store a new account.
LEMMA CreatingSteps ==
    ASSUME AccessInv, NEW r \in Requests,
           \/ \E rl \in {"admin", "reader"} : CreateUser(r, rl) \/ CreateServiceAccount(r, rl)
           \/ \E i \in Ids, n \in Names : SetupUser(r, i, n)
    PROVE  AccessInv' /\ AccessStep
<1>1. /\ DOMAIN req = Requests /\ DOMAIN made = {"secret", "token", "link"} /\ made.secret \in Nat
      /\ DOMAIN req[r] = {"pc", "op", "id", "rec", "arg", "tok", "data", "dirty", "tries"}
      /\ NamesAnId(r) => req[r].id \in Ids
      /\ DOMAIN users = Ids
    BY DEF AccessInv, ReqInv, UsersInv
<1>2. UNCHANGED <<deleted, settings, revoked>> /\ made' = [made EXCEPT !.secret = @ + 1]
    BY DEF CreateUser, CreateServiceAccount, SetupUser, Write
<1>3. SecretsAdvance /\ made'.secret = made.secret + 1
    BY <1>1, <1>2 DEF SecretsAdvance
<1>4. \A kind, rl, name : /\ IsUser([User(kind, rl, name, made.secret + 1) EXCEPT !.rev = @ + 1])
                            /\ [User(kind, rl, name, made.secret + 1) EXCEPT !.rev = @ + 1].secret
                                 = made.secret + 1
    BY <1>1 DEF User, IsUser
<1>5. ASSUME NEW rl, NEW kind, HoldsNewId(r),
             Write(r, User(kind, rl, req[r].arg, made.secret + 1))
      PROVE  AccessInv' /\ AccessStep
    <2> DEFINE rec == User(kind, rl, req[r].arg, made.secret + 1)
               u == [rec EXCEPT !.rev = @ + 1]
    <2>1. req' = Touched(r) \/ req' = Answered(r)
        BY <1>5 DEF Write
    <2>2. /\ DOMAIN req' = Requests /\ \A q \in Requests \ {r} : req'[q] = req[q]
          /\ DOMAIN req'[r] = DOMAIN req[r] /\ req'[r].pc \in {"answer", "idle"}
        BY <1>1, <2>1 DEF Touched, Answered, Idle
    <2>3. Bare(r)
        BY <2>2 DEF Bare, NamesAnId, HoldsLinks
    <2>4. /\ req[r].id \in Ids /\ req[r].id \notin deleted \cup Present
          /\ \A q \in Requests \ {r} : HoldsNewId(q) \/ HoldsUser(q) => req[q].id # req[r].id
        BY <1>1, <1>5 DEF AccessInv, NewIdInv, HoldsNewId, NamesAnId
    <2>5. users' = users \/ users' = [users EXCEPT ![req[r].id] = u]
        BY <1>5 DEF Write, Stored
    <2>6. IsUser(u) /\ u.secret = made.secret + 1
        BY <1>4
    <2> HIDE DEF rec, u
    <2>7. u.secret <= made'.secret
        BY <1>1, <1>3, <2>6
    <2>8. CASE users' = users
        BY <1>2, <1>3, <2>2, <2>3, <2>8, RequestDone
    <2>9. CASE users' = [users EXCEPT ![req[r].id] = u]
        BY <1>2, <1>3, <2>2, <2>3, <2>4, <2>6, <2>7, <2>9, RecordCreated
    <2> QED
        BY <2>5, <2>8, <2>9
<1>6. ASSUME NEW i \in Ids, NEW n \in Names, SetupUser(r, i, n)
      PROVE  AccessInv' /\ AccessStep
    <2> DEFINE rec == User("person", "admin", n, made.secret + 1)
               u == [rec EXCEPT !.rev = @ + 1]
    <2>1. /\ DOMAIN req' = Requests /\ \A q \in Requests \ {r} : req'[q] = req[q]
          /\ DOMAIN req'[r] = DOMAIN req[r] /\ req'[r].pc = "setupSettings"
        BY <1>1, <1>6 DEF SetupUser
    <2>2. Bare(r)
        BY <2>1 DEF Bare, NamesAnId, HoldsLinks
    <2>3. i \notin deleted \cup Present /\ \A q \in Requests : req[q].id # i
        BY <1>6 DEF SetupUser, newID
    <2>4. users' = [users EXCEPT ![i] = u]
        BY <1>6 DEF SetupUser, Stored
    <2>5. IsUser(u) /\ u.secret = made.secret + 1
        BY <1>4
    <2> HIDE DEF rec, u
    <2>6. u.secret <= made'.secret
        BY <1>1, <1>3, <2>5
    <2> QED
        BY <1>2, <1>3, <2>1, <2>2, <2>3, <2>4, <2>5, <2>6, RecordCreated
<1>7. (\E rl : CreateUser(r, rl) \/ CreateServiceAccount(r, rl)) => HoldsNewId(r)
    BY DEF CreateUser, CreateServiceAccount, HoldsNewId, Creating
<1> QED
    BY <1>5, <1>6, <1>7 DEF CreateUser, CreateServiceAccount

\* A delete: the id is nobody's from then on.
LEMMA DeletingStep ==
    ASSUME AccessInv, NEW r \in Requests, DeleteUser(r)
    PROVE  AccessInv' /\ AccessStep
<1>1. /\ DOMAIN req = Requests
      /\ DOMAIN req[r] = {"pc", "op", "id", "rec", "arg", "tok", "data", "dirty", "tries"}
      /\ NamesAnId(r) => req[r].id \in Ids
      /\ DOMAIN users = Ids
    BY DEF AccessInv, ReqInv, UsersInv
<1> DEFINE i == req[r].id
<1>2. /\ UNCHANGED <<settings, revoked, made>>
      /\ users' = [users EXCEPT ![i] = Nobody] /\ deleted' = deleted \cup {i}
      /\ req' = Touched(r) \/ req' = Answered(r)
      /\ HoldsUser(r) /\ i \in Ids
    BY <1>1 DEF DeleteUser, HoldsUser, NamesAnId, Creating, OfLinks
<1>3. /\ DOMAIN req' = Requests /\ \A q \in Requests \ {r} : req'[q] = req[q]
      /\ DOMAIN req'[r] = DOMAIN req[r] /\ req'[r].pc \in {"answer", "idle"}
    BY <1>1, <1>2 DEF Touched, Answered, Idle
<1>4. Present' = Present \ {i} /\ \A j \in Present' : users'[j] = users[j]
    BY <1>1, <1>2 DEF Present
<1>5. \A q \in Requests : HoldsNewId(q) => req[q].id # i
    <2>1. ~HoldsNewId(r)
        BY DEF DeleteUser, HoldsNewId, Creating
    <2> QED
        BY <1>2, <2>1 DEF AccessInv, NewIdInv
<1> HIDE DEF i
<1>6. /\ \A q \in Requests \ {r} : /\ HoldsUser(q)' <=> HoldsUser(q)
                                   /\ HoldsLinks(q)' <=> HoldsLinks(q)
                                   /\ HoldsNewId(q)' <=> HoldsNewId(q)
                                   /\ NamesAnId(q)' <=> NamesAnId(q)
      /\ ~HoldsUser(r)' /\ ~HoldsLinks(r)' /\ ~HoldsNewId(r)' /\ ~NamesAnId(r)'
    BY <1>3 DEF HoldsUser, HoldsLinks, HoldsNewId, NamesAnId
<1>7. ReqInv'
    BY <1>3, <1>6 DEF AccessInv, ReqInv
<1>8. UsersInv'
    BY <1>1, <1>2, <1>4 DEF AccessInv, UsersInv
<1>9. ReadInv'
    BY <1>3, <1>4, <1>6 DEF AccessInv, ReadInv
<1>10. NewIdInv'
    <2>1. \A q \in Requests : HoldsNewId(q)' => q # r /\ HoldsNewId(q) /\ req'[q] = req[q]
        BY <1>3, <1>6
    <2> QED
        BY <1>2, <1>3, <1>4, <1>5, <1>6, <2>1 DEF AccessInv, NewIdInv
<1>11. LinksInv'
    BY <1>2, <1>3, <1>6 DEF AccessInv, LinksInv
<1>12. AccessStep
    BY <1>2, <1>4 DEF AccessStep, AccessInv, LinksInv, UsersInv, IsUser
<1> QED
    BY <1>7, <1>8, <1>9, <1>10, <1>11, <1>12 DEF AccessInv

\* Operations that store the settings they read, and the settings setup makes.
LEMMA LinkSteps ==
    ASSUME AccessInv, NEW r \in Requests,
           \/ CreateWallLink(r) \/ noteWallLinkUse(r) \/ SetupSettings(r)
           \/ \E k \in 1 .. made.link : RevokeWallLink(r, k)
    PROVE  AccessInv' /\ AccessStep
<1>1. /\ DOMAIN req = Requests /\ DOMAIN made = {"secret", "token", "link"} /\ made.secret \in Nat
      /\ DOMAIN req[r] = {"pc", "op", "id", "rec", "arg", "tok", "data", "dirty", "tries"}
      /\ DOMAIN settings = {"links", "rev"} /\ settings.rev \in Nat /\ made.link \in Nat
      /\ settings.links \subseteq 1 .. made.link /\ revoked \subseteq 1 .. made.link
      /\ settings.links \cap revoked = {}
    BY DEF AccessInv, ReqInv, UsersInv, LinksInv
<1>2. HoldsLinks(r) => /\ DOMAIN req[r].rec = {"links", "rev"}
                       /\ req[r].rec.rev = settings.rev => req[r].rec = settings
    BY <1>1 DEF AccessInv, LinksInv
<1>3. CASE CreateWallLink(r)
    <2>1. /\ UNCHANGED <<users, deleted, revoked>> /\ made' = [made EXCEPT !.link = @ + 1]
          /\ req' = Touched(r) \/ req' = Answered(r)
          /\ \/ settings' = settings
             \/ /\ req[r].rec.rev = settings.rev
                /\ settings' = [links |-> req[r].rec.links \cup {made.link + 1},
                                rev |-> settings.rev + 1]
          /\ HoldsLinks(r)
        BY <1>3 DEF CreateWallLink, WriteLinks, HoldsLinks, OfLinks
    <2>2. /\ DOMAIN req' = Requests /\ \A q \in Requests \ {r} : req'[q] = req[q]
          /\ DOMAIN req'[r] = DOMAIN req[r] /\ req'[r].pc \in {"answer", "idle"}
        BY <1>1, <2>1 DEF Touched, Answered, Idle
    <2>3. Bare(r)
        BY <2>2 DEF Bare, NamesAnId, HoldsLinks
    <2>4. /\ DOMAIN made' = DOMAIN made /\ made'.secret = made.secret
          /\ made'.link = made.link + 1
        BY <1>1, <2>1
    <2>5. CASE settings' = settings
        BY <1>1, <2>1, <2>2, <2>3, <2>4, <2>5, LinksKept
    <2>6. CASE settings' # settings
        <3>1. /\ DOMAIN settings' = {"links", "rev"} /\ settings'.rev = settings.rev + 1
              /\ settings'.links = settings.links \cup {made.link + 1}
            BY <1>2, <2>1, <2>6
        <3>2. settings'.links \subseteq 1 .. made'.link /\ revoked' \subseteq 1 .. made'.link
            BY <1>1, <2>1, <2>4, <3>1
        <3>3. settings'.links \cap revoked' = {}
            BY <1>1, <2>1, <3>1
        <3> QED
            BY <1>1, <2>1, <2>2, <2>3, <2>4, <3>1, <3>2, <3>3, LinksRewritten
    <2> QED
        BY <2>5, <2>6
<1>4. ASSUME NEW k \in 1 .. made.link, RevokeWallLink(r, k) PROVE AccessInv' /\ AccessStep
    <2>1. /\ UNCHANGED <<users, deleted, made>>
          /\ req' = Touched(r) \/ req' = Answered(r)
          /\ \/ settings' = settings /\ revoked' = revoked
             \/ /\ req[r].rec.rev = settings.rev /\ revoked' = revoked \cup {k}
                /\ settings' = [links |-> req[r].rec.links \ {k}, rev |-> settings.rev + 1]
          /\ HoldsLinks(r)
        BY <1>4 DEF RevokeWallLink, WriteLinks, HoldsLinks, OfLinks
    <2>2. /\ DOMAIN req' = Requests /\ \A q \in Requests \ {r} : req'[q] = req[q]
          /\ DOMAIN req'[r] = DOMAIN req[r] /\ req'[r].pc \in {"answer", "idle"}
        BY <1>1, <2>1 DEF Touched, Answered, Idle
    <2>3. Bare(r)
        BY <2>2 DEF Bare, NamesAnId, HoldsLinks
    <2>4. CASE settings' = settings /\ revoked' = revoked
        BY <2>1, <2>2, <2>3, <2>4, RequestDone
    <2>5. CASE ~(settings' = settings /\ revoked' = revoked)
        <3>1. /\ DOMAIN settings' = {"links", "rev"} /\ settings'.rev = settings.rev + 1
              /\ settings'.links = settings.links \ {k} /\ revoked' = revoked \cup {k}
            BY <1>2, <2>1, <2>5
        <3>2. settings'.links \subseteq 1 .. made'.link /\ revoked' \subseteq 1 .. made'.link
            BY <1>1, <2>1, <3>1
        <3>3. settings'.links \cap revoked' = {}
            BY <1>1, <3>1
        <3> QED
            BY <1>1, <2>1, <2>2, <2>3, <3>1, <3>2, <3>3, LinksRewritten
    <2> QED
        BY <2>4, <2>5
<1>5. CASE noteWallLinkUse(r)
    <2>1. /\ UNCHANGED <<users, deleted, revoked, made>> /\ req' = Answered(r)
          /\ \/ settings' = settings
             \/ /\ req[r].rec.rev = settings.rev
                /\ settings' = [req[r].rec EXCEPT !.rev = @ + 1]
          /\ HoldsLinks(r)
        BY <1>5 DEF noteWallLinkUse, HoldsLinks
    <2>2. /\ DOMAIN req' = Requests /\ \A q \in Requests \ {r} : req'[q] = req[q]
          /\ DOMAIN req'[r] = DOMAIN req[r] /\ req'[r].pc = "idle"
        BY <1>1, <2>1 DEF Answered, Idle
    <2>3. Bare(r)
        BY <2>2 DEF Bare, NamesAnId, HoldsLinks
    <2>4. CASE settings' = settings
        BY <2>1, <2>2, <2>3, <2>4, RequestDone
    <2>5. CASE settings' # settings
        <3>1. /\ DOMAIN settings' = {"links", "rev"} /\ settings'.rev = settings.rev + 1
              /\ settings'.links = settings.links
            BY <1>1, <1>2, <2>1, <2>5
        <3>2. /\ settings'.links \subseteq 1 .. made'.link /\ revoked' \subseteq 1 .. made'.link
              /\ settings'.links \cap revoked' = {}
              /\ DOMAIN made' = DOMAIN made /\ made'.secret = made.secret
              /\ made'.link \in Nat /\ made'.link >= made.link
            BY <1>1, <2>1, <3>1
        <3> QED
            BY <2>1, <2>2, <2>3, <3>1, <3>2, LinksRewritten
    <2> QED
        BY <2>4, <2>5
<1>6. CASE SetupSettings(r)
    <2>1. CASE settings.rev = 0
        <3>1. /\ UNCHANGED <<users, deleted, revoked>>
              /\ settings' = [settings EXCEPT !.rev = 1]
              /\ made' = [made EXCEPT !.token = @ + 1]
            BY <1>6, <2>1 DEF SetupSettings, StartSession
        <3>2. /\ DOMAIN req' = Requests /\ \A q \in Requests \ {r} : req'[q] = req[q]
              /\ DOMAIN req'[r] = DOMAIN req[r] /\ req'[r].pc = "answer"
            <4>1. PICK t, d : req' = [req EXCEPT ![r] =
                    [[req[r] EXCEPT !.pc = "answer"] EXCEPT !.tok = t, !.data = d, !.dirty = TRUE]]
                BY ZenonT(60), <1>6, <2>1 DEF SetupSettings, StartSession
            <4> QED
                BY <1>1, <4>1
        <3>3. Bare(r)
            BY <3>2 DEF Bare, NamesAnId, HoldsLinks
        <3>4. /\ DOMAIN settings' = {"links", "rev"} /\ settings'.rev = settings.rev + 1
              /\ settings'.links = settings.links
            BY <1>1, <2>1, <3>1
        <3>5. /\ DOMAIN made' = DOMAIN made /\ made'.secret = made.secret
              /\ made'.link = made.link
            BY <1>1, <3>1
        <3> QED
            BY <1>1, <3>1, <3>2, <3>3, <3>4, <3>5, LinksRewritten
    <2>2. CASE settings.rev # 0
        <3>1. UNCHANGED <<users, deleted, settings, revoked, made>> /\ req' = Answered(r)
            BY <1>6, <2>2 DEF SetupSettings
        <3>2. /\ DOMAIN req' = Requests /\ \A q \in Requests \ {r} : req'[q] = req[q]
              /\ DOMAIN req'[r] = DOMAIN req[r] /\ req'[r].pc = "idle"
            BY <1>1, <3>1 DEF Answered, Idle
        <3>3. Bare(r)
            BY <3>2 DEF Bare, NamesAnId, HoldsLinks
        <3> QED
            BY <3>1, <3>2, <3>3, RequestDone
    <2> QED
        BY <2>1, <2>2
<1> QED
    BY <1>3, <1>4, <1>5, <1>6

\* A changed password or a rotated token, a deleted account and a revoked wall link
\* never work again: what a sign-in or a use read before the change is not stored after
\* it (rehashIfOutdated, noteTokenUse, noteWallLinkUse, the store's Put).
THEOREM WithdrawnForGood == AccessSpec => RevokedStaysRevoked
<1>1. AccessInit => AccessInv
    <2> SUFFICES ASSUME AccessInit PROVE AccessInv
        OBVIOUS
    <2>1. /\ req = [r \in Requests |-> Idle] /\ deleted = {} /\ revoked = {}
          /\ made = [secret |-> 2, token |-> 2, link |-> 0]
          /\ settings = [links |-> {}, rev |-> IF Present = {} THEN 0 ELSE 1]
        BY DEF AccessInit
    <2>2. /\ DOMAIN users = Ids
          /\ \A i \in Present : IsUser(users[i]) /\ users[i].secret <= 2
        <3>1. \A p, n : /\ IsUser([User("person", "admin", p, n) EXCEPT !.rev = 1]) <=> n \in Nat
                        /\ [User("person", "admin", p, n) EXCEPT !.rev = 1].secret = n
            BY DEF User, IsUser
        <3>2. CASE users = [i \in Ids |-> Nobody]
            BY <3>2 DEF Present
        <3>3. ASSUME NEW i, NEW j, NEW p, NEW q, users = TwoAdmins(i, j, p, q)
              PROVE  /\ DOMAIN users = Ids
                     /\ \A k \in Present : IsUser(users[k]) /\ users[k].secret <= 2
            BY <3>1, <3>3 DEF Present, TwoAdmins
        <3> QED
            BY <3>2, <3>3 DEF AccessInit
    <2>3. \A r \in Requests : req[r].pc = "idle"
        BY <2>1 DEF Idle
    <2>4. ReqInv
        BY <2>1, <2>3 DEF ReqInv, NamesAnId, Idle
    <2>5. UsersInv
        BY <2>1, <2>2 DEF UsersInv
    <2>6. ReadInv /\ NewIdInv /\ LinksInv
        BY <2>1, <2>3 DEF ReadInv, NewIdInv, LinksInv, HoldsUser, HoldsNewId, HoldsLinks
    <2> QED
        BY <2>4, <2>5, <2>6 DEF AccessInv
<1>2. AccessInv /\ [AccessNext]_accessVars =>
        AccessInv' /\ (AccessStep \/ UNCHANGED accessVars)
    <2> SUFFICES ASSUME AccessInv, [AccessNext]_accessVars
                 PROVE  AccessInv' /\ (AccessStep \/ UNCHANGED accessVars)
        OBVIOUS
    <2>1. CASE UNCHANGED accessVars
        BY <2>1, RecordsUntouched DEF accessVars
    <2>2. CASE (\E t \in Tokens : reapExpired(t)) \/ \E r \in Requests, t \in Tokens : Logout(r, t)
        BY <2>2, RecordsUntouched DEF reapExpired, Logout
    <2> QED
        BY <2>1, <2>2, BareSteps, ReadingSteps, RewritingSteps, CreatingSteps, DeletingStep,
           LinkSteps
        DEF AccessNext
<1>3. (AccessStep \/ UNCHANGED accessVars) => [AccessStep]_accessVars
    OBVIOUS
<1> QED
    BY <1>1, <1>2, PTL DEF AccessSpec, RevokedStaysRevoked, AccessStep

----------------------------------------------------------------------------
(***************************************************************************)
(* The chain of gates: when the password is asked for.                     *)
(***************************************************************************)

\* What the stored session and the request's copy of it know of the password.
RequestInv(s) ==
    /\ DOMAIN rq[s] = DOMAIN NoRequest
    /\ rq[s].stamp \in Int /\ rq[s].touched \in Int
    /\ rq[s].pc = "gates" => rq[s].refusal = "none" /\ rq[s].stamp >= lastSeen[s]
    /\ rq[s].pc = "none" => rq[s] = NoRequest
    /\ rq[s].touched <= stamp[s]

StampInv ==
    /\ hclock \in Int /\ hclock >= -1
    /\ DOMAIN rq = Sessions /\ DOMAIN stamp = Sessions /\ DOMAIN lastSeen = Sessions
    /\ \A s \in Sessions : /\ stamp[s] \in Int /\ lastSeen[s] \in Int
                           /\ lastSeen[s] <= stamp[s] /\ stamp[s] <= hclock /\ stamp[s] >= -1
                           /\ RequestInv(s)

AskedInTime ==
    \A s \in Sessions :
      rq[s].pc = "gates" /\ rq'[s].refusal = "sudo" /\ lastSeen[s] >= 0
        => hclock >= lastSeen[s] + SudoWindow

\* A step that changes one session's request only.
LEMMA OneRequestMoves ==
    ASSUME StampInv, NEW s \in Sessions, UNCHANGED <<hclock, lastSeen, stamp>>,
           DOMAIN rq' = Sessions, \A q \in Sessions \ {s} : rq'[q] = rq[q],
           RequestInv(s)',
           rq[s].pc = "gates" /\ rq'[s].refusal = "sudo" /\ lastSeen[s] >= 0
             => hclock >= lastSeen[s] + SudoWindow
    PROVE  StampInv' /\ AskedInTime
<1>1. \A q \in Sessions \ {s} : RequestInv(q)' /\ (rq[q].pc = "gates" => rq'[q].refusal # "sudo")
    BY DEF StampInv, RequestInv
<1> QED
    BY <1>1 DEF StampInv, AskedInTime

\* A gate: refused for want of the password is who gave it too long ago.
LEMMA GateKeeps ==
    ASSUME StampInv, NEW s \in Sessions, Gate(s)
    PROVE  StampInv' /\ AskedInTime
<1> DEFINE r == rq[s]
<1>1. /\ DOMAIN r = {"pc", "rt", "by", "gate", "stamp", "attempted", "refusal", "status", "touched"}
      /\ r.pc = "gates" /\ r.refusal = "none" /\ r.stamp \in Int /\ r.touched \in Int
      /\ r.stamp >= lastSeen[s] /\ r.touched <= stamp[s]
      /\ DOMAIN rq = Sessions /\ UNCHANGED <<hclock, lastSeen, stamp>>
      /\ lastSeen[s] \in Int /\ hclock \in Int
    BY DEF StampInv, RequestInv, Gate, NoRequest
<1>2. \/ rq' = [rq EXCEPT ![s] = Passed(r)]
      \/ rq' = [rq EXCEPT ![s] = [Passed(r) EXCEPT !.attempted = TRUE]]
      \/ \E why \in {"csrf", "authn", "anon", "audit", "authz", "lock"} :
           rq' = [rq EXCEPT ![s] = RefusedBy(r, why)]
      \/ rq' = [rq EXCEPT ![s] = RefusedBy(r, "sudo")] /\ ~sudoPasses(r)
    BY Zenon DEF Gate, Attempt
<1>3. ASSUME NEW x, rq' = [rq EXCEPT ![s] = x], DOMAIN x = DOMAIN r,
             x.stamp = r.stamp, x.touched = r.touched, x.pc # "none",
             \/ x.refusal = "none"
             \/ x.pc # "gates" /\ x.refusal # "sudo"
             \/ x.pc # "gates" /\ (lastSeen[s] >= 0 => hclock >= lastSeen[s] + SudoWindow)
      PROVE  StampInv' /\ AskedInTime
    <2>1. DOMAIN rq' = Sessions /\ rq'[s] = x /\ \A q \in Sessions \ {s} : rq'[q] = rq[q]
        BY <1>1, <1>3
    <2>2. RequestInv(s)'
        BY <1>1, <1>3, <2>1 DEF RequestInv, NoRequest
    <2> QED
        BY <1>1, <1>3, <2>1, <2>2, OneRequestMoves
<1>4. DOMAIN Passed(r) = DOMAIN r /\ Passed(r).stamp = r.stamp /\ Passed(r).touched = r.touched
      /\ Passed(r).refusal = "none" /\ Passed(r).pc # "none"
    BY <1>1 DEF Passed
<1>5. CASE rq' = [rq EXCEPT ![s] = Passed(r)]
    BY <1>3, <1>4, <1>5
<1>6. CASE rq' = [rq EXCEPT ![s] = [Passed(r) EXCEPT !.attempted = TRUE]]
    <2> DEFINE x == [Passed(r) EXCEPT !.attempted = TRUE]
    <2>1. /\ DOMAIN x = DOMAIN r /\ x.stamp = r.stamp /\ x.touched = r.touched
          /\ x.refusal = "none" /\ x.pc # "none"
        BY <1>1, <1>4
    <2> QED
        BY <1>3, <1>6, <2>1
<1>7. \A why : LET x == RefusedBy(r, why) IN
        /\ DOMAIN x = DOMAIN r /\ x.stamp = r.stamp /\ x.touched = r.touched
        /\ x.refusal = why /\ x.pc = "written"
    BY <1>1 DEF RefusedBy
<1>8. ASSUME NEW why \in {"csrf", "authn", "anon", "audit", "authz", "lock"},
             rq' = [rq EXCEPT ![s] = RefusedBy(r, why)]
      PROVE  StampInv' /\ AskedInTime
    BY <1>3, <1>7, <1>8
<1>9. CASE rq' = [rq EXCEPT ![s] = RefusedBy(r, "sudo")] /\ ~sudoPasses(r)
    <2>1. lastSeen[s] >= 0 => hclock >= lastSeen[s] + SudoWindow
        BY <1>1, <1>9, WindowAssumption DEF sudoPasses, IsSudoOpen
    <2> QED
        BY <1>3, <1>7, <1>9, <2>1
<1> QED
    BY <1>2, <1>5, <1>6, <1>8, <1>9

\* Destructive actions in a row ask for the password once, whatever tick falls between
\* the gate, the held answer and the saving of the session (Sudo, heldResponse).
THEOREM PasswordIsAskedOnce == HttpSpec => SeriesIsAskedOnce
<1>1. HttpInit => StampInv
    BY DEF HttpInit, StampInv, RequestInv, NoRequest
<1>2. StampInv /\ [HttpNext]_httpVars => StampInv' /\ AskedInTime
    <2> SUFFICES ASSUME StampInv, [HttpNext]_httpVars PROVE StampInv' /\ AskedInTime
        OBVIOUS
    <2>0. ASSUME UNCHANGED <<rq, stamp, lastSeen>>, hclock' = hclock \/ hclock' = hclock + 1
          PROVE  StampInv' /\ AskedInTime
        BY <2>0 DEF StampInv, RequestInv, AskedInTime
    <2>1. CASE UNCHANGED httpVars
        BY <2>0, <2>1 DEF httpVars
    <2>2. CASE HttpClockTicks \/ LockChanges \/ ArchiveChanges \/ \E s \in Sessions : RoleChanges(s)
        BY <2>0, <2>2 DEF HttpClockTicks, LockChanges, ArchiveChanges, RoleChanges
    <2>3. ASSUME NEW s \in Sessions, RequestBegins(s) PROVE StampInv' /\ AskedInTime
        <3> PICK rt, by : rq' = [rq EXCEPT ![s] = [NoRequest EXCEPT !.pc = "gates", !.rt = rt,
                                                     !.by = by, !.gate = 1, !.stamp = stamp[s]]]
            BY <2>3 DEF RequestBegins
        <3>1. /\ DOMAIN rq' = Sessions /\ \A q \in Sessions \ {s} : rq'[q] = rq[q]
              /\ DOMAIN rq'[s] = DOMAIN NoRequest /\ rq'[s].pc = "gates"
              /\ rq'[s].stamp = stamp[s] /\ rq'[s].touched = -1 /\ rq'[s].refusal = "none"
            BY DEF StampInv, NoRequest
        <3>2. UNCHANGED <<hclock, lastSeen, stamp>>
            BY <2>3 DEF RequestBegins
        <3>3. RequestInv(s)'
            BY <3>1, <3>2 DEF StampInv, RequestInv
        <3> QED
            BY <3>1, <3>2, <3>3, OneRequestMoves
    <2>4. ASSUME NEW s \in Sessions, HandlerReturns(s) PROVE StampInv' /\ AskedInTime
        <3>1. /\ DOMAIN rq' = Sessions /\ \A q \in Sessions \ {s} : rq'[q] = rq[q]
              /\ DOMAIN rq'[s] = DOMAIN rq[s] /\ rq'[s].pc \in {"written", "held"}
              /\ rq'[s].stamp = rq[s].stamp /\ rq'[s].touched = rq[s].touched
              /\ rq[s].pc = "handler" /\ UNCHANGED <<hclock, lastSeen, stamp>>
            BY <2>4 DEF HandlerReturns, StampInv, RequestInv, NoRequest
        <3>2. RequestInv(s)'
            BY <3>1 DEF StampInv, RequestInv
        <3> QED
            BY <3>1, <3>2, OneRequestMoves
    <2>5. ASSUME NEW s \in Sessions, SudoAnswers(s) PROVE StampInv' /\ AskedInTime
        <3>1. /\ DOMAIN rq' = Sessions /\ \A q \in Sessions \ {s} : rq'[q] = rq[q]
              /\ DOMAIN rq'[s] = DOMAIN rq[s] /\ rq'[s].pc = "written"
              /\ rq'[s].stamp = rq[s].stamp
              /\ rq'[s].touched = IF Touches(rq[s]) THEN hclock ELSE -1
              /\ rq[s].pc = "held" /\ UNCHANGED <<hclock, lastSeen>>
            BY <2>5 DEF SudoAnswers, HeldIsFlushed, StampInv, RequestInv, NoRequest
        <3>2. /\ DOMAIN stamp' = Sessions /\ \A q \in Sessions \ {s} : stamp'[q] = stamp[q]
              /\ stamp'[s] = IF Touches(rq[s]) THEN hclock ELSE stamp[s]
            BY <2>5 DEF SudoAnswers, HeldIsFlushed, StampInv
        <3>3. stamp'[s] \in Int /\ stamp'[s] >= stamp[s] /\ stamp'[s] <= hclock /\ stamp'[s] >= -1
              /\ rq'[s].touched \in Int /\ rq'[s].touched <= stamp'[s]
            <4>1. CASE Touches(rq[s])
                BY <3>1, <3>2, <4>1 DEF StampInv
            <4>2. CASE ~Touches(rq[s])
                BY <3>1, <3>2, <4>2 DEF StampInv
            <4> QED
                BY <4>1, <4>2
        <3>4. \A q \in Sessions : RequestInv(q)'
            BY <3>1, <3>2, <3>3 DEF StampInv, RequestInv
        <3>5. \A q \in Sessions : rq[q].pc = "gates" => rq'[q].refusal # "sudo"
            BY <3>1 DEF StampInv, RequestInv
        <3> QED
            BY <3>1, <3>2, <3>3, <3>4, <3>5 DEF StampInv, AskedInTime
    <2>6. ASSUME NEW s \in Sessions, AnswerSeen(s) PROVE StampInv' /\ AskedInTime
        <3>1. /\ DOMAIN rq' = Sessions /\ \A q \in Sessions \ {s} : rq'[q] = rq[q]
              /\ rq'[s] = NoRequest /\ rq[s].pc = "written" /\ UNCHANGED <<hclock, stamp>>
              /\ DOMAIN lastSeen' = Sessions
              /\ \A q \in Sessions \ {s} : lastSeen'[q] = lastSeen[q]
              /\ lastSeen'[s] = rq[s].touched \/ lastSeen'[s] = lastSeen[s]
            BY <2>6 DEF AnswerSeen, StampInv
        <3>2. \A q \in Sessions : RequestInv(q)'
            BY <3>1 DEF StampInv, RequestInv, NoRequest
        <3>3. \A q \in Sessions : rq[q].pc = "gates" => rq'[q].refusal # "sudo"
            BY <3>1 DEF StampInv, RequestInv
        <3> QED
            BY <3>1, <3>2, <3>3 DEF StampInv, RequestInv, AskedInTime
    <2>7. ASSUME NEW s \in Sessions, PasswordGiven(s) PROVE StampInv' /\ AskedInTime
        <3>1. /\ UNCHANGED <<hclock, rq, lastSeen>>
              /\ DOMAIN stamp' = Sessions /\ \A q \in Sessions \ {s} : stamp'[q] = stamp[q]
              /\ stamp'[s] = hclock
            BY <2>7 DEF PasswordGiven, StampInv
        <3> QED
            BY <3>1 DEF StampInv, RequestInv, AskedInTime
    <2> QED
        BY <2>1, <2>2, <2>3, <2>4, <2>5, <2>6, <2>7, GateKeeps DEF HttpNext
<1> QED
    BY <1>1, <1>2, PTL DEF HttpSpec, SeriesIsAskedOnce, AskedInTime

=============================================================================
