------------------------------- MODULE Records -------------------------------
(***************************************************************************)
(* The handlers that keep documents in MongoDB for the back office: users  *)
(* and their sign-in, the parties of a tenant, and the configuration of    *)
(* its enrollment.  Nearly all of them find first and write awaits later,  *)
(* with no transaction around the two; only the name of a party is backed  *)
(* by a unique index.  Each action is the code from one await to the next. *)
(* A handler may also never go on (a restart): nothing forces a step.      *)
(*                                                                         *)
(* A document is named by the request that creates it, as its ObjectId is  *)
(* fresh.  A member of a tenant is an (user, tenant) pair of Owners; which *)
(* pairs are members does not change here (Subscription creates them).     *)
(* The endpoints that need a tenant are modelled behind their guards.      *)
(***************************************************************************)
EXTENDS FiniteSets

CONSTANTS
    Requests,  \* the requests the server receives, each handled once
    Owners,    \* (user, tenant) pairs the tokens of a request may stand for
    Members,   \* those that have a MemberTenant document
    Names,     \* names of parties and of users
    Emails,
    Images,
    Mixes,     \* what may be used together: sets of <<endpoint, owner>> pairs
    None

VARIABLES
    users,     \* the accounts, by the request that created them
    parties,   \* the party documents
    configs,   \* the enrollment configurations
    images,    \* uploaded to Cloudinary
    inUse,     \* the pairs in use
    args,      \* what each request asks for
    step,      \* the await its handler is at, or its write if it gave that up
    found,     \* the document its query returned
    result,    \* how it was answered
    earlier    \* history: the requests answered before this one arrived,
               \* of users and configurations (no property of parties needs it)

stores == <<users, parties, configs, images>>
requestVars == <<inUse, args, step, found, result, earlier>>
vars == <<stores, requestVars>>

UserOps == {"register", "signIn"}
PartyOps == {"createParty", "patchParty", "removeParty"}
ConfigOps == {"createConfig", "startEnrollment", "isStarted"}
Ops == UserOps \cup PartyOps \cup ConfigOps

\* Handlers of different collections share no document: an instance may look
\* at each collection with all its requests, or at all of them with fewer.
ASSUME RecordsAssumption ==
    /\ Members \subseteq Owners
    /\ Mixes \subseteq SUBSET (Ops \X (Owners \cup {None}))

\* id is the party a request names, or the account whose password it presents.
Call == [op : Ops, owner : Owners \cup {None}, name : Names \cup {None},
         email : Emails \cup {None}, logo : Images \cup {None},
         id : Requests \cup {None}]

\* The endpoint decides which of the fields it reads; the others are fixed.
WellFormed(c) ==
    /\ c.op \in UserOps <=> c.owner = None
    /\ c.op \in UserOps <=> c.email # None
    /\ c.op \in {"register", "createParty"} => c.name # None
    /\ c.name # None => c.op \in {"register", "createParty", "patchParty"}
    /\ c.logo # None => c.op \in {"createParty", "patchParty"}
    /\ c.op \in {"signIn", "patchParty", "removeParty"} <=> c.id # None

Calls == {c \in Call : WellFormed(c)}

\* A collection maps the requests that created its documents to these.
IsCollection(c, Doc) == DOMAIN c \subseteq Requests /\ c \in [DOMAIN c -> Doc]

User == [username : Names, email : Emails]
Party == [owner : Owners, name : Names, logo : Images \cup {None}]
Config == [owner : Owners, isStarted : BOOLEAN]

InFlight == {"member", "find", "upload", "write"}

\* "refused": a check of the handler.  "duplicate": E11000 of an index.
\* "no" and "yes" are the answers of is-started.  "failed": a call failed.
Results == {"none", "ok", "yes", "no", "refused", "notfound", "duplicate", "failed"}

TypeOK ==
    /\ IsCollection(users, User)
    /\ IsCollection(parties, Party)
    /\ IsCollection(configs, Config)
    /\ images \subseteq Images
    /\ inUse \in Mixes
    /\ args \in [Requests -> Calls \cup {None}]
    /\ step \in [Requests -> InFlight \cup {"idle", "done"}]
    /\ found \in [Requests -> Requests \cup {None}]
    /\ result \in [Requests -> Results]
    /\ earlier \in [Requests -> SUBSET Requests]

Init ==
    /\ users = << >> /\ parties = << >> /\ configs = << >>
    /\ images = {}
    /\ inUse \in Mixes
    /\ args = [r \in Requests |-> None]
    /\ step = [r \in Requests |-> "idle"]
    /\ found = [r \in Requests |-> None]
    /\ result = [r \in Requests |-> "none"]
    /\ earlier = [r \in Requests |-> {}]
-----------------------------------------------------------------------------
At(r, s, ops) == step[r] = s /\ args[r].op \in ops

GoTo(r, s) == step' = [step EXCEPT ![r] = s] /\ UNCHANGED result

\* What a handler answered it does not take back.
Answer(r, res) ==
    /\ step' = [step EXCEPT ![r] = "done"]
    /\ result' = [result EXCEPT ![r] = IF @ = "none" THEN res ELSE @]

\* The answer to a write may be lost after the write took effect.
Acknowledge(r) == Answer(r, "ok") \/ Answer(r, "failed")

\* insert, $set and delete of one document, each atomic in MongoDB.
Insert(collection, id, doc) ==
    [i \in DOMAIN collection \cup {id} |-> IF i = id THEN doc ELSE collection[i]]
Delete(collection, id) == [i \in DOMAIN collection \ {id} |-> collection[i]]

Own(collection, owner) == {i \in DOMAIN collection : collection[i].owner = owner}

Arrive(r) ==
    /\ step[r] = "idle"
    /\ \E c \in Calls : /\ <<c.op, c.owner>> \in inUse
                        /\ args' = [args EXCEPT ![r] = c]
                        /\ GoTo(r, IF c.op \in UserOps THEN "find" ELSE "member")
    /\ earlier' = [earlier EXCEPT ![r] =
                      {q \in Requests : step[q] = "done" /\ args[q].op \notin PartyOps}]
    /\ UNCHANGED <<stores, inUse, found>>

\* validateUserMembership: "No tienes permiso para acceder a este tenant."
RefuseOutsider(r) ==
    /\ step[r] = "member"
    /\ args[r].owner \notin Members
    /\ Answer(r, "refused")
    /\ UNCHANGED <<stores, inUse, args, found, earlier>>

\* Mutants of UploadOrWrite: the document is saved before the logo is uploaded,
\* a request without a logo uploads too.
WriteAtOnce(r) == "write"
UploadAlways(r) == "upload"

\* What a party endpoint awaits next: the logo's upload if there is one.
UploadOrWrite(r) == IF args[r].logo # None THEN "upload" ELSE "write"

\* A PATCH without a name skips the query, a DELETE has none.
PassMember(r) ==
    /\ step[r] = "member"
    /\ args[r].owner \in Members
    /\ GoTo(r, CASE args[r].op = "removeParty" -> "write"
                 [] args[r].op = "patchParty" /\ args[r].name = None -> UploadOrWrite(r)
                 [] OTHER -> "find")
    /\ UNCHANGED <<stores, inUse, args, found, earlier>>

\* MongoDB or Cloudinary fails an awaited call.  A write the driver gave up may
\* still be on its way and take effect after the answer: until it does, or is
\* lost, the request is not done.
CallFails(r) ==
    /\ step[r] \in InFlight
    /\ \/ Answer(r, "failed")
       \/ /\ step[r] = "write"
          /\ result' = [result EXCEPT ![r] = "failed"]
          /\ UNCHANGED step
    /\ UNCHANGED <<stores, inUse, args, found, earlier>>
-----------------------------------------------------------------------------
(* Users.                                                                  *)

\* Mutant of Taken: both have to be the same.
TakenBoth(c) == \E i \in DOMAIN users : users[i].username = c.name /\ users[i].email = c.email

\* "El usuario o correo ya están en uso."
Taken(c) == \E i \in DOMAIN users : users[i].username = c.name \/ users[i].email = c.email

FindTaken(r) ==
    /\ At(r, "find", {"register"})
    /\ IF Taken(args[r]) THEN Answer(r, "refused") ELSE GoTo(r, "write")
    /\ UNCHANGED <<stores, inUse, args, found, earlier>>

\* Mutant of CreateUser: the answer does not wait for the save, which fails.
CreateUserUnsaved(r) ==
    /\ At(r, "write", {"register"})
    /\ Acknowledge(r)
    /\ UNCHANGED <<stores, inUse, args, found, earlier>>

\* The collection has no unique index.  bcrypt runs synchronously.
CreateUser(r) ==
    /\ At(r, "write", {"register"})
    /\ users' = Insert(users, r, [username |-> args[r].name, email |-> args[r].email])
    /\ Acknowledge(r)
    /\ UNCHANGED <<parties, configs, images, inUse, args, found, earlier>>

\* findOne returns any account of this email; its password is compared at once.
SignIn(r) ==
    /\ At(r, "find", {"signIn"})
    /\ LET accounts == {i \in DOMAIN users : users[i].email = args[r].email}
       IN  \/ accounts = {} /\ Answer(r, "notfound") /\ UNCHANGED found
           \/ \E i \in accounts :
                /\ found' = [found EXCEPT ![r] = i]
                /\ Answer(r, IF i = args[r].id THEN "ok" ELSE "refused")
    /\ UNCHANGED <<stores, inUse, args, earlier>>
-----------------------------------------------------------------------------
(* Parties.                                                                *)

\* Another party of this user and tenant has the name: "Ya existe un partido
\* con este nombre en el tenant."  A PATCH leaves the party itself out.
NameTaken(c) == \E i \in Own(parties, c.owner) \ {c.id} : parties[i].name = c.name

FindName(r) ==
    /\ At(r, "find", {"createParty", "patchParty"})
    /\ IF NameTaken(args[r]) THEN Answer(r, "refused") ELSE GoTo(r, UploadOrWrite(r))
    /\ UNCHANGED <<stores, inUse, args, found, earlier>>

UploadLogo(r) ==
    /\ step[r] = "upload"
    /\ images' = images \cup {args[r].logo}
    /\ GoTo(r, "write")
    /\ UNCHANGED <<users, parties, configs, inUse, args, found, earlier>>

\* Mutant of InIndex: the index is the pair of tenant and name only.
InTenantIndex(name, id) ==
    \E i \in DOMAIN parties \ {id} : parties[i].name = name /\ parties[i].owner = args[id].owner

\* The index on name spans the collection, so that the one on tenant and name
\* adds nothing.
InIndex(name, id) == \E i \in DOMAIN parties \ {id} : parties[i].name = name

CreateParty(r) ==
    /\ At(r, "write", {"createParty"})
    /\ LET doc == [owner |-> args[r].owner, name |-> args[r].name, logo |-> args[r].logo]
       IN  \/ InIndex(doc.name, r) /\ Answer(r, "duplicate") /\ UNCHANGED parties
           \/ ~InIndex(doc.name, r) /\ parties' = Insert(parties, r, doc) /\ Acknowledge(r)
    /\ UNCHANGED <<users, configs, images, inUse, args, found, earlier>>

\* Mutant of Target: the id alone selects the party.
TargetOfAny(c) == {i \in DOMAIN parties : i = c.id}

\* findOneAndUpdate and findOneAndDelete filter by id, tenant and user.
Target(c) == Own(parties, c.owner) \cap {c.id}

\* Only the fields of the request are set; an empty logo is not one of them.
Patched(p, c) ==
    [p EXCEPT !.name = IF c.name # None THEN c.name ELSE @,
              !.logo = IF c.logo # None THEN c.logo ELSE @]

PatchParty(r) ==
    /\ At(r, "write", {"patchParty"})
    /\ LET c == args[r]
       IN  \/ Target(c) = {} /\ Answer(r, "notfound") /\ UNCHANGED parties
           \/ \E i \in Target(c) :
                \/ /\ c.name # None /\ InIndex(c.name, i)
                   /\ Answer(r, "duplicate") /\ UNCHANGED parties
                \/ /\ ~(c.name # None /\ InIndex(c.name, i))
                   /\ parties' = [parties EXCEPT ![i] = Patched(@, c)]
                   /\ Acknowledge(r)
    /\ UNCHANGED <<users, configs, images, inUse, args, found, earlier>>

RemoveParty(r) ==
    /\ At(r, "write", {"removeParty"})
    /\ \/ Target(args[r]) = {} /\ Answer(r, "notfound") /\ UNCHANGED parties
       \/ \E i \in Target(args[r]) : parties' = Delete(parties, i) /\ Acknowledge(r)
    /\ UNCHANGED <<users, configs, images, inUse, args, found, earlier>>
-----------------------------------------------------------------------------
(* The enrollment configuration.                                           *)

\* "La configuración para este tenant ya existe."
FindNoConfig(r) ==
    /\ At(r, "find", {"createConfig"})
    /\ IF Own(configs, args[r].owner) # {} THEN Answer(r, "refused") ELSE GoTo(r, "write")
    /\ UNCHANGED <<stores, inUse, args, found, earlier>>

CreateConfig(r) ==
    /\ At(r, "write", {"createConfig"})
    /\ configs' = Insert(configs, r, [owner |-> args[r].owner, isStarted |-> FALSE])
    /\ Acknowledge(r)
    /\ UNCHANGED <<users, parties, images, inUse, args, found, earlier>>

\* "La configuración para este tenant no existe."
RefuseWithoutConfig(r) ==
    /\ At(r, "find", {"startEnrollment", "isStarted"})
    /\ Own(configs, args[r].owner) = {}
    /\ Answer(r, "refused")
    /\ UNCHANGED <<stores, inUse, args, found, earlier>>

\* "El empadronamiento ya está iniciado." is decided on what findOne returned.
FindStarted(r) ==
    /\ At(r, "find", {"startEnrollment", "isStarted"})
    /\ \E i \in Own(configs, args[r].owner) :
        /\ found' = [found EXCEPT ![r] = i]
        /\ CASE args[r].op = "isStarted" ->
                    Answer(r, IF configs[i].isStarted THEN "yes" ELSE "no")
             [] configs[i].isStarted -> Answer(r, "refused")
             [] OTHER -> GoTo(r, "write")
    /\ UNCHANGED <<stores, inUse, args, earlier>>

\* Mutant of SaveStarted: the answer does not wait for the save, which fails.
SaveStartedNever(r) ==
    /\ At(r, "write", {"startEnrollment"})
    /\ Acknowledge(r)
    /\ UNCHANGED <<stores, inUse, args, found, earlier>>

\* config.save() sets the one field that was modified.
SaveStarted(r) ==
    /\ At(r, "write", {"startEnrollment"})
    /\ configs' = [configs EXCEPT ![found[r]].isStarted = TRUE]
    /\ Acknowledge(r)
    /\ UNCHANGED <<users, parties, images, inUse, args, found, earlier>>
-----------------------------------------------------------------------------
Handle(r) ==
    \/ RefuseOutsider(r) \/ PassMember(r)
    \/ FindTaken(r) \/ CreateUser(r) \/ SignIn(r)
    \/ FindName(r) \/ UploadLogo(r)
    \/ CreateParty(r) \/ PatchParty(r) \/ RemoveParty(r)
    \/ FindNoConfig(r) \/ CreateConfig(r)
    \/ RefuseWithoutConfig(r) \/ FindStarted(r) \/ SaveStarted(r)

Next == \E r \in Requests : Arrive(r) \/ Handle(r) \/ CallFails(r)

Spec == Init /\ [][Next]_vars
-----------------------------------------------------------------------------
\* createParty, patchParty: whatever passes the query for the name at the same
\* time, no two party documents of the system have one name.
PartyNamesAreUnique ==
    \A i, j \in DOMAIN parties : parties[i].name = parties[j].name => i = j

\* createParty, patchParty: no party shows a logo that was not uploaded.
LogosAreUploaded ==
    \A i \in DOMAIN parties : parties[i].logo \in images \cup {None}

\* patchParty, removeParty: only a request of its own user and tenant changes
\* or removes a party, and a member of the tenant at that.
PartiesAreTheirOwners ==
    [][\A i \in DOMAIN parties :
         i \notin DOMAIN parties' \/ parties'[i] # parties[i] =>
            \E r \in Requests : /\ step[r] = "write" /\ step'[r] = "done"
                                /\ args[r].owner = parties[i].owner
                                /\ args[r].owner \in Members]_vars

Overlap(q, r) == q \notin earlier[r] /\ r \notin earlier[q]

\* createUser: two accounts share a username or an email only if their
\* registrations overlapped, although nothing but the query prevents it.
SharedAccountsOverlapped ==
    \A q, r \in DOMAIN users :
        \/ users[q].username = users[r].username
        \/ users[q].email = users[r].email
        => Overlap(q, r)

\* signIn: who registered can sign in with the same email and password, unless
\* another registration of that email overlapped.
RegisteredCanSignIn ==
    \A r, s \in Requests :
        /\ result[r] = "ok" /\ args[r].op = "register"
        /\ r \in earlier[s]
        /\ args[s] # None /\ args[s].op = "signIn"
        /\ args[s].id = r /\ args[s].email = args[r].email
        /\ \A q \in DOMAIN users \ {r} : users[q].email # args[r].email
        => result[s] \in {"none", "ok", "failed"}

\* createConfig, startEnrollment, getIsStarted: once a start was confirmed,
\* every later request of that tenant finds it started, and a second start is
\* refused, provided that no two createConfig requests overlapped.
StartIsSeen ==
    \A r, s \in Requests :
        /\ result[r] = "ok" /\ args[r].op = "startEnrollment"
        /\ r \in earlier[s]
        /\ args[s] # None /\ args[s].owner = args[r].owner
        /\ \A p, q \in Own(configs, args[r].owner) : Overlap(p, q) => p = q
        => /\ args[s].op = "isStarted" => result[s] # "no"
           /\ args[s].op = "startEnrollment" => result[s] # "ok"
=============================================================================
