----------------------------- MODULE RecordsProofs -----------------------------
(***************************************************************************)
(* What holds of the documents of users, parties and configurations for    *)
(* any number of requests in any interleaving, although a handler that     *)
(* found nothing may write long after another did.                         *)
(***************************************************************************)
EXTENDS Records, TLAPS

\* The inductive invariant, in parts.

\* What a handler knows at its awaits: it passed the membership check unless it
\* is at it, its logo was uploaded before the write, and the requests it came
\* after had all been answered.
RequestsAreSound ==
    \A r \in Requests :
        /\ step[r] # "idle" => args[r] \in Calls
        /\ result[r] # "none" => step[r] = "done" \/ (step[r] = "write" /\ result[r] = "failed")
        /\ step[r] = "member" => args[r].op \notin UserOps
        /\ step[r] \in {"find", "upload", "write"} /\ args[r].op \notin UserOps =>
              args[r].owner \in Members
        /\ step[r] = "upload" => args[r].logo # None
        /\ step[r] = "write" => args[r].logo \in images \cup {None}
        /\ \A q \in earlier[r] : step[q] = "done"
        /\ r \notin earlier[r]

\* An account is of a request that was answered, and at the write no account
\* shares its name or email but those of requests it overlaps.
AccountsAreOfRequests ==
    /\ \A r \in DOMAIN users :
          /\ step[r] = "done" /\ args[r].op = "register"
          /\ users[r].username = args[r].name /\ users[r].email = args[r].email
    /\ \A r \in Requests :
          /\ result[r] = "ok" /\ args[r].op = "register" => r \in DOMAIN users
          /\ step[r] = "write" /\ args[r].op = "register" =>
                \A q \in earlier[r] \cap DOMAIN users :
                    users[q].username # args[r].name /\ users[q].email # args[r].email

PartiesAreOfRequests == \A r \in DOMAIN parties : step[r] = "done"

\* The same for configurations; a start holds the configuration it found.
ConfigsAreOfRequests ==
    /\ \A r \in DOMAIN configs : step[r] = "done"
    /\ \A r \in Requests :
          /\ step[r] = "write" /\ args[r].op = "createConfig" =>
                \A q \in earlier[r] \cap DOMAIN configs : configs[q].owner # args[r].owner
          /\ step[r] = "write" /\ args[r].op = "startEnrollment" =>
                found[r] \in Own(configs, args[r].owner)
          /\ result[r] = "ok" /\ args[r].op = "startEnrollment" =>
                found[r] \in Own(configs, args[r].owner) /\ configs[found[r]].isStarted

OwnersConfigsOverlapped ==
    \A p, q \in DOMAIN configs : configs[p].owner = configs[q].owner => Overlap(p, q)

\* s came after the start r was confirmed, and the owner has one configuration.
ComesAfterStart(r, s) ==
    /\ result[r] = "ok" /\ args[r].op = "startEnrollment"
    /\ r \in earlier[s]
    /\ args[s] # None /\ args[s].owner = args[r].owner
    /\ \A p, q \in Own(configs, args[r].owner) : Overlap(p, q) => p = q

\* StartIsSeen, and who comes after a start does not get to write another.
StartsAreSeen ==
    \A r, s \in Requests :
        ComesAfterStart(r, s) =>
            /\ args[s].op = "isStarted" => result[s] # "no"
            /\ args[s].op = "startEnrollment" => result[s] # "ok" /\ step[s] # "write"

RecordsInv ==
    /\ TypeOK
    /\ RequestsAreSound
    /\ AccountsAreOfRequests /\ SharedAccountsOverlapped /\ RegisteredCanSignIn
    /\ PartiesAreOfRequests /\ PartyNamesAreUnique /\ LogosAreUploaded
    /\ ConfigsAreOfRequests /\ OwnersConfigsOverlapped /\ StartsAreSeen
-----------------------------------------------------------------------------
(* What one step does.                                                     *)

Step(r) == Arrive(r) \/ Handle(r) \/ CallFails(r)

\* What the endpoints read of a request is there.
LEMMA CallsAreTyped ==
  ASSUME NEW c \in Calls
  PROVE  /\ c.op \in Ops /\ c.name \in Names \cup {None} /\ c.logo \in Images \cup {None}
         /\ c.op \notin UserOps => c.owner \in Owners
         /\ c.op \in UserOps => c.email \in Emails
         /\ c.op \in {"register", "createParty"} => c.name \in Names
         /\ c.op \notin {"createParty", "patchParty"} => c.logo = None
  BY DEF Calls, Call, WellFormed

\* A step is of one request: what the others are at stays, and so does what
\* was asked and what came earlier unless the request arrives.
LEMMA OthersStay ==
  ASSUME TypeOK, NEW r \in Requests, Step(r)
  PROVE  /\ \A q \in Requests \ {r} : step'[q] = step[q] /\ result'[q] = result[q]
                                      /\ found'[q] = found[q] /\ args'[q] = args[q]
                                      /\ earlier'[q] = earlier[q]
         /\ step[r] # "done" /\ inUse' = inUse
         /\ Arrive(r) \/ (step[r] \in InFlight /\ UNCHANGED <<args, earlier>>)
<1> USE DEF TypeOK, Answer, GoTo, Acknowledge, InFlight, At
<1>1. CASE Arrive(r)
  BY <1>1 DEF Arrive
<1>2. CASE CallFails(r)
  BY <1>2 DEF CallFails
<1>3. CASE RefuseOutsider(r) \/ PassMember(r)
  BY <1>3 DEF RefuseOutsider, PassMember
<1>4. CASE FindTaken(r) \/ CreateUser(r) \/ SignIn(r)
  BY <1>4 DEF FindTaken, CreateUser, SignIn
<1>5. CASE FindName(r) \/ UploadLogo(r)
  BY <1>5 DEF FindName, UploadLogo
<1>6. CASE CreateParty(r)
  BY <1>6 DEF CreateParty
<1>7. CASE PatchParty(r)
  BY <1>7 DEF PatchParty
<1>8. CASE RemoveParty(r)
  BY <1>8 DEF RemoveParty
<1>9. CASE FindNoConfig(r) \/ CreateConfig(r)
  BY <1>9 DEF FindNoConfig, CreateConfig
<1>10. CASE RefuseWithoutConfig(r) \/ FindStarted(r) \/ SaveStarted(r)
  BY <1>10 DEF RefuseWithoutConfig, FindStarted, SaveStarted
<1>11. QED
  BY <1>1, <1>2, <1>3, <1>4, <1>5, <1>6, <1>7, <1>8, <1>9, <1>10 DEF Step, Handle

\* A handler that stays at its write has given it up: nothing is written yet.
LEMMA WriteGivenUp ==
  ASSUME TypeOK, NEW r \in Requests, Step(r), step[r] = "write", step'[r] = "write"
  PROVE  /\ CallFails(r) /\ result'[r] = "failed"
         /\ UNCHANGED <<stores, args, found, earlier>>
<1>1. CASE CallFails(r)
  BY <1>1 DEF CallFails, Answer, TypeOK
<1>2. CASE CreateUser(r) \/ CreateConfig(r) \/ SaveStarted(r)
  BY <1>2 DEF CreateUser, CreateConfig, SaveStarted, Acknowledge, Answer, TypeOK
<1>3. CASE CreateParty(r) \/ PatchParty(r) \/ RemoveParty(r)
  BY <1>3 DEF CreateParty, PatchParty, RemoveParty, Acknowledge, Answer, TypeOK
<1>4. QED
  BY <1>1, <1>2, <1>3 DEF Step, Handle, Arrive, RefuseOutsider, PassMember, FindTaken, SignIn,
     FindName, UploadLogo, FindNoConfig, RefuseWithoutConfig, FindStarted, At

\* Changing and deleting a document leaves a collection of them.
LEMMA DeleteStays ==
  ASSUME NEW Doc, NEW c, IsCollection(c, Doc), NEW r
  PROVE  /\ IsCollection(Delete(c, r), Doc)
         /\ DOMAIN Delete(c, r) = (DOMAIN c) \ {r}
         /\ \A i \in DOMAIN Delete(c, r) : Delete(c, r)[i] = c[i]
  BY DEF IsCollection, Delete

LEMMA ChangeStays ==
  ASSUME NEW Doc, NEW c, IsCollection(c, Doc), NEW r \in DOMAIN c, NEW doc \in Doc
  PROVE  LET changed == [c EXCEPT ![r] = doc]
         IN  /\ IsCollection(changed, Doc)
             /\ DOMAIN changed = DOMAIN c
             /\ \A i \in DOMAIN c : changed[i] = IF i = r THEN doc ELSE c[i]
  BY DEF IsCollection

\* The accounts change by createUser only.
LEMMA UsersStep ==
  ASSUME TypeOK, RequestsAreSound, NEW r \in Requests, Step(r)
  PROVE  \/ users' = users
         \/ /\ CreateUser(r) /\ args[r] \in Calls
            /\ IsCollection(users', User)
            /\ DOMAIN users' = (DOMAIN users) \cup {r}
            /\ \A i \in DOMAIN users : i # r => users'[i] = users[i]
            /\ users'[r] = [username |-> args[r].name, email |-> args[r].email]
<1>1. CASE CreateUser(r)
  <2> DEFINE doc == [username |-> args[r].name, email |-> args[r].email]
  <2>1. args[r] \in Calls /\ args[r].op = "register"
    BY <1>1 DEF CreateUser, At, RequestsAreSound
  <2>2. doc \in User
    BY <2>1, CallsAreTyped DEF User, UserOps
  <2>3. users' = Insert(users, r, doc) /\ IsCollection(users, User)
    BY <1>1 DEF CreateUser, TypeOK
  <2> HIDE DEF doc
  <2>4. /\ IsCollection(users', User)
        /\ DOMAIN users' = (DOMAIN users) \cup {r}
        /\ \A i \in DOMAIN users' : users'[i] = IF i = r THEN doc ELSE users[i]
    BY <2>2, <2>3 DEF IsCollection, Insert
  <2>5. QED
    BY <1>1, <2>1, <2>4 DEF doc
<1>2. CASE ~CreateUser(r)
  BY <1>2 DEF Step, Handle, Arrive, CallFails, RefuseOutsider, PassMember, FindTaken, SignIn,
     FindName, UploadLogo, CreateParty, PatchParty, RemoveParty, FindNoConfig, CreateConfig,
     RefuseWithoutConfig, FindStarted, SaveStarted, stores
<1>3. QED
  BY <1>1, <1>2

\* The parties change by the writes of their three endpoints.
PartyCreated(r) ==
    /\ CreateParty(r) /\ args[r] \in Calls /\ step'[r] = "done"
    /\ ~InIndex(args[r].name, r)
    /\ IsCollection(parties', Party)
    /\ DOMAIN parties' = (DOMAIN parties) \cup {r}
    /\ \A i \in DOMAIN parties : i # r => parties'[i] = parties[i]
    /\ parties'[r] = [owner |-> args[r].owner, name |-> args[r].name, logo |-> args[r].logo]

PartyChanged(r, i) ==
    /\ PatchParty(r) /\ args[r] \in Calls /\ step'[r] = "done"
    /\ args[r].name = None \/ ~InIndex(args[r].name, i)
    /\ IsCollection(parties', Party)
    /\ DOMAIN parties' = DOMAIN parties
    /\ \A j \in DOMAIN parties : j # i => parties'[j] = parties[j]
    /\ parties'[i] = Patched(parties[i], args[r])

PartyRemoved(r, i) ==
    /\ RemoveParty(r) /\ step'[r] = "done"
    /\ IsCollection(parties', Party)
    /\ DOMAIN parties' = (DOMAIN parties) \ {i}
    /\ \A j \in DOMAIN parties' : parties'[j] = parties[j]

LEMMA PartiesStep ==
  ASSUME TypeOK, RequestsAreSound, NEW r \in Requests, Step(r)
  PROVE  \/ parties' = parties
         \/ PartyCreated(r)
         \/ \E i \in Target(args[r]) : PartyChanged(r, i) \/ PartyRemoved(r, i)
<1>0. IsCollection(parties, Party)
  BY DEF TypeOK
<1>1. CASE CreateParty(r) /\ parties' # parties
  <2> DEFINE doc == [owner |-> args[r].owner, name |-> args[r].name, logo |-> args[r].logo]
  <2>1. args[r] \in Calls /\ args[r].op = "createParty"
    BY <1>1 DEF CreateParty, At, RequestsAreSound
  <2>2. doc \in Party
    BY <2>1, CallsAreTyped DEF Party, UserOps
  <2>3. parties' = Insert(parties, r, doc) /\ ~InIndex(args[r].name, r) /\ step'[r] = "done"
    BY <1>1 DEF CreateParty, Acknowledge, Answer, TypeOK
  <2> HIDE DEF doc
  <2>4. /\ IsCollection(parties', Party)
        /\ DOMAIN parties' = (DOMAIN parties) \cup {r}
        /\ \A i \in DOMAIN parties' : parties'[i] = IF i = r THEN doc ELSE parties[i]
    BY <1>0, <2>2, <2>3 DEF IsCollection, Insert
  <2>5. QED
    BY <1>1, <2>1, <2>3, <2>4 DEF doc, PartyCreated
<1>2. CASE PatchParty(r) /\ parties' # parties
  <2>1. args[r] \in Calls /\ args[r].op = "patchParty"
    BY <1>2 DEF PatchParty, At, RequestsAreSound
  <2>2. PICK i \in Target(args[r]) :
           /\ ~(args[r].name # None /\ InIndex(args[r].name, i))
           /\ parties' = [parties EXCEPT ![i] = Patched(@, args[r])]
           /\ Acknowledge(r)
    BY <1>2 DEF PatchParty
  <2>3. i \in DOMAIN parties /\ parties[i] \in Party
    BY <1>0, <2>2 DEF Target, Own, IsCollection
  <2>4. Patched(parties[i], args[r]) \in Party
    BY <2>1, <2>3, CallsAreTyped DEF Patched, Party
  <2>5. parties' = [parties EXCEPT ![i] = Patched(parties[i], args[r])]
    BY <2>2
  <2>6. /\ IsCollection(parties', Party)
        /\ DOMAIN parties' = DOMAIN parties
        /\ \A j \in DOMAIN parties :
              parties'[j] = IF j = i THEN Patched(parties[i], args[r]) ELSE parties[j]
    BY <1>0, <2>3, <2>4, <2>5, ChangeStays
  <2>7. step'[r] = "done"
    BY <2>2 DEF Acknowledge, Answer, TypeOK
  <2>8. QED
    BY <1>2, <2>1, <2>2, <2>3, <2>6, <2>7 DEF PartyChanged
<1>3. CASE RemoveParty(r) /\ parties' # parties
  <2>1. PICK i \in Target(args[r]) : parties' = Delete(parties, i) /\ Acknowledge(r)
    BY <1>3 DEF RemoveParty
  <2>2. step'[r] = "done"
    BY <2>1 DEF Acknowledge, Answer, TypeOK
  <2>3. /\ IsCollection(parties', Party)
        /\ DOMAIN parties' = (DOMAIN parties) \ {i}
        /\ \A j \in DOMAIN parties' : parties'[j] = parties[j]
    BY <1>0, <2>1, DeleteStays
  <2>4. QED
    BY <1>3, <2>1, <2>2, <2>3 DEF PartyRemoved
<1>4. CASE ~CreateParty(r) /\ ~PatchParty(r) /\ ~RemoveParty(r)
  BY <1>4 DEF Step, Handle, Arrive, CallFails, RefuseOutsider, PassMember, FindTaken, SignIn,
     CreateUser, FindName, UploadLogo, FindNoConfig, CreateConfig, RefuseWithoutConfig,
     FindStarted, SaveStarted, stores
<1>5. QED
  BY <1>1, <1>2, <1>3, <1>4

\* The configurations change by createConfig and by the save of a start.
LEMMA ConfigsStep ==
  ASSUME TypeOK, RequestsAreSound, ConfigsAreOfRequests, NEW r \in Requests, Step(r)
  PROVE  \/ configs' = configs
         \/ /\ CreateConfig(r) /\ args[r] \in Calls
            /\ IsCollection(configs', Config)
            /\ DOMAIN configs' = (DOMAIN configs) \cup {r}
            /\ \A i \in DOMAIN configs : i # r => configs'[i] = configs[i]
            /\ configs'[r] = [owner |-> args[r].owner, isStarted |-> FALSE]
         \/ /\ SaveStarted(r)
            /\ IsCollection(configs', Config)
            /\ DOMAIN configs' = DOMAIN configs
            /\ \A i \in DOMAIN configs :
                  /\ configs'[i].owner = configs[i].owner
                  /\ configs'[i].isStarted = (i = found[r] \/ configs[i].isStarted)
<1>0. IsCollection(configs, Config)
  BY DEF TypeOK
<1>1. CASE CreateConfig(r)
  <2> DEFINE doc == [owner |-> args[r].owner, isStarted |-> FALSE]
  <2>1. args[r] \in Calls /\ args[r].op = "createConfig"
    BY <1>1 DEF CreateConfig, At, RequestsAreSound
  <2>2. doc \in Config
    BY <2>1, CallsAreTyped DEF Config, UserOps
  <2>3. configs' = Insert(configs, r, doc)
    BY <1>1 DEF CreateConfig
  <2> HIDE DEF doc
  <2>4. /\ IsCollection(configs', Config)
        /\ DOMAIN configs' = (DOMAIN configs) \cup {r}
        /\ \A i \in DOMAIN configs' : configs'[i] = IF i = r THEN doc ELSE configs[i]
    BY <1>0, <2>2, <2>3 DEF IsCollection, Insert
  <2>5. QED
    BY <1>1, <2>1, <2>4 DEF doc
<1>2. CASE SaveStarted(r)
  <2>1. found[r] \in DOMAIN configs
    BY <1>2 DEF SaveStarted, At, ConfigsAreOfRequests, Own
  <2>2. configs' = [configs EXCEPT ![found[r]].isStarted = TRUE]
    BY <1>2 DEF SaveStarted
  <2>3. IsCollection(configs', Config) /\ DOMAIN configs' = DOMAIN configs
    BY <1>0, <2>1, <2>2 DEF IsCollection, Config
  <2>4. \A i \in DOMAIN configs :
           /\ configs'[i].owner = configs[i].owner
           /\ configs'[i].isStarted = (i = found[r] \/ configs[i].isStarted)
    BY <1>0, <2>1, <2>2 DEF IsCollection, Config
  <2>5. QED
    BY <1>2, <2>3, <2>4
<1>3. CASE ~CreateConfig(r) /\ ~SaveStarted(r)
  BY <1>3 DEF Step, Handle, Arrive, CallFails, RefuseOutsider, PassMember, FindTaken, SignIn,
     CreateUser, FindName, UploadLogo, CreateParty, PatchParty, RemoveParty, FindNoConfig,
     RefuseWithoutConfig, FindStarted, stores
<1>4. QED
  BY <1>1, <1>2, <1>3

\* Where a step leads its own request, and which image it uploads.
LEMMA OwnStep ==
  ASSUME TypeOK, RequestsAreSound, NEW r \in Requests, Step(r), ~Arrive(r)
  PROVE  /\ step[r] \in InFlight /\ args[r] \in Calls
         /\ step'[r] \in InFlight \cup {"done"} /\ result'[r] \in Results
         /\ result'[r] # "none" =>
               step'[r] = "done" \/ (step'[r] = "write" /\ result'[r] = "failed")
         /\ step'[r] # "member"
         /\ step[r] = "member" /\ step'[r] # "done" => args[r].owner \in Members
         /\ images \subseteq images' /\ images' \subseteq Images
         /\ step'[r] = "upload" => args[r].logo # None
         /\ step'[r] = "write" => args[r].logo \in images' \cup {None}
         /\ found'[r] \in Requests \cup {None}
<1> USE DEF TypeOK, Answer, GoTo, Acknowledge, At, Results, stores
<1>1. /\ step[r] \in InFlight /\ args[r] \in Calls
      /\ result[r] # "none" => step[r] = "write" /\ result[r] = "failed"
  <2>1. step[r] \in InFlight
    BY OthersStay
  <2>2. step[r] \notin {"idle", "done"}
    BY <2>1 DEF InFlight
  <2>3. QED
    BY <2>1, <2>2 DEF RequestsAreSound
<1>2. args[r].op \notin {"createParty", "patchParty"} => args[r].logo = None
  BY <1>1, CallsAreTyped
<1>3. args[r].logo # None => args[r].logo \in Images
  BY <1>1, CallsAreTyped
<1>4. CASE CallFails(r)
  <2>1. CASE Answer(r, "failed") /\ UNCHANGED images
    BY <1>1, <1>4, <2>1 DEF CallFails, InFlight
  <2>2. CASE step[r] = "write" /\ UNCHANGED <<images, step>>
    BY <1>1, <1>4, <2>2 DEF CallFails, InFlight, RequestsAreSound
  <2>3. QED
    BY <1>4, <2>1, <2>2 DEF CallFails
<1>5. CASE RefuseOutsider(r) \/ PassMember(r)
  BY <1>1, <1>2, <1>5 DEF RefuseOutsider, PassMember, UploadOrWrite, InFlight
<1>6. CASE FindTaken(r) \/ CreateUser(r)
  BY <1>1, <1>2, <1>6 DEF FindTaken, CreateUser, InFlight
<1>7. CASE SignIn(r)
  <2>1. DOMAIN users \subseteq Requests
    BY DEF IsCollection
  <2>2. QED
    BY <1>1, <1>7, <2>1 DEF SignIn, InFlight
<1>8. CASE FindName(r)
  BY <1>1, <1>8 DEF FindName, UploadOrWrite, InFlight
<1>9. CASE UploadLogo(r)
  BY <1>1, <1>3, <1>9 DEF UploadLogo, InFlight, RequestsAreSound
<1>10. CASE CreateParty(r)
  BY <1>1, <1>10 DEF CreateParty, InFlight
<1>11. CASE PatchParty(r)
  BY <1>1, <1>11 DEF PatchParty, InFlight
<1>12. CASE RemoveParty(r)
  BY <1>1, <1>12 DEF RemoveParty, InFlight
<1>13. CASE FindNoConfig(r) \/ CreateConfig(r)
  BY <1>1, <1>2, <1>13 DEF FindNoConfig, CreateConfig, InFlight
<1>14. CASE RefuseWithoutConfig(r) \/ SaveStarted(r)
  BY <1>1, <1>14 DEF RefuseWithoutConfig, SaveStarted, InFlight
<1>15. CASE FindStarted(r)
  <2>1. DOMAIN configs \subseteq Requests
    BY DEF IsCollection
  <2>2. QED
    BY <1>1, <1>2, <1>15, <2>1 DEF FindStarted, Own, InFlight
<1>16. QED
  BY <1>4, <1>5, <1>6, <1>7, <1>8, <1>9, <1>10, <1>11, <1>12, <1>13, <1>14, <1>15
     DEF Step, Handle

\* A request arrives with a call of the endpoints in use.
LEMMA ArriveStep ==
  ASSUME TypeOK, RequestsAreSound, NEW r \in Requests, Arrive(r)
  PROVE  /\ step[r] = "idle" /\ args'[r] \in Calls /\ result' = result /\ result[r] = "none"
         /\ step'[r] = IF args'[r].op \in UserOps THEN "find" ELSE "member"
         /\ earlier'[r] \subseteq {q \in Requests : step[q] = "done"}
         /\ UNCHANGED <<stores, inUse, found>>
  BY DEF Arrive, GoTo, TypeOK, RequestsAreSound

LEMMA StepType ==
  ASSUME TypeOK, RequestsAreSound, ConfigsAreOfRequests, NEW r \in Requests, Step(r)
  PROVE  TypeOK'
<1>1. IsCollection(users', User)
  BY UsersStep DEF TypeOK
<1>2. IsCollection(parties', Party)
  BY PartiesStep DEF TypeOK, PartyCreated, PartyChanged, PartyRemoved
<1>3. IsCollection(configs', Config)
  BY ConfigsStep DEF TypeOK
<1>4. /\ images' \subseteq Images /\ args'[r] \in Calls \cup {None}
      /\ step'[r] \in InFlight \cup {"idle", "done"} /\ found'[r] \in Requests \cup {None}
      /\ result'[r] \in Results /\ earlier'[r] \subseteq Requests
  <2>1. CASE Arrive(r)
    BY <2>1, ArriveStep DEF TypeOK, stores, InFlight
  <2>2. CASE ~Arrive(r)
    BY <2>2, OwnStep, OthersStay DEF TypeOK
  <2>3. QED
    BY <2>1, <2>2
<1>5. /\ args' = [args EXCEPT ![r] = args'[r]] /\ step' = [step EXCEPT ![r] = step'[r]]
      /\ found' = [found EXCEPT ![r] = found'[r]] /\ result' = [result EXCEPT ![r] = result'[r]]
      /\ earlier' = [earlier EXCEPT ![r] = earlier'[r]]
  BY DEF Step, Handle, Arrive, CallFails, RefuseOutsider, PassMember, FindTaken, SignIn,
     CreateUser, FindName, UploadLogo, CreateParty, PatchParty, RemoveParty, FindNoConfig,
     CreateConfig, RefuseWithoutConfig, FindStarted, SaveStarted, TypeOK, GoTo, Answer, Acknowledge
<1>6. QED
  BY <1>1, <1>2, <1>3, <1>4, <1>5, OthersStay DEF TypeOK

LEMMA StepRequests ==
  ASSUME TypeOK, RequestsAreSound, NEW r \in Requests, Step(r)
  PROVE  RequestsAreSound'
<1> SUFFICES ASSUME NEW q \in Requests
             PROVE  /\ step'[q] # "idle" => args'[q] \in Calls
                    /\ result'[q] # "none" =>
                          step'[q] = "done" \/ (step'[q] = "write" /\ result'[q] = "failed")
                    /\ step'[q] = "member" => args'[q].op \notin UserOps
                    /\ step'[q] \in {"find", "upload", "write"} /\ args'[q].op \notin UserOps =>
                          args'[q].owner \in Members
                    /\ step'[q] = "upload" => args'[q].logo # None
                    /\ step'[q] = "write" => args'[q].logo \in images' \cup {None}
                    /\ \A p \in earlier'[q] : step'[p] = "done"
                    /\ q \notin earlier'[q]
  BY DEF RequestsAreSound
<1>1. \A p \in Requests : step[p] = "done" => step'[p] = "done"
  BY OthersStay
<1>2. \A p \in earlier[q] : p \in Requests
  BY DEF TypeOK
<1>3. CASE q # r
  <2>1. /\ step'[q] = step[q] /\ result'[q] = result[q] /\ args'[q] = args[q]
        /\ earlier'[q] = earlier[q]
    BY <1>3, OthersStay
  <2>2. images \subseteq images'
    BY OwnStep, ArriveStep DEF stores
  <2>3. QED
    BY <1>1, <1>2, <2>1, <2>2 DEF RequestsAreSound
<1>4. CASE q = r /\ Arrive(r)
  <2>1. /\ step[r] = "idle" /\ args'[r] \in Calls /\ result' = result /\ result[r] = "none"
        /\ step'[r] = IF args'[r].op \in UserOps THEN "find" ELSE "member"
        /\ earlier'[r] \subseteq {p \in Requests : step[p] = "done"}
    BY <1>4, ArriveStep
  <2>2. QED
    BY <1>1, <1>4, <2>1
<1>5. CASE q = r /\ ~Arrive(r)
  <2>1. /\ step[r] \in InFlight /\ args[r] \in Calls
        /\ result'[r] # "none" =>
              step'[r] = "done" \/ (step'[r] = "write" /\ result'[r] = "failed")
        /\ step'[r] # "member"
        /\ step[r] = "member" /\ step'[r] # "done" => args[r].owner \in Members
        /\ step'[r] = "upload" => args[r].logo # None
        /\ step'[r] = "write" => args[r].logo \in images' \cup {None}
        /\ args' = args /\ earlier' = earlier
    BY <1>5, OwnStep, OthersStay
  <2>2. step[r] # "member" => args[r].op \in UserOps \/ args[r].owner \in Members
    BY <2>1 DEF RequestsAreSound, InFlight
  <2>3. QED
    BY <1>1, <1>2, <1>5, <2>1, <2>2 DEF RequestsAreSound
<1>6. QED
  BY <1>3, <1>4, <1>5
-----------------------------------------------------------------------------
(* Users.                                                                  *)

\* What the endpoints of users do, in the terms of the invariant.
LEMMA AccountsStep ==
  ASSUME TypeOK, RequestsAreSound, AccountsAreOfRequests,
         NEW r \in Requests, Step(r), args[r] \in Calls, args[r].op \in UserOps, ~Arrive(r)
  PROVE  /\ args[r].op = "register" /\ result'[r] = "ok" => CreateUser(r)
         /\ args[r].op = "register" /\ step'[r] = "write" =>
               ~Taken(args[r]) \/ step[r] = "write"
         /\ args[r].op = "signIn" /\ step[r] # "write" => step'[r] # "write"
         /\ args[r].op = "signIn" /\ result'[r] \notin {"none", "ok", "failed"} =>
              \A i \in DOMAIN users : users[i].email = args[r].email =>
                  \E k \in DOMAIN users : users[k].email = args[r].email /\ k # args[r].id
<1>1. /\ step[r] \in InFlight \ {"member"} /\ result[r] \in {"none", "failed"}
      /\ args[r].logo = None
  BY OwnStep, CallsAreTyped DEF RequestsAreSound, InFlight, UserOps
<1>2. step[r] # "upload"
  BY <1>1 DEF RequestsAreSound
<1>3. CallFails(r) \/ FindTaken(r) \/ CreateUser(r) \/ SignIn(r)
  BY <1>1, <1>2 DEF Step, Handle, RefuseOutsider, PassMember, FindName, UploadLogo,
     CreateParty, PatchParty, RemoveParty, FindNoConfig, CreateConfig, RefuseWithoutConfig,
     FindStarted, SaveStarted, At, UserOps
<1>4. CASE CallFails(r)
  BY <1>1, <1>4 DEF CallFails, Answer, TypeOK, InFlight
<1>5. CASE FindTaken(r)
  BY <1>1, <1>5 DEF FindTaken, Answer, GoTo, TypeOK, At
<1>6. CASE CreateUser(r)
  BY <1>6 DEF CreateUser, Acknowledge, Answer, TypeOK, At
<1>7. CASE SignIn(r)
  BY <1>1, <1>7 DEF SignIn, Answer, TypeOK, At
<1>8. QED
  BY <1>3, <1>4, <1>5, <1>6, <1>7

LEMMA StepAccounts ==
  ASSUME TypeOK, RequestsAreSound, AccountsAreOfRequests, NEW r \in Requests, Step(r)
  PROVE  AccountsAreOfRequests'
<1>1. /\ \A q \in Requests \ {r} : step'[q] = step[q] /\ result'[q] = result[q]
                                  /\ args'[q] = args[q] /\ earlier'[q] = earlier[q]
      /\ step[r] # "done"
  BY OthersStay
<1>2. r \notin DOMAIN users
  BY <1>1 DEF AccountsAreOfRequests
<1>3. DOMAIN users \subseteq Requests
  BY DEF TypeOK, IsCollection
<1>4. CASE CreateUser(r)
  <2>1. /\ DOMAIN users' = (DOMAIN users) \cup {r}
        /\ \A i \in DOMAIN users : i # r => users'[i] = users[i]
        /\ users'[r] = [username |-> args[r].name, email |-> args[r].email]
    BY <1>2, <1>4, UsersStep DEF CreateUser, Insert
  <2>2. step[r] = "write" /\ args[r].op = "register" /\ step'[r] = "done"
        /\ args' = args /\ earlier' = earlier
    BY <1>4 DEF CreateUser, At, Acknowledge, Answer, TypeOK
  <2>3. \A q \in Requests : r \notin earlier[q]
    BY <1>1 DEF RequestsAreSound
  <2>4. \A q \in DOMAIN users' :
          /\ step'[q] = "done" /\ args'[q].op = "register"
          /\ users'[q].username = args'[q].name /\ users'[q].email = args'[q].email
    BY <1>1, <1>2, <1>3, <2>1, <2>2 DEF AccountsAreOfRequests
  <2>5. \A q \in Requests :
          result'[q] = "ok" /\ args'[q].op = "register" => q \in DOMAIN users'
    BY <1>1, <2>1, <2>2 DEF AccountsAreOfRequests
  <2>6. \A q \in Requests : step'[q] = "write" /\ args'[q].op = "register" =>
          \A p \in earlier'[q] \cap DOMAIN users' :
              users'[p].username # args'[q].name /\ users'[p].email # args'[q].email
    BY <1>1, <1>2, <2>1, <2>2, <2>3 DEF AccountsAreOfRequests
  <2>7. QED
    BY <2>4, <2>5, <2>6 DEF AccountsAreOfRequests
<1>5. CASE ~CreateUser(r)
  <2>1. users' = users
    BY <1>5, UsersStep
  <2>2. \A q \in DOMAIN users' :
          /\ step'[q] = "done" /\ args'[q].op = "register"
          /\ users'[q].username = args'[q].name /\ users'[q].email = args'[q].email
    BY <1>1, <1>2, <1>3, <2>1 DEF AccountsAreOfRequests
  <2>3. CASE Arrive(r)
    <3>1. result'[r] # "ok" /\ step'[r] # "write"
      BY <2>3, ArriveStep
    <3>2. QED
      BY <1>1, <2>1, <2>2, <3>1 DEF AccountsAreOfRequests
  <2>4. CASE ~Arrive(r)
    <3>1. args[r] \in Calls /\ args' = args /\ earlier' = earlier
      BY <2>4, OwnStep, OthersStay
    <3>2. /\ args[r].op = "register" => result'[r] # "ok"
          /\ args[r].op = "register" /\ step'[r] = "write" =>
                ~Taken(args[r]) \/ step[r] = "write"
      BY <1>5, <2>4, <3>1, AccountsStep DEF UserOps
    <3>3. QED
      BY <1>1, <2>1, <2>2, <3>1, <3>2 DEF AccountsAreOfRequests, Taken
  <2>5. QED
    BY <2>3, <2>4
<1>6. QED
  BY <1>4, <1>5

\* The later of two writes found the earlier account, unless they overlapped.
LEMMA StepShared ==
  ASSUME TypeOK, RequestsAreSound, AccountsAreOfRequests, SharedAccountsOverlapped,
         NEW r \in Requests, Step(r)
  PROVE  SharedAccountsOverlapped'
<1>1. /\ \A q \in Requests \ {r} : earlier'[q] = earlier[q]
      /\ step[r] # "done"
  BY OthersStay
<1>2. r \notin DOMAIN users /\ DOMAIN users \subseteq Requests
  BY <1>1 DEF AccountsAreOfRequests, TypeOK, IsCollection
<1>3. \A p, q \in DOMAIN users : Overlap(p, q)' = Overlap(p, q)
  BY <1>1, <1>2 DEF Overlap
<1>4. CASE users' = users
  BY <1>3, <1>4 DEF SharedAccountsOverlapped
<1>5. CASE users' # users
  <2>1. /\ CreateUser(r)
        /\ DOMAIN users' = (DOMAIN users) \cup {r}
        /\ \A i \in DOMAIN users : i # r => users'[i] = users[i]
        /\ users'[r] = [username |-> args[r].name, email |-> args[r].email]
    BY <1>5, UsersStep
  <2>2. step[r] = "write" /\ args[r].op = "register" /\ earlier' = earlier
    BY <2>1 DEF CreateUser, At
  <2>3. \A q \in Requests : r \notin earlier[q]
    BY <1>1 DEF RequestsAreSound
  <2>4. ASSUME NEW q \in DOMAIN users,
               users[q].username = args[r].name \/ users[q].email = args[r].email
        PROVE  Overlap(q, r)' /\ Overlap(r, q)'
    <3>1. q \notin earlier[r]
      BY <2>2, <2>4 DEF AccountsAreOfRequests
    <3>2. QED
      BY <1>2, <2>2, <2>3, <3>1 DEF Overlap
  <2>5. Overlap(r, r)'
    BY <2>2, <2>3 DEF Overlap
  <2>6. QED
    BY <1>2, <1>3, <2>1, <2>4, <2>5 DEF SharedAccountsOverlapped
<1>6. QED
  BY <1>4, <1>5

\* The account is there when the later request searches it.
LEMMA StepCanSignIn ==
  ASSUME TypeOK, RequestsAreSound, AccountsAreOfRequests, RegisteredCanSignIn,
         NEW k \in Requests, Step(k)
  PROVE  RegisteredCanSignIn'
<1> SUFFICES ASSUME NEW r \in Requests, NEW s \in Requests,
                    result'[r] = "ok", args'[r].op = "register",
                    r \in earlier'[s],
                    args'[s] # None, args'[s].op = "signIn",
                    args'[s].id = r, args'[s].email = args'[r].email,
                    \A q \in (DOMAIN users') \ {r} : users'[q].email # args'[r].email
             PROVE  result'[s] \in {"none", "ok", "failed"}
  BY DEF RegisteredCanSignIn
<1>1. /\ \A q \in Requests \ {k} : step'[q] = step[q] /\ result'[q] = result[q]
                                  /\ args'[q] = args[q] /\ earlier'[q] = earlier[q]
      /\ step[k] # "done"
  BY OthersStay
<1>2. CASE s = k /\ Arrive(k)
  BY <1>2, ArriveStep
<1>3. CASE ~(s = k /\ Arrive(k))
  <2>1. r \in earlier[s] /\ args'[s] = args[s]
    BY <1>1, <1>3, OthersStay
  <2>2. step[r] = "done" /\ r # k
    BY <1>1, <2>1 DEF RequestsAreSound
  <2>3. result[r] = "ok" /\ args[r].op = "register" /\ args'[r] = args[r]
    BY <1>1, <2>2
  <2>4. r \in DOMAIN users /\ users[r].email = args[r].email
    BY <2>3 DEF AccountsAreOfRequests
  <2>5. DOMAIN users \subseteq DOMAIN users' /\ \A q \in DOMAIN users : users'[q] = users[q]
    <3>1. k \notin DOMAIN users
      BY <1>1 DEF AccountsAreOfRequests
    <3>2. QED
      BY <3>1, UsersStep
  <2>6. \A q \in (DOMAIN users) \ {r} : users[q].email # args[r].email
    BY <2>3, <2>5
  <2>7. CASE s # k
    BY <1>1, <2>1, <2>3, <2>6, <2>7 DEF RegisteredCanSignIn
  <2>8. CASE s = k
    <3>1. ~Arrive(k) /\ args[k] \in Calls /\ args[k].op = "signIn"
      BY <1>3, <2>1, <2>8, OwnStep
    <3>2. result'[k] \notin {"none", "ok", "failed"} =>
            \A i \in DOMAIN users : users[i].email = args[k].email =>
                \E j \in DOMAIN users : users[j].email = args[k].email /\ j # args[k].id
      BY <3>1, AccountsStep DEF UserOps
    <3>3. args[k].id = r /\ args[k].email = args[r].email
      BY <2>1, <2>3, <2>8
    <3>4. QED
      BY <2>4, <2>6, <2>8, <3>2, <3>3
  <2>9. QED
    BY <2>7, <2>8
<1>4. QED
  BY <1>2, <1>3
-----------------------------------------------------------------------------
(* Parties.                                                                *)

LEMMA StepPartyRequests ==
  ASSUME TypeOK, RequestsAreSound, PartiesAreOfRequests, NEW r \in Requests, Step(r)
  PROVE  PartiesAreOfRequests'
<1>1. \A q \in Requests : step[q] = "done" => step'[q] = "done"
  BY OthersStay
<1>2. DOMAIN parties \subseteq Requests
  BY DEF TypeOK, IsCollection
<1>3. \A i \in DOMAIN parties' : i \in DOMAIN parties \/ (i = r /\ step'[r] = "done")
  BY PartiesStep DEF PartyCreated, PartyChanged, PartyRemoved
<1>4. QED
  BY <1>1, <1>2, <1>3 DEF PartiesAreOfRequests

\* Whatever the queries found, the index admits each name once.
LEMMA StepNames ==
  ASSUME TypeOK, RequestsAreSound, PartiesAreOfRequests, PartyNamesAreUnique,
         NEW r \in Requests, Step(r)
  PROVE  PartyNamesAreUnique'
<1>1. r \notin DOMAIN parties
  BY OthersStay DEF PartiesAreOfRequests
<1>2. CASE parties' = parties
  BY <1>2 DEF PartyNamesAreUnique
<1>3. CASE PartyCreated(r)
  BY <1>1, <1>3 DEF PartyCreated, PartyNamesAreUnique, InIndex
<1>4. ASSUME NEW i \in Target(args[r]), PartyChanged(r, i)
      PROVE  PartyNamesAreUnique'
  <2>1. i \in DOMAIN parties /\ parties[i] \in Party
    BY DEF Target, Own, TypeOK, IsCollection
  <2>2. parties'[i].name = IF args[r].name # None THEN args[r].name ELSE parties[i].name
    BY <1>4, <2>1 DEF PartyChanged, Patched, Party
  <2>3. QED
    BY <1>4, <2>1, <2>2 DEF PartyChanged, PartyNamesAreUnique, InIndex
<1>5. ASSUME NEW i \in Target(args[r]), PartyRemoved(r, i)
      PROVE  PartyNamesAreUnique'
  BY <1>5 DEF PartyRemoved, PartyNamesAreUnique
<1>6. QED
  BY <1>2, <1>3, <1>4, <1>5, PartiesStep

\* A logo is uploaded before the write that names it, and never deleted.
LEMMA StepLogos ==
  ASSUME TypeOK, RequestsAreSound, PartiesAreOfRequests, LogosAreUploaded,
         NEW r \in Requests, Step(r)
  PROVE  LogosAreUploaded'
<1>1. r \notin DOMAIN parties /\ images \subseteq images'
  BY OthersStay, OwnStep, ArriveStep DEF PartiesAreOfRequests, stores
<1>2. CASE parties' = parties
  BY <1>1, <1>2 DEF LogosAreUploaded
<1>3. CASE PartyCreated(r)
  <2>1. args[r].logo \in images \cup {None}
    BY <1>3 DEF PartyCreated, CreateParty, At, RequestsAreSound
  <2>2. QED
    BY <1>1, <1>3, <2>1 DEF PartyCreated, LogosAreUploaded
<1>4. ASSUME NEW i \in Target(args[r]), PartyChanged(r, i)
      PROVE  LogosAreUploaded'
  <2>1. args[r].logo \in images \cup {None}
    BY <1>4 DEF PartyChanged, PatchParty, At, RequestsAreSound
  <2>2. i \in DOMAIN parties /\ parties[i] \in Party
    BY DEF Target, Own, TypeOK, IsCollection
  <2>3. parties'[i].logo = IF args[r].logo # None THEN args[r].logo ELSE parties[i].logo
    BY <1>4, <2>2 DEF PartyChanged, Patched, Party
  <2>4. QED
    BY <1>1, <1>4, <2>1, <2>2, <2>3 DEF PartyChanged, LogosAreUploaded
<1>5. ASSUME NEW i \in Target(args[r]), PartyRemoved(r, i)
      PROVE  LogosAreUploaded'
  BY <1>1, <1>5 DEF PartyRemoved, LogosAreUploaded
<1>6. QED
  BY <1>2, <1>3, <1>4, <1>5, PartiesStep

\* A party is changed or removed by a member who owns it.
LEMMA StepOwners ==
  ASSUME TypeOK, RequestsAreSound, PartiesAreOfRequests, NEW r \in Requests, Step(r),
         NEW i \in DOMAIN parties, i \notin DOMAIN parties' \/ parties'[i] # parties[i]
  PROVE  /\ step[r] = "write" /\ step'[r] = "done"
         /\ args[r].owner = parties[i].owner /\ args[r].owner \in Members
<1>1. r \notin DOMAIN parties
  BY OthersStay DEF PartiesAreOfRequests
<1>2. /\ PatchParty(r) \/ RemoveParty(r)
      /\ i \in Target(args[r]) /\ step'[r] = "done"
  BY <1>1, PartiesStep DEF PartyCreated, PartyChanged, PartyRemoved
<1>3. step[r] = "write" /\ args[r].op \notin UserOps
  BY <1>2 DEF PatchParty, RemoveParty, At, UserOps
<1>4. QED
  BY <1>2, <1>3 DEF RequestsAreSound, Target, Own
-----------------------------------------------------------------------------
(* The enrollment configuration.                                           *)

\* What its endpoints do, in the terms of the invariant.
LEMMA ConfigHandlers ==
  ASSUME TypeOK, RequestsAreSound,
         NEW r \in Requests, Step(r), ~Arrive(r), args[r].op \in ConfigOps
  PROVE  /\ args[r].op = "createConfig" /\ step'[r] = "write" /\ step[r] # "write" =>
               Own(configs, args[r].owner) = {}
         /\ args[r].op = "startEnrollment" /\ step'[r] = "write" /\ step[r] # "write" =>
               found'[r] \in Own(configs, args[r].owner) /\ ~configs[found'[r]].isStarted
         /\ args[r].op = "startEnrollment" /\ result'[r] = "ok" =>
               SaveStarted(r) /\ found' = found
         /\ args[r].op = "isStarted" /\ result'[r] = "no" =>
               \E i \in Own(configs, args[r].owner) : ~configs[i].isStarted
<1>1. /\ step[r] \in InFlight /\ args[r].logo = None
      /\ result[r] # "none" => step[r] = "write" /\ result[r] = "failed"
  BY OwnStep, CallsAreTyped DEF ConfigOps, RequestsAreSound, InFlight
<1>2. step[r] # "upload"
  BY <1>1 DEF RequestsAreSound
<1>3. CallFails(r) \/ RefuseOutsider(r) \/ PassMember(r) \/ FindNoConfig(r) \/ CreateConfig(r)
      \/ RefuseWithoutConfig(r) \/ FindStarted(r) \/ SaveStarted(r)
  BY <1>1, <1>2 DEF Step, Handle, FindTaken, CreateUser, SignIn, FindName, UploadLogo,
     CreateParty, PatchParty, RemoveParty, At, ConfigOps
<1>4. CASE CallFails(r) \/ RefuseOutsider(r)
  BY <1>1, <1>4 DEF CallFails, RefuseOutsider, Answer, TypeOK, InFlight
<1>5. CASE PassMember(r)
  <2>1. result'[r] \notin {"ok", "no"}
    BY <1>1, <1>5 DEF PassMember, GoTo, RequestsAreSound, InFlight
  <2>2. step'[r] # "write"
    BY <1>5 DEF PassMember, GoTo, TypeOK, ConfigOps
  <2>3. QED
    BY <2>1, <2>2
<1>6. CASE FindNoConfig(r) \/ CreateConfig(r)
  BY <1>1, <1>6 DEF FindNoConfig, CreateConfig, Acknowledge, Answer, GoTo, TypeOK, At
<1>7. CASE RefuseWithoutConfig(r)
  BY <1>1, <1>7 DEF RefuseWithoutConfig, Answer, TypeOK, At
<1>8. CASE FindStarted(r)
  <2>1. PICK i \in Own(configs, args[r].owner) :
          /\ found' = [found EXCEPT ![r] = i]
          /\ CASE args[r].op = "isStarted" ->
                      Answer(r, IF configs[i].isStarted THEN "yes" ELSE "no")
               [] configs[i].isStarted -> Answer(r, "refused")
               [] OTHER -> GoTo(r, "write")
    BY <1>8 DEF FindStarted
  <2>2. found'[r] = i /\ result[r] = "none"
    BY <1>1, <1>8, <2>1 DEF FindStarted, At, TypeOK, RequestsAreSound, InFlight
  <2>3. CASE args[r].op = "isStarted"
    BY <2>1, <2>2, <2>3 DEF Answer, TypeOK
  <2>4. CASE args[r].op # "isStarted" /\ configs[i].isStarted
    BY <2>1, <2>2, <2>4 DEF Answer, TypeOK
  <2>5. CASE args[r].op # "isStarted" /\ ~configs[i].isStarted
    <3>1. args[r].op = "startEnrollment" /\ GoTo(r, "write")
      BY <1>8, <2>1, <2>5 DEF FindStarted, At
    <3>2. QED
      BY <2>2, <2>5, <3>1 DEF GoTo
  <2>6. QED
    BY <2>3, <2>4, <2>5
<1>9. CASE SaveStarted(r)
  BY <1>9 DEF SaveStarted, Acknowledge, Answer, TypeOK, At
<1>10. QED
  BY <1>3, <1>4, <1>5, <1>6, <1>7, <1>8, <1>9

\* No operation deletes a configuration, moves it or takes a start back.
LEMMA ConfigsGrow ==
  ASSUME TypeOK, RequestsAreSound, ConfigsAreOfRequests, NEW r \in Requests, Step(r)
  PROVE  /\ r \notin DOMAIN configs /\ DOMAIN configs \subseteq Requests
         /\ DOMAIN configs \subseteq DOMAIN configs'
         /\ \A i \in DOMAIN configs :
               /\ configs'[i].owner = configs[i].owner
               /\ configs[i].isStarted => configs'[i].isStarted
<1>1. r \notin DOMAIN configs /\ DOMAIN configs \subseteq Requests
  BY OthersStay DEF ConfigsAreOfRequests, TypeOK, IsCollection
<1>2. QED
  BY <1>1, ConfigsStep

LEMMA StepConfigs ==
  ASSUME TypeOK, RequestsAreSound, ConfigsAreOfRequests, NEW r \in Requests, Step(r)
  PROVE  ConfigsAreOfRequests'
<1>1. /\ \A q \in Requests \ {r} : step'[q] = step[q] /\ result'[q] = result[q]
                                  /\ args'[q] = args[q] /\ earlier'[q] = earlier[q]
                                  /\ found'[q] = found[q]
      /\ step[r] # "done"
  BY OthersStay
<1>2. /\ r \notin DOMAIN configs /\ DOMAIN configs \subseteq Requests
      /\ DOMAIN configs \subseteq DOMAIN configs'
      /\ \A i \in DOMAIN configs :
            /\ configs'[i].owner = configs[i].owner
            /\ configs[i].isStarted => configs'[i].isStarted
  BY ConfigsGrow
<1>3. \A i \in DOMAIN configs' : i \in DOMAIN configs \/ (i = r /\ step'[r] = "done")
  BY ConfigsStep DEF CreateConfig, Acknowledge, Answer, TypeOK
<1>4. \A i \in DOMAIN configs' : step'[i] = "done"
  BY <1>1, <1>2, <1>3 DEF ConfigsAreOfRequests
<1>5. \A q \in Requests : r \notin earlier[q]
  BY <1>1 DEF RequestsAreSound
<1>6. ASSUME NEW q \in Requests
      PROVE  /\ step'[q] = "write" /\ args'[q].op = "createConfig" =>
                   \A p \in earlier'[q] \cap DOMAIN configs' : configs'[p].owner # args'[q].owner
             /\ step'[q] = "write" /\ args'[q].op = "startEnrollment" =>
                   found'[q] \in Own(configs', args'[q].owner)
             /\ result'[q] = "ok" /\ args'[q].op = "startEnrollment" =>
                   found'[q] \in Own(configs', args'[q].owner) /\ configs'[found'[q]].isStarted
  <2>1. CASE q # r
    BY <1>1, <1>2, <1>3, <1>5, <2>1 DEF ConfigsAreOfRequests, Own
  <2>2. CASE q = r /\ Arrive(r)
    <3>1. result'[r] # "ok" /\ step'[r] # "write"
      BY <2>2, ArriveStep
    <3>2. QED
      BY <2>2, <3>1
  <2>3. CASE q = r /\ ~Arrive(r)
    <3>1. args' = args /\ earlier' = earlier
      BY <2>3, OthersStay
    <3>2. CASE args[r].op = "createConfig"
      <4>1. CASE step[r] # "write"
        <5>1. step'[r] = "write" => Own(configs, args[r].owner) = {}
          BY <2>3, <3>2, <4>1, ConfigHandlers DEF ConfigOps
        <5>2. QED
          BY <1>2, <1>3, <1>5, <2>3, <3>1, <3>2, <5>1 DEF Own
      <4>2. CASE step[r] = "write"
        <5>1. step'[r] = "write" => configs' = configs
          BY <4>2, WriteGivenUp DEF stores
        <5>2. QED
          BY <2>3, <3>1, <3>2, <4>2, <5>1 DEF ConfigsAreOfRequests
      <4>3. QED
        BY <4>1, <4>2
    <3>3. CASE args[r].op = "startEnrollment"
      <4>1. /\ step'[r] = "write" => found'[r] \in Own(configs, args[r].owner)
            /\ result'[r] = "ok" => SaveStarted(r) /\ found' = found
        <5>1. step[r] = "write" /\ step'[r] = "write" =>
                found'[r] \in Own(configs, args[r].owner)
          BY <3>3, WriteGivenUp DEF ConfigsAreOfRequests
        <5>2. QED
          BY <2>3, <3>3, <5>1, ConfigHandlers DEF ConfigOps
      <4>2. ASSUME result'[r] = "ok"
            PROVE  found'[r] \in Own(configs', args[r].owner) /\ configs'[found'[r]].isStarted
        <5>1. found[r] \in Own(configs, args[r].owner)
          BY <3>3, <4>1, <4>2 DEF SaveStarted, At, ConfigsAreOfRequests
        <5>2. configs' = [configs EXCEPT ![found[r]].isStarted = TRUE]
          BY <4>1, <4>2 DEF SaveStarted
        <5>3. configs'[found[r]].isStarted
          BY <5>1, <5>2 DEF Own, TypeOK, IsCollection, Config
        <5>4. QED
          BY <1>2, <4>1, <4>2, <5>1, <5>3 DEF Own
      <4>3. QED
        BY <1>2, <2>3, <3>1, <3>3, <4>1, <4>2 DEF Own
    <3>4. QED
      BY <2>3, <3>1, <3>2, <3>3
  <2>4. QED
    BY <2>1, <2>2, <2>3
<1>7. QED
  BY <1>4, <1>6 DEF ConfigsAreOfRequests

\* Two configurations of one owner are of requests that overlapped.
LEMMA StepOverlapped ==
  ASSUME TypeOK, RequestsAreSound, ConfigsAreOfRequests, OwnersConfigsOverlapped,
         NEW r \in Requests, Step(r)
  PROVE  /\ OwnersConfigsOverlapped'
         /\ \A p, q \in DOMAIN configs : Overlap(p, q)' = Overlap(p, q)
<1>1. (\A q \in Requests \ {r} : earlier'[q] = earlier[q]) /\ step[r] # "done"
  BY OthersStay
<1>2. /\ r \notin DOMAIN configs /\ DOMAIN configs \subseteq Requests
      /\ \A i \in DOMAIN configs : configs'[i].owner = configs[i].owner
  BY ConfigsGrow
<1>3. \A p, q \in DOMAIN configs : Overlap(p, q)' = Overlap(p, q)
  BY <1>1, <1>2 DEF Overlap
<1>4. CASE DOMAIN configs' = DOMAIN configs
  BY <1>2, <1>3, <1>4 DEF OwnersConfigsOverlapped
<1>5. CASE DOMAIN configs' # DOMAIN configs
  <2>1. /\ CreateConfig(r)
        /\ DOMAIN configs' = (DOMAIN configs) \cup {r}
        /\ configs'[r] = [owner |-> args[r].owner, isStarted |-> FALSE]
    BY <1>5, ConfigsStep
  <2>2. step[r] = "write" /\ args[r].op = "createConfig" /\ earlier' = earlier
    BY <2>1 DEF CreateConfig, At
  <2>3. \A q \in Requests : r \notin earlier[q]
    BY <1>1 DEF RequestsAreSound
  <2>4. ASSUME NEW q \in DOMAIN configs, configs[q].owner = args[r].owner
        PROVE  Overlap(q, r)' /\ Overlap(r, q)'
    <3>1. q \notin earlier[r]
      BY <2>2, <2>4 DEF ConfigsAreOfRequests
    <3>2. QED
      BY <1>2, <2>2, <2>3, <3>1 DEF Overlap
  <2>5. Overlap(r, r)'
    BY <2>2, <2>3 DEF Overlap
  <2>6. QED
    BY <1>2, <1>3, <2>1, <2>4, <2>5 DEF OwnersConfigsOverlapped
<1>6. QED
  BY <1>3, <1>4, <1>5

\* Whoever comes after a start finds the owner's one configuration started.
LEMMA StepStarts ==
  ASSUME TypeOK, RequestsAreSound, ConfigsAreOfRequests, OwnersConfigsOverlapped,
         StartsAreSeen, NEW k \in Requests, Step(k)
  PROVE  StartsAreSeen'
<1> SUFFICES ASSUME NEW r \in Requests, NEW s \in Requests, ComesAfterStart(r, s)'
             PROVE  /\ args'[s].op = "isStarted" => result'[s] # "no"
                    /\ args'[s].op = "startEnrollment" => result'[s] # "ok" /\ step'[s] # "write"
  BY DEF StartsAreSeen
<1>1. /\ \A q \in Requests \ {k} : step'[q] = step[q] /\ result'[q] = result[q]
                                  /\ args'[q] = args[q] /\ earlier'[q] = earlier[q]
      /\ step[k] # "done"
  BY OthersStay
<1>2. CASE s = k /\ Arrive(k)
  BY <1>2, ArriveStep
<1>3. CASE ~(s = k /\ Arrive(k))
  <2>1. r \in earlier[s] /\ args'[s] = args[s]
    BY <1>1, <1>3, OthersStay DEF ComesAfterStart
  <2>2. step[r] = "done" /\ r # k
    BY <1>1, <2>1 DEF RequestsAreSound
  <2>3. result'[r] = result[r] /\ args'[r] = args[r]
    BY <1>1, <2>2
  <2>4. Own(configs, args[r].owner) \subseteq Own(configs', args[r].owner)
    BY ConfigsGrow DEF Own
  <2>5. ASSUME NEW p \in Own(configs, args[r].owner), NEW q \in Own(configs, args[r].owner),
               Overlap(p, q)
        PROVE  p = q
    <3>1. Overlap(p, q)'
      BY <2>5, StepOverlapped DEF Own
    <3>2. QED
      BY <2>3, <2>4, <3>1 DEF ComesAfterStart
  <2>6. ComesAfterStart(r, s)
    BY <2>1, <2>3, <2>5 DEF ComesAfterStart
  <2>7. CASE s # k
    BY <1>1, <2>6, <2>7 DEF StartsAreSeen
  <2>8. CASE s = k
    <3>1. ~Arrive(k)
      BY <1>3, <2>8
    <3>2. found[r] \in Own(configs, args[r].owner) /\ configs[found[r]].isStarted
      BY <2>6 DEF ComesAfterStart, ConfigsAreOfRequests
    <3>3. ASSUME NEW i \in Own(configs, args[k].owner) PROVE configs[i].isStarted
      <4>1. i \in Own(configs, args[r].owner)
        BY <2>6, <2>8 DEF ComesAfterStart
      <4>2. Overlap(i, found[r])
        BY <3>2, <4>1 DEF OwnersConfigsOverlapped, Own
      <4>3. i = found[r]
        BY <2>5, <3>2, <4>1, <4>2
      <4>4. QED
        BY <3>2, <4>3
    <3>4. CASE args[k].op = "isStarted"
      BY <2>1, <2>8, <3>1, <3>3, <3>4, ConfigHandlers DEF ConfigOps
    <3>5. CASE args[k].op = "startEnrollment"
      <4>1. step[k] # "write"
        BY <2>6, <2>8, <3>5 DEF StartsAreSeen
      <4>2. result'[k] # "ok"
        BY <3>1, <3>5, <4>1, ConfigHandlers DEF ConfigOps, SaveStarted, At
      <4>3. step'[k] # "write"
        BY <3>1, <3>3, <3>5, <4>1, ConfigHandlers DEF ConfigOps
      <4>4. QED
        BY <2>1, <2>8, <3>5, <4>2, <4>3
    <3>6. QED
      BY <2>1, <2>8, <3>4, <3>5
  <2>9. QED
    BY <2>7, <2>8
<1>4. QED
  BY <1>2, <1>3
-----------------------------------------------------------------------------
LEMMA RecordsInitInv == Init => RecordsInv
<1> SUFFICES ASSUME Init PROVE RecordsInv
  OBVIOUS
<1>1. DOMAIN users = {} /\ DOMAIN parties = {} /\ DOMAIN configs = {}
  BY DEF Init
<1>2. TypeOK
  <2>1. IsCollection(users, User) /\ IsCollection(parties, Party) /\ IsCollection(configs, Config)
    BY DEF Init, IsCollection
  <2>2. QED
    BY <2>1 DEF Init, TypeOK, Results
<1>3. RequestsAreSound
  BY DEF Init, RequestsAreSound
<1>4. AccountsAreOfRequests /\ SharedAccountsOverlapped /\ RegisteredCanSignIn
  BY <1>1 DEF Init, AccountsAreOfRequests, SharedAccountsOverlapped, RegisteredCanSignIn
<1>5. PartiesAreOfRequests /\ PartyNamesAreUnique /\ LogosAreUploaded
  BY <1>1 DEF PartiesAreOfRequests, PartyNamesAreUnique, LogosAreUploaded
<1>6. ConfigsAreOfRequests /\ OwnersConfigsOverlapped /\ StartsAreSeen
  BY <1>1 DEF Init, ConfigsAreOfRequests, OwnersConfigsOverlapped, StartsAreSeen, ComesAfterStart
<1>7. QED
  BY <1>2, <1>3, <1>4, <1>5, <1>6 DEF RecordsInv

LEMMA RecordsStepInv == RecordsInv /\ [Next]_vars => RecordsInv'
<1> SUFFICES ASSUME RecordsInv, [Next]_vars PROVE RecordsInv'
  OBVIOUS
<1>1. ASSUME NEW r \in Requests, Step(r)
      PROVE  RecordsInv'
  BY <1>1, StepType, StepRequests, StepAccounts, StepShared, StepCanSignIn, StepPartyRequests,
     StepNames, StepLogos, StepConfigs, StepOverlapped, StepStarts DEF RecordsInv
<1>2. CASE UNCHANGED vars
  BY <1>2 DEF RecordsInv, vars, stores, requestVars, TypeOK, IsCollection, RequestsAreSound,
     AccountsAreOfRequests, SharedAccountsOverlapped, RegisteredCanSignIn, PartiesAreOfRequests,
     PartyNamesAreUnique, LogosAreUploaded, ConfigsAreOfRequests, OwnersConfigsOverlapped,
     StartsAreSeen, ComesAfterStart, Overlap, Own
<1>3. QED
  BY <1>1, <1>2 DEF Next, Step

\* The invariant holds in every reachable state.
THEOREM RecordsInvariant == Spec => []RecordsInv
  BY RecordsInitInv, RecordsStepInv, PTL DEF Spec

\* Documents and requests are typed, whatever overlaps.
THEOREM RecordsTypeCorrect == Spec => []TypeOK
<1>1. RecordsInv => TypeOK
  BY DEF RecordsInv
<1>2. QED
  BY <1>1, RecordsInvariant, PTL

\* No two parties have one name, whatever passes the query at the same time.
THEOREM NamesOfParties == Spec => []PartyNamesAreUnique
<1>1. RecordsInv => PartyNamesAreUnique
  BY DEF RecordsInv
<1>2. QED
  BY <1>1, RecordsInvariant, PTL

\* Every logo a party shows was uploaded.
THEOREM LogosOfParties == Spec => []LogosAreUploaded
<1>1. RecordsInv => LogosAreUploaded
  BY DEF RecordsInv
<1>2. QED
  BY <1>1, RecordsInvariant, PTL

\* Only its owner, a member of the tenant, changes or removes a party.
THEOREM OwnersOfParties == Spec => PartiesAreTheirOwners
<1> DEFINE OwnerActs ==
      \A i \in DOMAIN parties :
         i \notin DOMAIN parties' \/ parties'[i] # parties[i] =>
            \E r \in Requests : /\ step[r] = "write" /\ step'[r] = "done"
                                /\ args[r].owner = parties[i].owner
                                /\ args[r].owner \in Members
<1>1. RecordsInv /\ [Next]_vars => [OwnerActs]_vars
  <2> SUFFICES ASSUME RecordsInv, NEW r \in Requests, Step(r) PROVE OwnerActs
    BY DEF Next, Step
  <2>1. TypeOK /\ RequestsAreSound /\ PartiesAreOfRequests
    BY DEF RecordsInv
  <2>2. QED
    BY <2>1, StepOwners
<1>2. QED
  BY <1>1, RecordsInvariant, PTL DEF Spec, PartiesAreTheirOwners

\* Accounts share a name or an email only if their registrations overlapped.
THEOREM AccountsShareByOverlap == Spec => []SharedAccountsOverlapped
<1>1. RecordsInv => SharedAccountsOverlapped
  BY DEF RecordsInv
<1>2. QED
  BY <1>1, RecordsInvariant, PTL

\* Who registered can sign in, unless another registration shares the email.
THEOREM RegistrationsLast == Spec => []RegisteredCanSignIn
<1>1. RecordsInv => RegisteredCanSignIn
  BY DEF RecordsInv
<1>2. QED
  BY <1>1, RecordsInvariant, PTL

\* A confirmed start is seen by every later request of its tenant.
THEOREM StartsLast == Spec => []StartIsSeen
<1>1. RecordsInv => StartIsSeen
  BY DEF RecordsInv, StartsAreSeen, ComesAfterStart, StartIsSeen
<1>2. QED
  BY <1>1, RecordsInvariant, PTL
=============================================================================
