------------------------------- MODULE Identity -------------------------------
(***************************************************************************)
(* From a photographed document to a ballot.  The server has the texts of  *)
(* the document recognised, has a language model match them with the       *)
(* fields of the register, lets a worker thread search the register of the *)
(* tenant for the values with regular expressions, compares one value of   *)
(* what it found, and signs an enrollment token, with which its holder     *)
(* votes.  Registers grow meanwhile (EnrollmentUpload), requests of        *)
(* several people and tenants interleave, and any call may fail.           *)
(*                                                                         *)
(* Values are taken up to normalizeValue (surrounding blanks, case).  What *)
(* the language model replies is left open: any keys in any order, columns *)
(* or not, each with any text, of the document or not, or none.  The       *)
(* endpoint is modelled behind the auth guard.  A vote is modelled with    *)
(* its guard, which decodes the token it is shown and looks nothing up:    *)
(* the claims of a vote are any, those of a signed token among them.       *)
(***************************************************************************)
EXTENDS Naturals, Sequences, FiniteSets

CONSTANTS
    Requests,     \* slots for process-document requests handled at a time
    Calls,        \* what one may ask: whose document it shows, to which owner
    Owners,       \* (user, tenant) pairs, each with a register of its own
    Members,      \* those that have a MemberTenant document
    Enrollments,  \* ids an enrollment document may have
    Persons,
    Fields,       \* keys of a reply, the columns of the registers among them
    Values,       \* texts of cells, documents and replies, up to normalizeValue
    Empty,        \* the empty text
    rowOf,        \* the row each enrollment is stored from
    paperOf,      \* the texts on each person's document
    Occurs,       \* <<v, w>>: the regular expression v finds something in w
    TokenLife,    \* 10 days
    MaxTime,      \* bounds the clock
    MaxTokens,    \* bounds the tokens signed when a request arrives
    MaxBallots,   \* bounds the ballots cast
    None

\* A cell may be missing (None).  Occurs need not be reflexive: a text with
\* special characters may not match itself, nor one stored as a number.
ASSUME IdentityAssumption ==
    /\ Calls \subseteq [person : Persons, owner : Owners]
    /\ Members \subseteq Owners
    /\ Empty \in Values
    /\ None \notin Values \cup Enrollments \cup Owners
    /\ IsFiniteSet(Fields) /\ IsFiniteSet(Enrollments)
    /\ Occurs \subseteq Values \X Values
    /\ paperOf \in [Persons -> SUBSET Values]
    /\ \A e \in Enrollments :
         /\ rowOf[e].owner \in Owners /\ rowOf[e].person \in Persons
         /\ rowOf[e].cells \in UNION {[C -> Values \cup {None}] : C \in SUBSET Fields}
    /\ TokenLife \in Nat \ {0} /\ MaxTime \in Nat
    /\ MaxTokens \in Nat /\ MaxBallots \in Nat

VARIABLES
    stored,   \* the enrollments in the collection, of all owners
    step,     \* the await each request is at
    args,     \* what it asks
    reply,    \* the language model's answer: the fields in order, with values
    next,     \* the field the worker searches for
    found,    \* the enrollment it matched first
    tokens,   \* those signed
    now,      \* the clock
    cast      \* the ballots the contracts hold

requestVars == <<step, args, reply, next, found>>
vars == <<stored, requestVars, tokens, now, cast>>

Pair == [field : Fields, value : Values \cup {None}]

\* What a token says, whoever made it; without an exp it never expires.
Claims == [owner : Owners, enrollment : Enrollments,
           exp : 0..(MaxTime + TokenLife) \cup {None}]

\* A signed token; as history whose document was verified, and whether the
\* value that was compared stands on it (or is empty, when nothing was found).
Token == [claims : Claims, person : Persons, ofPaper : BOOLEAN]

\* A ballot; as history the persons for whom the server had signed what the
\* voter presented, after a value of their document was compared.
Ballot == [owner : Owners, enrollment : Enrollments, holders : SUBSET Persons]

\* "exited": the worker has ended without a message.
InFlight == {"member", "match", "search", "exited", "compare", "sign"}

TypeOK ==
    /\ stored \subseteq Enrollments
    /\ step \in [Requests -> InFlight \cup {"idle"}]
    /\ args \in [Requests -> Calls \cup {None}]
    /\ reply \in [Requests -> Seq(Pair)]
    /\ next \in [Requests -> Nat \ {0}]
    /\ \A r \in Requests : step[r] = "search" => next[r] <= Len(reply[r])
    /\ found \in [Requests -> Enrollments \cup {None}]
    /\ tokens \subseteq Token
    /\ now \in 0..MaxTime
    /\ cast \subseteq Ballot

Init ==
    /\ stored \in SUBSET Enrollments
    /\ step = [r \in Requests |-> "idle"]
    /\ args = [r \in Requests |-> None]
    /\ reply = [r \in Requests |-> << >>]
    /\ next = [r \in Requests |-> 1]
    /\ found = [r \in Requests |-> None]
    /\ tokens = {} /\ now = 0 /\ cast = {}
-----------------------------------------------------------------------------
\* Mutant of Register: the tenant is left out of the filter.
RegisterOfAll(o) == stored

\* What a query for this user and tenant may return.
Register(o) == {e \in stored : rowOf[e].owner = o}

Cell(e, field) ==
    IF field \in DOMAIN rowOf[e].cells THEN rowOf[e].cells[field] ELSE None

\* The handler answers and ends, and what it held is gone with it.
Answer(r) ==
    /\ step' = [step EXCEPT ![r] = "idle"]
    /\ args' = [args EXCEPT ![r] = None]
    /\ reply' = [reply EXCEPT ![r] = << >>]
    /\ next' = [next EXCEPT ![r] = 1]
    /\ found' = [found EXCEPT ![r] = None]

Arrive(r) ==
    /\ step[r] = "idle"
    /\ Cardinality(tokens) < MaxTokens
    /\ \E c \in Calls : args' = [args EXCEPT ![r] = c]
    /\ step' = [step EXCEPT ![r] = "member"]
    /\ UNCHANGED <<stored, reply, next, found, tokens, now, cast>>

\* "No tienes permiso para acceder a este tenant."
RefuseOutsider(r) ==
    /\ step[r] = "member"
    /\ args[r].owner \notin Members
    /\ Answer(r)
    /\ UNCHANGED <<stored, tokens, now, cast>>

PassMember(r) ==
    /\ step[r] = "member"
    /\ args[r].owner \in Members
    /\ step' = [step EXCEPT ![r] = "match"]
    /\ UNCHANGED <<stored, args, reply, next, found, tokens, now, cast>>

\* "No se encontraron documentos en la colección de empadronamientos."
RefuseWithoutSample(r) ==
    /\ step[r] = "match"
    /\ stored = {}
    /\ Answer(r)
    /\ UNCHANGED <<stored, tokens, now, cast>>

\* The model is asked for the fields of any document, of whichever tenant; its
\* reply is parsed, and taken if it is an object with a key.  The calls to
\* Textract before and to Cohere after the query for them share no state.
MatchFields(r) ==
    /\ step[r] = "match"
    /\ stored # {}
    /\ \E n \in 1..Cardinality(Fields) : \E pairs \in [1..n -> Pair] :
         /\ \A i, j \in 1..n : pairs[i].field = pairs[j].field => i = j
         /\ reply' = [reply EXCEPT ![r] = pairs]
    /\ step' = [step EXCEPT ![r] = "search"]
    /\ UNCHANGED <<stored, args, next, found, tokens, now, cast>>

\* Enrollments of the owner the worker's next query may return: none for a
\* missing or empty value, for which it makes no query.
Hits(r) ==
    LET p == reply[r][next[r]]
    IN  {e \in Register(args[r].owner) :
           p.value \notin {None, Empty} /\ <<p.value, Cell(e, p.field)>> \in Occurs}

\* Only the first match counts; the worker's later queries change nothing.
SearchHit(r) ==
    /\ step[r] = "search"
    /\ \E e \in Hits(r) : found' = [found EXCEPT ![r] = e]
    /\ step' = [step EXCEPT ![r] = "compare"]
    /\ UNCHANGED <<stored, args, reply, next, tokens, now, cast>>

\* Mutant of SearchNext: goes on past the last field.
SearchNextPast(r) ==
    /\ step[r] = "search"
    /\ Hits(r) = {}
    /\ next' = [next EXCEPT ![r] = @ + 1]
    /\ UNCHANGED <<stored, step, args, reply, found, tokens, now, cast>>

SearchNext(r) ==
    /\ step[r] = "search"
    /\ Hits(r) = {}
    /\ next[r] < Len(reply[r])
    /\ next' = [next EXCEPT ![r] = @ + 1]
    /\ UNCHANGED <<stored, step, args, reply, found, tokens, now, cast>>

\* "No se encontró un usuario con los datos proporcionados."
SearchEnds(r) ==
    /\ step[r] = "search"
    /\ Hits(r) = {}
    /\ next[r] = Len(reply[r])
    /\ Answer(r)
    /\ UNCHANGED <<stored, tokens, now, cast>>

\* Mutants of Same: that the search found the enrollment is enough; the regular
\* expression is used once more.
SameEnough(v, w) == TRUE
SamePart(v, w) == <<v, w>> \in Occurs

\* normalizeValue throws on a missing value.
Same(v, w) == None \notin {v, w} /\ v = w

\* The value of the first field of the reply, which need not be the one the
\* worker matched, against the whole cell: "No se encontró un match real."
Compare(r) ==
    /\ step[r] = "compare"
    /\ LET p == reply[r][1]
       IN  IF found[r] \in Register(args[r].owner) /\ Same(p.value, Cell(found[r], p.field))
           THEN /\ step' = [step EXCEPT ![r] = "sign"]
                /\ UNCHANGED <<args, reply, next, found>>
           ELSE Answer(r)
    /\ UNCHANGED <<stored, tokens, now, cast>>

\* After getMemberTenantId, which finds the document validateUserMembership did.
Sign(r) ==
    /\ step[r] = "sign"
    /\ tokens' = tokens \cup
         {[claims |-> [owner |-> args[r].owner, enrollment |-> found[r],
                       exp |-> now + TokenLife],
           person |-> args[r].person,
           ofPaper |-> reply[r][1].value \in paperOf[args[r].person] \cup {Empty}]}
    /\ Answer(r)
    /\ UNCHANGED <<stored, now, cast>>

\* A query or a service fails, the language model's answer is no JSON object or
\* an empty one, or the worker reports an error: a value that is no text, or a
\* key that is no column but a reference of the document.
CallFails(r) ==
    /\ step[r] \in InFlight
    /\ Answer(r)
    /\ UNCHANGED <<stored, tokens, now, cast>>

\* The worker throws outside its try (connect) or is ended: it never exits with
\* code 0 before it has sent its message, and its code is not 0 then.
WorkerExits(r) ==
    /\ step[r] = "search"
    /\ step' = [step EXCEPT ![r] = "exited"]
    /\ UNCHANGED <<stored, args, reply, next, found, tokens, now, cast>>

\* Mutant of OnExit: the event is only logged.
OnExitLogged(r) == step[r] = "exited" /\ UNCHANGED vars

\* The 'error' event rejects the promise, and 'exit' does for that code.
OnExit(r) ==
    /\ step[r] = "exited"
    /\ Answer(r)
    /\ UNCHANGED <<stored, tokens, now, cast>>

Handle(r) ==
    \/ RefuseOutsider(r) \/ PassMember(r)
    \/ RefuseWithoutSample(r) \/ MatchFields(r)
    \/ SearchHit(r) \/ SearchNext(r) \/ SearchEnds(r)
    \/ OnExit(r) \/ Compare(r) \/ Sign(r)
-----------------------------------------------------------------------------
\* An upload stores a row.
Enroll(e) ==
    /\ stored' = stored \cup {e}
    /\ UNCHANGED <<requestVars, tokens, now, cast>>

Tick ==
    /\ now < MaxTime
    /\ now' = now + 1
    /\ UNCHANGED <<stored, requestVars, tokens, cast>>

\* decodeJwt verifies no signature: the claims are what the holder shows.
Expired(c) == c.exp # None /\ c.exp <= now

\* The persons for whom the server signed these claims, after a value of their
\* document was compared.
Holders(c) == {p \in Persons : \E t \in tokens : t.claims = c /\ t.person = p /\ t.ofPaper}

\* Each member has a contract, which takes one ballot of each enrollment id
\* (BallotBox).  Nobody looks the id up in the register.
Vote(c) ==
    /\ ~Expired(c)
    /\ c.owner \in Members
    /\ \A b \in cast : b.owner = c.owner => b.enrollment # c.enrollment
    /\ Cardinality(cast) < MaxBallots
    /\ cast' = cast \cup {[owner |-> c.owner, enrollment |-> c.enrollment,
                           holders |-> Holders(c)]}
    /\ UNCHANGED <<stored, requestVars, tokens, now>>

Next ==
    \/ \E r \in Requests : Arrive(r) \/ Handle(r) \/ WorkerExits(r) \/ CallFails(r)
    \/ \E e \in Enrollments : Enroll(e)
    \/ \E c \in Claims : Vote(c)
    \/ Tick

Spec == Init /\ [][Next]_vars
FairSpec == Spec /\ \A r \in Requests : WF_vars(Handle(r))
-----------------------------------------------------------------------------
\* findEnrollmentByMatchedFields, validateEnrollmentMatch: whatever the language
\* model replies and whatever tenant the sampled fields came from, a token is
\* signed for an enrollment stored for the user and tenant that were asked for
\* only, who are members.
TokensAreOfTheRegister ==
    \A t \in tokens : /\ t.claims.enrollment \in stored
                      /\ rowOf[t.claims.enrollment].owner = t.claims.owner
                      /\ t.claims.owner \in Members

\* No cell of anyone else in the register is a text of this person's document,
\* nor empty: an empty value of the reply equals an empty cell of anyone.
Distinguished(p, o) ==
    \A e \in Enrollments : rowOf[e].owner = o /\ rowOf[e].person # p =>
        \A field \in DOMAIN rowOf[e].cells :
            rowOf[e].cells[field] \notin paperOf[p] \cup {Empty}

\* processAndValidateDocument: one value decides.  If the first one of the reply
\* is a text of the document, or empty, then who the register tells apart gets
\* no token for anybody else, whatever the rest of the reply is and whichever
\* parts of other people's cells the regular expressions find.  A reply that
\* begins with a text of somebody else is not covered.
PersonsAreVerifiedAsThemselves ==
    \A t \in tokens : t.ofPaper /\ Distinguished(t.person, t.claims.owner) =>
        rowOf[t.claims.enrollment].person = t.person

\* generateEnrollmentToken, vote: with what the server signed for them, however
\* often and for however long, such persons cast no more ballots in an election
\* than they have rows in its register.
PersonsVoteOncePerRow ==
    \A p \in Persons, o \in Owners : Distinguished(p, o) =>
        Cardinality({b \in cast : b.owner = o /\ p \in b.holders})
          <= Cardinality({e \in Register(o) : rowOf[e].person = p})

\* processAndValidateDocument: every request is answered, also when the worker
\* ends without a message.
EveryVerificationAnswered ==
    \A r \in Requests : step[r] # "idle" ~> step[r] = "idle"
=============================================================================
