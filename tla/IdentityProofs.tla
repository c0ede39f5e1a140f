----------------------------- MODULE IdentityProofs -----------------------------
(***************************************************************************)
(* For whom a verified document gets a token, and how many ballots tokens  *)
(* are good for, for any registers, documents and requests, whatever the   *)
(* language model answers and the regular expressions match.               *)
(***************************************************************************)
EXTENDS Identity, FiniteSetTheorems, TLAPS

\* The inductive invariant, in parts.

\* What a handler holds at each of its awaits: behind "member" the owner is a
\* member; the search begins with the first field; behind "match" there is a
\* reply; behind "compare" its first value equals that field of an enrollment
\* stored for the owner.
FoundMatches(r) ==
    LET p == reply[r][1]
    IN  found[r] \in Register(args[r].owner) /\ Same(p.value, Cell(found[r], p.field))

RequestsAreSound ==
    \A r \in Requests :
        /\ step[r] \in InFlight => args[r] \in Calls
        /\ step[r] \in InFlight \ {"member"} => args[r].owner \in Members
        /\ step[r] \in {"idle", "member", "match"} => next[r] = 1
        /\ step[r] \in {"search", "exited", "compare", "sign"} => reply[r] # << >>
        /\ step[r] = "sign" => FoundMatches(r)

\* Who a token is signed for is who the enrollment says, if told apart by the
\* register and compared by a text of the document.
Holds(t) ==
    /\ t.claims.enrollment \in stored
    /\ rowOf[t.claims.enrollment].owner = t.claims.owner
    /\ t.claims.owner \in Members
    /\ t.ofPaper /\ Distinguished(t.person, t.claims.owner) =>
          rowOf[t.claims.enrollment].person = t.person

TokensAreSound == \A t \in tokens : Holds(t)

\* The claims of a ballot's holders were signed for them; an enrollment has one
\* ballot in the contract of each owner (BallotBox).
SignedFor(b, p) ==
    \E t \in tokens : /\ t.claims.owner = b.owner /\ t.claims.enrollment = b.enrollment
                      /\ t.person = p /\ t.ofPaper

BallotsAreSound ==
    /\ \A b \in cast : \A p \in b.holders : SignedFor(b, p)
    /\ \A b, c \in cast : b.owner = c.owner /\ b.enrollment = c.enrollment => b = c

IdentityInv ==
    /\ TypeOK
    /\ RequestsAreSound
    /\ TokensAreSound
    /\ BallotsAreSound
-----------------------------------------------------------------------------
\* A handler that answers leaves its slot as it was at the start.
LEMMA AnswerEmptiesSlot ==
  ASSUME TypeOK, NEW r \in Requests, Answer(r)
  PROVE  /\ step' \in [Requests -> InFlight \cup {"idle"}]
         /\ args' \in [Requests -> Calls \cup {None}]
         /\ reply' \in [Requests -> Seq(Pair)]
         /\ next' \in [Requests -> Nat \ {0}]
         /\ found' \in [Requests -> Enrollments \cup {None}]
         /\ step'[r] = "idle"
         /\ \A q \in Requests \ {r} :
              /\ step'[q] = step[q] /\ args'[q] = args[q] /\ reply'[q] = reply[q]
              /\ next'[q] = next[q] /\ found'[q] = found[q]
  BY DEF TypeOK, Answer

\* The steps in which a handler answers and which do nothing else.
OnlyAnswers(r) ==
    \/ RefuseOutsider(r) \/ RefuseWithoutSample(r) \/ SearchEnds(r)
    \/ OnExit(r) \/ CallFails(r)

LEMMA OnlyAnswersStep ==
  ASSUME NEW r \in Requests, OnlyAnswers(r)
  PROVE  Answer(r) /\ UNCHANGED <<stored, tokens, now, cast>>
  BY DEF OnlyAnswers, RefuseOutsider, RefuseWithoutSample, SearchEnds, OnExit, CallFails

\* Compare either answers or goes on to sign.
LEMMA CompareStep ==
  ASSUME NEW r \in Requests, Compare(r)
  PROVE  /\ UNCHANGED <<stored, tokens, now, cast>>
         /\ \/ Answer(r)
            \/ /\ step[r] = "compare" /\ FoundMatches(r)
               /\ step' = [step EXCEPT ![r] = "sign"]
               /\ UNCHANGED <<args, reply, next, found>>
  BY DEF Compare, FoundMatches

\* The reply MatchFields picks is not empty.
LEMMA MatchFieldsStep ==
  ASSUME NEW r \in Requests, MatchFields(r)
  PROVE  /\ step[r] = "match" /\ step' = [step EXCEPT ![r] = "search"]
         /\ UNCHANGED <<stored, args, next, found, tokens, now, cast>>
         /\ \E p \in Seq(Pair) : reply' = [reply EXCEPT ![r] = p] /\ Len(p) \in Nat \ {0}
<1>1. Cardinality(Fields) \in Nat
  BY IdentityAssumption, FS_CardinalityType DEF IdentityAssumption
<1>2. PICK n \in 1..Cardinality(Fields) :
         \E p \in [1..n -> Pair] : reply' = [reply EXCEPT ![r] = p]
  BY Zenon DEF MatchFields
<1> PICK p \in [1..n -> Pair] : reply' = [reply EXCEPT ![r] = p]
  BY <1>2, Zenon
<1>3. n \in Nat \ {0}
  BY <1>1
<1>4. p \in Seq(Pair) /\ Len(p) = n
  BY <1>3
<1>5. QED
  BY <1>3, <1>4 DEF MatchFields
-----------------------------------------------------------------------------
LEMMA InitInv == Init => IdentityInv
<1> SUFFICES ASSUME Init PROVE IdentityInv
  OBVIOUS
<1> USE DEF Init
<1>1. TypeOK
  <2>1. << >> \in Seq(Pair)
    OBVIOUS
  <2>2. 0 \in 0..MaxTime
    BY IdentityAssumption DEF IdentityAssumption
  <2>3. QED
    BY <2>1, <2>2 DEF TypeOK
<1>2. RequestsAreSound
  BY DEF RequestsAreSound, InFlight
<1>3. TokensAreSound /\ BallotsAreSound
  BY DEF TokensAreSound, BallotsAreSound
<1>4. QED
  BY <1>1, <1>2, <1>3 DEF IdentityInv

\* Every step keeps the types.
LEMMA StepTypeOK == TypeOK /\ RequestsAreSound /\ [Next]_vars => TypeOK'
<1> SUFFICES ASSUME TypeOK, RequestsAreSound, [Next]_vars PROVE TypeOK'
  OBVIOUS
<1>1. ASSUME NEW r \in Requests, Arrive(r) PROVE TypeOK'
  BY <1>1 DEF Arrive, TypeOK, InFlight
<1>2. ASSUME NEW r \in Requests, OnlyAnswers(r) PROVE TypeOK'
  BY <1>2, OnlyAnswersStep, AnswerEmptiesSlot DEF TypeOK
<1>3. ASSUME NEW r \in Requests, PassMember(r) PROVE TypeOK'
  BY <1>3 DEF PassMember, TypeOK, InFlight
<1>4. ASSUME NEW r \in Requests, MatchFields(r) PROVE TypeOK'
  <2>2. /\ step[r] = "match" /\ step' = [step EXCEPT ![r] = "search"]
        /\ UNCHANGED <<stored, args, next, found, tokens, now, cast>>
        /\ \E p \in Seq(Pair) : reply' = [reply EXCEPT ![r] = p] /\ Len(p) \in Nat \ {0}
    BY <1>4, MatchFieldsStep
  <2>3. next[r] = 1
    BY <2>2 DEF RequestsAreSound
  <2>4. QED
    BY <2>2, <2>3 DEF TypeOK, InFlight
<1>5. ASSUME NEW r \in Requests, SearchHit(r) PROVE TypeOK'
  BY <1>5 DEF SearchHit, Hits, Register, TypeOK, InFlight
<1>6. ASSUME NEW r \in Requests, SearchNext(r) PROVE TypeOK'
  BY <1>6 DEF SearchNext, TypeOK
<1>7. ASSUME NEW r \in Requests, Compare(r) PROVE TypeOK'
  <2>1. CASE Answer(r)
    BY <1>7, <2>1, CompareStep, AnswerEmptiesSlot DEF TypeOK
  <2>2. CASE ~Answer(r)
    BY <1>7, <2>2, CompareStep DEF TypeOK, InFlight
  <2>3. QED
    BY <2>1, <2>2
<1>8. ASSUME NEW r \in Requests, Sign(r) PROVE TypeOK'
  <2>1. args[r] \in Calls /\ FoundMatches(r)
    BY <1>8 DEF Sign, RequestsAreSound, InFlight
  <2>2. args[r].owner \in Owners /\ args[r].person \in Persons /\ found[r] \in Enrollments
    BY <2>1, IdentityAssumption DEF IdentityAssumption, FoundMatches, Register, TypeOK
  <2>3. now + TokenLife \in 0..(MaxTime + TokenLife)
    BY IdentityAssumption DEF IdentityAssumption, TypeOK
  <2> DEFINE c == [owner |-> args[r].owner, enrollment |-> found[r], exp |-> now + TokenLife]
             o == reply[r][1].value \in paperOf[args[r].person] \cup {Empty}
             t == [claims |-> c, person |-> args[r].person, ofPaper |-> o]
  <2>4. tokens' \subseteq Token
    <3>1. c \in Claims /\ o \in BOOLEAN
      BY <2>2, <2>3 DEF Claims
    <3>2. tokens' = tokens \cup {t}
      BY <1>8 DEF Sign
    <3> HIDE DEF c, o
    <3>3. t \in Token
      BY <2>2, <3>1 DEF Token
    <3>4. QED
      BY <3>2, <3>3 DEF TypeOK
  <2>5. QED
    BY <1>8, <2>4, AnswerEmptiesSlot DEF Sign, TypeOK
<1>9. ASSUME NEW r \in Requests, WorkerExits(r) PROVE TypeOK'
  BY <1>9 DEF WorkerExits, TypeOK, InFlight
<1>10. ASSUME NEW e \in Enrollments, Enroll(e) PROVE TypeOK'
  BY <1>10 DEF Enroll, requestVars, TypeOK
<1>11. ASSUME NEW c \in Claims, Vote(c) PROVE TypeOK'
  BY <1>11 DEF Vote, Holders, requestVars, TypeOK, Claims, Ballot
<1>12. CASE Tick
  BY <1>12, IdentityAssumption DEF IdentityAssumption, Tick, requestVars, TypeOK
<1>13. CASE UNCHANGED vars
  BY <1>13 DEF vars, requestVars, TypeOK
<1>14. QED
  BY <1>1, <1>2, <1>3, <1>4, <1>5, <1>6, <1>7, <1>8, <1>9, <1>10, <1>11, <1>12, <1>13
     DEF Next, Handle, OnlyAnswers

\* Every step keeps what handlers hold: the register only grows, and nobody
\* else touches a handler's slot.
LEMMA StepRequestsAreSound ==
  TypeOK /\ RequestsAreSound /\ [Next]_vars => RequestsAreSound'
<1> SUFFICES ASSUME TypeOK, RequestsAreSound, [Next]_vars, NEW q \in Requests
             PROVE  /\ step'[q] \in InFlight => args'[q] \in Calls
                    /\ step'[q] \in InFlight \ {"member"} => args'[q].owner \in Members
                    /\ step'[q] \in {"idle", "member", "match"} => next'[q] = 1
                    /\ step'[q] \in {"search", "exited", "compare", "sign"} =>
                          reply'[q] # << >>
                    /\ step'[q] = "sign" => FoundMatches(q)'
  BY DEF RequestsAreSound, InFlight
<1> DEFINE Sound == /\ step'[q] \in InFlight => args'[q] \in Calls
                    /\ step'[q] \in InFlight \ {"member"} => args'[q].owner \in Members
                    /\ step'[q] \in {"idle", "member", "match"} => next'[q] = 1
                    /\ step'[q] \in {"search", "exited", "compare", "sign"} =>
                          reply'[q] # << >>
                    /\ step'[q] = "sign" => FoundMatches(q)'
<1> SUFFICES Sound
  OBVIOUS
<1>1. stored \subseteq stored'
  BY CompareStep, OnlyAnswersStep
     DEF Next, Handle, OnlyAnswers, vars, requestVars, Arrive, PassMember, MatchFields, SearchHit,
         SearchNext, Sign, WorkerExits, Enroll, Vote, Tick
<1>2. ASSUME step'[q] = step[q], args'[q] = args[q], reply'[q] = reply[q],
             next'[q] = next[q], found'[q] = found[q]
      PROVE  Sound
  BY <1>1, <1>2 DEF RequestsAreSound, FoundMatches, Register
<1>3. ASSUME step'[q] = "idle", next'[q] = 1 PROVE Sound
  BY <1>3 DEF InFlight
<1>4. ASSUME NEW r \in Requests, Answer(r) PROVE Sound
  <2>1. CASE r = q
    <3>1. step'[q] = "idle" /\ next'[q] = 1
      BY <1>4, <2>1 DEF Answer, TypeOK
    <3>2. QED
      BY <1>3, <3>1
  <2>2. CASE r # q
    BY <1>2, <1>4, <2>2, AnswerEmptiesSlot
  <2>3. QED
    BY <2>1, <2>2
<1> HIDE DEF Sound
<1>5. ASSUME NEW r \in Requests, Arrive(r) PROVE Sound
  <2>1. CASE r # q
    BY <1>2, <1>5, <2>1 DEF Arrive, TypeOK
  <2>2. CASE r = q
    <3>1. step'[q] = "member" /\ args'[q] \in Calls /\ next'[q] = 1
      BY <1>5, <2>2 DEF Arrive, TypeOK, RequestsAreSound
    <3>2. QED
      BY <3>1 DEF Sound
  <2>3. QED
    BY <2>1, <2>2
<1>6. ASSUME NEW r \in Requests, PassMember(r) PROVE Sound
  <2>1. CASE r # q
    BY <1>2, <1>6, <2>1 DEF PassMember, TypeOK
  <2>2. CASE r = q
    <3>1. /\ step'[q] = "match" /\ args'[q] \in Calls /\ args'[q].owner \in Members
          /\ next'[q] = 1
      BY <1>6, <2>2 DEF PassMember, TypeOK, RequestsAreSound, InFlight
    <3>2. QED
      BY <3>1 DEF Sound
  <2>3. QED
    BY <2>1, <2>2
<1>7. ASSUME NEW r \in Requests, MatchFields(r) PROVE Sound
  <2>1. args[r] \in Calls /\ args[r].owner \in Members
    BY <1>7 DEF RequestsAreSound, MatchFields, InFlight
  <2>2. /\ step' = [step EXCEPT ![r] = "search"]
        /\ UNCHANGED <<stored, args, next, found, tokens, now, cast>>
    BY <1>7, MatchFieldsStep
  <2>3. PICK p \in Seq(Pair) : reply' = [reply EXCEPT ![r] = p] /\ Len(p) \in Nat \ {0}
    BY <1>7, MatchFieldsStep
  <2>4. CASE r # q
    BY <1>2, <2>2, <2>3, <2>4 DEF TypeOK
  <2>5. CASE r = q
    <3>1. step'[q] = "search" /\ args'[q] = args[q] /\ reply'[q] = p
      BY <2>2, <2>3, <2>5 DEF TypeOK
    <3>2. reply'[q] # << >>
      BY <2>3, <3>1
    <3>3. QED
      BY <2>1, <2>5, <3>1, <3>2 DEF Sound
  <2>6. QED
    BY <2>4, <2>5
\* A step from "search" or "compare" keeps what was asked and replied.
<1>8. ASSUME NEW s \in {"search", "exited", "compare"},
             step[q] \in {"search", "exited", "compare"}, step'[q] = s,
             args'[q] = args[q], reply'[q] = reply[q]
      PROVE  Sound
  BY <1>8 DEF Sound, RequestsAreSound, InFlight
<1>9. ASSUME NEW r \in Requests, SearchHit(r) \/ SearchNext(r) \/ WorkerExits(r) PROVE Sound
  <2>1. CASE r # q
    BY <1>2, <1>9, <2>1 DEF SearchHit, SearchNext, WorkerExits, TypeOK
  <2>2. CASE r = q
    BY <1>8, <1>9, <2>2 DEF SearchHit, SearchNext, WorkerExits, TypeOK
  <2>3. QED
    BY <2>1, <2>2
<1>10. ASSUME NEW r \in Requests, Compare(r) PROVE Sound
  <2>1. CASE Answer(r)
    BY <1>4, <2>1
  <2>2. CASE ~Answer(r)
    <3>1. /\ UNCHANGED <<stored, args, reply, next, found>>
          /\ step[r] = "compare" /\ FoundMatches(r) /\ step' = [step EXCEPT ![r] = "sign"]
      BY <1>10, <2>2, CompareStep
    <3>2. CASE r # q
      BY <1>2, <3>1, <3>2 DEF TypeOK
    <3>3. CASE r = q
      BY <3>1, <3>3
         DEF Sound, TypeOK, RequestsAreSound, FoundMatches, Register, InFlight
    <3>4. QED
      BY <3>2, <3>3
  <2>3. QED
    BY <2>1, <2>2
<1>11. CASE \E r \in Requests : OnlyAnswers(r) \/ Sign(r)
  BY <1>4, <1>11, OnlyAnswersStep DEF Sign
<1>12. CASE \/ \E e \in Enrollments : Enroll(e)
            \/ \E c \in Claims : Vote(c)
            \/ Tick
            \/ UNCHANGED vars
  BY <1>2, <1>12 DEF Enroll, Vote, Tick, vars, requestVars
<1>13. QED
  BY <1>5, <1>6, <1>7, <1>9, <1>10, <1>11, <1>12 DEF Next, Handle, OnlyAnswers

\* An enrollment stored for the owner, of which one cell is a text of the
\* person's document or empty, is the person's own if the register tells the
\* person apart: this is where the comparison of one whole value counts, though
\* the regular expression found another one.
LEMMA MatchIsOwn ==
  ASSUME TypeOK, RequestsAreSound, NEW r \in Requests, step[r] = "sign",
         reply[r][1].value \in paperOf[args[r].person] \cup {Empty},
         Distinguished(args[r].person, args[r].owner)
  PROVE  rowOf[found[r]].person = args[r].person
<1> DEFINE p == reply[r][1]
           c == Cell(found[r], p.field)
<1>1. /\ found[r] \in stored /\ rowOf[found[r]].owner = args[r].owner
      /\ None \notin {p.value, c} /\ p.value = c
  BY DEF RequestsAreSound, FoundMatches, Register, Same
<1>2. c \in paperOf[args[r].person] \cup {Empty}
  BY <1>1
<1>3. p.field \in DOMAIN rowOf[found[r]].cells /\ c = rowOf[found[r]].cells[p.field]
  BY <1>1 DEF Cell
<1>4. found[r] \in Enrollments
  BY <1>1 DEF TypeOK
<1>5. QED
  BY <1>1, <1>2, <1>3, <1>4 DEF Distinguished

\* The register only grows, so what holds of a token goes on.
LEMMA HoldsGoesOn ==
  ASSUME NEW t, Holds(t), stored \subseteq stored'
  PROVE  Holds(t)'
  BY DEF Holds, Distinguished

NewToken(r) ==
    [claims |-> [owner |-> args[r].owner, enrollment |-> found[r], exp |-> now + TokenLife],
     person |-> args[r].person,
     ofPaper |-> reply[r][1].value \in paperOf[args[r].person] \cup {Empty}]

NewBallot(c) == [owner |-> c.owner, enrollment |-> c.enrollment, holders |-> Holders(c)]

\* Each step adds at most one token, signed for a match, and at most one ballot,
\* of an enrollment that has none.
LEMMA StepKinds ==
  ASSUME [Next]_vars
  PROVE  /\ stored \subseteq stored'
         /\ \/ UNCHANGED <<tokens, cast>>
            \/ /\ UNCHANGED cast
               /\ \E r \in Requests : /\ step[r] = "sign"
                                      /\ tokens' = tokens \cup {NewToken(r)}
            \/ /\ UNCHANGED tokens
               /\ \E c \in Claims :
                    /\ \A b \in cast : b.owner = c.owner => b.enrollment # c.enrollment
                    /\ cast' = cast \cup {NewBallot(c)}
<1> DEFINE Quiet == stored \subseteq stored' /\ UNCHANGED <<tokens, cast>>
<1>1. ASSUME NEW r \in Requests,
             Arrive(r) \/ PassMember(r) \/ MatchFields(r) \/ SearchHit(r) \/ SearchNext(r)
               \/ WorkerExits(r)
      PROVE  Quiet
  BY <1>1 DEF Arrive, PassMember, MatchFields, SearchHit, SearchNext, WorkerExits
<1>2. ASSUME NEW r \in Requests, OnlyAnswers(r) \/ Compare(r) PROVE Quiet
  BY <1>2, OnlyAnswersStep, CompareStep
<1>3. CASE (\E e \in Enrollments : Enroll(e)) \/ Tick \/ UNCHANGED vars
  BY <1>3 DEF Enroll, Tick, vars
<1>4. ASSUME NEW r \in Requests, Sign(r)
      PROVE  /\ stored \subseteq stored' /\ UNCHANGED cast
             /\ step[r] = "sign"
             /\ tokens' = tokens \cup {NewToken(r)}
  BY <1>4 DEF Sign, NewToken
<1>5. ASSUME NEW c \in Claims, Vote(c)
      PROVE  /\ stored \subseteq stored' /\ UNCHANGED tokens
             /\ \A b \in cast : b.owner = c.owner => b.enrollment # c.enrollment
             /\ cast' = cast \cup {NewBallot(c)}
  BY <1>5 DEF Vote, NewBallot
<1>6. QED
  BY <1>1, <1>2, <1>3, <1>4, <1>5 DEF Next, Handle, OnlyAnswers

LEMMA StepTokensAreSound ==
  TypeOK /\ RequestsAreSound /\ TokensAreSound /\ [Next]_vars => TokensAreSound'
<1> SUFFICES ASSUME TypeOK, RequestsAreSound, TokensAreSound, [Next]_vars, NEW t \in tokens'
             PROVE  Holds(t)'
  BY DEF TokensAreSound
<1>1. CASE t \in tokens
  BY <1>1, StepKinds, HoldsGoesOn DEF TokensAreSound
<1>2. CASE t \notin tokens
  <2>1. PICK r \in Requests : step[r] = "sign" /\ t = NewToken(r)
    BY <1>2, StepKinds
  <2>2. args[r].owner \in Members /\ FoundMatches(r)
    BY <2>1 DEF RequestsAreSound, InFlight
  <2>3. found[r] \in stored /\ rowOf[found[r]].owner = args[r].owner
    BY <2>2 DEF FoundMatches, Register
  <2>4. t.ofPaper /\ Distinguished(args[r].person, args[r].owner) =>
           rowOf[found[r]].person = args[r].person
    BY <2>1, MatchIsOwn DEF NewToken
  <2>5. Holds(t)
    BY <2>1, <2>2, <2>3, <2>4 DEF Holds, NewToken
  <2>6. QED
    BY <2>5, StepKinds, HoldsGoesOn
<1>3. QED
  BY <1>1, <1>2

LEMMA StepBallotsAreSound ==
  BallotsAreSound /\ [Next]_vars => BallotsAreSound'
<1> SUFFICES ASSUME BallotsAreSound, [Next]_vars
             PROVE  BallotsAreSound'
  OBVIOUS
<1>1. tokens \subseteq tokens'
  BY StepKinds
<1>2. ASSUME NEW b, NEW p, SignedFor(b, p) PROVE SignedFor(b, p)'
  BY <1>1, <1>2 DEF SignedFor
<1>3. CASE UNCHANGED cast
  BY <1>2, <1>3 DEF BallotsAreSound
<1>4. CASE ~UNCHANGED cast
  <2>1. PICK c \in Claims :
          /\ \A b \in cast : b.owner = c.owner => b.enrollment # c.enrollment
          /\ cast' = cast \cup {NewBallot(c)}
    BY <1>4, StepKinds
  <2>2. \A p \in NewBallot(c).holders : SignedFor(NewBallot(c), p)
    BY DEF NewBallot, Holders, SignedFor
  <2>3. \A b \in cast' : \A p \in b.holders : SignedFor(b, p)'
    BY <1>2, <2>1, <2>2 DEF BallotsAreSound
  <2>4. \A b, d \in cast' : b.owner = d.owner /\ b.enrollment = d.enrollment => b = d
    BY <2>1 DEF BallotsAreSound, NewBallot
  <2>5. QED
    BY <2>3, <2>4 DEF BallotsAreSound
<1>5. QED
  BY <1>3, <1>4

\* The ballots cast with what a person was signed are mapped one-to-one to that
\* person's rows.
LEMMA BallotsAreOfRows ==
  ASSUME IdentityInv, NEW p \in Persons, NEW o \in Owners, Distinguished(p, o)
  PROVE  Cardinality({b \in cast : b.owner = o /\ p \in b.holders})
           <= Cardinality({e \in Register(o) : rowOf[e].person = p})
<1> DEFINE B == {b \in cast : b.owner = o /\ p \in b.holders}
           R == {e \in Register(o) : rowOf[e].person = p}
           f == [b \in B |-> b.enrollment]
<1>1. IsFiniteSet(R)
  <2>1. R \subseteq Enrollments
    BY DEF IdentityInv, TypeOK, Register
  <2>2. QED
    BY <2>1, IdentityAssumption, FS_Subset DEF IdentityAssumption
<1>2. \A b \in B : b.enrollment \in R
  <2> SUFFICES ASSUME NEW b \in B PROVE b.enrollment \in R
    OBVIOUS
  <2>1. PICK t \in tokens : /\ t.claims.owner = o /\ t.claims.enrollment = b.enrollment
                            /\ t.person = p /\ t.ofPaper
    BY DEF IdentityInv, BallotsAreSound, SignedFor
  <2>2. Holds(t)
    BY DEF IdentityInv, TokensAreSound
  <2>3. QED
    BY <2>1, <2>2 DEF Holds, Register
<1>3. f \in Injection(B, R)
  <2>1. \A b, c \in B : f[b] = f[c] => b = c
    BY DEF IdentityInv, BallotsAreSound
  <2>2. f \in [B -> R]
    BY <1>2
  <2>3. QED
    BY <2>1, <2>2 DEF Injection, IsInjective
<1> HIDE DEF B, R, f
<1>4. Cardinality(B) <= Cardinality(R)
  BY <1>1, <1>3, FS_Injection
<1>5. QED
  BY <1>4 DEF B, R
-----------------------------------------------------------------------------
\* The invariant holds in every reachable state.
THEOREM IdentityInvariant == Spec => []IdentityInv
<1>1. IdentityInv /\ [Next]_vars => IdentityInv'
  BY StepTypeOK, StepRequestsAreSound, StepTokensAreSound, StepBallotsAreSound DEF IdentityInv
<1>2. QED
  BY InitInv, <1>1, PTL DEF Spec

\* The state is well typed; in particular the worker never searches for a field
\* past the end of the reply.
THEOREM IdentityTypeCorrect == Spec => []TypeOK
<1>1. IdentityInv => TypeOK
  BY DEF IdentityInv
<1>2. QED
  BY <1>1, IdentityInvariant, PTL

\* A token is signed only for an enrollment of the register that was asked for,
\* whose owner is a member, for any tenants, registers and replies.
THEOREM TokensOfTheRegister == Spec => []TokensAreOfTheRegister
<1>1. IdentityInv => TokensAreOfTheRegister
  BY DEF IdentityInv, TokensAreSound, Holds, TokensAreOfTheRegister
<1>2. QED
  BY <1>1, IdentityInvariant, PTL

\* Who is told apart by the register and compared by a text of the document gets
\* no token for anybody else, whatever else the language model replies and
\* whatever the regular expressions match.
THEOREM VerifiedAsThemselves == Spec => []PersonsAreVerifiedAsThemselves
<1>1. IdentityInv => PersonsAreVerifiedAsThemselves
  BY DEF IdentityInv, TokensAreSound, Holds, PersonsAreVerifiedAsThemselves
<1>2. QED
  BY <1>1, IdentityInvariant, PTL

\* With what was signed for them, such persons cast no more ballots than they
\* have rows: the ballots map one-to-one to the rows.
THEOREM OneVotePerRow == Spec => []PersonsVoteOncePerRow
<1>1. IdentityInv => PersonsVoteOncePerRow
  BY BallotsAreOfRows DEF PersonsVoteOncePerRow
<1>2. QED
  BY <1>1, IdentityInvariant, PTL
=============================================================================
