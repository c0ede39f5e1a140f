---------------------------- MODULE ElectionReads ----------------------------
(***************************************************************************)
(* What a client is told of an election: the real-time statistics, the     *)
(* total, the audit trail, has-voted and the ballot, behind their guards.  *)
(* Each is a sequence of awaited calls, the statistics one per candidate,  *)
(* and transactions are executed between them.  The state of the contract is that of        *)
(* ElectionContract; the parties are the documents PartyService keeps.     *)
(* A request for a tenant without a contract is refused before any call,   *)
(* as in ElectionService, and not repeated here.                           *)
(***************************************************************************)
EXTENDS ElectionContract

\* The empty string is no party's id.
ASSUME ReadsAssumption == None \notin Parties

VARIABLES
    partyState,  \* the party documents: not created yet, there, or removed
    query,       \* the client's request under way, or the one last answered
    known,       \* the hashes has-voted has answered "yes" for
    told         \* votes the client knows of: the largest number answered

readVars == <<partyState, query, known, told>>

Reads == {"statistics", "total", "audit", "voted", "ballot"}

\* What the request found when it was asked is kept beside it as history.
Since == [counts : [Ids -> 0..MaxUint8], told : Nat, ended : BOOLEAN,
          removed : SUBSET Parties]

Listed == [id : Ids, partyId : Parties \cup {None}, isActive : BOOLEAN]

BallotEntry == [candidateId : Ids, id : Ids, party : Parties \cup {None}]

Query == [op : Reads, step : {"asked", "listed", "answered", "failed"},
          list : Seq(Listed), got : UNION {[ids -> 0..MaxUint8] : ids \in SUBSET Ids},
          votes : Nat, ballot : Seq(BallotEntry), since : Since]

Removed == {p \in Parties : partyState[p] = "removed"}

Counts == [id \in Ids |-> candidates[id].voteCount]

Now == [counts |-> Counts, told |-> told,
        ended |-> electionEnded, removed |-> Removed]

NoQuery == [op |-> "total", step |-> "failed", list |-> << >>, got |-> << >>,
            votes |-> 0, ballot |-> << >>,
            since |-> [counts |-> [id \in Ids |-> 0], told |-> 0, ended |-> FALSE,
                       removed |-> {}]]

ReadsTypeOK ==
    /\ ContractTypeOK
    /\ partyState \in [Parties -> {"new", "there", "removed"}]
    /\ query \in Query
    /\ known \subseteq Hashes
    /\ told \in Nat

ReadsInit ==
    /\ ContractInit
    /\ partyState \in [Parties -> {"new", "there"}]
    /\ query = NoQuery
    /\ known = {}
    /\ told = 0
-----------------------------------------------------------------------------
(* The views of the contract.                                              *)

Entry(id) == [id |-> id, partyId |-> candidates[id].partyId,
              isActive |-> candidates[id].isActive]

\* Mutant of getAllCandidates: deleted candidates are left out.
getActiveCandidates ==
    SelectSeq([i \in 1..candidatesCount |-> Entry(i - 1)], LAMBDA e : e.isActive)

\* Every id below candidatesCount in its order, deleted candidates included.
getAllCandidates == [i \in 1..candidatesCount |-> Entry(i - 1)]

getVotesByCandidate(id) == candidates[id].voteCount

\* The sum of the counts, as the number of the votes they stand for.
VotesOf(counts) == {v \in (DOMAIN counts) \X (1..MaxUint8) : v[2] <= counts[v[1]]}
Votes(counts) == Cardinality(VotesOf(counts))

AtLeast(n) == told' = IF n > told THEN n ELSE told
-----------------------------------------------------------------------------
(* The client's requests.                                                  *)

Reading(op, s) == query.op = op /\ query.step = s

Ask(op) ==
    /\ query.step \in {"answered", "failed"}
    /\ query' = [NoQuery EXCEPT !.op = op, !.step = "asked", !.since = Now]
    /\ UNCHANGED <<partyState, known, told>>

\* getRealTimeStatistics and generateBallot both begin with the list.
ListCandidates ==
    /\ query.op \in {"statistics", "ballot"} /\ query.step = "asked"
    /\ query' = [query EXCEPT !.step = "listed", !.list = getAllCandidates]
    /\ UNCHANGED <<partyState, known, told>>

ListedIds == {query.list[i].id : i \in DOMAIN query.list}

\* One of the concurrent calls of Promise.all is executed.
CountVotes(id) ==
    /\ Reading("statistics", "listed")
    /\ id \in ListedIds \ DOMAIN query.got
    /\ Exists(id)
    /\ query' = [query EXCEPT !.got = [i \in DOMAIN @ \cup {id} |->
                                         IF i = id THEN getVotesByCandidate(id) ELSE @[i]]]
    /\ UNCHANGED <<partyState, known, told>>

\* Promise.all resolves with the last of them.
AnswerStatistics ==
    /\ Reading("statistics", "listed")
    /\ DOMAIN query.got = ListedIds
    /\ query' = [query EXCEPT !.step = "answered", !.votes = Votes(query.got)]
    /\ AtLeast(Votes(query.got))
    /\ UNCHANGED <<partyState, known>>

\* The REST endpoint's total, a Number; the gateway's is a bigint and fails.
AnswerTotal ==
    /\ Reading("total", "asked")
    /\ query' = [query EXCEPT !.step = "answered", !.votes = totalVotes]
    /\ AtLeast(totalVotes)
    /\ UNCHANGED <<partyState, known>>

\* Only an empty trail is ever answered.  A record's timestamp is a bigint: it
\* lacks the toNumber the REST endpoint converts it with, and the gateway's
\* JSON cannot carry it, so a request that finds a vote fails (ReadFails).
AnswerAudit(id) ==
    /\ Reading("audit", "asked")
    /\ voteAudits[id] = << >>
    /\ query' = [query EXCEPT !.step = "answered"]
    /\ UNCHANGED <<partyState, known, told>>

AnswerVoted(h) ==
    /\ Reading("voted", "asked")
    /\ query' = [query EXCEPT !.step = "answered"]
    /\ known' = IF h \in hasVoted THEN known \cup {h} ELSE known
    /\ AtLeast(Cardinality(known'))
    /\ UNCHANGED partyState

\* combineCandidatesAndParties, after partyModel.find: the number of a
\* candidate is its place in the list, its party is null if it is not found.
AnswerBallot ==
    /\ Reading("ballot", "listed")
    /\ query' = [query EXCEPT
         !.step = "answered",
         !.ballot = [i \in DOMAIN query.list |->
            [candidateId |-> i - 1, id |-> query.list[i].id,
             party |-> LET p == query.list[i].partyId
                       IN  IF p # None /\ partyState[p] = "there" THEN p ELSE None]]]
    /\ UNCHANGED <<partyState, known, told>>

\* MongoDB, Pinata or the RPC endpoint fails a call: nothing is answered.
ReadFails ==
    /\ query.step \in {"asked", "listed"}
    /\ query' = [query EXCEPT !.step = "failed"]
    /\ UNCHANGED <<partyState, known, told>>

createParty(p) ==
    /\ partyState[p] = "new"
    /\ partyState' = [partyState EXCEPT ![p] = "there"]
    /\ UNCHANGED <<query, known, told>>

\* No check of the candidates that name it.
removeParty(p) ==
    /\ partyState[p] = "there"
    /\ partyState' = [partyState EXCEPT ![p] = "removed"]
    /\ UNCHANGED <<query, known, told>>

Client ==
    \/ \E op \in Reads : Ask(op)
    \/ ListCandidates
    \/ \E id \in Ids : CountVotes(id) \/ AnswerAudit(id)
    \/ AnswerStatistics \/ AnswerTotal \/ AnswerBallot
    \/ \E h \in Hashes : AnswerVoted(h)
    \/ ReadFails

ReadsNext ==
    \/ ContractNext /\ UNCHANGED readVars
    \/ (Client \/ \E p \in Parties : createParty(p) \/ removeParty(p))
         /\ UNCHANGED contractVars

ReadsSpec == ReadsInit /\ [][ReadsNext]_<<contractVars, readVars>>
-----------------------------------------------------------------------------
Answered(op) == Reading(op, "answered")

\* getRealTimeStatistics: the counts it shows need not all be of one moment,
\* but each is one its candidate had between the request and now, and no
\* candidate there was when it was asked is missing.
CountsAreOfTheRequest ==
    Answered("statistics") =>
        \A id \in Ids :
            /\ id \in DOMAIN query.got =>
                 /\ query.since.counts[id] <= query.got[id]
                 /\ query.got[id] <= candidates[id].voteCount
            /\ query.since.counts[id] > 0 => id \in DOMAIN query.got

\* getRealTimeStatistics, getTotalVotes, hasUserVoted: a client that was told
\* of so many votes by any of them is told of no fewer by the statistics or
\* the total afterwards, whatever was deleted in between.
NothingToldIsTakenBack ==
    Answered("statistics") \/ Answered("total") => query.votes >= query.since.told

\* Asked after the end, statistics and total show the final result and agree.
FinalAnswersAgree ==
    /\ Answered("statistics") \/ Answered("total")
    /\ query.since.ended
    => query.votes = totalVotes

\* generateBallot: the number a ballot gives a candidate, which the client
\* sends back to vote, is the contract's id of that candidate, however many
\* were deleted before; and no party is shown that was removed before.
BallotLeadsToCandidates ==
    Answered("ballot") =>
        \A i \in DOMAIN query.ballot :
            /\ query.ballot[i].candidateId = query.ballot[i].id
            /\ query.ballot[i].party \notin query.since.removed
=============================================================================
