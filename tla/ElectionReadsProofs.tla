-------------------------- MODULE ElectionReadsProofs --------------------------
(***************************************************************************)
(* What the reads of an election tell never contradicts what they told     *)
(* before, for any number of voters, candidates and parties and any width  *)
(* of the counters: proved from the invariant of the contract and from     *)
(* what a request holds between its calls.                                 *)
(***************************************************************************)
EXTENDS ElectionReads, ElectionContractProofs

\* The inductive invariant, in parts.

\* The counters, the mapping hasVoted and the total count the same ballots.
TotalIsCounted ==
    /\ Votes(Counts) = totalVotes
    /\ IsFiniteSet(hasVoted) /\ Cardinality(hasVoted) = totalVotes

\* A client knows of no vote that was not cast.
ToldIsCast == told <= totalVotes /\ known \subseteq hasVoted

\* Nothing that a request found when it was asked was taken back since.
SinceIsPast ==
    /\ \A id \in Ids : query.since.counts[id] <= candidates[id].voteCount
    /\ query.since.told <= Votes(query.since.counts)
    /\ query.since.ended => electionEnded /\ query.since.counts = Counts
    /\ query.since.removed \subseteq Removed

\* The list is that of the ids, none of a candidate with votes is missing, and
\* each count received lies between the one at the request and the one now.
ReadingIsSound ==
    /\ query.step = "asked" => DOMAIN query.got = {}
    /\ DOMAIN query.got \subseteq ListedIds
    /\ \A i \in DOMAIN query.list : query.list[i].id = i - 1
    /\ query.step = "listed" \/ Answered("statistics") =>
          \A id \in Ids : query.since.counts[id] > 0 => id \in ListedIds
    /\ \A id \in DOMAIN query.got : /\ query.since.counts[id] <= query.got[id]
                                    /\ query.got[id] <= candidates[id].voteCount

\* What was answered agrees with what was received.
AnswerIsSound ==
    /\ Answered("statistics") =>
          DOMAIN query.got = ListedIds /\ query.votes = Votes(query.got)
    /\ Answered("total") => /\ query.votes >= query.since.told
                            /\ query.since.ended => query.votes = totalVotes
    /\ BallotLeadsToCandidates

ReadsInv ==
    /\ ContractInv
    /\ ReadsTypeOK
    /\ TotalIsCounted
    /\ ToldIsCast
    /\ SinceIsPast
    /\ ReadingIsSound
    /\ AnswerIsSound
-----------------------------------------------------------------------------
(* Counting votes.                                                         *)

LEMMA IdsAreFinite == IsFiniteSet(Ids)
  BY FS_Interval, ContractAssumption DEF Ids

\* The votes of finitely many candidates are finitely many.
LEMMA VotesAreFinite ==
  ASSUME NEW counts, DOMAIN counts \subseteq Ids
  PROVE  IsFiniteSet(VotesOf(counts)) /\ Votes(counts) \in Nat
<1>1. IsFiniteSet(DOMAIN counts) /\ IsFiniteSet(1..MaxUint8)
  BY IdsAreFinite, FS_Subset, FS_Interval, ContractAssumption
<1>2. IsFiniteSet((DOMAIN counts) \X (1..MaxUint8))
  BY <1>1, FS_Product
<1>3. VotesOf(counts) \subseteq (DOMAIN counts) \X (1..MaxUint8)
  BY DEF VotesOf
<1>4. IsFiniteSet(VotesOf(counts))
  BY <1>2, <1>3, FS_Subset
<1>5. QED
  BY <1>4, FS_CardinalityType DEF Votes

\* Counts that are nowhere smaller stand for no fewer votes.
LEMMA VotesAreMonotone ==
  ASSUME NEW a, NEW b, DOMAIN a \subseteq Ids, DOMAIN b \subseteq Ids,
         \A id \in DOMAIN a : a[id] \in Nat,
         \A id \in DOMAIN b : b[id] \in Nat,
         \A id \in DOMAIN a : a[id] > 0 => id \in DOMAIN b /\ a[id] <= b[id]
  PROVE  Votes(a) <= Votes(b)
<1>1. VotesOf(a) \subseteq VotesOf(b)
  BY ContractAssumption DEF VotesOf
<1>2. QED
  BY <1>1, VotesAreFinite, FS_Subset DEF Votes

\* One more in one place is one vote more.
LEMMA VotesOfOneMore ==
  ASSUME NEW a, NEW b, NEW k \in Ids, DOMAIN a = Ids, DOMAIN b = Ids,
         \A id \in Ids : a[id] \in 0..MaxUint8,
         a[k] < MaxUint8,
         \A id \in Ids : b[id] = IF id = k THEN a[id] + 1 ELSE a[id]
  PROVE  Votes(b) = Votes(a) + 1
<1>1. VotesOf(b) = VotesOf(a) \cup {<<k, a[k] + 1>>}
  <2>1. ASSUME NEW v \in VotesOf(b), v \notin VotesOf(a) PROVE v = <<k, a[k] + 1>>
    BY <2>1, ContractAssumption DEF VotesOf
  <2>2. VotesOf(a) \subseteq VotesOf(b)
    BY ContractAssumption DEF VotesOf
  <2>3. <<k, a[k] + 1>> \in VotesOf(b)
    BY ContractAssumption DEF VotesOf
  <2>4. QED
    BY <2>1, <2>2, <2>3
<1>2. <<k, a[k] + 1>> \notin VotesOf(a)
  BY ContractAssumption DEF VotesOf
<1>3. QED
  BY <1>1, <1>2, VotesAreFinite, FS_AddElement DEF Votes

\* Without counts there are no votes.
LEMMA NoVotes ==
  ASSUME NEW a, DOMAIN a \subseteq Ids, \A id \in DOMAIN a : a[id] = 0
  PROVE  Votes(a) = 0
<1>1. VotesOf(a) = {}
  BY ContractAssumption DEF VotesOf
<1>2. QED
  BY <1>1, FS_EmptySet DEF Votes

\* The counts of a typed contract are numbers of the counters' width.
LEMMA CountsAreTyped ==
  ASSUME ContractTypeOK
  PROVE  Counts \in [Ids -> 0..MaxUint8] /\ \A id \in Ids : Counts[id] = candidates[id].voteCount
  BY DEF ContractTypeOK, Counts, Candidate
-----------------------------------------------------------------------------
(* A transaction between two calls.                                        *)

\* Counts and the total only grow, and not once the election has ended.
LEMMA ContractOnlyGrows ==
  ASSUME ContractInv, [ContractNext]_contractVars
  PROVE  /\ \A id \in Ids : candidates[id].voteCount <= candidates'[id].voteCount
         /\ totalVotes <= totalVotes'
         /\ hasVoted \subseteq hasVoted'
         /\ electionEnded => /\ electionEnded'
                             /\ totalVotes' = totalVotes
                             /\ \A id \in Ids : candidates'[id].voteCount = candidates[id].voteCount
<1> USE DEF ContractInv, ContractTypeOK
<1>1. ASSUME NEW id \in Ids, NEW h \in Hashes, vote(id, h)
      PROVE  /\ \A k \in Ids : candidates[k].voteCount <= candidates'[k].voteCount
             /\ totalVotes <= totalVotes' /\ hasVoted \subseteq hasVoted' /\ ~electionEnded
  BY <1>1 DEF vote, CanVote, Candidate
<1>2. CASE ~\E id \in Ids, h \in Hashes : vote(id, h)
  <2>1. /\ UNCHANGED <<voteAudits, voteCheckpoints, hasVoted, totalVotes>>
        /\ \A id \in Ids : candidates'[id].voteCount = candidates[id].voteCount
    BY <1>2, OtherBallots
  <2>2. electionEnded => electionEnded'
    BY <1>2 DEF ContractNext, contractVars, addCandidate, updateCandidate, deleteCandidate,
                endElection
  <2>3. \A id \in Ids : candidates[id].voteCount \in Nat
    BY DEF Candidate
  <2>4. QED
    BY <2>1, <2>2, <2>3
<1>3. QED
  BY <1>1, <1>2

\* A vote is one more for the counters, for hasVoted and for the total.
LEMMA StepTotalIsCounted ==
  ASSUME ContractInv, TotalIsCounted, [ContractNext]_contractVars
  PROVE  TotalIsCounted'
<1>1. /\ Counts \in [Ids -> 0..MaxUint8] /\ Counts' \in [Ids -> 0..MaxUint8]
      /\ \A id \in Ids : Counts[id] = candidates[id].voteCount
      /\ \A id \in Ids : Counts'[id] = candidates'[id].voteCount
  <2>1. ContractTypeOK /\ ContractTypeOK'
    BY StepTypeOK DEF ContractInv
  <2>2. QED
    BY <2>1, CountsAreTyped DEF ContractTypeOK, Counts, Candidate
<1>2. ASSUME NEW k \in Ids, NEW h \in Hashes, vote(k, h)
      PROVE  TotalIsCounted'
  <2>1. \A id \in Ids : Counts'[id] = IF id = k THEN Counts[id] + 1 ELSE Counts[id]
    BY <1>1, <1>2 DEF vote, ContractInv, ContractTypeOK, Candidate
  <2>2. Counts[k] < MaxUint8
    BY <1>1, <1>2 DEF vote, CanVote
  <2>3. Votes(Counts') = Votes(Counts) + 1
    BY <1>1, <2>1, <2>2, VotesOfOneMore
  <2>4. hasVoted' = hasVoted \cup {h} /\ h \notin hasVoted /\ totalVotes' = totalVotes + 1
    BY <1>2 DEF vote, CanVote
  <2>5. IsFiniteSet(hasVoted') /\ Cardinality(hasVoted') = Cardinality(hasVoted) + 1
    BY <2>4, FS_AddElement DEF TotalIsCounted
  <2>6. Votes(Counts)' = Votes(Counts')
    BY DEF Votes, VotesOf
  <2>7. QED
    BY <2>3, <2>4, <2>5, <2>6 DEF TotalIsCounted
<1>3. CASE ~\E id \in Ids, h \in Hashes : vote(id, h)
  <2>1. /\ UNCHANGED <<voteAudits, voteCheckpoints, hasVoted, totalVotes>>
        /\ \A id \in Ids : candidates'[id].voteCount = candidates[id].voteCount
    BY <1>3, OtherBallots DEF ContractInv
  <2>2. Counts' = Counts
    BY <2>1 DEF Counts
  <2>3. QED
    BY <2>1, <2>2 DEF TotalIsCounted, Votes, VotesOf
<1>4. QED
  BY <1>2, <1>3
-----------------------------------------------------------------------------
(* Init, and the steps of the contract.                                    *)

\* A request is put together from typed parts.
LEMMA QueryOfParts ==
  ASSUME NEW op \in Reads, NEW s \in {"asked", "listed", "answered", "failed"},
         NEW list \in Seq(Listed), NEW ids \in SUBSET Ids, NEW got \in [ids -> 0..MaxUint8],
         NEW votes \in Nat, NEW ballot \in Seq(BallotEntry), NEW since \in Since
  PROVE  [op |-> op, step |-> s, list |-> list, got |-> got, votes |-> votes,
          ballot |-> ballot, since |-> since] \in Query
<1> DEFINE Got == UNION {[i -> 0..MaxUint8] : i \in SUBSET Ids}
<1>1. got \in Got
  OBVIOUS
<1>2. Query = [op : Reads, step : {"asked", "listed", "answered", "failed"},
               list : Seq(Listed), got : Got, votes : Nat, ballot : Seq(BallotEntry),
               since : Since]
  BY DEF Query
<1> HIDE DEF Got
<1>3. QED
  BY <1>1, <1>2

LEMMA ReadsInitInv == ReadsInit => ReadsInv
<1> SUFFICES ASSUME ReadsInit PROVE ReadsInv
  OBVIOUS
<1>1. ContractInv
  BY ContractInitInv DEF ReadsInit
<1>2. query = NoQuery /\ known = {} /\ told = 0
  BY DEF ReadsInit
<1>3. ReadsTypeOK
  <2> DEFINE asked == [counts |-> [id \in Ids |-> 0], told |-> 0, ended |-> FALSE,
                        removed |-> {}]
  <2>1. asked \in Since
    BY ContractAssumption DEF Since
  <2>2. /\ << >> \in [{} -> 0..MaxUint8] /\ {} \in SUBSET Ids
        /\ << >> \in Seq(Listed) /\ << >> \in Seq(BallotEntry) /\ "total" \in Reads
    BY DEF Reads
  <2>3. query = [op |-> "total", step |-> "failed", list |-> << >>, got |-> << >>,
                 votes |-> 0, ballot |-> << >>, since |-> asked]
    BY <1>2 DEF NoQuery
  <2> HIDE DEF asked
  <2>4. query \in Query
    BY <2>1, <2>2, <2>3, QueryOfParts, Zenon
  <2>5. partyState \in [Parties -> {"new", "there", "removed"}]
    BY DEF ReadsInit
  <2>6. QED
    BY <1>1, <1>2, <2>4, <2>5 DEF ReadsTypeOK, ContractInv
<1>4. TotalIsCounted
  <2>1. \A id \in Ids : candidates[id].voteCount = 0
    BY DEF ReadsInit, ContractInit, NewCandidate, BlankCandidate
  <2>2. Votes(Counts) = 0
    BY <2>1, NoVotes DEF Counts
  <2>3. QED
    BY <2>2, FS_EmptySet DEF TotalIsCounted, ReadsInit, ContractInit
<1>5. ToldIsCast
  BY <1>2 DEF ToldIsCast, ReadsInit, ContractInit
<1>6. SinceIsPast
  <2>1. Votes(query.since.counts) = 0
    BY <1>2, NoVotes DEF NoQuery
  <2>2. \A id \in Ids : candidates[id].voteCount = 0
    BY DEF ReadsInit, ContractInit, NewCandidate, BlankCandidate
  <2>3. QED
    BY <1>2, <2>1, <2>2 DEF SinceIsPast, NoQuery
<1>7. ReadingIsSound /\ AnswerIsSound
  BY <1>2 DEF ReadingIsSound, AnswerIsSound, NoQuery, ListedIds, Answered, Reading,
              BallotLeadsToCandidates
<1>8. QED
  BY <1>1, <1>3, <1>4, <1>5, <1>6, <1>7 DEF ReadsInv

\* What a typed request holds.
LEMMA QueryIsTyped ==
  ASSUME ReadsTypeOK
  PROVE  /\ query.since.counts \in [Ids -> 0..MaxUint8] /\ query.since.told \in Nat
         /\ query.since.ended \in BOOLEAN /\ query.since.removed \subseteq Parties
         /\ query.list \in Seq(Listed) /\ query.votes \in Nat
         /\ DOMAIN query.got \subseteq Ids
         /\ \A id \in DOMAIN query.got : query.got[id] \in 0..MaxUint8
         /\ query.got \in [DOMAIN query.got -> 0..MaxUint8]
<1>1. query \in Query /\ query.since \in Since
  BY DEF ReadsTypeOK, Query
<1>2. query.got \in UNION {[ids -> 0..MaxUint8] : ids \in SUBSET Ids}
  BY <1>1 DEF Query
<1>3. PICK ids \in SUBSET Ids : query.got \in [ids -> 0..MaxUint8]
  BY <1>2
<1>4. QED
  BY <1>1, <1>3 DEF Query, Since

\* A transaction contradicts nothing a request holds.
LEMMA ContractStepReads ==
  ASSUME ReadsInv, [ContractNext]_contractVars, UNCHANGED readVars
  PROVE  ReadsInv'
<1>1. ContractInv'
  BY ContractStepInv DEF ReadsInv
<1>2. ReadsTypeOK'
  BY <1>1 DEF ReadsInv, ReadsTypeOK, ContractInv, readVars
<1>3. TotalIsCounted'
  BY StepTotalIsCounted DEF ReadsInv
<1>4. /\ \A id \in Ids : candidates[id].voteCount <= candidates'[id].voteCount
      /\ totalVotes <= totalVotes' /\ hasVoted \subseteq hasVoted'
      /\ electionEnded => /\ electionEnded'
                          /\ totalVotes' = totalVotes
                          /\ \A id \in Ids : candidates'[id].voteCount = candidates[id].voteCount
  BY ContractOnlyGrows DEF ReadsInv
<1>5. /\ \A id \in Ids : candidates[id].voteCount \in Nat /\ candidates'[id].voteCount \in Nat
      /\ totalVotes \in Nat /\ totalVotes' \in Nat /\ told \in Nat
  BY <1>1 DEF ReadsInv, ContractInv, ContractTypeOK, ReadsTypeOK, Candidate
<1>6. UNCHANGED <<partyState, query, known, told>>
  BY DEF readVars
<1>7. ToldIsCast'
  BY <1>4, <1>5, <1>6 DEF ReadsInv, ToldIsCast
<1>8. SinceIsPast'
  <2>1. \A id \in Ids : query.since.counts[id] <= candidates'[id].voteCount
    BY <1>4, <1>5, QueryIsTyped DEF ReadsInv, SinceIsPast
  <2>2. query.since.ended => electionEnded' /\ query.since.counts = Counts'
    <3>1. electionEnded => Counts' = Counts
      BY <1>4 DEF Counts
    <3>2. QED
      BY <1>4, <3>1 DEF ReadsInv, SinceIsPast
  <2>3. QED
    BY <1>6, <2>1, <2>2 DEF ReadsInv, SinceIsPast, Removed, Votes, VotesOf
<1>9. ReadingIsSound'
  <2>1. ASSUME NEW id \in DOMAIN query.got
        PROVE  query.got[id] <= candidates'[id].voteCount
    <3>1. id \in Ids /\ query.got[id] \in Nat
      BY QueryIsTyped DEF ReadsInv
    <3>2. query.got[id] <= candidates[id].voteCount
      BY DEF ReadsInv, ReadingIsSound
    <3>3. QED
      BY <1>4, <1>5, <3>1, <3>2
  <2>2. QED
    BY <1>6, <2>1 DEF ReadsInv, ReadingIsSound, ListedIds, Answered, Reading
<1>10. AnswerIsSound'
  <2>1. Votes(query.got)' = Votes(query.got)
    BY <1>6 DEF Votes, VotesOf
  <2>2. query.since.ended => totalVotes' = totalVotes
    BY <1>4 DEF ReadsInv, SinceIsPast
  <2>3. QED
    BY <1>6, <2>1, <2>2
       DEF ReadsInv, AnswerIsSound, ListedIds, Answered, Reading, BallotLeadsToCandidates
<1>11. QED
  BY <1>1, <1>2, <1>3, <1>7, <1>8, <1>9, <1>10 DEF ReadsInv
-----------------------------------------------------------------------------
(* The steps of a client.                                                  *)

\* What the contract's own part keeps when no transaction is executed.
LEMMA ContractPartKept ==
  ASSUME ReadsInv, UNCHANGED contractVars
  PROVE  /\ ContractInv' /\ TotalIsCounted'
         /\ Counts' = Counts /\ totalVotes' = totalVotes /\ hasVoted' = hasVoted
         /\ electionEnded' = electionEnded /\ candidates' = candidates
         /\ \A counts : Votes(counts)' = Votes(counts)
<1>1. ContractInv'
  BY ContractStepInv DEF ReadsInv
<1>2. TotalIsCounted'
  BY StepTotalIsCounted DEF ReadsInv
<1>3. QED
  BY <1>1, <1>2 DEF contractVars, Counts, Votes, VotesOf

\* A request finds the state it is asked in.
LEMMA AskStep ==
  ASSUME ReadsInv, UNCHANGED contractVars, NEW op \in Reads, Ask(op)
  PROVE  ReadsInv'
<1>1. /\ ContractInv' /\ TotalIsCounted'
      /\ Counts' = Counts /\ totalVotes' = totalVotes /\ hasVoted' = hasVoted
      /\ electionEnded' = electionEnded /\ candidates' = candidates
  BY ContractPartKept
<1>2. UNCHANGED <<partyState, known, told>> /\ Removed' = Removed
  BY DEF Ask, Removed
<1>3. /\ query'.op = op /\ query'.step = "asked" /\ query'.list = << >> /\ query'.got = << >>
      /\ query'.votes = 0 /\ query'.ballot = << >> /\ query'.since = Now
  BY DEF Ask, NoQuery
<1>4. Counts \in [Ids -> 0..MaxUint8] /\ \A id \in Ids : Counts[id] = candidates[id].voteCount
  BY CountsAreTyped DEF ReadsInv, ContractInv
<1>5. ReadsTypeOK'
  <2>1. Now \in Since
    BY <1>4 DEF ReadsInv, ReadsTypeOK, ContractInv, ContractTypeOK, Now, Since, Removed
  <2>2. /\ << >> \in [{} -> 0..MaxUint8] /\ {} \in SUBSET Ids
        /\ << >> \in Seq(Listed) /\ << >> \in Seq(BallotEntry)
    OBVIOUS
  <2>3. query' \in Query
    <3>1. query' = [op |-> op, step |-> "asked", list |-> << >>, got |-> << >>,
                    votes |-> 0, ballot |-> << >>, since |-> Now]
      BY DEF Ask, NoQuery
    <3>2. QED
      BY <2>1, <2>2, <3>1, QueryOfParts, Zenon
  <2>4. QED
    BY <1>1, <1>2, <2>3 DEF ReadsInv, ReadsTypeOK, ContractInv
<1>6. ToldIsCast'
  BY <1>1, <1>2 DEF ReadsInv, ToldIsCast
<1>7. SinceIsPast'
  <2>1. /\ query'.since.counts = Counts /\ query'.since.told = told
        /\ query'.since.ended = electionEnded /\ query'.since.removed = Removed
    BY <1>3 DEF Now
  <2>2. told <= Votes(Counts)
    BY DEF ReadsInv, ToldIsCast, TotalIsCounted
  <2>3. Votes(query'.since.counts) = Votes(Counts) /\ Votes(query.since.counts)' = Votes(query'.since.counts)
    BY <2>1 DEF Votes, VotesOf
  <2>4. \A id \in Ids : Counts[id] <= candidates[id].voteCount
    BY <1>4
  <2>5. QED
    BY <1>1, <1>2, <2>1, <2>2, <2>3, <2>4 DEF SinceIsPast
<1>8. ReadingIsSound' /\ AnswerIsSound'
  BY <1>3 DEF ReadingIsSound, AnswerIsSound, ListedIds, Answered, Reading, BallotLeadsToCandidates
<1>9. QED
  BY <1>1, <1>5, <1>6, <1>7, <1>8 DEF ReadsInv

\* What a request was asked in stays as it was.
LEMMA SinceKept ==
  ASSUME ReadsInv, UNCHANGED contractVars,
         query'.since = query.since, Removed \subseteq Removed'
  PROVE  SinceIsPast'
<1>1. Counts' = Counts /\ electionEnded' = electionEnded /\ candidates' = candidates
  BY ContractPartKept
<1>2. Votes(query.since.counts)' = Votes(query.since.counts)
  BY DEF Votes, VotesOf
<1>3. Votes(query.since.counts)' = Votes(query'.since.counts)
  BY DEF Votes, VotesOf
<1>4. QED
  BY <1>1, <1>2, <1>3 DEF ReadsInv, SinceIsPast

\* What a client is told of, it may be told of.
LEMMA AtLeastStep ==
  ASSUME ReadsInv, UNCHANGED contractVars, NEW n \in Nat, n <= totalVotes, AtLeast(n),
         known' \subseteq hasVoted
  PROVE  told' \in Nat /\ ToldIsCast'
<1>1. totalVotes' = totalVotes /\ hasVoted' = hasVoted
  BY ContractPartKept
<1>2. QED
  BY <1>1 DEF ReadsInv, ReadsTypeOK, ToldIsCast, AtLeast

\* The list holds every id below candidatesCount; who has votes is below it.
LEMMA ListStep ==
  ASSUME ReadsInv, UNCHANGED contractVars, ListCandidates
  PROVE  ReadsInv'
<1>1. ContractInv' /\ TotalIsCounted' /\ candidates' = candidates
      /\ totalVotes' = totalVotes /\ hasVoted' = hasVoted
  BY ContractPartKept
<1>2. /\ query' = [query EXCEPT !.step = "listed", !.list = getAllCandidates]
      /\ query.op \in {"statistics", "ballot"} /\ query.step = "asked"
      /\ UNCHANGED <<partyState, known, told>> /\ Removed' = Removed
  BY DEF ListCandidates, Removed
<1>3. getAllCandidates \in Seq(Listed)
  <2>1. candidatesCount \in Nat /\ candidatesCount <= MaxCandidates
    BY ContractAssumption DEF ReadsInv, ContractInv, ContractTypeOK
  <2>2. \A i \in 1..candidatesCount : Entry(i - 1) \in Listed
    <3> TAKE i \in 1..candidatesCount
    <3>1. i - 1 \in Ids
      BY <2>1, ContractAssumption DEF Ids
    <3>2. candidates[i - 1] \in Candidate
      BY <3>1 DEF ReadsInv, ContractInv, ContractTypeOK
    <3>3. QED
      BY <3>1, <3>2 DEF Entry, Listed, Candidate
  <2>3. getAllCandidates \in [1..candidatesCount -> Listed]
    BY <2>2 DEF getAllCandidates
  <2>4. QED
    BY <2>1, <2>3
<1>4. query' \in Query
  BY <1>2, <1>3 DEF ReadsInv, ReadsTypeOK, Query
<1>5. ReadsTypeOK'
  BY <1>1, <1>2, <1>4 DEF ReadsInv, ReadsTypeOK, ContractInv
<1>6. ToldIsCast'
  BY <1>1, <1>2 DEF ReadsInv, ToldIsCast
<1>7. /\ query'.step = "listed" /\ query'.list = getAllCandidates /\ query'.got = query.got
      /\ query'.since = query.since /\ query'.op = query.op
  BY <1>2 DEF ReadsInv, ReadsTypeOK, Query
<1>8. SinceIsPast'
  BY <1>2, <1>7, SinceKept
<1>9. ReadingIsSound'
  <2>1. DOMAIN query.got = {}
    BY <1>2 DEF ReadsInv, ReadingIsSound
  <2>2. DOMAIN getAllCandidates = 1..candidatesCount
        /\ \A i \in 1..candidatesCount : getAllCandidates[i].id = i - 1
    BY DEF getAllCandidates, Entry
  <2>3. ASSUME NEW id \in Ids, query.since.counts[id] > 0
        PROVE  \E i \in DOMAIN getAllCandidates : getAllCandidates[i].id = id
    <3>1. Exists(id)
      <4>1. query.since.counts[id] <= candidates[id].voteCount
        BY DEF ReadsInv, SinceIsPast
      <4>2. query.since.counts[id] \in Nat
        BY QueryIsTyped DEF ReadsInv
      <4>3. candidates[id] # BlankCandidate
        BY <2>3, <4>1, <4>2 DEF BlankCandidate
      <4>4. QED
        BY <4>3 DEF ReadsInv, ContractInv, SlotsAboveAreBlank
    <3>2. id + 1 \in 1..candidatesCount /\ (id + 1) - 1 = id
      BY <3>1 DEF Exists, Ids, ReadsInv, ContractInv, ContractTypeOK
    <3>3. QED
      BY <2>2, <3>2
  <2>4. \A id \in Ids : query'.since.counts[id] > 0 => id \in ListedIds'
    BY <1>7, <2>3 DEF ListedIds
  <2>5. QED
    BY <1>7, <2>1, <2>2, <2>4 DEF ReadingIsSound
<1>10. AnswerIsSound'
  BY <1>7 DEF AnswerIsSound, Answered, Reading, BallotLeadsToCandidates
<1>11. QED
  BY <1>1, <1>5, <1>6, <1>8, <1>9, <1>10 DEF ReadsInv

\* The count of a candidate is received while it is what it is.
LEMMA CountStep ==
  ASSUME ReadsInv, UNCHANGED contractVars, NEW id \in Ids, CountVotes(id)
  PROVE  ReadsInv'
<1>1. ContractInv' /\ TotalIsCounted' /\ candidates' = candidates
      /\ totalVotes' = totalVotes /\ hasVoted' = hasVoted
  BY ContractPartKept
<1> DEFINE received == [i \in (DOMAIN query.got) \cup {id} |->
                           IF i = id THEN candidates[id].voteCount ELSE query.got[i]]
<1>2. /\ query' = [query EXCEPT !.got = received]
      /\ query.op = "statistics" /\ query.step = "listed"
      /\ id \in ListedIds
      /\ UNCHANGED <<partyState, known, told>> /\ Removed' = Removed
  BY DEF CountVotes, Removed, Reading, getVotesByCandidate, ReadsInv, ReadsTypeOK, Query
<1>3. candidates[id].voteCount \in 0..MaxUint8
  BY DEF ReadsInv, ContractInv, ContractTypeOK, Candidate
<1>4. query' \in Query
  <2>1. /\ DOMAIN query.got \subseteq Ids
        /\ \A i \in DOMAIN query.got : query.got[i] \in 0..MaxUint8
    BY QueryIsTyped DEF ReadsInv
  <2>2. received \in [(DOMAIN query.got) \cup {id} -> 0..MaxUint8]
    BY <1>3, <2>1
  <2>3. (DOMAIN query.got) \cup {id} \in SUBSET Ids
    BY <2>1
  <2>4. received \in UNION {[ids -> 0..MaxUint8] : ids \in SUBSET Ids}
    BY <2>2, <2>3, Zenon
  <2> HIDE DEF received
  <2>5. QED
    BY <1>2, <2>4 DEF ReadsInv, ReadsTypeOK, Query
<1>5. ReadsTypeOK'
  BY <1>1, <1>2, <1>4 DEF ReadsInv, ReadsTypeOK, ContractInv
<1>6. ToldIsCast'
  BY <1>1, <1>2 DEF ReadsInv, ToldIsCast
<1>7. /\ query'.step = "listed" /\ query'.list = query.list /\ query'.got = received
      /\ query'.since = query.since /\ query'.op = "statistics"
  BY <1>2 DEF ReadsInv, ReadsTypeOK, Query
<1>8. SinceIsPast'
  BY <1>2, <1>7, SinceKept
<1>9. ReadingIsSound'
  <2>1. ListedIds' = ListedIds
    BY <1>7 DEF ListedIds
  <2>2. DOMAIN received \subseteq ListedIds
    BY <1>2 DEF ReadsInv, ReadingIsSound
  <2>3. query.since.counts[id] <= candidates[id].voteCount
    BY DEF ReadsInv, SinceIsPast
  <2>4. \A i \in DOMAIN received : /\ query.since.counts[i] <= received[i]
                                   /\ received[i] <= candidates[i].voteCount
    BY <1>3, <2>3 DEF ReadsInv, ReadingIsSound
  <2> HIDE DEF received
  <2>5. QED
    BY <1>1, <1>2, <1>7, <2>1, <2>2, <2>4 DEF ReadsInv, ReadingIsSound, Answered, Reading
<1>10. AnswerIsSound'
  BY <1>7 DEF AnswerIsSound, Answered, Reading, BallotLeadsToCandidates
<1>11. QED
  BY <1>1, <1>5, <1>6, <1>8, <1>9, <1>10 DEF ReadsInv

\* An answer with a number: what is left to show is that the number is sound.
LEMMA AnswerStep ==
  ASSUME ReadsInv, UNCHANGED contractVars, UNCHANGED partyState,
         query.step \in {"asked", "listed"}, query.op = "statistics" => query.step = "listed",
         NEW n \in Nat, query' = [query EXCEPT !.step = "answered", !.votes = n],
         told' \in Nat, known' \subseteq Hashes, ToldIsCast', AnswerIsSound'
  PROVE  ReadsInv'
<1>1. ContractInv' /\ TotalIsCounted' /\ candidates' = candidates
  BY ContractPartKept
<1>2. query' \in Query
  BY DEF ReadsInv, ReadsTypeOK, Query
<1>3. ReadsTypeOK'
  BY <1>1, <1>2 DEF ReadsInv, ReadsTypeOK, ContractInv
<1>4. /\ query'.step = "answered" /\ query'.list = query.list /\ query'.got = query.got
      /\ query'.since = query.since /\ query'.op = query.op
  BY DEF ReadsInv, ReadsTypeOK, Query
<1>5. SinceIsPast'
  BY <1>4, SinceKept DEF Removed
<1>6. ReadingIsSound'
  <2>1. ListedIds' = ListedIds
    BY <1>4 DEF ListedIds
  <2>2. QED
    BY <1>1, <1>4, <2>1 DEF ReadsInv, ReadingIsSound, Answered, Reading
<1>7. QED
  BY <1>1, <1>3, <1>5, <1>6 DEF ReadsInv

\* The counts received lie between those of the request and those of now: so
\* does their sum, and it is the total if the two are the same.
LEMMA StatisticsStep ==
  ASSUME ReadsInv, UNCHANGED contractVars, AnswerStatistics
  PROVE  ReadsInv'
<1>1. /\ query' = [query EXCEPT !.step = "answered", !.votes = Votes(query.got)]
      /\ query.op = "statistics" /\ query.step = "listed"
      /\ DOMAIN query.got = ListedIds
      /\ AtLeast(Votes(query.got))
      /\ UNCHANGED <<partyState, known>>
  BY DEF AnswerStatistics, Reading
<1>2. /\ DOMAIN query.got \subseteq Ids
      /\ \A id \in DOMAIN query.got : query.got[id] \in 0..MaxUint8
  BY QueryIsTyped DEF ReadsInv
<1>3. Counts \in [Ids -> 0..MaxUint8] /\ \A id \in Ids : Counts[id] = candidates[id].voteCount
  BY CountsAreTyped DEF ReadsInv, ContractInv
<1>4. Votes(query.got) <= Votes(Counts)
  <2>1. \A id \in DOMAIN query.got : query.got[id] <= Counts[id]
    BY <1>2, <1>3 DEF ReadsInv, ReadingIsSound
  <2>2. QED
    BY <1>2, <1>3, <2>1, VotesAreMonotone
<1>5. Votes(query.got) \in Nat /\ Votes(query.got) <= totalVotes
  BY <1>2, <1>4, VotesAreFinite DEF ReadsInv, TotalIsCounted
<1>6. told' \in Nat /\ ToldIsCast' /\ known' \subseteq Hashes
  BY <1>1, <1>5, AtLeastStep DEF ReadsInv, ToldIsCast, ReadsTypeOK
<1>7. AnswerIsSound'
  <2>1. /\ query'.step = "answered" /\ query'.op = "statistics" /\ query'.list = query.list
        /\ query'.got = query.got /\ query'.votes = Votes(query.got)
    BY <1>1 DEF ReadsInv, ReadsTypeOK, Query
  <2>2. Votes(query.got)' = Votes(query.got)
    BY <2>1 DEF Votes, VotesOf
  <2>3. QED
    BY <1>1, <2>1, <2>2 DEF AnswerIsSound, Answered, Reading, ListedIds, BallotLeadsToCandidates
<1>8. QED
  BY <1>1, <1>5, <1>6, <1>7, AnswerStep

\* The total is no smaller than what a client knew when it asked.
LEMMA TotalStep ==
  ASSUME ReadsInv, UNCHANGED contractVars, AnswerTotal
  PROVE  ReadsInv'
<1>1. /\ query' = [query EXCEPT !.step = "answered", !.votes = totalVotes]
      /\ query.op = "total" /\ query.step = "asked"
      /\ AtLeast(totalVotes)
      /\ UNCHANGED <<partyState, known>>
  BY DEF AnswerTotal, Reading
<1>2. totalVotes \in Nat /\ totalVotes' = totalVotes
  BY ContractPartKept DEF ReadsInv, ContractInv, ContractTypeOK
<1>3. told' \in Nat /\ ToldIsCast' /\ known' \subseteq Hashes
  BY <1>1, <1>2, AtLeastStep DEF ReadsInv, ToldIsCast, ReadsTypeOK
<1>4. query.since.told <= totalVotes
  <2>1. query.since.counts \in [Ids -> 0..MaxUint8] /\ query.since.told \in Nat
    BY QueryIsTyped DEF ReadsInv
  <2>2. Counts \in [Ids -> 0..MaxUint8] /\ \A id \in Ids : Counts[id] = candidates[id].voteCount
    BY CountsAreTyped DEF ReadsInv, ContractInv
  <2>3. Votes(query.since.counts) <= Votes(Counts)
    <3>1. \A id \in Ids : query.since.counts[id] <= Counts[id]
      BY <2>2 DEF ReadsInv, SinceIsPast
    <3>2. QED
      BY <2>1, <2>2, <3>1, VotesAreMonotone
  <2>4. Votes(query.since.counts) \in Nat /\ Votes(Counts) \in Nat
    BY <2>1, <2>2, VotesAreFinite
  <2>5. query.since.told <= Votes(query.since.counts) /\ Votes(Counts) = totalVotes
    BY DEF ReadsInv, SinceIsPast, TotalIsCounted
  <2>6. QED
    BY <1>2, <2>1, <2>3, <2>4, <2>5
<1>5. AnswerIsSound'
  <2>1. /\ query'.step = "answered" /\ query'.op = "total" /\ query'.votes = totalVotes
        /\ query'.since = query.since
    BY <1>1 DEF ReadsInv, ReadsTypeOK, Query
  <2>2. query'.votes >= query'.since.told
    BY <1>2, <1>4, <2>1, QueryIsTyped DEF ReadsInv
  <2>3. QED
    BY <1>2, <2>1, <2>2 DEF AnswerIsSound, Answered, Reading, BallotLeadsToCandidates
<1>6. QED
  BY <1>1, <1>2, <1>3, <1>5, AnswerStep

\* An empty audit trail tells the client of no vote.
LEMMA AuditStep ==
  ASSUME ReadsInv, UNCHANGED contractVars, NEW id \in Ids, AnswerAudit(id)
  PROVE  ReadsInv'
<1>1. /\ query' = [query EXCEPT !.step = "answered"]
      /\ query.op = "audit" /\ query.step = "asked"
      /\ UNCHANGED <<partyState, known, told>>
  BY DEF AnswerAudit, Reading
<1>2. query \in Query
  BY DEF ReadsInv, ReadsTypeOK
<1>3. query'.votes \in Nat /\ query'.op = "audit"
  BY <1>1, <1>2 DEF Query
<1>4. told' \in Nat /\ ToldIsCast' /\ known' \subseteq Hashes
  BY <1>1 DEF ReadsInv, ReadsTypeOK, ToldIsCast, contractVars
<1>5. AnswerIsSound'
  BY <1>3 DEF AnswerIsSound, Answered, Reading, BallotLeadsToCandidates
<1>6. query' = [query EXCEPT !.step = "answered", !.votes = query.votes]
  BY <1>1, <1>2 DEF Query
<1>7. QED
  BY <1>1, <1>2, <1>4, <1>5, <1>6, AnswerStep DEF Query

\* The hashes known to have voted are of voters who did.
LEMMA VotedStep ==
  ASSUME ReadsInv, UNCHANGED contractVars, NEW h \in Hashes, AnswerVoted(h)
  PROVE  ReadsInv'
<1>1. /\ query' = [query EXCEPT !.step = "answered"]
      /\ query.op = "voted" /\ query.step = "asked"
      /\ known' = IF h \in hasVoted THEN known \cup {h} ELSE known
      /\ AtLeast(Cardinality(known'))
      /\ UNCHANGED partyState
  BY DEF AnswerVoted, Reading
<1>2. known' \subseteq hasVoted /\ known' \subseteq Hashes
  BY <1>1 DEF ReadsInv, ToldIsCast, ReadsTypeOK, ContractTypeOK
<1>3. Cardinality(known') \in Nat /\ Cardinality(known') <= totalVotes
  <2>1. IsFiniteSet(hasVoted) /\ Cardinality(hasVoted) = totalVotes
    BY DEF ReadsInv, TotalIsCounted
  <2>2. IsFiniteSet(known') /\ Cardinality(known') <= Cardinality(hasVoted)
    BY <1>2, <2>1, FS_Subset
  <2>3. QED
    BY <2>1, <2>2, FS_CardinalityType
<1>4. told' \in Nat /\ ToldIsCast'
  BY <1>1, <1>2, <1>3, AtLeastStep
<1>5. query' = [query EXCEPT !.step = "answered", !.votes = query.votes] /\ query.votes \in Nat
  BY <1>1 DEF ReadsInv, ReadsTypeOK, Query
<1>6. AnswerIsSound'
  <2>1. query'.op = "voted"
    BY <1>1 DEF ReadsInv, ReadsTypeOK, Query
  <2>2. QED
    BY <2>1 DEF AnswerIsSound, Answered, Reading, BallotLeadsToCandidates
<1>7. QED
  BY <1>1, <1>2, <1>4, <1>5, <1>6, AnswerStep

\* The place of a candidate in the list is one more than its id.
LEMMA BallotStep ==
  ASSUME ReadsInv, UNCHANGED contractVars, AnswerBallot
  PROVE  ReadsInv'
<1>1. ContractInv' /\ TotalIsCounted' /\ candidates' = candidates
      /\ totalVotes' = totalVotes /\ hasVoted' = hasVoted
  BY ContractPartKept
<1> DEFINE ballot == [i \in DOMAIN query.list |->
              [candidateId |-> i - 1, id |-> query.list[i].id,
               party |-> LET p == query.list[i].partyId
                         IN  IF p # None /\ partyState[p] = "there" THEN p ELSE None]]
<1>2. /\ query' = [query EXCEPT !.step = "answered", !.ballot = ballot]
      /\ query.op = "ballot" /\ query.step = "listed"
      /\ UNCHANGED <<partyState, known, told>> /\ Removed' = Removed
  BY DEF AnswerBallot, Reading, Removed
<1>3. query.list \in Seq(Listed)
  BY QueryIsTyped DEF ReadsInv
<1>4. ASSUME NEW i \in DOMAIN query.list
      PROVE  /\ ballot[i] \in BallotEntry
             /\ ballot[i].candidateId = ballot[i].id
             /\ ballot[i].party \notin Removed
  <2>1. query.list[i] \in Listed
    BY <1>3
  <2>2. query.list[i].id = i - 1
    BY DEF ReadsInv, ReadingIsSound
  <2>3. ballot[i].party \notin Removed
    BY <2>1, ReadsAssumption DEF Listed, Removed
  <2>4. QED
    BY <2>1, <2>2, <2>3 DEF Listed, BallotEntry
<1>5. ballot \in Seq(BallotEntry)
  <2>1. Len(query.list) \in Nat /\ DOMAIN query.list = 1..Len(query.list)
    BY <1>3
  <2>2. ballot \in [1..Len(query.list) -> BallotEntry]
    BY <1>4, <2>1
  <2>3. QED
    BY <2>1, <2>2
<1>6. DOMAIN ballot = DOMAIN query.list
  OBVIOUS
<1> HIDE DEF ballot
<1>7. query' \in Query
  BY <1>2, <1>5 DEF ReadsInv, ReadsTypeOK, Query
<1>8. ReadsTypeOK'
  BY <1>1, <1>2, <1>7 DEF ReadsInv, ReadsTypeOK, ContractInv
<1>9. ToldIsCast'
  BY <1>1, <1>2 DEF ReadsInv, ToldIsCast
<1>10. /\ query'.step = "answered" /\ query'.list = query.list /\ query'.got = query.got
       /\ query'.since = query.since /\ query'.op = "ballot" /\ query'.ballot = ballot
  BY <1>2 DEF ReadsInv, ReadsTypeOK, Query
<1>11. SinceIsPast'
  BY <1>2, <1>10, SinceKept
<1>12. ReadingIsSound'
  <2>1. ListedIds' = ListedIds
    BY <1>10 DEF ListedIds
  <2>2. QED
    BY <1>1, <1>10, <2>1 DEF ReadsInv, ReadingIsSound, Answered, Reading
<1>13. AnswerIsSound'
  <2>1. query.since.removed \subseteq Removed
    BY DEF ReadsInv, SinceIsPast
  <2>2. BallotLeadsToCandidates'
    BY <1>4, <1>6, <1>10, <2>1 DEF BallotLeadsToCandidates
  <2>3. QED
    BY <1>10, <2>2 DEF AnswerIsSound, Answered, Reading
<1>14. QED
  BY <1>1, <1>8, <1>9, <1>11, <1>12, <1>13 DEF ReadsInv

\* A request that fails tells nothing.
LEMMA FailStep ==
  ASSUME ReadsInv, UNCHANGED contractVars, ReadFails
  PROVE  ReadsInv'
<1>1. ContractInv' /\ TotalIsCounted' /\ candidates' = candidates
      /\ totalVotes' = totalVotes /\ hasVoted' = hasVoted
  BY ContractPartKept
<1>2. /\ query' = [query EXCEPT !.step = "failed"]
      /\ UNCHANGED <<partyState, known, told>> /\ Removed' = Removed
  BY DEF ReadFails, Removed
<1>3. query' \in Query
  BY <1>2 DEF ReadsInv, ReadsTypeOK, Query
<1>4. ReadsTypeOK' /\ ToldIsCast'
  BY <1>1, <1>2, <1>3 DEF ReadsInv, ReadsTypeOK, ContractInv, ToldIsCast
<1>5. /\ query'.step = "failed" /\ query'.list = query.list /\ query'.got = query.got
      /\ query'.since = query.since
  BY <1>2 DEF ReadsInv, ReadsTypeOK, Query
<1>6. SinceIsPast'
  BY <1>2, <1>5, SinceKept
<1>7. ReadingIsSound'
  <2>1. ListedIds' = ListedIds
    BY <1>5 DEF ListedIds
  <2>2. QED
    BY <1>1, <1>5, <2>1 DEF ReadsInv, ReadingIsSound, Answered, Reading
<1>8. AnswerIsSound'
  BY <1>5 DEF AnswerIsSound, Answered, Reading, BallotLeadsToCandidates
<1>9. QED
  BY <1>1, <1>4, <1>6, <1>7, <1>8 DEF ReadsInv

\* A party once removed stays removed.
LEMMA PartyStep ==
  ASSUME ReadsInv, UNCHANGED contractVars, NEW p \in Parties, createParty(p) \/ removeParty(p)
  PROVE  ReadsInv'
<1>1. ContractInv' /\ TotalIsCounted' /\ candidates' = candidates
      /\ totalVotes' = totalVotes /\ hasVoted' = hasVoted
  BY ContractPartKept
<1>2. UNCHANGED <<query, known, told>>
  BY DEF createParty, removeParty
<1>3. /\ partyState' \in [Parties -> {"new", "there", "removed"}]
      /\ Removed \subseteq Removed'
  BY DEF createParty, removeParty, ReadsInv, ReadsTypeOK, Removed
<1>4. ReadsTypeOK' /\ ToldIsCast'
  BY <1>1, <1>2, <1>3 DEF ReadsInv, ReadsTypeOK, ContractInv, ToldIsCast
<1>5. SinceIsPast'
  BY <1>2, <1>3, SinceKept
<1>6. ReadingIsSound' /\ AnswerIsSound'
  <2>1. Votes(query.got)' = Votes(query.got)
    BY <1>2 DEF Votes, VotesOf
  <2>2. QED
    BY <1>1, <1>2, <2>1 DEF ReadsInv, ReadingIsSound, AnswerIsSound, ListedIds, Answered,
                            Reading, BallotLeadsToCandidates
<1>7. QED
  BY <1>1, <1>4, <1>5, <1>6 DEF ReadsInv
-----------------------------------------------------------------------------
\* Every step of a transaction or of a client keeps the invariant.
LEMMA ReadsStepInv ==
  ReadsInv /\ [ReadsNext]_<<contractVars, readVars>> => ReadsInv'
<1> SUFFICES ASSUME ReadsInv, [ReadsNext]_<<contractVars, readVars>>
             PROVE  ReadsInv'
  OBVIOUS
<1>1. CASE ContractNext /\ UNCHANGED readVars
  BY <1>1, ContractStepReads
<1>2. CASE Client /\ UNCHANGED contractVars
  BY <1>2, AskStep, ListStep, CountStep, StatisticsStep, TotalStep, AuditStep, VotedStep,
     BallotStep, FailStep DEF Client
<1>3. CASE (\E p \in Parties : createParty(p) \/ removeParty(p)) /\ UNCHANGED contractVars
  BY <1>3, PartyStep
<1>4. CASE UNCHANGED <<contractVars, readVars>>
  BY <1>4, ContractStepReads
<1>5. QED
  BY <1>1, <1>2, <1>3, <1>4 DEF ReadsNext

\* The invariant holds in every reachable state of the contract and its reader.
THEOREM ReadsInvariant == ReadsSpec => []ReadsInv
  BY ReadsInitInv, ReadsStepInv, PTL DEF ReadsSpec

\* Whatever is asked while the election runs, requests and answers are typed.
THEOREM ReadsTypeCorrect == ReadsSpec => []ReadsTypeOK
<1>1. ReadsInv => ReadsTypeOK
  BY DEF ReadsInv
<1>2. QED
  BY <1>1, ReadsInvariant, PTL

\* Every count the statistics show is one its candidate had during the request.
THEOREM StatisticsOfTheRequest == ReadsSpec => []CountsAreOfTheRequest
<1>1. ReadsInv => CountsAreOfTheRequest
  BY DEF ReadsInv, ReadingIsSound, AnswerIsSound, CountsAreOfTheRequest
<1>2. QED
  BY <1>1, ReadsInvariant, PTL

\* The sum of the counts is no smaller than what a client knew when it asked.
LEMMA StatisticsAreNotSmaller ==
  ASSUME ReadsInv, Answered("statistics")
  PROVE  query.votes >= query.since.told
<1>1. /\ query.since.counts \in [Ids -> 0..MaxUint8] /\ query.since.told \in Nat
      /\ DOMAIN query.got \subseteq Ids /\ \A id \in DOMAIN query.got : query.got[id] \in 0..MaxUint8
  BY QueryIsTyped DEF ReadsInv
<1>2. query.votes = Votes(query.got) /\ query.since.told <= Votes(query.since.counts)
  BY DEF ReadsInv, AnswerIsSound, SinceIsPast
<1>3. \A id \in Ids : query.since.counts[id] > 0 =>
          id \in DOMAIN query.got /\ query.since.counts[id] <= query.got[id]
  BY DEF ReadsInv, ReadingIsSound, AnswerIsSound
<1>4. Votes(query.since.counts) <= Votes(query.got)
  BY <1>1, <1>3, VotesAreMonotone
<1>5. Votes(query.since.counts) \in Nat /\ Votes(query.got) \in Nat
  BY <1>1, VotesAreFinite
<1>6. QED
  BY <1>1, <1>2, <1>4, <1>5

\* Asked after the end, the sum of the counts is the total.
LEMMA FinalStatisticsAreTotal ==
  ASSUME ReadsInv, Answered("statistics"), query.since.ended
  PROVE  query.votes = totalVotes
<1>1. Counts \in [Ids -> 0..MaxUint8] /\ \A id \in Ids : Counts[id] = candidates[id].voteCount
  BY CountsAreTyped DEF ReadsInv, ContractInv
<1>2. DOMAIN query.got \subseteq Ids /\ \A id \in DOMAIN query.got : query.got[id] \in 0..MaxUint8
  BY QueryIsTyped DEF ReadsInv
<1>3. query.since.counts = Counts /\ query.votes = Votes(query.got) /\ Votes(Counts) = totalVotes
  BY DEF ReadsInv, SinceIsPast, AnswerIsSound, TotalIsCounted
<1>4. \A id \in DOMAIN query.got : query.got[id] = Counts[id]
  BY <1>1, <1>2, <1>3 DEF ReadsInv, ReadingIsSound
<1>5. \A id \in Ids : Counts[id] > 0 => id \in DOMAIN query.got
  BY <1>3 DEF ReadsInv, ReadingIsSound, AnswerIsSound
<1>6. Votes(query.got) <= Votes(Counts) /\ Votes(Counts) <= Votes(query.got)
  <2>1. Votes(query.got) <= Votes(Counts)
    BY <1>1, <1>2, <1>4, VotesAreMonotone
  <2>2. Votes(Counts) <= Votes(query.got)
    BY <1>1, <1>2, <1>4, <1>5, VotesAreMonotone
  <2>3. QED
    BY <2>1, <2>2
<1>7. Votes(Counts) \in Nat /\ Votes(query.got) \in Nat
  BY <1>1, <1>2, VotesAreFinite
<1>8. QED
  BY <1>3, <1>6, <1>7

\* Nothing a client was told of is taken back by a later answer.
THEOREM AnswersOnlyGrow == ReadsSpec => []NothingToldIsTakenBack
<1>1. ReadsInv => NothingToldIsTakenBack
  BY StatisticsAreNotSmaller DEF ReadsInv, AnswerIsSound, NothingToldIsTakenBack
<1>2. QED
  BY <1>1, ReadsInvariant, PTL

\* Statistics and total of an ended election are the final result.
THEOREM FinalResultIsTold == ReadsSpec => []FinalAnswersAgree
<1>1. ReadsInv => FinalAnswersAgree
  BY FinalStatisticsAreTotal DEF ReadsInv, AnswerIsSound, FinalAnswersAgree
<1>2. QED
  BY <1>1, ReadsInvariant, PTL

\* The numbers on a ballot are the contract's ids, whatever was deleted.
THEOREM BallotNumbersAreIds == ReadsSpec => []BallotLeadsToCandidates
<1>1. ReadsInv => BallotLeadsToCandidates
  BY DEF ReadsInv, AnswerIsSound
<1>2. QED
  BY <1>1, ReadsInvariant, PTL

\* Among its readers the contract is the contract, so what is proved of it holds.
THEOREM ReadsImplementContract == ReadsSpec => ContractSpec
<1>1. ReadsInit => ContractInit
  BY DEF ReadsInit
<1>2. [ReadsNext]_<<contractVars, readVars>> => [ContractNext]_contractVars
  BY DEF ReadsNext
<1>3. QED
  BY <1>1, <1>2, PTL DEF ReadsSpec, ContractSpec
=============================================================================
