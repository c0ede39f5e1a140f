------------------------ MODULE ElectionContractProofs ------------------------
(***************************************************************************)
(* The contract's type correctness, the agreement of its counters with its *)
(* audit trail, and its refinement of the ballot box, for any number of    *)
(* voters and candidates and any width of the counters.                    *)
(***************************************************************************)
EXTENDS ElectionContract, FiniteSetTheorems, TLAPS

\* The inductive invariant.  TallyMatchesBallots speaks of cardinalities, so
\* the induction also needs that finitely many ballots were taken; that a vote
\* adds a new ballot needs OneBallotPerHash, and that a new candidate starts
\* without votes needs that its slot was never written.
SlotsAboveAreBlank == \A id \in Ids : ~Exists(id) => candidates[id] = BlankCandidate

ContractInv ==
    /\ ContractTypeOK
    /\ SlotsAboveAreBlank
    /\ IsFiniteSet(Ballots)
    /\ TallyMatchesBallots
    /\ OneBallotPerHash

\* No vote was cast in an initial state.
LEMMA InitBallots == ContractInit => Ballots = {}
  BY DEF ContractInit, Ballots, AuditedHashes

\* The state of a contract without votes is well typed.
LEMMA InitTypeOK == ContractInit => ContractTypeOK
<1> SUFFICES ASSUME ContractInit PROVE ContractTypeOK
  OBVIOUS
<1>1. BlankCandidate \in Candidate /\ NewCandidate(FirstPhoto, FirstParty) \in Candidate
  BY ContractAssumption DEF BlankCandidate, NewCandidate, Candidate
<1>2. candidates \in [Ids -> Candidate]
  BY <1>1 DEF ContractInit
<1>3. \A id \in Ids : << >> \in Seq(Hashes)
  OBVIOUS
<1>4. voteAudits \in [Ids -> Seq(Hashes)]
  BY <1>3 DEF ContractInit
<1>5. voteCheckpoints \in [Ids -> 0..MaxUint8]
  BY ContractAssumption DEF ContractInit
<1>6. candidatesCount \in 0..MaxCandidates
  BY ContractAssumption DEF ContractInit
<1>7. hasVoted \subseteq Hashes /\ totalVotes \in Nat /\ electionEnded \in BOOLEAN
  BY DEF ContractInit
<1>8. QED
  BY <1>2, <1>4, <1>5, <1>6, <1>7 DEF ContractTypeOK

\* A transaction keeps the types: in particular a vote keeps the uint8
\* counters in range because it reverts at the largest one.
LEMMA StepTypeOK == ContractTypeOK /\ [ContractNext]_contractVars => ContractTypeOK'
<1> SUFFICES ASSUME ContractTypeOK, [ContractNext]_contractVars
             PROVE  ContractTypeOK'
  OBVIOUS
<1> USE ContractAssumption DEF ContractTypeOK
<1>1. ASSUME NEW id \in Ids, NEW h \in Hashes, vote(id, h)
      PROVE  ContractTypeOK'
  <2>1. candidates[id].voteCount + 1 \in 0..MaxUint8
    BY <1>1 DEF vote, CanVote, Candidate
  <2>2. candidates' \in [Ids -> Candidate]
    BY <1>1, <2>1 DEF vote, Candidate
  <2>3. voteAudits' \in [Ids -> Seq(Hashes)]
    BY <1>1 DEF vote
  <2>4. voteCheckpoints' \in [Ids -> 0..MaxUint8]
    BY <1>1, <2>1 DEF vote
  <2>5. QED
    BY <1>1, <2>2, <2>3, <2>4 DEF vote
<1>2. ASSUME NEW photo \in Photos, NEW party \in Parties, addCandidate(photo, party)
      PROVE  ContractTypeOK'
  <2>1. NewCandidate(photo, party) \in Candidate
    BY DEF NewCandidate, Candidate
  <2>2. candidates' \in [Ids -> Candidate]
    BY <1>2, <2>1 DEF addCandidate
  <2>3. candidatesCount' \in 0..MaxCandidates
    BY <1>2 DEF addCandidate, CanAdd
  <2>4. QED
    BY <1>2, <2>2, <2>3 DEF addCandidate
<1>3. ASSUME NEW id \in Ids, NEW photo \in Photos, NEW party \in Parties,
             updateCandidate(id, photo, party)
      PROVE  ContractTypeOK'
  BY <1>3 DEF updateCandidate, Candidate
<1>4. ASSUME NEW id \in Ids, deleteCandidate(id)
      PROVE  ContractTypeOK'
  BY <1>4 DEF deleteCandidate, Candidate
<1>5. CASE endElection
  BY <1>5 DEF endElection
<1>6. CASE UNCHANGED contractVars
  BY <1>6 DEF contractVars
<1>7. QED
  BY <1>1, <1>2, <1>3, <1>4, <1>5, <1>6 DEF ContractNext

\* A vote adds its ballot, which was not there, and no other.
LEMMA VoteBallots ==
  ASSUME ContractTypeOK, OneBallotPerHash,
         NEW id \in Ids, NEW h \in Hashes, vote(id, h)
  PROVE  /\ Ballots' = Ballots \cup {<<h, id>>}
         /\ \A b \in Ballots : b[1] # h
<1>1. \A k \in Ids : voteAudits[k] \in Seq(Hashes)
  BY DEF ContractTypeOK
<1>2. AuditedHashes(id)' = AuditedHashes(id) \cup {h}
  <2>1. voteAudits'[id] = Append(voteAudits[id], h)
    BY DEF vote, ContractTypeOK
  <2>2. QED
    BY <1>1, <2>1 DEF AuditedHashes
<1>3. \A k \in Ids : k # id => AuditedHashes(k)' = AuditedHashes(k)
  BY DEF vote, ContractTypeOK, AuditedHashes
<1>4. Ballots' = Ballots \cup {<<h, id>>}
  BY <1>2, <1>3 DEF Ballots
<1>5. \A b \in Ballots : b[1] # h
  BY DEF vote, CanVote, OneBallotPerHash
<1>6. QED
  BY <1>4, <1>5

\* The other transactions leave the ballots and every counter alone.
LEMMA OtherBallots ==
  ASSUME ContractTypeOK, SlotsAboveAreBlank, [ContractNext]_contractVars,
         ~\E id \in Ids, h \in Hashes : vote(id, h)
  PROVE  /\ UNCHANGED <<voteAudits, voteCheckpoints, hasVoted, totalVotes>>
         /\ \A id \in Ids : candidates'[id].voteCount = candidates[id].voteCount
<1> DEFINE Claim == /\ UNCHANGED <<voteAudits, voteCheckpoints, hasVoted, totalVotes>>
                    /\ \A id \in Ids : candidates'[id].voteCount = candidates[id].voteCount
<1> USE DEF ContractTypeOK
<1>1. ASSUME NEW photo \in Photos, NEW party \in Parties, addCandidate(photo, party)
      PROVE  Claim
  <2>1. candidatesCount \in Ids /\ ~Exists(candidatesCount)
    BY <1>1, ContractAssumption DEF addCandidate, CanAdd, Ids, Exists
  <2>2. candidates[candidatesCount].voteCount = 0
    BY <2>1 DEF SlotsAboveAreBlank, BlankCandidate
  <2>3. QED
    BY <1>1, <2>1, <2>2 DEF addCandidate, NewCandidate
<1>2. ASSUME NEW i \in Ids, NEW photo \in Photos, NEW party \in Parties,
             updateCandidate(i, photo, party)
      PROVE  Claim
  BY <1>2 DEF updateCandidate, Candidate
<1>3. ASSUME NEW i \in Ids, deleteCandidate(i)
      PROVE  Claim
  BY <1>3 DEF deleteCandidate, Candidate
<1>4. CASE endElection
  BY <1>4 DEF endElection
<1>5. CASE UNCHANGED contractVars
  BY <1>5 DEF contractVars
<1>6. QED
  BY <1>1, <1>2, <1>3, <1>4, <1>5 DEF ContractNext

\* A slot is written only by addCandidate, which makes its id exist.
LEMMA StepSlots ==
  ContractTypeOK /\ SlotsAboveAreBlank /\ [ContractNext]_contractVars => SlotsAboveAreBlank'
<1> SUFFICES ASSUME ContractTypeOK, SlotsAboveAreBlank, [ContractNext]_contractVars,
                    NEW k \in Ids, ~Exists(k)'
             PROVE  candidates'[k] = BlankCandidate
  BY DEF SlotsAboveAreBlank, Ids, BlankCandidate
<1> USE DEF ContractTypeOK, SlotsAboveAreBlank, Exists
<1>1. ASSUME NEW id \in Ids, NEW h \in Hashes, vote(id, h)
      PROVE  candidates'[k] = BlankCandidate
  BY <1>1 DEF vote, CanVote
<1>2. ASSUME NEW photo \in Photos, NEW party \in Parties, addCandidate(photo, party)
      PROVE  candidates'[k] = BlankCandidate
  BY <1>2, ContractAssumption DEF addCandidate, Ids
<1>3. ASSUME NEW id \in Ids, NEW photo \in Photos, NEW party \in Parties,
             updateCandidate(id, photo, party)
      PROVE  candidates'[k] = BlankCandidate
  BY <1>3 DEF updateCandidate, CanEdit
<1>4. ASSUME NEW id \in Ids, deleteCandidate(id)
      PROVE  candidates'[k] = BlankCandidate
  BY <1>4 DEF deleteCandidate, CanEdit
<1>5. CASE endElection
  BY <1>5 DEF endElection
<1>6. CASE UNCHANGED contractVars
  BY <1>6 DEF contractVars
<1>7. QED
  BY <1>1, <1>2, <1>3, <1>4, <1>5, <1>6 DEF ContractNext
-----------------------------------------------------------------------------
\* A vote raises the three counters of its candidate and the total by one, as
\* the ballot it adds raises the cardinalities.
LEMMA VoteTally ==
  ASSUME ContractInv, NEW id \in Ids, NEW h \in Hashes, vote(id, h)
  PROVE  IsFiniteSet(Ballots)' /\ TallyMatchesBallots' /\ OneBallotPerHash'
<1>1. /\ Ballots' = Ballots \cup {<<h, id>>}
      /\ \A b \in Ballots : b[1] # h
  BY VoteBallots DEF ContractInv
<1>2. <<h, id>> \notin Ballots
  BY <1>1
<1>3. IsFiniteSet(Ballots) /\ \A k \in Ids : IsFiniteSet(BallotsFor(k))
  BY FS_Subset DEF ContractInv, BallotsFor
<1>4. IsFiniteSet(Ballots)' /\ Cardinality(Ballots)' = Cardinality(Ballots) + 1
  BY <1>1, <1>2, <1>3, FS_AddElement
<1>5. \A k \in Ids : Cardinality(BallotsFor(k))' = IF k = id THEN Cardinality(BallotsFor(k)) + 1
                                                            ELSE Cardinality(BallotsFor(k))
  <2> TAKE k \in Ids
  <2>1. CASE k = id
    <3>1. BallotsFor(k)' = BallotsFor(k) \cup {<<h, id>>}
      BY <1>1, <2>1 DEF BallotsFor
    <3>2. <<h, id>> \notin BallotsFor(k)
      BY <1>2 DEF BallotsFor
    <3>3. QED
      BY <1>3, <2>1, <3>1, <3>2, FS_AddElement
  <2>2. CASE k # id
    <3>1. BallotsFor(k)' = BallotsFor(k)
      BY <1>1, <2>2 DEF BallotsFor
    <3>2. QED
      BY <2>2, <3>1
  <2>3. QED
    BY <2>1, <2>2
<1>6. TallyMatchesBallots'
  <2>1. \A k \in Ids : candidates'[k].voteCount = IF k = id THEN candidates[k].voteCount + 1
                                                            ELSE candidates[k].voteCount
    BY DEF vote, ContractInv, ContractTypeOK, Candidate
  <2>2. \A k \in Ids : Len(voteAudits'[k]) = IF k = id THEN Len(voteAudits[k]) + 1
                                                      ELSE Len(voteAudits[k])
    BY DEF vote, ContractInv, ContractTypeOK
  <2>3. \A k \in Ids : voteCheckpoints'[k] = IF k = id THEN candidates[k].voteCount + 1
                                                      ELSE voteCheckpoints[k]
    BY DEF vote, ContractInv, ContractTypeOK
  <2>4. totalVotes' = totalVotes + 1
    BY DEF vote
  <2>5. QED
    BY <1>4, <1>5, <2>1, <2>2, <2>3, <2>4
       DEF ContractInv, TallyMatchesBallots, verifyCheckpoint
<1>7. OneBallotPerHash'
  <2>1. hasVoted' = hasVoted \cup {h} /\ hasVoted = {b[1] : b \in Ballots}
    BY DEF vote, ContractInv, OneBallotPerHash
  <2>2. hasVoted' = {b[1] : b \in Ballots'}
    <3>1. ASSUME NEW x \in hasVoted' PROVE \E b \in Ballots' : x = b[1]
      <4>1. <<h, id>> \in Ballots' /\ <<h, id>>[1] = h
        BY <1>1
      <4>2. QED
        BY <1>1, <2>1, <3>1, <4>1
    <3>2. ASSUME NEW b \in Ballots' PROVE b[1] \in hasVoted'
      BY <1>1, <2>1
    <3>3. QED
      BY <3>1, <3>2
  <2>3. \A b, c \in Ballots' : b[1] = c[1] => b = c
    BY <1>1 DEF ContractInv, OneBallotPerHash
  <2>4. QED
    BY <2>2, <2>3 DEF OneBallotPerHash
<1>8. QED
  BY <1>4, <1>6, <1>7

\* A fresh contract satisfies the invariant.
LEMMA ContractInitInv == ContractInit => ContractInv
<1> SUFFICES ASSUME ContractInit PROVE ContractInv
  OBVIOUS
<1>1. ContractTypeOK /\ Ballots = {}
  BY InitTypeOK, InitBallots
<1>2. SlotsAboveAreBlank
  BY ContractAssumption DEF ContractInit, SlotsAboveAreBlank, Exists
<1>3. IsFiniteSet(Ballots) /\ Cardinality(Ballots) = 0
  BY <1>1, FS_EmptySet
<1>4. TallyMatchesBallots
  <2>1. \A id \in Ids : Cardinality(BallotsFor(id)) = 0
    <3> TAKE id \in Ids
    <3>1. BallotsFor(id) = {}
      BY <1>1 DEF BallotsFor
    <3>2. QED
      BY <3>1, FS_EmptySet
  <2>2. \A id \in Ids : candidates[id].voteCount = 0 /\ Len(voteAudits[id]) = 0
    BY DEF ContractInit, NewCandidate, BlankCandidate
  <2>3. QED
    BY <1>3, <2>1, <2>2 DEF ContractInit, TallyMatchesBallots, verifyCheckpoint
<1>5. OneBallotPerHash
  BY <1>1 DEF ContractInit, OneBallotPerHash
<1>6. QED
  BY <1>1, <1>2, <1>3, <1>4, <1>5 DEF ContractInv

\* Every transaction, or none, keeps the invariant.
LEMMA ContractStepInv == ContractInv /\ [ContractNext]_contractVars => ContractInv'
<1> SUFFICES ASSUME ContractInv, [ContractNext]_contractVars
             PROVE  ContractInv'
  OBVIOUS
<1>1. ContractTypeOK' /\ SlotsAboveAreBlank'
  BY StepTypeOK, StepSlots DEF ContractInv
<1>2. CASE \E id \in Ids, h \in Hashes : vote(id, h)
  BY <1>1, <1>2, VoteTally DEF ContractInv
<1>3. CASE ~\E id \in Ids, h \in Hashes : vote(id, h)
  <2>1. /\ UNCHANGED <<voteAudits, voteCheckpoints, hasVoted, totalVotes>>
        /\ \A id \in Ids : candidates'[id].voteCount = candidates[id].voteCount
    BY <1>3, OtherBallots DEF ContractInv
  <2>2. Ballots' = Ballots
    BY <2>1 DEF Ballots, AuditedHashes
  <2>3. IsFiniteSet(Ballots)' /\ OneBallotPerHash'
    BY <2>1, <2>2 DEF ContractInv, OneBallotPerHash
  <2>4. TallyMatchesBallots'
    BY <2>1, <2>2 DEF ContractInv, TallyMatchesBallots, verifyCheckpoint, BallotsFor
  <2>5. QED
    BY <1>1, <2>3, <2>4 DEF ContractInv
<1>4. QED
  BY <1>2, <1>3

\* The invariant holds in every reachable state of the contract.
THEOREM ContractInvariant == ContractSpec => []ContractInv
  BY ContractInitInv, ContractStepInv, PTL DEF ContractSpec

\* No counter leaves its width and no id its range, for any width and number.
THEOREM ContractTypeCorrect == ContractSpec => []ContractTypeOK
<1>1. ContractInv => ContractTypeOK
  BY DEF ContractInv
<1>2. QED
  BY <1>1, ContractInvariant, PTL

\* The statistics agree with the audit trail, for any numbers of voters and
\* candidates.
THEOREM ContractTally == ContractSpec => []TallyMatchesBallots
<1>1. ContractInv => TallyMatchesBallots
  BY DEF ContractInv
<1>2. QED
  BY <1>1, ContractInvariant, PTL

\* No hash is audited twice, whatever sequence of transactions is executed.
THEOREM ContractOneBallot == ContractSpec => []OneBallotPerHash
<1>1. ContractInv => OneBallotPerHash
  BY DEF ContractInv
<1>2. QED
  BY <1>1, ContractInvariant, PTL

\* The contract implements the ballot box.
THEOREM ContractImplementsBox == ContractSpec => BoxSpec
<1>1. ContractInit => Box!Init
  BY InitBallots DEF ContractInit, Box!Init
<1>2. ContractInv /\ [ContractNext]_contractVars => [Box!Next]_(Box!vars)
  <2> SUFFICES ASSUME ContractInv, [ContractNext]_contractVars
               PROVE  [Box!Next]_(Box!vars)
    OBVIOUS
  <2>1. ASSUME NEW id \in Ids, NEW h \in Hashes, vote(id, h)
        PROVE  Box!Cast(h, id)
    <3>1. Ballots' = Ballots \cup {<<h, id>>} /\ \A b \in Ballots : b[1] # h
      BY <2>1, VoteBallots DEF ContractInv
    <3>2. ~Box!HasCast(h)
      BY <3>1 DEF Box!HasCast
    <3>3. QED
      BY <2>1, <3>1, <3>2 DEF vote, CanVote, Box!Cast
  <2>2. CASE ~\E id \in Ids, h \in Hashes : vote(id, h)
    <3>1. Ballots' = Ballots
      <4>1. UNCHANGED voteAudits
        BY <2>2, OtherBallots DEF ContractInv
      <4>2. QED
        BY <4>1 DEF Ballots, AuditedHashes
    <3>2. endElection \/ UNCHANGED electionEnded
      BY <2>2 DEF ContractNext, contractVars, addCandidate, updateCandidate, deleteCandidate
    <3>3. QED
      BY <3>1, <3>2 DEF endElection, Box!Next, Box!Close, Box!vars
  <2>3. QED
    BY <2>1, <2>2 DEF Box!Next
<1>3. QED
  BY <1>1, <1>2, ContractInvariant, PTL DEF ContractSpec, BoxSpec, Box!Spec
=============================================================================
