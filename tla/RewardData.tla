----------------------------- MODULE RewardData -----------------------------
(***************************************************************************)
(* What the reward calculation takes from the chain for a voting round     *)
(* (DataManagerForRewarding.ts): signatures, finalizations and bit votes   *)
(* of the rewarded window, and who earns and offends with them in the FDC  *)
(* (fdc-utils.ts).                                                         *)
(*                                                                         *)
(* Voters are numbers, anybody else is Empty.  A transaction is a record   *)
(* [kind, time, sender, protocol, round, ...] in chain order:              *)
(*   "sign"      signer and hash: over which hash whose key signed, and    *)
(*               candidate: the bit vote of the unsigned message; Empty    *)
(*               without one, Short when the message is of one byte,       *)
(*               NoBits when nothing follows its two bytes of length       *)
(*   "finalize"  hash, epoch: the reward epoch of its policy, valid: does  *)
(*               it verify, successfulOnChain: was it the one to succeed   *)
(* A bit vote is the set of the requests it confirms.                      *)
(***************************************************************************)
EXTENDS RewardShares

CONSTANTS RewardedWindows,  \* ADDITIONAL_REWARDED_FINALIZATION_WINDOWS
          Short, NoBits     \* unsigned messages that are no bit votes

\* Mutant: the window is open for another voting epoch.
WindowEndOpen(round) == EpochEnd(round + 2 + RewardedWindows)

WindowStart(round) == (round + 1) * EpochSeconds + RevealDeadline
WindowEnd(round) == EpochEnd(round + 1 + RewardedWindows)

\* getSubmissionDataInRange and getFinalizationDataInRange, once the database
\* has the range.
InRange(txs, kind, from, to) ==
    Select(txs, LAMBDA tx : tx.kind = kind /\ tx.time >= from /\ tx.time <= to)

\* getSignAndFinalizeSubmissionDataForVotingRound.
WindowOf(txs, kind, round) == InRange(txs, kind, WindowStart(round), WindowEnd(round))

-----------------------------------------------------------------------------
\* The two indices that slide along the transactions of a range of rounds.
Slide(txs, index, Before(_)) ==
    Min({k \in index..(Len(txs) + 1) : k > Len(txs) \/ ~Before(txs[k])})

\* Mutant: the last second of a window is left out.
WindowsInRangeExclusive(txs, first, last) ==
    LET next(slices, round) ==
            LET prev == slices[Len(slices)]
                start == Slide(txs, prev.start, LAMBDA tx : tx.time < WindowStart(round))
                end == Slide(txs, prev.end, LAMBDA tx : tx.time < WindowEnd(round))
            IN  Append(slices, [start |-> start, end |-> end])
        slices == FoldLeft(next, <<[start |-> 1, end |-> 1]>>,
                           [i \in 1..(last - first + 1) |-> first + i - 1])
    IN  [round \in first..last |->
            LET s == slices[round - first + 2] IN SubSeq(txs, s.start, s.end - 1)]

\* The loop of getDataForRewardCalculationForVotingRoundRange.
WindowsInRange(txs, first, last) ==
    LET next(slices, round) ==
            LET prev == slices[Len(slices)]
                start == Slide(txs, prev.start, LAMBDA tx : tx.time < WindowStart(round))
                end == Slide(txs, prev.end, LAMBDA tx : tx.time <= WindowEnd(round))
            IN  Append(slices, [start |-> start, end |-> end])
        slices == FoldLeft(next, <<[start |-> 1, end |-> 1]>>,
                           [i \in 1..(last - first + 1) |-> first + i - 1])
    IN  [round \in first..last |->
            LET s == slices[round - first + 2] IN SubSeq(txs, s.start, s.end - 1)]

-----------------------------------------------------------------------------
\* The first transaction of each sender.
FirstOfSender(txs) ==
    Picked(txs, {i \in DOMAIN txs : \A j \in 1..(i - 1) : txs[j].sender # txs[i].sender})

\* Mutant: signatures for other protocols are looked at as well.
ExtractSignaturesAnyProtocol(txs, policy, round, protocol, hash) ==
    LET relevant == Select(txs, LAMBDA tx :
            tx.round = round /\ tx.sender \in DOMAIN policy)
        right(tx) == tx.hash = hash /\ tx.signer = tx.sender
        list(key) == FirstOfSender(Select(relevant, LAMBDA tx : right(tx) <=> key = "consensus"))
    IN  [key \in {k \in {"consensus", "wrong"} : list(k) # <<>>} |-> list(key)]

\* Mutant: only the first signature of a sender counts, be it right or wrong.
ExtractSignaturesFirst(txs, policy, round, protocol, hash) ==
    LET relevant == Select(txs, LAMBDA tx :
            tx.round = round /\ tx.protocol = protocol /\ tx.sender \in DOMAIN policy)
        right(tx) == tx.hash = hash /\ tx.signer = tx.sender
        list(key) == Select(FirstOfSender(relevant), LAMBDA tx : right(tx) <=> key = "consensus")
    IN  [key \in {k \in {"consensus", "wrong"} : list(k) # <<>>} |-> list(key)]

\* extractSignatures with the hash of the consensus provided: a signature over
\* another hash, or with another key, counts as a wrong one of its sender.
ExtractSignatures(txs, policy, round, protocol, hash) ==
    LET relevant == Select(txs, LAMBDA tx :
            tx.round = round /\ tx.protocol = protocol /\ tx.sender \in DOMAIN policy)
        right(tx) == tx.hash = hash /\ tx.signer = tx.sender
        list(key) == FirstOfSender(Select(relevant, LAMBDA tx : right(tx) <=> key = "consensus"))
    IN  [key \in {k \in {"consensus", "wrong"} : list(k) # <<>>} |-> list(key)]

\* extractSignatures without one: signatures of eligible voters by their hash,
\* whoever of the voters sent them.
ExtractSignaturesByHash(txs, policy, round, protocol) ==
    LET relevant == Select(txs, LAMBDA tx :
            /\ tx.round = round /\ tx.protocol = protocol
            /\ tx.sender \in DOMAIN policy /\ tx.signer \in DOMAIN policy)
    IN  [key \in {tx.hash : tx \in ToSet(relevant)} |->
            FirstOfSender(Select(relevant, LAMBDA tx : tx.hash = key))]

\* extractFinalizations: of each sender the first that would finalize.
ExtractFinalizations(txs, round, epoch, protocol) ==
    FirstOfSender(Select(txs, LAMBDA tx :
        tx.round = round /\ tx.protocol = protocol /\ tx.epoch = epoch /\ tx.valid))

FirstSuccessful(finalizations) ==
    LET successful == Select(finalizations, LAMBDA f : f.successfulOnChain)
    IN  IF successful = <<>> THEN Empty ELSE successful[1]

-----------------------------------------------------------------------------
\* extractSubmissionsWithValidEligibleBitVotes: the last submission of each
\* voter with a bit vote for the round before the one it was sent in.  A
\* submission is [sender, time, votes] with votes a list of [round, bits].
BitVoteSubmissions(submissions, policy) ==
    LET voted == {i \in DOMAIN submissions :
                     /\ submissions[i].sender \in DOMAIN policy
                     /\ \E vote \in ToSet(submissions[i].votes) :
                            vote.round + 1 = EpochOf(submissions[i].time)}
        last(v) == Max({i \in voted : submissions[i].sender = v})
    IN  [v \in {submissions[i].sender : i \in voted} |-> submissions[last(v)]]

\* A voter's bit vote is the first of the submission.
BitVotes(bitVoteSubmissions) ==
    [v \in DOMAIN bitVoteSubmissions |-> bitVoteSubmissions[v].votes[1].bits]

\* The bit vote as a number, the first request being its lowest bit.
AsNumber(bits) == SumFunction([i \in bits |-> 2 ^ i])

\* Mutant: the candidate with the least weight behind it.
ConsensusBitVoteLightest(signatures, policy) ==
    LET candidates == {s.candidate : s \in ToSet(signatures)} \ {Empty, Short}
        weight(c) == SumFunction([v \in {s.sender : s \in {s \in ToSet(signatures) : s.candidate = c}}
                                    |-> policy[v].signing])
        best == {c \in candidates : \A d \in candidates : weight(c) <= weight(d)}
    IN  IF candidates = {} THEN Empty
        ELSE CHOOSE c \in best : \A d \in best : AsNumber(c) <= AsNumber(d)

\* The candidate with the most weight behind it; of several the first in the
\* order of their decimal strings (of their numbers, up to three requests).
ConsensusBitVote(signatures, policy) ==
    LET candidates == {s.candidate : s \in ToSet(signatures)} \ {Empty, Short}
        weight(c) == SumFunction([v \in {s.sender : s \in {s \in ToSet(signatures) : s.candidate = c}}
                                    |-> policy[v].signing])
        best == {c \in candidates : \A d \in candidates : weight(c) >= weight(d)}
    IN  IF candidates = {} THEN Empty
        ELSE CHOOSE c \in best : \A d \in best : AsNumber(c) <= AsNumber(d)

NoFdcData == [signers |-> <<>>, consensus |-> Empty,
              unrevealed |-> {}, wrong |-> {}, bad |-> {}]

\* extractFDCRewardData: the signers and the offenders, who covered the
\* consensus with their bit vote and then did not sign ("unrevealed"), signed
\* something else ("wrong"), or signed with another candidate or a short one
\* ("bad").  With no signature over the finalized hash nobody offends.
FdcRewardData(signatures, policy, bitVotes) ==
    LET signed == signatures["consensus"]
        consensus == ConsensusBitVote(signed, policy)
        signers == {s.sender : s \in ToSet(signed)}
        signatureOf(v) == CHOOSE s \in ToSet(signed) : s.sender = v
        dominates(v) == consensus # Empty /\ v \in DOMAIN bitVotes /\ consensus \subseteq bitVotes[v]
    IN  IF "consensus" \notin DOMAIN signatures THEN NoFdcData
        ELSE [signers |-> [v \in signers |-> [time |-> signatureOf(v).time,
                                              dominates |-> dominates(v)]],
              consensus |-> consensus,
              unrevealed |-> {v \in DOMAIN bitVotes : dominates(v) /\ v \notin signers},
              wrong |-> IF "wrong" \in DOMAIN signatures
                        THEN {s.sender : s \in ToSet(signatures["wrong"])} ELSE {},
              bad |-> {v \in signers : signatureOf(v).candidate \notin {Empty, consensus}}]

\* What BigInt is given of a message without bits is no number.
FdcRewardDataThrows(signatures) ==
    /\ "consensus" \in DOMAIN signatures
    /\ \E s \in ToSet(signatures["consensus"]) : s.candidate = NoBits

FdcOffenders(data) == data.unrevealed \cup data.wrong \cup data.bad

-----------------------------------------------------------------------------
\* uniqueRequestsIndices: the indices of the same requests together, in the
\* order of the first of them.
UniqueRequests(requests) ==
    LET indices == [i \in DOMAIN requests |-> i]
        same(i) == Picked(indices, {j \in DOMAIN requests : requests[j] = requests[i]})
        firsts == Picked(indices, {i \in DOMAIN requests : \A j \in 1..(i - 1) : requests[j] # requests[i]})
    IN  [k \in DOMAIN firsts |-> same(firsts[k])]

\* bitVoteIndicesNum throws when the bit vote confirms what was not asked.
BitVoteThrows(requests, bits) ==
    bits # Empty /\ \E i \in bits : i >= Len(UniqueRequests(requests))

\* Mutant: requests of the same are not marked as duplicates.
MarkRequestsTwice(requests, bits) ==
    LET unique == UniqueRequests(requests)
        confirmed == IF bits = Empty THEN {} ELSE {unique[i + 1] : i \in bits}
    IN  [j \in DOMAIN requests |->
            [confirmed |-> \E group \in confirmed : j \in ToSet(group), duplicate |-> FALSE]]

\* The marks on the attestation requests of a round: the first of the same
\* requests is confirmed, the others are confirmed duplicates.  A bit vote
\* counts the requests from 0.
MarkRequests(requests, bits) ==
    LET unique == UniqueRequests(requests)
        confirmed == IF bits = Empty THEN {} ELSE {unique[i + 1] : i \in bits}
    IN  [j \in DOMAIN requests |->
            [confirmed |-> \E group \in confirmed : j \in ToSet(group),
             duplicate |-> \E group \in confirmed : j \in ToSet(group) /\ j # group[1]]]
=============================================================================
