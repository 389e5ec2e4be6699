------------------------------ MODULE Messages ------------------------------
(***************************************************************************)
(* The messages that go on chain (fsp-utils): payloads of submissions and  *)
(* of signatures one after the other, protocol messages, signing policies, *)
(* lists of signatures, and relay messages made of these.                  *)
(*                                                                         *)
(* A message is a sequence with one place for every field of the code's    *)
(* byte layout, and one for every byte of a payload.  What matters is      *)
(* where one field ends and the next begins, so places hold values of any  *)
(* kind, and numbers below Wide where they are counts.  A message that is  *)
(* refused (the decoder throws) gives Refused.                             *)
(***************************************************************************)
EXTENDS Integers, Sequences, SequencesExt, FiniteSetsExt, Functions

CONSTANTS Refused,
          Wide,           \* the first number that does not fit into a field
          MaxTotalWeight  \* 2^16 - 1, of a signing policy

\* A number is padded to the width of its field, and written in full when it is
\* too large for it.
Number(n) == IF n < Wide THEN <<n>> ELSE <<n \div Wide, n % Wide>>

-----------------------------------------------------------------------------
\* PayloadMessage: protocol, round, length, payload.  Protocol and round are
\* checked against their width, the length is not.
EncodePayload(m) == <<m.protocol, m.round>> \o Number(Len(m.payload)) \o m.payload

\* concatenateHexStrings, for the submissions of several protocols.
Concatenated(messages) == FlattenSeq([i \in DOMAIN messages |-> EncodePayload(messages[i])])

\* Mutant: a payload may be cut off by the end of the data.
DecodePayloadsCut(data) ==
    LET rest[i \in 1..(Len(data) + 1)] ==
            IF i > Len(data) THEN <<>>
            ELSE IF Len(data) - i < 2 THEN Refused
            ELSE LET end == Min({i + 2 + data[i + 2], Len(data)})
                     message == [protocol |-> data[i], round |-> data[i + 1],
                                 payload |-> SubSeq(data, i + 3, end)]
                 IN  IF rest[end + 1] = Refused THEN Refused ELSE <<message>> \o rest[end + 1]
    IN  rest[1]

DecodePayloads(data) ==
    LET rest[i \in 1..(Len(data) + 1)] ==
            IF i > Len(data) THEN <<>>
            ELSE IF Len(data) - i < 2 THEN Refused
            ELSE LET end == i + 2 + data[i + 2]
                     message == [protocol |-> data[i], round |-> data[i + 1],
                                 payload |-> SubSeq(data, i + 3, end)]
                 IN  IF end > Len(data) THEN Refused
                     ELSE IF rest[end + 1] = Refused THEN Refused
                     ELSE <<message>> \o rest[end + 1]
    IN  rest[1]

-----------------------------------------------------------------------------
\* ProtocolMessageMerkleRoot: protocol, round, secure, root.
RootLength == 4
EncodeRoot(m) == <<m.protocol, m.round, IF m.secure THEN 1 ELSE 0, m.root>>
DecodeRoot(data) ==
    IF Len(data) < RootLength \/ data[3] \notin {0, 1} THEN Refused
    ELSE [protocol |-> data[1], round |-> data[2], secure |-> data[3] = 1, root |-> data[4]]

\* SigningPolicy: size, epoch, start, threshold, seed, and each voter with its
\* weight.
PolicyHead == 5
PolicyLength(data) == PolicyHead + 2 * data[1]
EncodePolicy(p) ==
    <<Len(p.voters), p.epoch, p.start, p.threshold, p.seed>>
        \o FlattenSeq([i \in DOMAIN p.voters |-> <<p.voters[i], p.weights[i]>>])
DecodePolicy(data) ==
    LET voter(i) == data[PolicyHead + 2 * i - 1]
        weight(i) == data[PolicyHead + 2 * i]
        policy == [epoch |-> data[2], start |-> data[3], threshold |-> data[4], seed |-> data[5],
                   voters |-> [i \in 1..data[1] |-> voter(i)],
                   weights |-> [i \in 1..data[1] |-> weight(i)]]
    IN  IF SumFunction(policy.weights) > MaxTotalWeight THEN Refused ELSE policy

\* ECDSASignatureWithIndex: who signed, what was signed, and the index.
SignatureLength == 3
EncodeSignatures(list) ==
    <<Len(list)>> \o FlattenSeq([i \in DOMAIN list |-> <<list[i].signer, list[i].of, list[i].index>>])
DecodeSignatures(data) ==
    LET place(i) == SignatureLength * (i - 1) + 2
    IN  IF data = <<>> \/ Len(data) # 1 + SignatureLength * data[1] THEN Refused
        ELSE [i \in 1..data[1] |->
                [signer |-> data[place(i)], of |-> data[place(i) + 1], index |-> data[place(i) + 2]]]

-----------------------------------------------------------------------------
\* RelayMessage: the policy, then a protocol message or, after a zero in place of
\* its protocol, a new policy; then the signatures.  What is missing is <<>>.
NewPolicyMark == 0
EncodeRelay(m) ==
    EncodePolicy(m.policy)
        \o (IF m.newPolicy = <<>> THEN EncodeRoot(m.message)
            ELSE <<NewPolicyMark>> \o EncodePolicy(m.newPolicy))
        \o EncodeSignatures(m.signatures)

\* Too short for its policy and what follows: the decoder may read fields beyond
\* the end before it comes to this check, and throws in any case.
TooShort(data) == Len(data) < PolicyHead \/ Len(data) <= PolicyLength(data)

\* Mutant: the mark of a new policy is not looked at.
DecodeRelayMarked(data) ==
    LET rest == SubSeq(data, PolicyLength(data) + 1, Len(data))
        policy == DecodePolicy(data)
        message == DecodeRoot(rest)
        signatures == DecodeSignatures(SubSeq(rest, RootLength + 1, Len(rest)))
    IN  IF TooShort(data) THEN Refused
        ELSE IF policy = Refused \/ message = Refused \/ signatures = Refused THEN Refused
        ELSE [policy |-> policy, message |-> message, newPolicy |-> <<>>, signatures |-> signatures]

DecodeRelay(data) ==
    LET rest == SubSeq(data, PolicyLength(data) + 1, Len(data))
        after == Tail(rest)
        policy == DecodePolicy(data)
        isNew == rest[1] = NewPolicyMark
        message == DecodeRoot(rest)
        newPolicy == DecodePolicy(after)
        length == IF isNew THEN 1 + PolicyLength(after) ELSE RootLength
        signatures == DecodeSignatures(SubSeq(rest, length + 1, Len(rest)))
    IN  IF TooShort(data) THEN Refused
        ELSE IF policy = Refused THEN Refused
        ELSE IF isNew /\ TooShort(after) THEN Refused
        ELSE IF (IF isNew THEN newPolicy ELSE message) = Refused \/ signatures = Refused THEN Refused
        ELSE [policy |-> policy, message |-> IF isNew THEN <<>> ELSE message,
              newPolicy |-> IF isNew THEN newPolicy ELSE <<>>, signatures |-> signatures]

\* What the signatures of a relay message are over, as a hash.
SignedHash(m) ==
    IF m.newPolicy = <<>> THEN <<"message", EncodeRoot(m.message)>>
    ELSE <<"policy", EncodePolicy(m.newPolicy)>>

\* Mutant: the same index may come again.
VerifiesAgain(m) ==
    LET list == m.signatures
        weight(i) == m.policy.weights[list[i].index]
    IN  /\ Len(list) <= Len(m.policy.voters)
        /\ \A i \in 1..(Len(list) - 1) : list[i].index <= list[i + 1].index
        /\ \A i \in DOMAIN list :
              /\ list[i].index \in DOMAIN m.policy.voters
              /\ list[i].signer = m.policy.voters[list[i].index] /\ list[i].of = SignedHash(m)
        /\ SumFunction([i \in DOMAIN list |-> weight(i)]) > m.policy.threshold

\* encode with verify: does it not throw?  A finalization that does not verify
\* counts for nothing (extractFinalizations).  Indices start at 1 here.
Verifies(m) ==
    LET list == m.signatures
        weight(i) == m.policy.weights[list[i].index]
    IN  /\ Len(list) <= Len(m.policy.voters)
        /\ \A i \in 1..(Len(list) - 1) : list[i].index < list[i + 1].index
        /\ \A i \in DOMAIN list :
              /\ list[i].index \in DOMAIN m.policy.voters
              /\ list[i].signer = m.policy.voters[list[i].index] /\ list[i].of = SignedHash(m)
        /\ SumFunction([i \in DOMAIN list |-> weight(i)]) > m.policy.threshold

-----------------------------------------------------------------------------
\* SignaturePayload: the type, for type 0 the message, then the signature and
\* whatever follows as the unsigned message.
EncodeSignature(p) == <<0>> \o EncodeRoot(p.message) \o <<p.signer, p.of>> \o p.unsigned
DecodeSignature(data) ==
    LET head == IF data[1] = 0 THEN 1 + RootLength ELSE 1
        message == DecodeRoot(SubSeq(data, 2, head))
    IN  IF data = <<>> THEN Refused
        ELSE IF data[1] \notin {0, 1} \/ Len(data) < head + 2 THEN Refused
        ELSE IF data[1] = 0 /\ message = Refused THEN Refused
        ELSE [message |-> IF data[1] = 0 THEN message ELSE <<>>,
              signer |-> data[head + 1], of |-> data[head + 2],
              unsigned |-> SubSeq(data, head + 3, Len(data))]

\* augment: the index of who signed in the policy, 0 for no voter.
Augment(s, policy) ==
    [s EXCEPT !.index = Max({0} \cup {i \in DOMAIN policy.voters : policy.voters[i] = s.signer})]

\* Mutant: a signer that is in the list already is put beside itself.
InsertAgain(list, entry) ==
    LET place[left \in 1..(Len(list) + 1), right \in 0..Len(list)] ==
            LET middle == (left + right) \div 2
            IN  IF left > right THEN left
                ELSE IF list[middle].index < entry.index THEN place[middle + 1, right]
                ELSE place[left, middle - 1]
    IN  IF entry.index = 0 \/ (list # <<>> /\ list[1].of # entry.of) THEN list
        ELSE InsertAt(list, place[1, Len(list)], entry)

\* insertInSigningPolicySortedList: by index, each once, all for one message.
InsertInSortedList(list, entry) ==
    LET place[left \in 1..(Len(list) + 1), right \in 0..Len(list)] ==
            LET middle == (left + right) \div 2
            IN  IF left > right THEN left
                ELSE IF list[middle].index = entry.index THEN 0
                ELSE IF list[middle].index < entry.index THEN place[middle + 1, right]
                ELSE place[left, middle - 1]
        at == place[1, Len(list)]
    IN  IF entry.index = 0 \/ (list # <<>> /\ list[1].of # entry.of) \/ at = 0 THEN list
        ELSE InsertAt(list, at, entry)

\* verifySignatures: stops when the weight is enough; a signer that is no voter
\* or comes out of order before that is an error.
VerifySignatures(list, policy) ==
    LET good(i) == list[i].index # 0 /\ (i = 1 \/ list[i - 1].index < list[i].index)
        enough(i) ==
            /\ \A j \in 1..i : good(j)
            /\ SumFunction([j \in 1..i |-> policy.weights[list[j].index]]) > policy.threshold
    IN  IF \E i \in DOMAIN list : enough(i) THEN TRUE
        ELSE IF \A i \in DOMAIN list : good(i) THEN FALSE ELSE Refused

-----------------------------------------------------------------------------
ProperPrefixes(data) == {SubSeq(data, 1, n) : n \in 0..(Len(data) - 1)}

(***************************************************************************)
(* Several payloads sent together are read one by one as they were         *)
(* written, and data that ends early is refused, or ends with a message:   *)
(* no byte of one protocol's payload ever counts as another's.  (For       *)
(* payloads whose length fits into its field.)                             *)
(***************************************************************************)
PayloadsReadBack(messages) ==
    /\ DecodePayloads(Concatenated(messages)) = messages
    /\ \A data \in ProperPrefixes(Concatenated(messages)) :
          DecodePayloads(data) = Refused \/ IsStrictPrefix(DecodePayloads(data), messages)

(***************************************************************************)
(* A relay message is read as it was written, with a protocol message or   *)
(* with a new policy, and refused when it is cut off anywhere.             *)
(***************************************************************************)
RelayReadBack(m) ==
    /\ DecodeRelay(EncodeRelay(m)) = m
    /\ \A data \in ProperPrefixes(EncodeRelay(m)) : DecodeRelay(data) = Refused

SignatureReadBack(p) ==
    /\ DecodeSignature(EncodeSignature(p)) = p
    /\ \A data \in ProperPrefixes(EncodeSignature(p)) :
          Len(data) < Len(EncodeSignature(p)) - Len(p.unsigned) => DecodeSignature(data) = Refused

(***************************************************************************)
(* A finalization verifies only when voters with more than the threshold   *)
(* of weight signed its message, each counted once.  That two different    *)
(* ones cannot verify unless many signed both rests on it.                 *)
(* (RelayMessage.encode with verify)                                       *)
(***************************************************************************)
SignersWeight(m) ==
    LET signed == {s.signer : s \in {t \in ToSet(m.signatures) : t.of = SignedHash(m)}}
    IN  SumFunction([i \in {j \in DOMAIN m.policy.voters : m.policy.voters[j] \in signed} |->
                        m.policy.weights[i]])

VerifiedByThreshold(m) == Verifies(m) => SignersWeight(m) > m.policy.threshold

(***************************************************************************)
(* Signatures collected one at a time, in any order, again and for other   *)
(* messages too, verify exactly when their signers have more than the      *)
(* threshold of weight, and verifying them never fails.                    *)
(* (insertInSigningPolicySortedList, verifySignatures)                     *)
(***************************************************************************)
CollectedVerify(m) ==
    LET entries == SelectSeq([i \in DOMAIN m.signatures |-> Augment(m.signatures[i], m.policy)],
                             LAMBDA s : s.index # 0)
        list == FoldLeft(InsertInSortedList, <<>>, entries)
        signers == {s.index : s \in {t \in ToSet(entries) : t.of = entries[1].of}}
    IN  VerifySignatures(list, m.policy)
            = (SumFunction([i \in signers |-> m.policy.weights[i]]) > m.policy.threshold)
=============================================================================
