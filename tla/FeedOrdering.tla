---------------------------- MODULE FeedOrdering ----------------------------
(***************************************************************************)
(* The canonical order of the feeds of a reward epoch (feed-ordering.ts):  *)
(* the position of a feed in it is the position of its value in every      *)
(* submission of the epoch.  Feeds are numbers, compared as the code       *)
(* compares identifiers; decimals are left out.                            *)
(***************************************************************************)
EXTENDS Integers, Sequences, SequencesExt, FiniteSetsExt

\* The value a feed has after the community offers: each offer adds the value
\* it had so far once more.
\*
\* Mutant: an offer replaces the value.
FlrValueLast(offers, feed) ==
    FoldLeft(LAMBDA value, o : IF o.feed = feed THEN o.amount ELSE value, 0, offers)

FlrValue(offers, feed) ==
    FoldLeft(LAMBDA value, o : IF o.feed = feed THEN value + (value + o.amount) ELSE value,
             0, offers)

\* The comparison of sortFeedWithValuesToCanonicalOrder.
CanonicallyBefore(inflation, offers, a, b) ==
    \/ a \in inflation /\ b \notin inflation
    \/ a \in inflation /\ b \in inflation /\ a < b
    \/ /\ a \notin inflation /\ b \notin inflation
       /\ \/ FlrValue(offers, a) > FlrValue(offers, b)
          \/ FlrValue(offers, a) = FlrValue(offers, b) /\ a < b

\* rewardEpochFeedSequence: inflationOffers is a sequence of sequences of
\* feeds, communityOffers one of [feed, amount].
FeedSequence(inflationOffers, communityOffers) ==
    LET inflation == UNION {ToSet(o) : o \in ToSet(inflationOffers)}
        feeds == inflation \cup {o.feed : o \in ToSet(communityOffers)}
        before(feed) == {other \in feeds : CanonicallyBefore(inflation, communityOffers, other, feed)}
    IN  [i \in 1..Cardinality(feeds) |-> CHOOSE feed \in feeds : Cardinality(before(feed)) = i - 1]
=============================================================================
