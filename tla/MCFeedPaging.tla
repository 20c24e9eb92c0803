----------------------------- MODULE MCFeedPaging ------------------------------
(* A small instance of FeedPaging: three articles per page, out of three, or
   out of four for the public list; two of those have the same date.  The caps
   leave room for a copy of an article, and none for a third of its kind. *)
EXTENDS FeedPaging

CONSTANTS a1, a2, a3, a4, press, wire, en, hi, sport, trade, c1, c2

FourArticles == {a1, a2, a3, a4}
MCIngestible(pub) == IF pub THEN FourArticles ELSE {a1, a2, a3}
MCPublishedAt(a) == CASE a = a1 -> 3 [] a = a2 -> 2 [] OTHER -> 1
MCSource(a) == IF a = a1 THEN press ELSE wire
MCTopic(a) == IF a = a3 THEN hi ELSE en
MCPillar(a) == IF a \in {a1, a3} THEN sport ELSE trade
MCTagPillars(a) == CASE a = a1 -> {sport, trade} [] a = a3 -> {} [] OTHER -> {sport}
OnePillar == {sport}
TwoCalls == {c1, c2}
OneTrending == {a1}
ColdOrNot == {0, 1}

\* mmr_rerank and inject_trending, against their definitions in FeedPaging: the loops of
\* the code give what those say, for four articles of which two may come twice.
Items == (FourArticles \X {0}) \cup ({a1, a3} \X {1})
ASSUME RerankIsLoop ==
    \A items \in SUBSET Items :
        Rerank(items) = {RerankLoop([i \in DOMAIN q |-> q[i][1]]) : q \in SetToSeqs(items)}

InjectLoop(feed, trending) ==
    LET Slot(i) == IF i % EveryN = 0 /\ i \div EveryN <= Len(trending)
                   THEN <<feed[i], trending[i \div EveryN]>> ELSE <<feed[i]>>
    IN  FlattenSeq([i \in 1..Len(feed) |-> Slot(i)])
ASSUME InjectIsLoop ==
    \A feed \in SetToAllKPermutations(FourArticles) :
        \A trending \in SetToAllKPermutations(FourArticles \ ToSet(feed)) :
            InjectTrending(feed, trending) = InjectLoop(feed, trending)
================================================================================
