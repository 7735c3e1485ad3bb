---------------------------- MODULE TopicMatching -----------------------------
(***************************************************************************)
(* What isTopicMatched computes, compared with MQTT's definition of a      *)
(* match, which goes by the levels of filter and name.                     *)
(***************************************************************************)
EXTENDS TopicFilter, FiniteSets

\* The members of a finite set of numbers in order: up to the i-th there are i.
InOrder(S) == [i \in 1 .. Cardinality(S) |->
                 CHOOSE k \in S : Cardinality({j \in S : j <= k}) = i]

\* The separators of a filter or name, its beginning and its end.
Cuts(s) == InOrder({0, Len(s) + 1} \cup {k \in 1 .. Len(s) : s[k] = "/"})

\* The levels of a filter or name: what stands between its separators.
Levels(s) ==
  LET cuts == Cuts(s)
  IN [i \in 1 .. (Len(cuts) - 1) |-> SubSeq(s, cuts[i] + 1, cuts[i + 1] - 1)]

Plus == <<"+">>
Hash == <<"#">>

Contains(level, char) == \E k \in 1 .. Len(level) : level[k] = char
Last(f) == f[Len(f)]

\* "assume topic filter and name is in correct format; # can only be at end; + and
\* # can only be next to separator": a wildcard is a level of its own.
WellFormed(filter) ==
  LET f == Levels(filter)
  IN \A i \in 1 .. Len(f) :
       /\ f[i] = Plus \/ ~Contains(f[i], "+")
       /\ (f[i] = Hash /\ i = Len(f)) \/ ~Contains(f[i], "#")

\* A match by MQTT's rules: `+' stands for one level, `#' for any number of levels.
MQTTMatches(filter, name) ==
  LET f == Levels(filter)
      n == Levels(name)
      Same(k) == \A i \in 1..k : f[i] = Plus \/ f[i] = n[i]
  IN IF Last(f) = Hash
     THEN Len(n) >= Len(f) - 1 /\ Same(Len(f) - 1)
     ELSE Len(n) = Len(f) /\ Same(Len(f))

\* `#' is asked to stand for no level at all, as in "a/#" and "a".
HashForNothing(filter, name) ==
  Last(Levels(filter)) = Hash /\ Len(Levels(name)) < Len(Levels(filter))

\* isTopicMatched never matches too much: what it matches, MQTT matches, so no
\* handler is given a message its filter does not cover (deliverMessage).
NoFalseMatch ==
  result = "match" /\ WellFormed(topicFilter) => MQTTMatches(topicFilter, topicName)

\* isTopicMatched misses no match of a name without empty levels, except of "a" by
\* "a/#", which it does not know.
NoMissedMatch ==
  /\ result = "differ" /\ WellFormed(topicFilter)
  /\ MQTTMatches(topicFilter, topicName)
  => \/ HashForNothing(topicFilter, topicName)
     \/ \E i \in 1 .. Len(Levels(topicName)) : Levels(topicName)[i] = <<>>
=============================================================================
