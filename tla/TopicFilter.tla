----------------------------- MODULE TopicFilter ------------------------------
(***************************************************************************)
(* isTopicMatched of the C client (MQTTClient.c): does a topic filter with *)
(* wildcards match a topic name?  One step is one iteration of its outer   *)
(* loop, or of the inner loop that skips the characters of a level.        *)
(*                                                                         *)
(* Pointers are positions: curf and curn count from 1, Len + 1 is the      *)
(* terminating 0 of the filter and the end of the name.                    *)
(***************************************************************************)
EXTENDS Integers, Sequences

CONSTANTS
  Char,            \* the characters, "/", "+" and "#" among them
  Filters, Names   \* the topic filters and names that are tried

ASSUME CharAssumption ==
  /\ {"/", "+", "#"} \subseteq Char
  /\ Filters \subseteq Seq(Char)
  /\ Names \subseteq Seq(Char)

VARIABLES
  topicFilter, topicName, curf, curn,
  skipping,   \* in the inner loop; nextpos is curn + 1
  result

vars == <<topicFilter, topicName, curf, curn, skipping, result>>

Init ==
  /\ topicFilter \in Filters
  /\ topicName \in Names
  /\ curf = 1 /\ curn = 1
  /\ skipping = FALSE
  /\ result = "none"

curn_end == Len(topicName) + 1
Looping == result = "none" /\ ~skipping /\ curf <= Len(topicFilter) /\ curn < curn_end

\* (Faulty variants of the operators below, named for the mistake, are what the
\* properties are tried against; the specification does not use them.)
BreaksOnDifferenceOnly == topicFilter[curf] \notin {"+", "#", topicName[curn]}

\* One of the two breaks at the top of the loop is taken.
Breaks ==
  \/ topicName[curn] = "/" /\ topicFilter[curf] # "/"
  \/ topicFilter[curf] \notin {"+", "#", topicName[curn]}

\* curf++; curn++, with curn at position `at'.
StepPast(at) == curf' = curf + 1 /\ curn' = at + 1

\* A filter character that stands for itself.
StepOver ==
  /\ Looping /\ ~Breaks
  /\ topicFilter[curf] \notin {"+", "#"}
  /\ StepPast(curn)
  /\ UNCHANGED <<topicFilter, topicName, skipping, result>>

HashPastTheEnd ==
  /\ Looping /\ ~Breaks
  /\ topicFilter[curf] = "#"
  /\ StepPast(curn_end)
  /\ UNCHANGED <<topicFilter, topicName, skipping, result>>

\* `#' skips to the last character of the name.
StepOverHash ==
  /\ Looping /\ ~Breaks
  /\ topicFilter[curf] = "#"
  /\ StepPast(curn_end - 1)
  /\ UNCHANGED <<topicFilter, topicName, skipping, result>>

\* `+' enters the inner loop...
EnterPlus ==
  /\ Looping /\ ~Breaks
  /\ topicFilter[curf] = "+"
  /\ skipping' = TRUE
  /\ UNCHANGED <<topicFilter, topicName, curf, curn, result>>

PlusIsOneCharacter == FALSE

\* ... whose condition is that nextpos is a character other than the separator.
SkipsOn == curn + 1 < curn_end /\ topicName[curn + 1] # "/"

Skip ==
  /\ skipping /\ SkipsOn
  /\ curn' = curn + 1
  /\ UNCHANGED <<topicFilter, topicName, curf, skipping, result>>

LeavePlus ==
  /\ skipping /\ ~SkipsOn
  /\ StepPast(curn)
  /\ skipping' = FALSE
  /\ UNCHANGED <<topicFilter, topicName, result>>

\* return (curn == curn_end) && (*curf == '\0');
Return ==
  /\ result = "none" /\ ~skipping
  /\ Looping => Breaks
  /\ result' = IF curn = curn_end /\ curf = Len(topicFilter) + 1 THEN "match" ELSE "differ"
  /\ UNCHANGED <<topicFilter, topicName, curf, curn, skipping>>

Next == StepOver \/ StepOverHash \/ EnterPlus \/ Skip \/ LeavePlus \/ Return

Spec == Init /\ [][Next]_vars

\* Type invariant, and more than that: curf stays within the filter and its
\* terminating 0, curn within the name and its end, and in the inner loop in front of
\* the end; so isTopicMatched never reads past the two strings, whatever wildcards they
\* hold and wherever.
InBounds ==
  /\ topicFilter \in Filters /\ topicName \in Names
  /\ skipping \in BOOLEAN
  /\ result \in {"none", "match", "differ"}
  /\ curf \in 1..Len(topicFilter) + 1
  /\ curn \in 1..curn_end
  /\ skipping => curf <= Len(topicFilter) /\ curn < curn_end
=============================================================================
