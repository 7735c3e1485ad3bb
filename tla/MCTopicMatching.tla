--------------------------- MODULE MCTopicMatching ----------------------------
(* All filters and names up to a length, for TLC. *)
EXTENDS TopicMatching

Sequence == INSTANCE SequencesExt

CONSTANTS FilterLength, NameLength   \* bounds: characters of a filter, of a name

MCFilters == Sequence!SeqOf(Char \ {"b"}, FilterLength) \ {<<>>}
MCNames == Sequence!SeqOf(Char \ {"+", "#"}, NameLength) \ {<<>>}
=============================================================================
