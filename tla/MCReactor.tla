------------------------------ MODULE MCReactor ------------------------------
(* Instantiation of Reactor for TLC: two streams, three requests, two       *)
(* manager channels.                                                        *)
EXTENDS Reactor

\* s1 resolves to one of two versions of workflow w1, s2 to workflow w2:
\* a definition may change between responses, its name does not.
MCWfName == [d \in Defs |-> CASE d = "d1a" -> "w1"
                              [] d = "d1b" -> "w1"
                              [] d = "d2"  -> "w2"
                              [] d = "d3"  -> "w3"]
MCDefs == {"d1a", "d1b", "d2", "d3"}
MCAnswers == [s \in Streams |-> IF s = "s1" THEN {"d1a", "d1b"} ELSE {"d2"}]

\* The executor answers for s1 with definitions of different names.
MCAnswersRenamed == [s \in Streams |-> IF s = "s1" THEN {"d1a", "d3"} ELSE {"d2"}]

\* The executor resolves both streams to the same workflow definition d1a
\* (named w1), which the manager can run once for both.
MCAnswersShared == [s \in Streams |-> {"d1a"}]

MCStreams == {"s1", "s2"}

\* Requesters are interchangeable (safety runs only).
MCSymmetry == Permutations(Requesters)
=============================================================================
