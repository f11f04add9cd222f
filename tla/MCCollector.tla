---------------------------- MODULE MCCollector ----------------------------
(***************************************************************************)
(* Instances of Collector for TLC.                                         *)
(***************************************************************************)
EXTENDS Collector

CONSTANTS movies, shows

\* The endpoint that fans out again, and others.
TwoEndpoints == {"sessions", "libraries"}
ThreeEndpoints == {"sessions", "libraries", "counts"}
AllEndpoints == {"sessions", "libraries", "counts", "system"}

OneLibrary == {movies}
TwoLibraries == {movies, shows}

\* A server of which nothing is known, and one that is in one of the three
\* plain conditions at a time.
AnyServer == {"flaky"}
PlainServer == {"up", "unauthorized", "down"}
=============================================================================
