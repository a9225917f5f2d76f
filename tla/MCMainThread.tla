---------------------------- MODULE MCMainThread ----------------------------
(* MainThread with nine measurements, lines of two letters, and lengths    *)
(* around every limit: hosts and paths of reports have less than 128       *)
(* characters, those of the console may have more.                         *)
EXTENDS MainThread

MCElements == 1 .. MaxMeasurements
MCLetters == {"a", "b"}
MCHosts == {0, 127, 206, 207, 248, 300}
MCPaths == {0, 1, 127, 248}
MCBodies == {0, 9, 1021, 1022, 2000}
MCReplies == {0, 255, 256, 1024, 1025}
MCCounts == {0, 1, 11, 79, 80, 300}
=============================================================================
