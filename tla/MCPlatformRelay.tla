--------------------------- MODULE MCPlatformRelay ---------------------------
(* TLC instances of PlatformRelay: where workers fail.                      *)
EXTENDS PlatformRelay

OneRun == Platforms \ {"youtube"}

RaisesInTheRelay ==
    (OneRun \X Kinds \X {"extracting", "claimed", "starting", "metering", "storing"})
        \cup {<<"youtube", "ingest", "arming">>}
KilledInTheRelay ==
    (OneRun \X Kinds \X {"claimed"}) \cup ((OneRun \ {"podcast"}) \X Kinds \X {"publishing"})
        \cup {<<"youtube", "ingest", "marking">>}

\* Around the send of a transcription.
RaisesAfterTheGate == Platforms \X Kinds \X {"dispatching"}
KilledNowhere == {}
=============================================================================
