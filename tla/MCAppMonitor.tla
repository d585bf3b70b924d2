---------------------------- MODULE MCAppMonitor ----------------------------
(* app.slice with a slice that holds one application, and a cgroup that    *)
(* the application made below itself.                                      *)
EXTENDS AppMonitor

CONSTANTS slice, browser, worker

MCDirs   == {slice, browser, worker}
MCApps   == {browser, worker}
MCParent == [d \in MCDirs |-> CASE d = slice -> top
                                [] d = browser -> slice
                                [] d = worker -> browser]

TwoDirs   == {slice, browser}
TwoApps   == {browser}
TwoParent == [d \in TwoDirs |-> IF d = slice THEN top ELSE slice]
=============================================================================
