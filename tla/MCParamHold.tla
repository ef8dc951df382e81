---------------------------- MODULE MCParamHold ----------------------------
(* ParamHold on the files of a scanner run (ScannerScripts). *)
EXTENDS ParamHold, ScannerScripts

EveryRun == {OneRange, FoundAgain, Overlap}
PublicationAfterClose == {OneRange}
OverlappingRanges == {Overlap}
=============================================================================
