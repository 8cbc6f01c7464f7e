----------------------------- MODULE MCAnalyzer -----------------------------
(* Instances of Analyzer: a root with two subdirectories, one of which has *)
(* a subdirectory of its own and two files, and one of which is empty.     *)
EXTENDS Analyzer, TLC

MCDirs == {"root", "d1", "d2", "d3"}
MCParent == "d1" :> "root" @@ "d2" :> "root" @@ "d3" :> "d1"
MCFiles == {"f0", "f1", "f2", "f3"}
MCDirOf == "f0" :> "root" @@ "f1" :> "d1" @@ "f2" :> "d1" @@ "f3" :> "d3"
=============================================================================
