----------------------------- MODULE MCTester -----------------------------
(* What cltester keeps for a test: two chain objects in any order of calls, *)
(* or its files.                                                            *)
EXTENDS TestChain, TLC

CONSTANTS t1, t2

VARIABLE part      \* "chains" or "files"

mcVars == <<part, chainVars, fileVars>>

MCSkip == {0, 1, 3}
Sym == Permutations(Test) \cup Permutations(Path) \cup Permutations(Chunk)

Init ==
  /\ part \in {"chains", "files"}
  /\ ChainInit /\ FilesInit
  /\ part = "chains" => \A path \in Path : disk[path] = None

InChains == part = "chains" /\ ChainNext /\ UNCHANGED <<part, fileVars>>
InFiles  == part = "files" /\ FilesNext /\ UNCHANGED <<part, chainVars>>

Next == InChains \/ InFiles

Spec == Init /\ [][Next]_mcVars
=============================================================================
