----------------------------- MODULE MCPlatforms -----------------------------
(* The two branches of #if defined(_WIN32), of which the compiler takes one: *)
(* the module as MCSaveService has it, and a second instance of it.          *)
EXTENDS MCSaveService

CONSTANTS WindowsPayloads, WindowsGarbage, WindowsHazards, WindowsTemp

VARIABLES
  compiled,   \* the branch that was compiled
  wDisk, wPlatter, wLock, wPc, wCtr, wWant, wCurr, wCand, wMode, wFound, wResult, wAcked,
  wOriginals

Windows == INSTANCE SaveService WITH
             Platform <- "windows", Payloads <- WindowsPayloads, Garbage <- WindowsGarbage,
             Hazards <- WindowsHazards, MaxTemp <- WindowsTemp,
             disk <- wDisk, platter <- wPlatter, lock <- wLock, pc <- wPc, ctr <- wCtr,
             want <- wWant, curr <- wCurr, cand <- wCand, mode <- wMode, found <- wFound,
             result <- wResult, acked <- wAcked, originals <- wOriginals

wVars == <<wDisk, wPlatter, wLock, wPc, wCtr, wWant, wCurr, wCand, wMode, wFound, wResult, wAcked,
           wOriginals>>

\* Only the branch that was compiled runs; the other one stays as it begins.
InitPlatforms == Init /\ Windows!Init /\ compiled \in {"posix", "windows"}
NextPosix == compiled = "posix" /\ Next /\ UNCHANGED <<compiled, wVars>>
NextWindows == compiled = "windows" /\ Windows!Next /\ UNCHANGED <<compiled, vars>>
SpecPlatforms ==
  InitPlatforms /\ [][NextPosix \/ NextWindows]_<<compiled, vars, wVars>>

\* On Windows, too, a crash between the removal of the old file and the renaming of the new one
\* leaves a readable profile under one of its two names (save_service.cpp:36-42,99-103).
SomeRevisionSurvivesOnWindows == Windows!SomeRevisionSurvives

SymmetryOfPlatforms ==
  Symmetry \cup Permutations(WindowsPayloads) \cup Permutations(WindowsGarbage)
===============================================================================
