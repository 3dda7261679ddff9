--------------------------- MODULE SessionProofs ---------------------------
(***************************************************************************)
(* What one flashqwen process leaves behind, for every interleaving of its *)
(* goroutines, the engine process, signals and errors.                     *)
(***************************************************************************)
EXTENDS Session, TLAPS

-----------------------------------------------------------------------------
(* The inductive invariant *)

(* Where open() has not spawned the engine yet, with the file (Extracted)  *)
(* or without, and the errors that it can return from there.               *)
Extracted == {"write", "port", "spawn"}
Spawned == {"dial", "probe", "alive", "deadline", "ready", "serve", "stop", "reap"}
Unspawned == {"create", "write", "port", "spawn"}

SessionTypeOK ==
    /\ main \in Extracted \cup Spawned \cup {"create", "remove", "fatal"}
    /\ handler \in {"none", "waiting", "stop", "reap", "remove"}
    /\ engine \in {"none", "loading", "serving", "dead"}
    /\ file \in BOOLEAN /\ done \in BOOLEAN

(* The child exists from the spawn on, and is reaped after its death. *)
ChildFollowsMain ==
    /\ main \in Unspawned => engine = "none"
    /\ main \in Spawned => engine # "none"
    /\ handler # "none" => main \notin Unspawned /\ engine # "none"
    /\ done => engine = "dead"

(* stop() is past its wait, in either goroutine, only if the child was     *)
(* reaped; the main goroutine ends only then or if there never was one.    *)
StopWaited ==
    /\ main = "remove" \/ handler = "remove" => done
    /\ main = "fatal" => done \/ engine = "none"
    /\ os = "exited" => main = "fatal" \/ handler = "remove"

(* The file is there from its creation until an error path or stop()       *)
(* removes it.                                                             *)
FileFollowsMain ==
    /\ main = "create" => ~file
    /\ main \in Extracted => file
    /\ main = "fatal" /\ file => why = "write"
    /\ os = "exited" /\ file => why = "write"

SessionInv ==
    /\ SessionTypeOK
    /\ ChildFollowsMain
    /\ StopWaited
    /\ FileFollowsMain
    /\ EngineHasItsBinary

-----------------------------------------------------------------------------

(* A process that has done nothing yet satisfies the invariant. *)
LEMMA SessionInit == Init => SessionInv
  BY DEF Init, SessionInv, SessionTypeOK, ChildFollowsMain, StopWaited, FileFollowsMain,
         EngineHasItsBinary, Extracted, Spawned, Unspawned

(* Every goroutine and process keeps the invariant, whoever moves next. *)
LEMMA SessionNext == SessionInv /\ [Next]_vars => SessionInv'
  <1> SUFFICES ASSUME SessionInv, [Next]_vars PROVE SessionInv'
    OBVIOUS
  <1> USE DEF SessionInv, SessionTypeOK, ChildFollowsMain, StopWaited, FileFollowsMain,
              EngineHasItsBinary, Extracted, Spawned, Unspawned, At, Running, Fail
  <1>1. CASE CreateTemp
    <2>1. CASE file' = TRUE /\ main' = "write"
      BY <2>1, <1>1 DEF CreateTemp
    <2>2. CASE main' = "fatal" /\ file' = file
      BY <2>2, <1>1 DEF CreateTemp
    <2> QED BY <2>1, <2>2, <1>1 DEF CreateTemp
  <1>2. CASE WriteBinary
    BY <1>2 DEF WriteBinary
  <1>3. CASE FreePort
    BY <1>3 DEF FreePort
  <1>4. CASE Spawn
    BY <1>4 DEF Spawn
  <1>5. CASE Dial
    BY <1>5 DEF Dial
  <1>6. CASE Probe
    BY <1>6 DEF Probe
  <1>7. CASE AliveCheck
    BY <1>7 DEF AliveCheck
  <1>8. CASE Deadline
    BY <1>8 DEF Deadline
  <1>9. CASE Ready
    BY <1>9 DEF Ready
  <1>10. CASE ServeEnds
    BY <1>10 DEF ServeEnds
  <1>11. CASE MainTerm
    BY <1>11 DEF MainTerm
  <1>12. CASE MainReap
    BY <1>12 DEF MainReap, Waited
  <1>13. CASE MainRemove
    BY <1>13 DEF MainRemove
  <1>14. CASE Exit
    BY <1>14 DEF Exit
  <1>15. CASE SignalStop
    BY <1>15 DEF SignalStop
  <1>16. CASE SignalReap
    BY <1>16 DEF SignalReap, Waited
  <1>17. CASE SignalRemove
    BY <1>17 DEF SignalRemove
  <1>18. CASE Reaper
    BY <1>18 DEF Reaper
  <1>19. CASE EngineLoads
    BY <1>19 DEF EngineLoads
  <1>20. CASE EngineFails \/ EngineKilled
    BY <1>20 DEF EngineFails, EngineKilled, Dies
  <1>21. CASE StrangerBinds \/ TimePasses \/ Signal
    BY <1>21 DEF StrangerBinds, TimePasses, Signal
  <1>22. CASE UNCHANGED vars
    BY <1>22 DEF vars
  <1> QED BY <1>1, <1>2, <1>3, <1>4, <1>5, <1>6, <1>7, <1>8, <1>9, <1>10, <1>11, <1>12, <1>13,
             <1>14, <1>15, <1>16, <1>17, <1>18, <1>19, <1>20, <1>21, <1>22
          DEF Next, Main, Handler

-----------------------------------------------------------------------------

(* A flashqwen process that ends by itself has reaped its engine and       *)
(* removed the extracted binary, unless writing that was what failed,      *)
(* whichever goroutine came first to stop().                               *)
THEOREM LeavesNothingBehind == Spec => []NothingLeftBehind
  <1>1. SessionInv => NothingLeftBehind
    BY DEF SessionInv, StopWaited, ChildFollowsMain, FileFollowsMain, NothingLeftBehind
  <1> QED BY <1>1, SessionInit, SessionNext, PTL DEF Spec

(* No error path and no race of two stop() removes the binary of an engine *)
(* that still runs.                                                        *)
THEOREM BinaryOutlivesEngine == Spec => []EngineHasItsBinary
  <1>1. SessionInv => EngineHasItsBinary
    BY DEF SessionInv
  <1> QED BY <1>1, SessionInit, SessionNext, PTL DEF Spec
=============================================================================
