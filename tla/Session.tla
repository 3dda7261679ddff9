------------------------------ MODULE Session ------------------------------
(***************************************************************************)
(* The life of one flashqwen process and of the engine it embeds: open()   *)
(* extracts the engine, finds a port, spawns it, dials and polls until it  *)
(* answers; the server then runs until it fails or a signal comes, and     *)
(* stop() tears the engine down.  Four parties: the main goroutine, the    *)
(* goroutine that serves signals, the goroutine that reaps the child, and  *)
(* the engine process, which loads its model before it binds its port.     *)
(***************************************************************************)
VARIABLES
    cmd,        \* "serve": runServe, which asks for signals; "chat": runChat
    main,       \* the main goroutine: where it is in open(), Run and stop()
    why,        \* why open() failed, once it has
    handler,    \* the signal goroutine: "none", "waiting", "stop", "reap", "remove"
    os,         \* the Go process: "running", or how it ended
    file,       \* the extracted binary exists
    conn,       \* the gRPC connection: "none", "open", "closed"
    engine,     \* the child: "none", "loading", "serving", "dead"
    term,       \* SIGTERM was sent to the child
    done,       \* Engine.done is closed: the child was reaped
    port,       \* "free", "engine" or "stranger": who listens on Addr
    late        \* WaitReady's deadline has passed

vars == <<cmd, main, why, handler, os, file, conn, engine, term, done, port, late>>

Init ==
    /\ cmd \in {"serve", "chat"}
    /\ main = "create" /\ why = "none" /\ handler = "none" /\ os = "running"
    /\ file = FALSE /\ conn = "none"
    /\ engine = "none" /\ term = FALSE /\ done = FALSE
    /\ port = "free" /\ late = FALSE

Running == os = "running"
At(l) == Running /\ main = l

(* open() returns err. *)
Fail(cause) == main' = "fatal" /\ why' = cause

-----------------------------------------------------------------------------
(* supervisor.Start *)

CreateTemp ==
    /\ At("create")
    /\ \/ file' = TRUE /\ main' = "write" /\ UNCHANGED why
       \/ Fail("create") /\ UNCHANGED file
    /\ UNCHANGED <<cmd, handler, os, conn, engine, term, done, port, late>>

(* Write and Chmod: their error returns leave the file where it is. *)
WriteBinary ==
    /\ At("write")
    /\ \/ main' = "port" /\ UNCHANGED why
       \/ Fail("write")
    /\ UNCHANGED <<cmd, handler, os, file, conn, engine, term, done, port, late>>

FreePort ==
    /\ At("port")
    /\ \/ main' = "spawn" /\ UNCHANGED <<why, file>>
       \/ Fail("port") /\ file' = FALSE
    /\ UNCHANGED <<cmd, handler, os, conn, engine, term, done, port, late>>

(* Faulty variant: the extracted file is not removed when the spawn fails. *)
SpawnLeavesFile ==
    /\ At("spawn")
    /\ \/ main' = "dial" /\ engine' = "loading" /\ UNCHANGED why
       \/ Fail("spawn") /\ UNCHANGED engine
    /\ UNCHANGED <<cmd, handler, os, file, conn, term, done, port, late>>

(* cmd.Start, and the goroutine that will reap the child. *)
Spawn ==
    /\ At("spawn")
    /\ \/ main' = "dial" /\ engine' = "loading" /\ UNCHANGED <<why, file>>
       \/ Fail("spawn") /\ file' = FALSE /\ UNCHANGED engine
    /\ UNCHANGED <<cmd, handler, os, conn, term, done, port, late>>

-----------------------------------------------------------------------------
(* open(), from Dial on *)

Dial ==
    /\ At("dial")
    /\ \/ main' = "probe" /\ conn' = "open" /\ UNCHANGED why
       \/ main' = "stop" /\ why' = "dial" /\ UNCHANGED conn
    /\ UNCHANGED <<cmd, handler, os, file, engine, term, done, port, late>>

(* WaitReady: GetModel answers only if the engine serves; it may also fail *)
(* or time out although it does.                                           *)
Probe ==
    /\ At("probe")
    /\ \/ port = "engine" /\ main' = "ready"
       \/ main' = "alive"
    /\ UNCHANGED <<cmd, why, handler, os, file, conn, engine, term, done, port, late>>

(* Faulty variant: the exit of the engine is not looked at. *)
AliveUnchecked ==
    /\ At("alive")
    /\ main' = "deadline"
    /\ UNCHANGED <<cmd, why, handler, os, file, conn, engine, term, done, port, late>>

(* aliveCheck is sup.Exited; an error closes the connection and stops. *)
AliveCheck ==
    /\ At("alive")
    /\ IF done
         THEN main' = "stop" /\ why' = "exited" /\ conn' = "closed"
         ELSE main' = "deadline" /\ UNCHANGED <<why, conn>>
    /\ UNCHANGED <<cmd, handler, os, file, engine, term, done, port, late>>

(* Faulty variant: the deadline is never looked at. *)
NoDeadline ==
    /\ At("deadline")
    /\ main' = "probe"
    /\ UNCHANGED <<cmd, why, handler, os, file, conn, engine, term, done, port, late>>

Deadline ==
    /\ At("deadline")
    /\ IF late
         THEN main' = "stop" /\ why' = "timeout" /\ conn' = "closed"
         ELSE main' = "probe" /\ UNCHANGED <<why, conn>>
    /\ UNCHANGED <<cmd, handler, os, file, engine, term, done, port, late>>

(* runServe registers for signals after open(); runChat never does. *)
Ready ==
    /\ At("ready")
    /\ main' = "serve"
    /\ handler' = IF cmd = "serve" THEN "waiting" ELSE "none"
    /\ UNCHANGED <<cmd, why, os, file, conn, engine, term, done, port, late>>

-----------------------------------------------------------------------------
(* Serving and tearing down *)

(* The HTTP server fails, or the chat ends: stop(), whose first half is    *)
(* conn.Close().                                                           *)
ServeEnds ==
    /\ At("serve")
    /\ main' = "stop" /\ conn' = "closed"
    /\ UNCHANGED <<cmd, why, handler, os, file, engine, term, done, port, late>>

(* Faulty variant: the binary is removed without waiting for the child. *)
Unwaited == TRUE

(* Engine.Stop waits for the reaper goroutine: <-e.done. *)
Waited == done

(* Faulty variant: the engine is not told to terminate. *)
MainTermNot ==
    /\ At("stop")
    /\ main' = "reap"
    /\ UNCHANGED <<cmd, why, handler, os, file, conn, engine, term, done, port, late>>

(* Engine.Stop of the main goroutine: SIGTERM, <-e.done, Remove; then the  *)
(* process ends (log.Fatal, or the return of main).                        *)
MainTerm ==
    /\ At("stop")
    /\ term' = TRUE
    /\ main' = "reap"
    /\ UNCHANGED <<cmd, why, handler, os, file, conn, engine, done, port, late>>

MainReap ==
    /\ At("reap") /\ Waited
    /\ main' = "remove"
    /\ UNCHANGED <<cmd, why, handler, os, file, conn, engine, term, done, port, late>>

MainRemove ==
    /\ At("remove")
    /\ file' = FALSE
    /\ main' = "fatal"
    /\ UNCHANGED <<cmd, why, handler, os, conn, engine, term, done, port, late>>

Exit ==
    /\ At("fatal")
    /\ os' = "exited"
    /\ UNCHANGED <<cmd, main, why, handler, file, conn, engine, term, done, port, late>>

(* The same calls from the signal goroutine, which then calls os.Exit(0). *)
SignalStop ==
    /\ Running /\ handler = "stop"
    /\ conn' = "closed" /\ term' = TRUE
    /\ handler' = "reap"
    /\ UNCHANGED <<cmd, main, why, os, file, engine, done, port, late>>

SignalReap ==
    /\ Running /\ handler = "reap" /\ Waited
    /\ handler' = "remove"
    /\ UNCHANGED <<cmd, main, why, os, file, conn, engine, term, done, port, late>>

SignalRemove ==
    /\ Running /\ handler = "remove"
    /\ file' = FALSE
    /\ os' = "exited"
    /\ UNCHANGED <<cmd, main, why, handler, conn, engine, term, done, port, late>>

(* The reaper goroutine: cmd.Wait returned. *)
Reaper ==
    /\ Running /\ engine = "dead" /\ ~done
    /\ done' = TRUE
    /\ UNCHANGED <<cmd, main, why, handler, os, file, conn, engine, term, port, late>>

-----------------------------------------------------------------------------
(* The engine process, the machine and the user *)

(* RunEngine: a load that throws, or an address that cannot be bound, ends *)
(* the process; otherwise it serves.                                       *)
EngineLoads ==
    /\ engine = "loading"
    /\ IF port = "free" THEN engine' = "serving" /\ port' = "engine"
                        ELSE engine' = "dead" /\ UNCHANGED port
    /\ UNCHANGED <<cmd, main, why, handler, os, file, conn, term, done, late>>

(* It throws, crashes, or dies of SIGTERM (which it does not handle). *)
Dies ==
    /\ engine' = "dead"
    /\ port' = IF port = "engine" THEN "free" ELSE port
    /\ UNCHANGED <<cmd, main, why, handler, os, file, conn, term, done, late>>

EngineFails == engine \in {"loading", "serving"} /\ ~term /\ Dies
EngineKilled == engine \in {"loading", "serving"} /\ term /\ Dies

(* freePort has closed its listener: anybody may take the port. *)
StrangerBinds ==
    /\ port = "free" /\ main # "create"
    /\ port' = "stranger"
    /\ UNCHANGED <<cmd, main, why, handler, os, file, conn, engine, term, done, late>>

TimePasses ==
    /\ ~late /\ main \in {"probe", "alive", "deadline"}
    /\ late' = TRUE
    /\ UNCHANGED <<cmd, main, why, handler, os, file, conn, engine, term, done, port>>

(* SIGTERM for the Go process: caught by the signal goroutine, fatal when  *)
(* nobody has asked for it.                                                *)
Signal ==
    /\ Running
    /\ \/ handler = "waiting" /\ handler' = "stop" /\ UNCHANGED os
       \/ handler = "none" /\ os' = "killed" /\ UNCHANGED handler
    /\ UNCHANGED <<cmd, main, why, file, conn, engine, term, done, port, late>>

-----------------------------------------------------------------------------

Main ==
    \/ CreateTemp \/ WriteBinary \/ FreePort \/ Spawn
    \/ Dial \/ Probe \/ AliveCheck \/ Deadline \/ Ready
    \/ MainTerm \/ MainReap \/ MainRemove \/ Exit
Handler == SignalStop \/ SignalReap \/ SignalRemove

Next ==
    \/ Main \/ ServeEnds \/ Handler \/ Reaper
    \/ EngineLoads \/ EngineFails \/ EngineKilled
    \/ StrangerBinds \/ TimePasses \/ Signal

(* Goroutines are scheduled, SIGTERM kills, time passes.  Loading may take *)
(* for ever, and nobody has to end the server.                             *)
Spec ==
    /\ Init /\ [][Next]_vars
    /\ WF_vars(Main) /\ WF_vars(Handler) /\ WF_vars(Reaper)
    /\ WF_vars(EngineKilled) /\ WF_vars(TimePasses)

-----------------------------------------------------------------------------
(* Properties *)

(* A process that ends by itself leaves no engine behind, whichever of the *)
(* two goroutines came first to stop(), and no extracted binary either,    *)
(* unless writing it was what failed.                                      *)
NothingLeftBehind ==
    os = "exited" =>
        /\ engine \in {"none", "dead"}
        /\ file => why = "write"

(* The extracted binary outlives the engine that runs it: no error path    *)
(* and neither of two racing calls of stop() removes it earlier.           *)
EngineHasItsBinary == engine \in {"loading", "serving"} => file

(* A dying engine surfaces with its real cause, whatever the deadline: a   *)
(* probe that begins after the engine was reaped ends open() with the exit *)
(* error, not with the timeout.                                            *)
ExitSurfaces == (main = "probe" /\ done) ~> (why = "exited" \/ os = "killed")

(* open() returns however long the engine loads.                           *)
OpenEnds == (main = "dial") ~> (main = "serve" \/ ~Running)

(* stop() ends, in either goroutine, even when both call it and when the   *)
(* engine was dead before.                                                 *)
StopEnds == (main = "stop" \/ handler = "stop") ~> ~Running

(* What the comment in runServe says of signals: the engine is torn down   *)
(* on Ctrl-C and SIGTERM.                                                  *)
SignalTearsDown == cmd = "serve" /\ os = "killed" => engine \in {"none", "dead"}
=============================================================================
