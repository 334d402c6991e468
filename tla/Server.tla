------------------------------ MODULE Server -------------------------------
(***************************************************************************)
(* The process: main and the command serve (src/main.go, src/cmd/cmd.go),  *)
(* Server.Run and Server.Stop (src/server/server.go), web.Start            *)
(* (src/web/web_other.go), signals, and the handlers that draw names for   *)
(* their sandboxes.  Sessions are coarse: Session and Network are about    *)
(* what happens in them.  The process may die at any time and is started   *)
(* again; the sandboxes of the dead process stay.                          *)
(***************************************************************************)
EXTENDS Names

VARIABLES
    main,       \* the main goroutine
    sigs,       \* the goroutine that waits for a signal
    chan,       \* the signals buffered in its channel, at most one
    done,       \* TRUE once the context is cancelled
    wg,         \* the wait group of the Server
    listener,   \* the goroutine in ListenAndServe
    session,    \* the handlers and their sandboxes
    asked       \* history: a signal was sent to this process

procVars == <<main, sigs, chan, done, wg, listener, asked>>
serverVars == <<procVars, session, nameVars>>

Running == {"new", "run", "wait", "stop"}
Ended == {"exited", "killed"}

ServerTypeOK ==
    /\ NamesTypeOK
    /\ main \in Running \cup Ended
    /\ sigs \in {"off", "none", "int", "select", "taken"}
    /\ chan \in 0..1
    /\ done \in BOOLEAN
    /\ wg \in 0..1
    /\ listener \in {"off", "starting", "up", "failed"}
    /\ session \in [Handlers -> {"off", "draw", "create", "open", "orphan"}]
    /\ asked \in BOOLEAN

ServerInit ==
    /\ NamesInit
    /\ main = "new"
    /\ sigs = "off"
    /\ chan = 0
    /\ done = FALSE
    /\ wg = 0
    /\ listener = "off"
    /\ session = [h \in Handlers |-> "off"]
    /\ asked = FALSE

----------------------------------------------------------------------------
(* main and serve *)

\* server.New, which has no options that could fail, and go func() { ... }
Serve ==
    /\ main = "new"
    /\ main' = "run"
    /\ sigs' = "none"
    /\ UNCHANGED <<chan, done, wg, listener, asked, session, nameVars>>

\* Run: hc.wg.Add(1), web.New, and w.Start, which starts the hub and the
\* listener and returns
Run ==
    /\ main = "run"
    /\ main' = "wait"
    /\ wg' = wg + 1
    /\ listener' = "starting"
    /\ UNCHANGED <<sigs, chan, done, asked, session, nameVars>>

\* Mutant of RunReturns: Done is not deferred
RunReturnsUndone ==
    /\ main = "wait"
    /\ done
    /\ main' = "stop"
    /\ UNCHANGED <<sigs, chan, done, wg, listener, asked, session, nameVars>>

\* <-ctx.Done(), and the deferred hc.wg.Done()
RunReturns ==
    /\ main = "wait"
    /\ done
    /\ main' = "stop"
    /\ wg' = wg - 1
    /\ UNCHANGED <<sigs, chan, done, listener, asked, session, nameVars>>

\* A process that ends takes its goroutines with it and leaves its sandboxes
Ends(how) ==
    /\ main' = how
    /\ session' = [h \in Handlers |->
                      IF session[h] \in {"open", "orphan"} THEN "orphan" ELSE "off"]
    /\ Unseeded
    /\ UNCHANGED <<sigs, chan, done, wg, listener, asked, name>>

\* Stop: hc.wg.Wait(); then serve, app.Run and main return
Stop ==
    /\ main = "stop"
    /\ wg = 0
    /\ Ends("exited")

----------------------------------------------------------------------------
(* Signals *)

\* signal.Notify(s, os.Interrupt), signal.Notify(s, syscall.SIGTERM)
Notify ==
    /\ main \in Running
    /\ \/ sigs = "none" /\ sigs' = "int"
       \/ sigs = "int" /\ sigs' = "select"
    /\ UNCHANGED <<main, chan, done, wg, listener, asked, session, nameVars>>

\* case <-s: cancel()
TakeSignal ==
    /\ main \in Running
    /\ sigs = "select"
    /\ chan = 1
    /\ chan' = 0
    /\ sigs' = "taken"
    /\ done' = TRUE
    /\ UNCHANGED <<main, wg, listener, asked, session, nameVars>>

Caught(k) == sigs \in {"select", "taken"} \/ (sigs = "int" /\ k = "INT")

\* Mutant of Interrupt: the channel has no buffer, and the runtime drops what
\* the goroutine is not waiting for
InterruptUnbuffered(k) ==
    /\ main \in Running
    /\ IF Caught(k)
       THEN /\ chan' = IF sigs = "select" THEN 1 ELSE chan
            /\ asked' = TRUE
            /\ UNCHANGED <<main, sigs, done, wg, listener, session, nameVars>>
       ELSE Ends("killed")

\* SIGINT or SIGTERM arrives.  The runtime puts it into the channel if there is
\* room and drops it otherwise; a signal not notified for kills the process.
Interrupt(k) ==
    /\ main \in Running
    /\ IF Caught(k)
       THEN /\ chan' = 1
            /\ asked' = TRUE
            /\ UNCHANGED <<main, sigs, done, wg, listener, session, nameVars>>
       ELSE Ends("killed")

----------------------------------------------------------------------------
(* The listener and the handlers *)

\* server.ListenAndServe(), whose error is dropped
Listen ==
    /\ main \in Running
    /\ listener = "starting"
    /\ listener' \in {"up", "failed"}
    /\ UNCHANGED <<main, sigs, chan, done, wg, asked, session, nameVars>>

\* ServeWS calls Create, Create calls nextSuffix
Create(h) ==
    /\ main \in Running
    /\ listener = "up"
    /\ session[h] = "off"
    /\ session' = [session EXCEPT ![h] = "draw"]
    /\ CallNext(h)
    /\ UNCHANGED procVars

DrawName(h) ==
    /\ main \in Running
    /\ session[h] = "draw"
    /\ \/ DrawStep(h) /\ UNCHANGED session
       \/ Unlock(h) /\ session' = [session EXCEPT ![h] = "create"]
    /\ UNCHANGED procVars

\* newSandbox, which fails if there is a link of that name already
NewSandbox(h) ==
    /\ main \in Running
    /\ session[h] = "create"
    /\ \/ /\ \A g \in Handlers : session[g] \in {"open", "orphan"} => name[g] # name[h]
          /\ session' = [session EXCEPT ![h] = "open"]
       \/ session' = [session EXCEPT ![h] = "off"]
    /\ UNCHANGED <<procVars, nameVars>>

\* The session ends and its sandbox is cleaned up
Cleanup(h) ==
    /\ main \in Running
    /\ session[h] = "open"
    /\ session' = [session EXCEPT ![h] = "off"]
    /\ UNCHANGED <<procVars, nameVars>>

\* The process may die at any time: by log.Fatalf in a handler or in the
\* goroutine that accepts on a console, which outlives its session; by a panic of
\* a goroutine that still sends for a session that has ended; or by SIGKILL
Fatal ==
    /\ main \in Running
    /\ Ends("killed")

\* The server is started again
Restart ==
    /\ main \in Ended
    /\ main' = "new"
    /\ sigs' = "off"
    /\ chan' = 0
    /\ done' = FALSE
    /\ wg' = 0
    /\ listener' = "off"
    /\ asked' = FALSE
    /\ UNCHANGED <<session, nameVars>>

----------------------------------------------------------------------------

MainStep == Serve \/ Run \/ RunReturns \/ Stop
SignalStep == Notify \/ TakeSignal

ServerNext ==
    \/ MainStep \/ SignalStep \/ Listen \/ Fatal \/ Restart
    \/ \E k \in {"INT", "TERM"} : Interrupt(k)
    \/ \E h \in Handlers : Create(h) \/ DrawName(h) \/ NewSandbox(h) \/ Cleanup(h)

ServerSpec == ServerInit /\ [][ServerNext]_serverVars

\* The scheduler runs the main goroutine, the one that waits for signals, and a
\* handler that can go on in nextSuffix; strongly so at the mutex, because
\* sync.Mutex hands itself over to a waiter that starves.
ServerFairSpec ==
    /\ ServerSpec
    /\ WF_serverVars(MainStep)
    /\ WF_serverVars(SignalStep)
    /\ \A h \in Handlers : SF_serverVars(DrawName(h))

----------------------------------------------------------------------------
(* Properties *)

\* A signal the process has asked for ends it, whatever the sessions do, even if
\* it arrives before the goroutine waits for it, and although Stop waits for a
\* wait group.
SignalEnds == asked ~> main \in Ended

\* A handler that has called nextSuffix gets a name, unless the process ends.
NameGiven ==
    \A h \in Handlers : session[h] = "draw" ~> session[h] # "draw"

\* serve returns only when it was told to, and Stop never finds Run at work: the
\* process goes on although nothing listens.
StopReady ==
    /\ main = "wait" => wg = 1
    /\ main = "stop" => wg = 0 /\ done
    /\ done => asked

\* A signal the process has asked for is never lost: it is in the channel, before a
\* goroutine that is about to wait for it, until the context is cancelled.
SignalKept == asked => done \/ (chan = 1 /\ sigs \in {"int", "select"})

\* The inductive invariant behind these
ServerInv ==
    /\ ServerTypeOK
    /\ DrawAtomic
    /\ StopReady
    /\ main \in {"new", "run"} => wg = 0
    /\ main = "new" => sigs = "off"
    /\ chan = 1 => asked
    /\ done <=> sigs = "taken"
    /\ SignalKept
    /\ \A h \in Handlers : session[h] # "draw" => draw[h] = "idle"
    /\ randmu # "free" => draw[randmu] \in {"load", "store", "unlock"}
=============================================================================
