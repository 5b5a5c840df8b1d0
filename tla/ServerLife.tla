----------------------------- MODULE ServerLife -----------------------------
(***************************************************************************)
(* The life of a server process (nteedb-server server.go Serve,            *)
(* acceptLoop, handleConn, autoCompactLoop, Close; main.go run): listeners *)
(* that accept, a handler per connection, the compaction loop, and the     *)
(* shutdown that a signal or a failed accept starts.  What a command does  *)
(* on its connection is in Session.                                        *)
(***************************************************************************)
EXTENDS Naturals, FiniteSets

CONSTANTS Conns,         \* connections that clients make
          Listeners,     \* the plain one, the TLS one, or both
          NoConn,
          AcceptFails    \* Accept may fail on a server that is not closed

ASSUME ServerAssumption ==
    AcceptFails \in BOOLEAN /\ NoConn \notin Conns /\ IsFiniteSet(Conns)

Closers == {"main", "serve"}
Running == {"reading", "ready", "busy", "ending"}

VARIABLES handler,     \* where the handler of a connection is
          alive,       \* the connections whose socket is open on our side
          conns,       \* s.conns
          wg,          \* s.wg
          listening,   \* the listeners that are open
          loop,        \* what an accept loop holds: a connection, or its end
          closed,      \* s.closed, with s.stop
          closer,      \* where a call of Close is
          winner,      \* the call whose CompareAndSwap succeeded
          compactor,   \* the compaction loop
          db,          \* the store is open
          swept        \* history: the connections Close has closed

vars == <<handler, alive, conns, wg, listening, loop, closed, closer, winner,
          compactor, db, swept>>

TypeOK ==
    /\ handler \in [Conns -> {"none", "accepted", "listed", "reading", "ready", "busy",
                           "ending", "gone"}]
    /\ alive \subseteq Conns /\ conns \subseteq Conns /\ swept \subseteq Conns
    /\ wg = Cardinality({c \in Conns : handler[c] \in Running})
            + (IF compactor = "gone" THEN 0 ELSE 1)
    /\ listening \subseteq Listeners
    /\ loop \in [Listeners -> Conns \cup {NoConn, "failed", "ended"}]
    /\ closed \in BOOLEAN /\ db \in BOOLEAN
    /\ closer \in [Closers -> {"idle", "stopping", "sweeping", "waiting", "returned"}]
    /\ winner \in Closers \cup {"nobody"}
    /\ compactor \in {"idle", "compacting", "gone"}

(* Serve is running with its loops, the store is open.                     *)
Init ==
    /\ handler = [c \in Conns |-> "none"]
    /\ alive = {} /\ conns = {} /\ swept = {} /\ wg = 1
    /\ listening = Listeners /\ loop = [l \in Listeners |-> NoConn]
    /\ closed = FALSE /\ closer = [x \in Closers |-> "idle"] /\ winner = "nobody"
    /\ compactor = "idle" /\ db = TRUE

At(c, h) == handler' = [handler EXCEPT ![c] = h]

-----------------------------------------------------------------------------
(* acceptLoop: Accept, then the entry in conns, then the goroutine.        *)
Accept(l, c) ==
    /\ l \in listening /\ loop[l] = NoConn /\ handler[c] = "none"
    /\ loop' = [loop EXCEPT ![l] = c] /\ alive' = alive \cup {c} /\ At(c, "accepted")
    /\ UNCHANGED <<conns, wg, listening, closed, closer, winner, compactor, db, swept>>

Register(l) ==
    \E c \in Conns :
        /\ loop[l] = c /\ handler[c] = "accepted"
        /\ conns' = conns \cup {c} /\ At(c, "listed")
        /\ UNCHANGED <<alive, wg, listening, loop, closed, closer, winner, compactor, db, swept>>

Spawn(l) ==
    \E c \in Conns :
        /\ loop[l] = c /\ handler[c] = "listed"
        /\ wg' = wg + 1 /\ At(c, "reading") /\ loop' = [loop EXCEPT ![l] = NoConn]
        /\ UNCHANGED <<alive, conns, listening, closed, closer, winner, compactor, db, swept>>

(* Accept fails: the end of the loop when the server is closed, otherwise  *)
(* an error that Serve answers with Close.                                 *)
AcceptEnds(l) ==
    /\ loop[l] = NoConn
    /\ \/ closed /\ (l \notin listening \/ AcceptFails) /\ loop' = [loop EXCEPT ![l] = "ended"]
       \/ ~closed /\ AcceptFails /\ loop' = [loop EXCEPT ![l] = "failed"]
    /\ UNCHANGED <<handler, alive, conns, wg, listening, closed, closer, winner, compactor, db, swept>>

(* handleConn: a command is read and carried out; the answer is flushed.   *)
(* The reader may hold a further line by then, which needs no socket.  The *)
(* handler ends after quit, a protocol error or a flush that fails.        *)
CommandOn(c) ==
    /\ handler[c] = "ready" \/ (handler[c] = "reading" /\ c \in alive)
    /\ At(c, "busy")
    /\ UNCHANGED <<alive, conns, wg, listening, loop, closed, closer, winner, compactor, db, swept>>

Answered(c) ==
    /\ handler[c] = "busy"
    /\ \/ c \in alive /\ (At(c, "reading") \/ At(c, "ready"))
       \/ At(c, "ending")
    /\ UNCHANGED <<alive, conns, wg, listening, loop, closed, closer, winner, compactor, db, swept>>

(* The read fails: closed by Close, by the client, or timed out.           *)
ReadFails(c) ==
    /\ handler[c] = "reading"
    /\ At(c, "ending") /\ alive' = alive \ {c}
    /\ UNCHANGED <<conns, wg, listening, loop, closed, closer, winner, compactor, db, swept>>

(* Mutant: the goroutine does not report its end.                          *)
HandlerEndsSilent(c) ==
    /\ handler[c] = "ending"
    /\ At(c, "gone") /\ alive' = alive \ {c} /\ conns' = conns \ {c}
    /\ UNCHANGED <<wg, listening, loop, closed, closer, winner, compactor, db, swept>>

HandlerEnds(c) ==
    /\ handler[c] = "ending"
    /\ At(c, "gone") /\ alive' = alive \ {c} /\ conns' = conns \ {c} /\ wg' = wg - 1
    /\ UNCHANGED <<listening, loop, closed, closer, winner, compactor, db, swept>>

(* autoCompactLoop: a tick runs the policy, whatever it decides; the stop  *)
(* channel ends the loop between two ticks.                                *)
MaybeCompact ==
    /\ \/ compactor = "idle" /\ compactor' = "compacting"
       \/ compactor = "compacting" /\ compactor' = "idle"
    /\ UNCHANGED <<handler, alive, conns, wg, listening, loop, closed, closer, winner, db, swept>>

(* Mutant: the loop does not listen to the stop channel.                   *)
CompactorStopsNever ==
    /\ compactor = "idle" /\ closed /\ ~db
    /\ compactor' = "gone" /\ wg' = wg - 1
    /\ UNCHANGED <<handler, alive, conns, listening, loop, closed, closer, winner, db, swept>>

CompactorStops ==
    /\ compactor = "idle" /\ closed
    /\ compactor' = "gone" /\ wg' = wg - 1
    /\ UNCHANGED <<handler, alive, conns, listening, loop, closed, closer, winner, db, swept>>

-----------------------------------------------------------------------------
(* Close, called by run on a signal or when Serve has returned, and by     *)
(* Serve when an accept has failed.  A second call returns at once.        *)
CloseCall(x) ==
    /\ closer[x] = "idle"
    /\ x = "serve" => \E l \in Listeners : loop[l] = "failed"
    /\ closer' = [closer EXCEPT ![x] = IF closed THEN "returned" ELSE "stopping"]
    /\ closed' = TRUE
    /\ winner' = IF closed THEN winner ELSE x
    /\ UNCHANGED <<handler, alive, conns, wg, listening, loop, compactor, db, swept>>

CloseListeners(x) ==
    /\ closer[x] = "stopping"
    /\ listening' = {} /\ closer' = [closer EXCEPT ![x] = "sweeping"]
    /\ UNCHANGED <<handler, alive, conns, wg, loop, closed, winner, compactor, db, swept>>

CloseConns(x) ==
    /\ closer[x] = "sweeping"
    /\ alive' = alive \ conns /\ swept' = conns
    /\ closer' = [closer EXCEPT ![x] = "waiting"]
    /\ UNCHANGED <<handler, conns, wg, listening, loop, closed, winner, compactor, db>>

(* Mutant: Close does not wait for the handlers.                           *)
CloseWaitNot(x) ==
    /\ closer[x] = "waiting"
    /\ closer' = [closer EXCEPT ![x] = "returned"]
    /\ UNCHANGED <<handler, alive, conns, wg, listening, loop, closed, winner, compactor, db, swept>>

CloseWait(x) ==
    /\ closer[x] = "waiting" /\ wg = 0
    /\ closer' = [closer EXCEPT ![x] = "returned"]
    /\ UNCHANGED <<handler, alive, conns, wg, listening, loop, closed, winner, compactor, db, swept>>

(* run returns: the deferred db.Close.                                     *)
DbClose ==
    /\ db /\ closer["main"] = "returned"
    /\ db' = FALSE
    /\ UNCHANGED <<handler, alive, conns, wg, listening, loop, closed, closer, winner, compactor, swept>>

Next ==
    \/ \E l \in Listeners : (\E c \in Conns : Accept(l, c)) \/ Register(l) \/ Spawn(l) \/ AcceptEnds(l)
    \/ \E c \in Conns : CommandOn(c) \/ Answered(c) \/ ReadFails(c) \/ HandlerEnds(c)
    \/ MaybeCompact \/ CompactorStops
    \/ \E x \in Closers : CloseCall(x) \/ CloseListeners(x) \/ CloseConns(x) \/ CloseWait(x)
    \/ DbClose

Spec == Init /\ [][Next]_vars

(* Goroutines go on, commands and compactions return (Gate, CallsReturn),  *)
(* a read on a socket that Close has closed fails, and select takes the    *)
(* stop channel at some point.  A client need not send, hang up or idle.   *)
Fairness ==
    /\ \A l \in Listeners : WF_vars(Register(l)) /\ WF_vars(Spawn(l))
    /\ \A c \in Conns :
        /\ WF_vars(Answered(c)) /\ WF_vars(HandlerEnds(c))
        /\ WF_vars(handler[c] = "ready" /\ CommandOn(c))
        /\ WF_vars(c \notin alive /\ ReadFails(c))
    /\ WF_vars(compactor = "compacting" /\ MaybeCompact) /\ SF_vars(CompactorStops)
    /\ \A x \in Closers :
        WF_vars(CloseListeners(x)) /\ WF_vars(CloseConns(x)) /\ WF_vars(CloseWait(x))
    /\ WF_vars(DbClose)

FairSpec == Spec /\ Fairness

-----------------------------------------------------------------------------
(* What Close keeps of its promise in every interleaving with the accept   *)
(* loops: once the call that does the work has returned, no command runs   *)
(* and none will on a connection it found, also one whose handler starts   *)
(* only then, and the compaction loop is over.                             *)
SweptStayQuiet ==
    \A x \in Closers :
        x = winner /\ closer[x] = "returned" =>
            /\ compactor = "gone"
            /\ \A c \in swept : handler[c] \notin {"ready", "busy"} /\ c \notin alive

(* Server.Close: "closes live connections, and waits for handlers to       *)
(* finish": none is running once the call that does the work has returned. *)
HandlersFinished ==
    \A x \in Closers :
        x = winner /\ closer[x] = "returned" =>
            \A c \in Conns : handler[c] \notin Running

(* Server.Close: "The DB is closed by the caller (main) after Close        *)
(* returns", that is when no handler is in the middle of a command.        *)
DbClosedQuiet == ~db => \A c \in Conns : handler[c] # "busy"

(* A shutdown goes through: the handlers of the connections Close found    *)
(* and the compaction loop end by themselves, and the store is closed      *)
(* unless a connection that Close has missed is still there.               *)
Missed == {c \in Conns \ swept : handler[c] \in Running \cup {"accepted", "listed"}}
ShutdownEnds ==
    /\ \A c \in Conns : c \in swept ~> handler[c] = "gone"
    /\ closed ~> compactor = "gone"
    /\ closer["main"] # "idle" ~> ~db \/ Missed # {}

=============================================================================
