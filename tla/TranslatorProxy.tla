--------------------------- MODULE TranslatorProxy ---------------------------
(***************************************************************************)
(* The /translate sessions of a process: TranslatorProxy keeps one          *)
(* TranslatorConnection for each source and language that its bridge asks   *)
(* for; what the connections append to the translation service is billed    *)
(* through the process's usage reporter.  In the Node server SIGTERM closes *)
(* the sessions and drains the reporter; in the Worker each session drains  *)
(* it when its bridge goes.  The /transcribe sockets of the Node server are *)
(* here because its shutdown waits for them too.                            *)
(*                                                                          *)
(* A connection is its proxy, the request it was opened for and an instance *)
(* number.  Audio is counted in numbered units: a unit is appended by one   *)
(* connection and belongs to a report (onUsageReport) from then on.  Decoder *)
(* and socket of a connection are TranslatorConnection's matter: here they   *)
(* decide which connections append a unit.  Every bridge has a token of its *)
(* own, and usage is configured.                                            *)
(***************************************************************************)
EXTENDS Integers, FiniteSets

CONSTANTS Proxies, Sources, Languages,
          Transcribers,    \* clients that may hold a /transcribe socket
          DevLanguages,    \* bound: those of the dev path
          Spellings,       \* of a language in a request; all but the first are normalised
          FlushMaxEvents,  \* FLUSH_MAX_EVENTS
          MaxUnits         \* bound: units of audio

ASSUME ProxyAssumption ==
    /\ FlushMaxEvents \in Nat \ {0} /\ MaxUnits \in Nat
    /\ DevLanguages \subseteq Languages /\ Spellings # {}
    /\ \A S \in {Proxies, Sources, Languages, Spellings} : IsFiniteSet(S)

VARIABLES
    host,          \* "node" or "worker"
    phase,         \* of the process: "up", "draining" since SIGTERM, "closing", "exited"
    bridge,        \* state of each bridge's WebSocket
    transcribers,  \* who holds a /transcribe socket: SessionManager's affair until the exit
    connections,   \* what the maps of the proxies hold
    live,          \* connections that are not closed
    devLanguages,
    unreported,    \* units appended since the last report of a connection
    reporter,      \* [buffer: events, posts: requests under way, timer: is one pending]
    billed, lost,  \* history: <<token, unit>> of posts that arrived, and of those that did not
    units,         \* history: the number of the last unit
    late,          \* history: units appended after SIGTERM
    joined,        \* history: bridges connected after SIGTERM
    underway,      \* history: units of the posts under way when SIGTERM came
    fits           \* history: had the batch room for the last delta of every connection then?

audio == <<unreported, units, late>>
outcome == <<billed, lost>>
aside == <<transcribers, joined, underway, fits>>
vars == <<host, phase, bridge, connections, live, devLanguages, audio, reporter, outcome, aside>>

Requests == Sources \X Languages \X Spellings
Connection == Proxies \X Requests \X (0..1)
Key(c) == <<c[1], c[2][1], c[2][2]>>  \* connections.get(source).get(language)
Own(p) == {c \in connections : c[1] = p}

\* A bridge's messages are heard until its close event.
Heard(p) == phase # "exited" /\ bridge[p] \in {"open", "closing"}
-----------------------------------------------------------------------------
(* The reporter. *)
\* mutant: the batch is also kept
FlushAndKeep(rep, atExit) ==
    [rep EXCEPT !.timer = FALSE,
                !.posts = @ \cup {[token |-> e.token, units |-> e.units, atExit |-> atExit] : e \in rep.buffer}]

Flush(rep, atExit) ==
    [buffer |-> {}, timer |-> FALSE,
     posts |-> rep.posts \cup
        {[token |-> t, units |-> UNION {e.units : e \in {e \in rep.buffer : e.token = t}}, atExit |-> atExit]
            : t \in {e.token : e \in rep.buffer}}]

\* reportTranslationUsage: one more event, and a flush if the buffer is full
Push(event, rep) ==
    LET buffer == rep.buffer \cup {event}
    IN  IF event.units = {} THEN rep
        ELSE IF Cardinality(buffer) >= FlushMaxEvents THEN Flush([rep EXCEPT !.buffer = buffer], FALSE)
        ELSE [rep EXCEPT !.buffer = buffer, !.timer = TRUE]

ReportUsageDelta(c, rep) == Push([token |-> c[1], units |-> unreported[c]], rep)

Reporting(cs) == {c \in cs : unreported[c] # {}}
Reported(cs) == unreported' = [c \in Connection |-> IF c \in cs THEN {} ELSE unreported[c]]
-----------------------------------------------------------------------------
(* The proxies' maps. *)
\* The reporter after rep and the last delta of each of cs, one after another.
ReportAll(cs, rep) ==
    LET after[s \in SUBSET cs] ==
            IF s = {} THEN rep
            ELSE LET c == CHOOSE x \in s : TRUE IN ReportUsageDelta(c, after[s \ {c}])
    IN  after[cs]

\* doClose of each of cs: its last delta is reported, then it is gone.
CloseAll(cs) == ReportAll(cs, reporter)

\* mutants: SIGTERM drains before it closes; a failed connection stays in the map; SIGTERM
\* leaves the bridges open
DrainFirst == ReportAll(connections, Flush(reporter, TRUE))
NotRemoved(c) == connections
LeftOpen(s) == s

Drain == Flush(CloseAll(connections), TRUE)

\* What handleSources closes: what is no longer requested.
NotRequested(wanted, p) == {c \in Own(p) : \A r \in wanted : <<r[1], r[2]>> # <<c[2][1], c[2][2]>>}

\* ensureConnection for each of the requests that has none in the set kept, with the
\* first free instance.  Of two spellings of one language the last stands.
Missing(p, wanted, kept) ==
    {c \in {p} \X wanted \X (0..1) :
        /\ Key(c) \notin {Key(d) : d \in kept}
        /\ c \notin live \cup connections
        /\ c[3] = 1 => [c EXCEPT ![3] = 0] \in live \cup connections}

Opened(p, wanted, kept) ==
    LET missing == Missing(p, wanted, kept)
    IN  {new \in SUBSET missing :
            \A k \in {Key(c) : c \in missing} : \E c \in new : {d \in new : Key(d) = k} = {c}}

\* onClosed deletes whatever the map holds under the connection's key.
OnClosed(c) == {d \in connections : Key(d) # Key(c)}

AfterClose(s) == IF s = "open" THEN "closing" ELSE s
-----------------------------------------------------------------------------
Init ==
    /\ host \in {"node", "worker"} /\ phase = "up"
    /\ bridge = [p \in Proxies |-> "none"]
    /\ connections = {} /\ live = {} /\ devLanguages = [p \in Proxies |-> {}]
    /\ unreported = [c \in Connection |-> {}]
    /\ reporter = [buffer |-> {}, posts |-> {}, timer |-> FALSE]
    /\ billed = {} /\ lost = {} /\ units = 0 /\ late = {}
    /\ transcribers = {} /\ joined = {} /\ underway = {} /\ fits = TRUE

(* handleTranslatorConnection or handleTranslate: a bridge connects, maybe with ?lang=.
   The server listens until SIGTERM's handler is through. *)
Connect(p) ==
    /\ phase \in {"up", "draining"} /\ bridge[p] = "none"
    /\ bridge' = [bridge EXCEPT ![p] = "open"]
    /\ \E ls \in SUBSET DevLanguages : devLanguages' = [devLanguages EXCEPT ![p] = ls]
    /\ joined' = IF phase = "draining" THEN joined \cup {p} ELSE joined
    /\ UNCHANGED <<host, phase, connections, live, audio, reporter, outcome, transcribers, underway, fits>>

(* handleSources: closes what is no longer requested, opens what is missing. *)
HandleSources(p) ==
    /\ Heard(p)
    /\ \E wanted \in SUBSET Requests :
        LET gone == NotRequested(wanted, p)
            kept == connections \ gone
        IN  /\ reporter' = CloseAll(gone) /\ Reported(gone)
            /\ \E new \in Opened(p, wanted, kept) :
                live' = (live \ gone) \cup new /\ connections' = kept \cup new
    /\ UNCHANGED <<host, phase, bridge, devLanguages, units, late, outcome, aside>>

HandleStartTranslation(p, l) ==
    /\ Heard(p)
    /\ devLanguages' = [devLanguages EXCEPT ![p] = @ \cup {l}]
    /\ UNCHANGED <<host, phase, bridge, connections, live, audio, reporter, outcome, aside>>

HandleStopTranslation(p, l) ==
    LET gone == {c \in Own(p) : c[2][2] = l} IN
    /\ Heard(p)
    /\ devLanguages' = [devLanguages EXCEPT ![p] = @ \ {l}]
    /\ reporter' = CloseAll(gone) /\ Reported(gone)
    /\ live' = live \ gone /\ connections' = connections \ gone
    /\ UNCHANGED <<host, phase, bridge, units, late, outcome, aside>>

(* A connection appends a unit: of the frame at hand, or of what waited for its socket. *)
Appends(c) ==
    /\ units' = units + 1
    /\ unreported' = [unreported EXCEPT ![c] = @ \cup {units'}]
    /\ late' = IF phase = "up" THEN late ELSE late \cup {units'}

(* handleMediaEvent: the dev languages are opened for the source, then the frame goes to
   each of its connections.  One of them may append it; more appends are Flushes steps. *)
HandleMediaEvent(p, s) ==
    LET dev == {s} \X devLanguages[p] \X {CHOOSE x \in Spellings : TRUE} IN
    /\ Heard(p)
    /\ \E new \in Opened(p, dev, connections) :
        live' = live \cup new /\ connections' = connections \cup new
    /\ \/ \E c \in connections' : c[1] = p /\ c[2][1] = s /\ c \in live' /\ units < MaxUnits /\ Appends(c)
       \/ UNCHANGED audio
    /\ UNCHANGED <<host, phase, bridge, devLanguages, reporter, outcome, aside>>

Flushes(c) ==
    /\ c \in live /\ phase # "exited" /\ units < MaxUnits
    /\ Appends(c)
    /\ UNCHANGED <<host, phase, bridge, connections, live, devLanguages, reporter, outcome, aside>>

(* The usage report timer of a connection. *)
ReportTimer(c) ==
    /\ c \in live /\ phase # "exited" /\ unreported[c] # {}
    /\ reporter' = ReportUsageDelta(c, reporter) /\ Reported({c})
    /\ UNCHANGED <<host, phase, bridge, connections, live, devLanguages, units, late, outcome, aside>>

(* A connection closes itself: its codec or its socket failed.  Then onClosed. *)
Fails(c) ==
    /\ c \in live /\ phase # "exited"
    /\ reporter' = ReportUsageDelta(c, reporter) /\ Reported({c})
    /\ live' = live \ {c} /\ connections' = OnClosed(c)
    /\ UNCHANGED <<host, phase, bridge, devLanguages, units, late, outcome, aside>>

(* The close event of the bridge.  In the Worker `closed' drains the reporter. *)
BridgeCloses(p) ==
    LET rep == CloseAll(Own(p)) IN
    /\ Heard(p)
    /\ bridge' = [bridge EXCEPT ![p] = "closed"]
    /\ reporter' = IF host = "worker" THEN Flush(rep, FALSE) ELSE rep
    /\ Reported(Own(p))
    /\ live' = live \ Own(p) /\ connections' = connections \ Own(p)
    /\ UNCHANGED <<host, phase, devLanguages, units, late, outcome, aside>>

(* The reporter's timer. *)
FlushTimer ==
    /\ reporter.timer /\ phase # "exited"
    /\ reporter' = Flush(reporter, FALSE)
    /\ UNCHANGED <<host, phase, bridge, connections, live, devLanguages, audio, outcome, aside>>

(* postBatch ends: the endpoint counted it, or it did not (an error, the timeout).  It is
   not repeated: an aborted request may have been counted. *)
PostEnds(post) ==
    /\ post \in reporter.posts /\ phase # "exited"
    /\ reporter' = [reporter EXCEPT !.posts = @ \ {post}]
    /\ \/ billed' = billed \cup ({post.token} \X post.units) /\ UNCHANGED lost
       \/ lost' = lost \cup ({post.token} \X post.units) /\ UNCHANGED billed
    /\ UNCHANGED <<host, phase, bridge, connections, live, devLanguages, audio, aside>>

(* A /transcribe client connects, or its socket closes: by no doing of SIGTERM's, which
   leaves the active ones to it. *)
TranscriberConnects(t) ==
    /\ host = "node" /\ phase \in {"up", "draining"} /\ t \notin transcribers
    /\ transcribers' = transcribers \cup {t}
    /\ UNCHANGED <<host, phase, bridge, connections, live, devLanguages, audio, reporter, outcome,
                   joined, underway, fits>>

TranscriberCloses(t) ==
    /\ t \in transcribers /\ phase # "exited"
    /\ transcribers' = transcribers \ {t}
    /\ UNCHANGED <<host, phase, bridge, connections, live, devLanguages, audio, reporter, outcome,
                   joined, underway, fits>>

(* The SIGTERM handler up to its await: every session is closed, then the reporter drained.
   A batch that the closing fills is posted by Push, and that post is not awaited. *)
Sigterm ==
    /\ host = "node" /\ phase = "up" /\ phase' = "draining"
    /\ bridge' = [p \in Proxies |-> AfterClose(bridge[p])]
    /\ reporter' = Drain /\ Reported(connections)
    /\ live' = live \ connections /\ connections' = {}
    /\ underway' = UNION {post.units : post \in reporter.posts}
    /\ fits' = (Cardinality(reporter.buffer) + Cardinality(Reporting(connections)) < FlushMaxEvents)
    /\ UNCHANGED <<host, devLanguages, units, late, outcome, transcribers, joined>>

(* The drain's posts have ended: server.close() stops listening. *)
ServerCloses ==
    /\ phase = "draining" /\ \A post \in reporter.posts : ~post.atExit
    /\ phase' = "closing"
    /\ UNCHANGED <<host, bridge, connections, live, devLanguages, audio, reporter, outcome, aside>>

(* server.close()'s callback: no socket is left, of either kind. *)
Exit ==
    /\ phase = "closing" /\ transcribers = {} /\ \A p \in Proxies : bridge[p] \in {"none", "closed"}
    /\ phase' = "exited"
    /\ UNCHANGED <<host, bridge, connections, live, devLanguages, audio, reporter, outcome, aside>>

Next ==
    \/ \E p \in Proxies : Connect(p) \/ HandleSources(p) \/ BridgeCloses(p)
    \/ \E p \in Proxies, l \in DevLanguages : HandleStartTranslation(p, l) \/ HandleStopTranslation(p, l)
    \/ \E p \in Proxies, s \in Sources : HandleMediaEvent(p, s)
    \/ \E c \in Connection : Flushes(c) \/ ReportTimer(c) \/ Fails(c)
    \/ \E post \in reporter.posts : PostEnds(post)
    \/ \E t \in Transcribers : TranscriberConnects(t) \/ TranscriberCloses(t)
    \/ FlushTimer \/ Sigterm \/ ServerCloses \/ Exit

Spec == Init /\ [][Next]_vars

\* Timers fire, posts end (they have a timeout), and a closing handshake completes.  Nothing
\* makes a client of either kind leave.
Fairness ==
    /\ WF_vars(FlushTimer)
    /\ WF_vars(\E post \in reporter.posts : PostEnds(post))
    /\ WF_vars(\E post \in reporter.posts : post.atExit /\ PostEnds(post))
    /\ WF_vars(ServerCloses) /\ WF_vars(Exit)
    /\ \A p \in Proxies : WF_vars(bridge[p] = "closing" /\ BridgeCloses(p))

FairSpec == Spec /\ Fairness
-----------------------------------------------------------------------------
\* Every variable keeps its kind.
TypeOK ==
    /\ host \in {"node", "worker"} /\ phase \in {"up", "draining", "closing", "exited"}
    /\ bridge \in [Proxies -> {"none", "open", "closing", "closed"}]
    /\ connections \subseteq Connection /\ live \subseteq Connection
    /\ devLanguages \in [Proxies -> SUBSET DevLanguages]
    /\ unreported \in [Connection -> SUBSET (1..units)]
    /\ reporter.timer \in BOOLEAN
    /\ billed \subseteq Proxies \X (1..units) /\ lost \subseteq Proxies \X (1..units)
    /\ units \in Nat /\ late \subseteq 1..units /\ joined \subseteq Proxies
    /\ transcribers \subseteq Transcribers /\ underway \subseteq 1..units /\ fits \in BOOLEAN

\* The maps hold exactly the connections that are not closed, one for each source and
\* language of a bridge that is still there: one that fails never takes its successor
\* out, and every paid session is found by the next close.
Registered ==
    /\ connections = live
    /\ \A c, d \in connections : Key(c) = Key(d) => c = d
    /\ \A c \in live : bridge[c[1]] \in {"open", "closing"}

\* Where a unit of a bridge's audio may be: not reported yet, buffered, posted, or through.
Unreported(p, n) == {<<"connection", c>> : c \in {c \in live : c[1] = p /\ n \in unreported[c]}}
Buffered(p, n) == {<<"buffer", e>> : e \in {e \in reporter.buffer : e.token = p /\ n \in e.units}}
Posted(p, n) == {<<"post", b>> : b \in {b \in reporter.posts : b.token = p /\ n \in b.units}}
Done(p, n) == {<<"billed", p>> : x \in billed \cap {<<p, n>>}} \cup {<<"lost", p>> : x \in lost \cap {<<p, n>>}}
Places(p, n) == Unreported(p, n) \cup Buffered(p, n) \cup Posted(p, n) \cup Done(p, n)

\* Every unit is accounted for in one place and under one token, whatever fails and
\* closes while reports are under way: none is billed twice, to another bridge's token,
\* or forgotten by a connection that closes.
Accounted ==
    \A n \in 1..units :
        /\ \E p \in Proxies : Places(p, n) # {}
        /\ \A p, q \in Proxies : \A x \in Places(p, n), y \in Places(q, n) : p = q /\ x = y

\* Once the SIGTERM handler has awaited its drain, everything appended before SIGTERM is
\* through, but for what nobody waits for: the posts under way when SIGTERM came, and, if the
\* last deltas overflow the batch, the posts that their overflow makes.
DrainedAtExit ==
    phase \in {"closing", "exited"}
        => \A n \in (1..units) \ (late \cup underway) :
             \E p \in Proxies : Done(p, n) # {} \/ (~fits /\ Posted(p, n) # {})

\* What the handler's comment promises: the closing leaves the last deltas in the buffer, so
\* that the drain awaits them all.  The code does not keep it: see DrainedAtExit.
DrainComplete ==
    phase \in {"closing", "exited"}
        => \A n \in (1..units) \ (late \cup underway) : \E p \in Proxies : Done(p, n) # {}

\* Who keeps the server from closing and is not told to go: transcription clients, and
\* bridges that connected while the reporter drained.
Stays == transcribers # {} \/ \E p \in joined : bridge[p] = "open"

\* SIGTERM ends the process once all of those have left of their own accord.
ShutdownEnds == <>[](~Stays) => (phase = "draining" ~> phase = "exited")

\* What SessionManager.shutdown's comment promises: the shutdown of the server tears the
\* active transcription connections down.  The code does not keep it: server.close() waits.
TranscribersTornDown == phase = "draining" ~> transcribers = {}

\* A process that exits leaves no report behind.  The code does not keep it: a message
\* that follows SIGTERM may open a connection once more (see README).
NothingBehind == phase = "exited" => reporter.buffer = {}
=============================================================================
