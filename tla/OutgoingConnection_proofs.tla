---------------------- MODULE OutgoingConnection_proofs ----------------------
(***************************************************************************)
(* Proofs about OutgoingConnection, for every provider, set of formats,     *)
(* number of start events, recoveries, backends and frames.                 *)
(***************************************************************************)
EXTENDS OutgoingConnection, TLAPS, FiniteSetTheorems, WellFoundedInduction, SequenceTheorems

(* The inductive invariant.  FreshDecoder alone is not inductive: a decoder   *)
(* becomes ready in a task that was suspended before, so the tasks of the     *)
(* current generation must be known to work for the current formats.          *)

\* Task t was started no later than generation g and, if in g itself, for the
\* input format f and the desired format d.
WorksFor(t, g, f, d) ==
    /\ t \in Tasks
    /\ t.gen <= g
    /\ t.gen = g => t.in = f /\ t.out = d

Generations ==
    /\ profile \in Profiles
    /\ gen \in Nat
    /\ inFmt \in InputFormats
    /\ desired = Desired[inFmt]
    /\ nb \in Backends
    /\ cur \in 0..MaxBackends
    /\ \A t \in tasks : WorksFor(t, gen, inFmt, desired)

DecoderFits ==
    /\ {"in", "out"} \subseteq DOMAIN decoder
    /\ dstat = "ready" => decoder.in = inFmt /\ decoder.out = desired

IInv == Generations /\ DecoderFits
-----------------------------------------------------------------------------
LEMMA DesiredType ==
    ASSUME profile \in Profiles, NEW f \in InputFormats
    PROVE  Desired[f] \in Formats
BY FormatAssumption DEF Desired

\* Decoding moves a decoder on in its stream and leaves its formats alone.
LEMMA AdvanceKeepsFormats ==
    ASSUME NEW d, NEW q, {"in", "out"} \subseteq DOMAIN d
    PROVE  /\ {"in", "out"} \subseteq DOMAIN Advance(d, q)
           /\ Advance(d, q).in = d.in
           /\ Advance(d, q).out = d.out
BY DEF Advance

LEMMA FlushIfReadyKeepsFormats ==
    ASSUME DecoderFits, FlushIfReady, UNCHANGED <<dstat, inFmt, desired>>
    PROVE  DecoderFits'
BY AdvanceKeepsFormats DEF DecoderFits, FlushIfReady, Flush, audio

\* Settling a task changes neither its generation nor its formats.
LEMMA SettleKeepsTasks ==
    ASSUME Generations, NEW t \in tasks, NEW how \in {"resolved", "rejected"}
    PROVE  \A u \in Settle(t, how) : WorksFor(u, gen, inFmt, desired)
<1>1. WorksFor(t, gen, inFmt, desired)  BY DEF Generations
<1>2. WorksFor([t EXCEPT !.at = how], gen, inFmt, desired)
  <2>1. [t EXCEPT !.at = how] \in Tasks  BY <1>1 DEF WorksFor, Tasks
  <2>2. /\ [t EXCEPT !.at = how].gen = t.gen
        /\ [t EXCEPT !.at = how].in = t.in
        /\ [t EXCEPT !.at = how].out = t.out
    BY <1>1 DEF WorksFor, Tasks
  <2> QED  BY <1>1, <2>1, <2>2 DEF WorksFor
<1> QED  BY <1>2 DEF Settle, Generations

\* A new generation leaves every suspended task behind.
LEMMA TasksOvertaken ==
    ASSUME NEW ts, NEW f, NEW d, gen \in Nat,
           \A t \in ts : WorksFor(t, gen, inFmt, desired)
    PROVE  \A t \in ts : WorksFor(t, gen + 1, f, d)
<1> SUFFICES ASSUME NEW t \in ts PROVE WorksFor(t, gen + 1, f, d)  OBVIOUS
<1>1. t \in Tasks /\ t.gen <= gen /\ t.gen \in Nat  BY DEF WorksFor, Tasks
<1> QED  BY <1>1 DEF WorksFor

LEMMA DoClosePreserves ==
    ASSUME Generations, NEW st, NEW g, NEW c, DoClose(st, g, c),
           \A t \in tasks' : WorksFor(t, gen, inFmt, desired), UNCHANGED <<profile, inFmt, desired>>
    PROVE  IInv'
<1>1. /\ gen' = IF isClosed THEN gen ELSE gen + 1
      /\ dstat' = "closed" /\ decoder' = NoDecoder
      /\ cur' = NoBackend /\ nb' = nb
  BY DEF DoClose
<1>2. \A t \in tasks' : WorksFor(t, gen', inFmt, desired)
  BY <1>1, TasksOvertaken DEF Generations
<1>3. cur' \in 0..MaxBackends  BY <1>1, BoundAssumption DEF NoBackend
<1>4. gen' \in Nat  BY <1>1 DEF Generations
<1>5. Generations'  BY <1>1, <1>2, <1>3, <1>4 DEF Generations, Desired
<1>6. DecoderFits'  BY <1>1 DEF DecoderFits, NoDecoder
<1> QED  BY <1>5, <1>6 DEF IInv

\* A call started now, for the formats f and want and backend b.
LEMMA NewTask ==
    ASSUME NEW kind \in {"initReinit", "init", "reinit", "recover"},
           NEW at \in {"decoder", "connecting", "resolved", "rejected"},
           NEW g \in Nat, NEW b \in 0..MaxBackends,
           NEW f \in InputFormats, NEW want \in Formats
    PROVE  WorksFor(Task(kind, at, g, b, f, want), g, f, want)
BY DEF WorksFor, Task, Tasks

LEMMA ReconnectTypes ==
    ASSUME Generations, NEW st, NEW want, ReconnectBackend(st, want)
    PROVE  nb' \in Backends /\ cur' \in 0..MaxBackends /\ nb + 1 \in 0..MaxBackends
BY BoundAssumption DEF ReconnectBackend, Generations, Backends

LEMMA OnErrorPreserves ==
    ASSUME IInv, NEW st, NEW recoverable, NEW ts, OnError(st, recoverable, ts),
           \A t \in ts : WorksFor(t, gen, inFmt, desired), UNCHANGED <<profile, inFmt, desired>>
    PROVE  IInv'
<1>1. CASE DoClose(st, gauge, cur) /\ tasks' = ts
  BY <1>1, DoClosePreserves DEF IInv
<1>2. CASE /\ gen' = gen + 1
           /\ ReconnectBackend(st, desired)
           /\ tasks' = ts \cup {Task("recover", "connecting", gen + 1, nb + 1, inFmt, desired)}
           /\ UNCHANGED <<isClosed, dstat, decoder>>
  <2>1. nb' \in Backends /\ cur' \in 0..MaxBackends /\ nb + 1 \in 0..MaxBackends
    BY <1>2, ReconnectTypes DEF IInv
  <2>2. desired \in Formats /\ gen + 1 \in Nat  BY DesiredType DEF IInv, Generations
  <2>3. WorksFor(Task("recover", "connecting", gen + 1, nb + 1, inFmt, desired),
                 gen + 1, inFmt, desired)
    BY <2>1, <2>2, NewTask DEF IInv, Generations
  <2>4. \A t \in ts : WorksFor(t, gen + 1, inFmt, desired)
    BY TasksOvertaken DEF IInv, Generations
  <2>5. Generations'  BY <1>2, <2>1, <2>2, <2>3, <2>4 DEF IInv, Generations, Desired
  <2>6. DecoderFits'  BY <1>2 DEF IInv, DecoderFits
  <2> QED  BY <2>5, <2>6 DEF IInv
<1> QED  BY <1>1, <1>2 DEF OnError
-----------------------------------------------------------------------------
LEMMA InitIInv == Init => IInv
<1> SUFFICES ASSUME Init PROVE IInv  OBVIOUS
<1>1. inFmt \in InputFormats /\ desired \in Formats /\ desired = Desired[inFmt]
  BY DesiredType DEF Init
<1>2. NoBackend \in 0..MaxBackends /\ 1 \in 0..MaxBackends /\ 1 \in Backends
  BY BoundAssumption DEF NoBackend, Backends
<1>3. WorksFor(Task("initReinit", "decoder", 1, NoBackend, inFmt, desired), 1, inFmt, desired)
  BY <1>1, <1>2, NewTask
<1>4. Generations  BY <1>1, <1>2, <1>3 DEF Init, Generations
<1>5. DecoderFits  BY DEF Init, DecoderFits, NoDecoder
<1> QED  BY <1>4, <1>5 DEF IInv

\* The calls and events that end no generation: enough that the remaining tasks
\* are of the old ones and the formats stay.
LEMMA SameGeneration ==
    ASSUME IInv, UNCHANGED <<profile, gen, inFmt, desired, cur, nb>>,
           \A t \in tasks' : WorksFor(t, gen, inFmt, desired), DecoderFits'
    PROVE  IInv'
BY DEF IInv, Generations, Desired

LEMMA DecoderReadyPreserves ==
    ASSUME IInv, NEW t \in tasks, DecoderReady(t), UNCHANGED profile
    PROVE  IInv'
<1>1. WorksFor(t, gen, inFmt, desired)  BY DEF IInv, Generations
<1>2. UNCHANGED <<profile, gen, inFmt, desired, cur, nb>>  BY DEF DecoderReady
<1>3. \A u \in tasks' : WorksFor(u, gen, inFmt, desired)
  <2>1. WorksFor(Task("init", "connecting", t.gen, cur, t.in, t.out), gen, inFmt, desired)
    <3>1. /\ t.gen \in Nat /\ t.in \in InputFormats /\ t.out \in Formats
          /\ cur \in 0..MaxBackends
      BY <1>1 DEF WorksFor, Tasks, IInv, Generations
    <3>2. WorksFor(Task("init", "connecting", t.gen, cur, t.in, t.out), t.gen, t.in, t.out)
      BY <3>1, NewTask
    <3>3. /\ Task("init", "connecting", t.gen, cur, t.in, t.out).gen = t.gen
          /\ Task("init", "connecting", t.gen, cur, t.in, t.out).in = t.in
          /\ Task("init", "connecting", t.gen, cur, t.in, t.out).out = t.out
      BY DEF Task
    <3> QED  BY <1>1, <3>2, <3>3 DEF WorksFor
  <2>2. \/ tasks' = tasks \ {t}
        \/ tasks' = (tasks \ {t}) \cup {Task("init", "connecting", t.gen, cur, t.in, t.out)}
    BY DEF DecoderReady
  <2> QED  BY <2>1, <2>2 DEF IInv, Generations
<1>4. DecoderFits'
  <2>1. CASE UNCHANGED <<dstat, audio>>
    BY <1>2, <2>1 DEF IInv, DecoderFits, audio
  <2>2. CASE Current(t)
    <3> DEFINE d == [in |-> t.in, out |-> t.out, gen |-> t.gen, last |-> 0]
    <3>1. d.in = inFmt /\ d.out = desired /\ {"in", "out"} \subseteq DOMAIN d
      BY <1>1, <2>2 DEF WorksFor, Current
    <3>2. decoder' = d \/ decoder' = Advance(d, pin)  BY <2>2 DEF DecoderReady, Flush
    <3> HIDE DEF d
    <3>3. {"in", "out"} \subseteq DOMAIN decoder' /\ decoder'.in = inFmt /\ decoder'.out = desired
      BY <3>1, <3>2, AdvanceKeepsFormats
    <3> QED  BY <1>2, <3>3 DEF DecoderFits
  <2> QED  BY <2>1, <2>2 DEF DecoderReady
<1> QED  BY <1>2, <1>3, <1>4, SameGeneration

LEMMA StartEventPreserves ==
    ASSUME IInv, NEW f \in InputFormats, StartEvent(f), UNCHANGED profile
    PROVE  IInv'
<1>1. /\ gen' = gen + 1 /\ inFmt' = f /\ desired' = Desired[f] /\ desired' = Desired'[f]
      /\ dstat' = "pending" /\ decoder' = NoDecoder
  BY DEF StartEvent, Desired
<1>2. Desired[f] \in Formats /\ gen + 1 \in Nat  BY DesiredType DEF IInv, Generations
<1>3. \A t \in tasks : WorksFor(t, gen + 1, f, Desired[f])
  BY TasksOvertaken DEF IInv, Generations
<1>4. DecoderFits'  BY <1>1 DEF DecoderFits, NoDecoder
<1>5. CASE /\ tasks' = tasks \cup {Task("reinit", "decoder", gen + 1, NoBackend, f, Desired[f])}
           /\ UNCHANGED <<nb, cur>>
  <2>1. NoBackend \in 0..MaxBackends  BY BoundAssumption DEF NoBackend
  <2>2. WorksFor(Task("reinit", "decoder", gen + 1, NoBackend, f, Desired[f]),
                 gen + 1, f, Desired[f])
    BY <1>2, <2>1, NewTask
  <2>3. Generations'  BY <1>1, <1>2, <1>3, <1>5, <2>2 DEF IInv, Generations
  <2> QED  BY <1>4, <2>3 DEF IInv
<1>6. CASE /\ ReconnectBackend(bstat, Desired[f])
           /\ tasks' = tasks \cup {Task("reinit", "connecting", gen + 1, nb + 1, f, Desired[f])}
  <2>1. nb' \in Backends /\ cur' \in 0..MaxBackends /\ nb + 1 \in 0..MaxBackends
    BY <1>6, ReconnectTypes DEF IInv
  <2>2. WorksFor(Task("reinit", "connecting", gen + 1, nb + 1, f, Desired[f]),
                 gen + 1, f, Desired[f])
    BY <1>2, <2>1, NewTask
  <2>3. Generations'  BY <1>1, <1>2, <1>3, <1>6, <2>1, <2>2 DEF IInv, Generations
  <2> QED  BY <1>4, <2>3 DEF IInv
<1> QED  BY <1>5, <1>6 DEF StartEvent

LEMMA ReconnectedPreserves ==
    ASSUME IInv, NEW t \in tasks, Reconnected(t), UNCHANGED profile
    PROVE  IInv'
<1>1. WorksFor(t, gen, inFmt, desired)  BY DEF IInv, Generations
<1>2. UNCHANGED <<profile, gen, inFmt, desired, dstat, cur, nb>>  BY DEF Reconnected
<1>3. CASE tasks' = tasks \ {t} /\ (UNCHANGED audio \/ FlushIfReady)
  <2>1. DecoderFits'
    BY <1>2, <1>3, FlushIfReadyKeepsFormats DEF IInv, DecoderFits, audio
  <2>2. \A u \in tasks' : WorksFor(u, gen, inFmt, desired)  BY <1>3 DEF IInv, Generations
  <2> QED  BY <1>2, <2>1, <2>2, SameGeneration
<1>4. CASE /\ Current(t) /\ UNCHANGED audio
           /\ tasks' = (tasks \ {t}) \cup {Task("reinit", "decoder", t.gen, NoBackend, inFmt, t.out)}
  <2>1. t.gen = gen /\ t.out = desired /\ desired \in Formats /\ NoBackend \in 0..MaxBackends
    BY <1>1, <1>4, DesiredType, BoundAssumption DEF Current, WorksFor, IInv, Generations, NoBackend
  <2>2. WorksFor(Task("reinit", "decoder", t.gen, NoBackend, inFmt, t.out), gen, inFmt, desired)
    BY <2>1, NewTask DEF IInv, Generations
  <2>3. \A u \in tasks' : WorksFor(u, gen, inFmt, desired)  BY <1>4, <2>2 DEF IInv, Generations
  <2>4. DecoderFits'  BY <1>2, <1>4 DEF IInv, DecoderFits, audio
  <2> QED  BY <1>2, <2>3, <2>4, SameGeneration
<1> QED  BY <1>3, <1>4 DEF Reconnected
-----------------------------------------------------------------------------
LEMMA NextPreserves == IInv /\ [Next]_vars => IInv'
<1> SUFFICES ASSUME IInv, [Next]_vars PROVE IInv'  OBVIOUS
<1>0. /\ \A t \in tasks : WorksFor(t, gen, inFmt, desired)
      /\ Generations /\ DecoderFits
  BY DEF IInv, Generations
<1>1. ASSUME NEW t \in tasks, DecoderReady(t), UNCHANGED profile PROVE IInv'
  BY <1>1, DecoderReadyPreserves
<1>2. ASSUME NEW t \in tasks, InitConnected(t), UNCHANGED profile PROVE IInv'
  <2>1. /\ tasks' = tasks \ {t} /\ (UNCHANGED audio \/ FlushIfReady)
        /\ UNCHANGED <<profile, gen, inFmt, desired, dstat, cur, nb>>
    BY <1>2 DEF InitConnected
  <2>2. DecoderFits'
    BY <1>0, <2>1, FlushIfReadyKeepsFormats DEF DecoderFits, audio
  <2> QED  BY <1>0, <2>1, <2>2, SameGeneration
<1>3. ASSUME NEW t \in tasks, InitFailed(t), UNCHANGED profile PROVE IInv'
  <2>1. tasks' = tasks \ {t} /\ UNCHANGED <<profile, inFmt, desired>>  BY <1>3 DEF InitFailed
  <2>2. CASE DoClose(bstat, gauge, NoBackend)  BY <1>0, <2>1, <2>2, DoClosePreserves
  <2>3. CASE UNCHANGED <<gen, dstat, decoder, cur, nb>>
    <3>1. DecoderFits'  BY <1>0, <2>1, <2>3 DEF DecoderFits
    <3> QED  BY <1>0, <2>1, <2>3, <3>1, SameGeneration
  <2> QED  BY <1>3, <2>2, <2>3 DEF InitFailed
<1>4. ASSUME NEW t \in tasks, Reconnected(t), UNCHANGED profile PROVE IInv'
  BY <1>4, ReconnectedPreserves
<1>5. ASSUME NEW t \in tasks, ReconnectFailed(t), UNCHANGED profile PROVE IInv'
  <2>1. tasks' = tasks \ {t} /\ UNCHANGED <<profile, inFmt, desired>>  BY <1>5 DEF ReconnectFailed
  <2>2. CASE DoClose(bstat, gauge, NoBackend)  BY <1>0, <2>1, <2>2, DoClosePreserves
  <2>3. CASE UNCHANGED <<gen, dstat, decoder, cur, nb>>
    <3>1. DecoderFits'  BY <1>0, <2>1, <2>3 DEF DecoderFits
    <3> QED  BY <1>0, <2>1, <2>3, <3>1, SameGeneration
  <2> QED  BY <1>5, <2>2, <2>3 DEF ReconnectFailed
<1>6. ASSUME NEW t \in tasks, BackendOpens(t), UNCHANGED profile PROVE IInv'
  <2>1. /\ tasks' = Settle(t, "resolved")
        /\ UNCHANGED <<profile, gen, inFmt, desired, dstat, decoder, cur, nb>>
    BY <1>6 DEF BackendOpens, audio
  <2>2. DecoderFits'  BY <1>0, <2>1 DEF DecoderFits
  <2> QED  BY <1>0, <2>1, <2>2, SettleKeepsTasks, SameGeneration
<1>7. ASSUME NEW t \in tasks, BackendFailsToConnect(t), UNCHANGED profile PROVE IInv'
  <2>1. \A u \in Settle(t, "rejected") : WorksFor(u, gen, inFmt, desired)
    BY <1>0, SettleKeepsTasks
  <2>2. UNCHANGED <<profile, inFmt, desired>>  BY <1>7 DEF BackendFailsToConnect
  <2> QED  BY <1>7, <2>1, <2>2, OnErrorPreserves DEF BackendFailsToConnect
<1>8. ASSUME NEW t \in tasks, ConnectAborted(t), UNCHANGED profile PROVE IInv'
  <2>1. /\ tasks' = Settle(t, "rejected")
        /\ UNCHANGED <<profile, gen, inFmt, desired, dstat, decoder, cur, nb>>
    BY <1>8 DEF ConnectAborted, audio
  <2>2. DecoderFits'  BY <1>0, <2>1 DEF DecoderFits
  <2> QED  BY <1>0, <2>1, <2>2, SettleKeepsTasks, SameGeneration
<1>9. ASSUME NEW t \in tasks, DecoderFails(t), UNCHANGED profile PROVE IInv'
  <2>1. tasks' = tasks \ {t} /\ UNCHANGED <<profile, inFmt, desired>>  BY <1>9 DEF DecoderFails
  <2>2. CASE \E c : DoClose(bstat, gauge, c)  BY <1>0, <2>1, <2>2, DoClosePreserves
  <2>3. CASE UNCHANGED <<gen, dstat, decoder, cur, nb>>
    <3>1. DecoderFits'  BY <1>0, <2>1, <2>3 DEF DecoderFits
    <3> QED  BY <1>0, <2>1, <2>3, <3>1, SameGeneration
  <2> QED  BY <1>9, <2>2, <2>3 DEF DecoderFails
<1>10. ASSUME NEW r, StreamError(r), UNCHANGED profile PROVE IInv'
  BY <1>0, <1>10, OnErrorPreserves DEF StreamError
<1>11. ASSUME NEW b \in Backends, BackendCloses(b), UNCHANGED profile PROVE IInv'
  BY <1>0, <1>11, DoClosePreserves DEF BackendCloses
<1>12. ASSUME NEW f \in InputFormats, StartEvent(f), UNCHANGED profile PROVE IInv'
  BY <1>12, StartEventPreserves
<1>13. ASSUME NEW n, Media(n), UNCHANGED profile PROVE IInv'
  <2>1. UNCHANGED <<profile, gen, inFmt, desired, dstat, cur, nb, tasks>>  BY <1>13 DEF Media, control
  <2>2. decoder' = decoder \/ \E q : decoder' = Advance(decoder, q)  BY <1>13 DEF Media
  <2>3. DecoderFits'  BY <1>0, <2>1, <2>2, AdvanceKeepsFormats DEF DecoderFits
  <2> QED  BY <1>0, <2>1, <2>3, SameGeneration
<1>14. CASE ResetChunkTracking /\ UNCHANGED profile
  <2>1. /\ UNCHANGED <<profile, gen, inFmt, desired, dstat, cur, nb, tasks>>
        /\ decoder' = [decoder EXCEPT !.last = 0]
    BY <1>14 DEF ResetChunkTracking, control
  <2>2. DecoderFits'  BY <1>0, <2>1 DEF DecoderFits
  <2> QED  BY <1>0, <2>1, <2>2, SameGeneration
<1>15. CASE Close /\ UNCHANGED profile
  BY <1>0, <1>15, DoClosePreserves DEF Close
<1>16. CASE UNCHANGED vars
  <2>1. UNCHANGED <<profile, gen, inFmt, desired, dstat, cur, nb, tasks, decoder>>
    BY <1>16 DEF vars, control, audio
  <2>2. DecoderFits'  BY <1>0, <2>1 DEF DecoderFits
  <2> QED  BY <1>0, <2>1, <2>2, SameGeneration
<1>17. CASE IdleTimer \/ \E all : FinalTranscript(all) /\ UNCHANGED profile
  <2>1. UNCHANGED <<profile, gen, inFmt, desired, dstat, cur, nb, tasks, decoder>>
    BY <1>17 DEF IdleTimer, IdleCommit, FinalTranscript, control
  <2>2. DecoderFits'  BY <1>0, <2>1 DEF DecoderFits
  <2> QED  BY <1>0, <2>1, <2>2, SameGeneration
<1>18. CASE Resume  BY <1>1, <1>2, <1>3, <1>4, <1>5, <1>18 DEF Resume
<1>19. CASE ConnectSettles  BY <1>6, <1>7, <1>8, <1>19 DEF ConnectSettles
<1>20. CASE Event  BY <1>9, <1>10, <1>11, <1>12, <1>13, <1>14, <1>15, <1>17, <1>20 DEF Event
<1> QED
  BY <1>16, <1>17, <1>18, <1>19, <1>20 DEF Next
-----------------------------------------------------------------------------
\* However many start events, recoveries and closes overtake each other while a
\* decoder is loading, the decoder in use is the one for the formats in force.
THEOREM FreshDecoderHolds == Spec => []FreshDecoder
<1>1. IInv => FreshDecoder  BY DEF IInv, Generations, DecoderFits, FreshDecoder
<1> QED  BY <1>1, InitIInv, NextPreserves, PTL DEF Spec
-----------------------------------------------------------------------------
(* ClosedIsFinal rests on doClose's new generation: whatever is suspended when *)
(* the connection closes belongs to an older one from then on.                 *)
AllOvertaken ==
    isClosed => /\ dstat = "closed" /\ decoder = NoDecoder /\ cur = NoBackend /\ ~idle
                /\ \A t \in tasks : t.gen < gen

\* Nothing is suspended after the step that was not before it, its stage apart.
NoneStarted == \A u \in tasks' : \E t \in tasks : u.gen = t.gen

Teardown ==
    /\ isClosed' /\ dstat' = "closed" /\ decoder' = NoDecoder /\ cur' = NoBackend /\ ~idle'
    /\ gen' = IF isClosed THEN gen ELSE gen + 1
    /\ UNCHANGED <<nb, sent>> /\ NoneStarted

\* A step leaves the connection open, or closes it (perhaps once more), or finds it closed.
Outcome ==
    \/ ~isClosed /\ ~isClosed'
    \/ Teardown
    \/ UNCHANGED <<isClosed, gen, dstat, decoder, cur, nb, sent, idle>> /\ NoneStarted

LEMMA SettleStartsNone ==
    ASSUME Generations, NEW t \in tasks, NEW how
    PROVE  \A u \in Settle(t, how) : \E x \in tasks : u.gen = x.gen
<1>1. t \in Tasks  BY DEF Generations, WorksFor
<1>2. [t EXCEPT !.at = how].gen = t.gen  BY <1>1 DEF Tasks
<1> QED  BY <1>2 DEF Settle

LEMMA DoCloseIsTeardown ==
    ASSUME NEW st, NEW g, NEW c, DoClose(st, g, c), UNCHANGED sent, NoneStarted
    PROVE  Teardown
BY DEF DoClose, Teardown

\* A recovery is tried on an open connection only.
LEMMA OnErrorOutcome ==
    ASSUME NEW st, NEW recoverable, NEW ts, OnError(st, recoverable, ts), UNCHANGED sent,
           \A u \in ts : \E t \in tasks : u.gen = t.gen
    PROVE  Outcome
<1>1. CASE Recovers(recoverable) /\ UNCHANGED isClosed  BY <1>1 DEF Recovers, Outcome
<1>2. CASE DoClose(st, gauge, cur) /\ tasks' = ts
      BY <1>2, DoCloseIsTeardown DEF NoneStarted, Outcome
<1> QED  BY <1>1, <1>2 DEF OnError

\* The continuations of suspended calls.
LEMMA ResumeOutcome ==
    ASSUME IInv, AllOvertaken, NEW t \in tasks,
           \/ DecoderReady(t) \/ InitConnected(t) \/ InitFailed(t)
           \/ Reconnected(t) \/ ReconnectFailed(t)
    PROVE  Outcome
<1>1. isClosed => ~Current(t)
  <2>1. t.gen \in Nat /\ gen \in Nat  BY DEF IInv, Generations, WorksFor, Tasks
  <2> QED  BY <2>1 DEF AllOvertaken, Current
<1>2. CASE DecoderReady(t)
  <2>1. CASE isClosed  BY <1>1, <1>2, <2>1 DEF DecoderReady, audio, Outcome, NoneStarted
  <2>2. CASE ~isClosed  BY <1>2, <2>2 DEF DecoderReady, Outcome
  <2> QED  BY <2>1, <2>2
<1>3. CASE InitConnected(t)
  <2>1. CASE isClosed  BY <1>3, <2>1 DEF InitConnected, audio, Outcome, NoneStarted
  <2>2. CASE ~isClosed  BY <1>3, <2>2 DEF InitConnected, Outcome
  <2> QED  BY <2>1, <2>2
<1>4. CASE InitFailed(t)
  <2>1. NoneStarted /\ UNCHANGED sent  BY <1>4 DEF InitFailed, NoneStarted
  <2>2. CASE isClosed  BY <1>4, <2>1, <2>2 DEF InitFailed, Outcome
  <2>3. CASE ~isClosed  BY <1>4, <2>1, <2>3, DoCloseIsTeardown DEF InitFailed, Outcome
  <2> QED  BY <2>2, <2>3
<1>5. CASE Reconnected(t)
  <2>1. CASE isClosed  BY <1>5, <2>1 DEF Reconnected, audio, Outcome, NoneStarted
  <2>2. CASE ~isClosed  BY <1>5, <2>2 DEF Reconnected, Outcome
  <2> QED  BY <2>1, <2>2
<1>6. CASE ReconnectFailed(t)
  <2>1. NoneStarted /\ UNCHANGED sent  BY <1>6 DEF ReconnectFailed, NoneStarted
  <2>2. CASE ~Current(t)  BY <1>6, <2>1, <2>2 DEF ReconnectFailed, Outcome
  <2>3. CASE Current(t)  BY <1>6, <2>1, <2>3, DoCloseIsTeardown DEF ReconnectFailed, Outcome
  <2> QED  BY <2>2, <2>3
<1> QED  BY <1>2, <1>3, <1>4, <1>5, <1>6

LEMMA ConnectOutcome ==
    ASSUME IInv, NEW t \in tasks,
           BackendOpens(t) \/ BackendFailsToConnect(t) \/ ConnectAborted(t)
    PROVE  Outcome
<1>1. \A how : \A u \in Settle(t, how) : \E x \in tasks : u.gen = x.gen
      BY SettleStartsNone DEF IInv
<1>2. CASE BackendOpens(t) \/ ConnectAborted(t)
  <2>1. UNCHANGED <<isClosed, gen, dstat, decoder, cur, nb, sent, idle>>
        BY <1>2 DEF BackendOpens, ConnectAborted, audio
  <2>2. tasks' = Settle(t, "resolved") \/ tasks' = Settle(t, "rejected")
        BY <1>2 DEF BackendOpens, ConnectAborted
  <2> QED  BY <1>1, <2>1, <2>2 DEF Outcome, NoneStarted
<1>3. CASE BackendFailsToConnect(t)
      BY <1>1, <1>3, OnErrorOutcome DEF BackendFailsToConnect
<1> QED  BY <1>2, <1>3

LEMMA EventOutcome ==
    ASSUME IInv, AllOvertaken, Event
    PROVE  Outcome
<1>1. ASSUME NEW t \in tasks, DecoderFails(t)  PROVE Outcome
  <2>1. NoneStarted /\ UNCHANGED sent  BY <1>1 DEF DecoderFails, NoneStarted
  <2>2. CASE \E c : DoClose(bstat, gauge, c)  BY <2>1, <2>2, DoCloseIsTeardown DEF Outcome
  <2>3. CASE UNCHANGED <<isClosed, gen, dstat, decoder, cur, nb, idle>>  BY <2>1, <2>3 DEF Outcome
  <2> QED  BY <1>1, <2>2, <2>3 DEF DecoderFails
<1>2. ASSUME NEW r, StreamError(r)  PROVE Outcome  BY <1>2, OnErrorOutcome DEF StreamError
<1>3. ASSUME NEW b, BackendCloses(b)  PROVE Outcome
      BY <1>3, DoCloseIsTeardown DEF BackendCloses, NoneStarted, Outcome
<1>4. ASSUME NEW f, StartEvent(f)  PROVE Outcome  BY <1>4 DEF StartEvent, Outcome
<1>5. ASSUME NEW n, Media(n)  PROVE Outcome  BY <1>5 DEF Media, control, Outcome
<1>6. CASE ResetChunkTracking  BY <1>6 DEF ResetChunkTracking, control, Outcome
<1>7. CASE Close  BY <1>7, DoCloseIsTeardown DEF Close, NoneStarted, Outcome
<1>8. ASSUME NEW all, FinalTranscript(all)  PROVE Outcome
      BY <1>8 DEF FinalTranscript, control, AllOvertaken, Outcome
<1> QED  BY <1>1, <1>2, <1>3, <1>4, <1>5, <1>6, <1>7, <1>8 DEF Event

LEMMA EveryOutcome == IInv /\ AllOvertaken /\ [Next]_vars => Outcome
<1> SUFFICES ASSUME IInv, AllOvertaken, [Next]_vars PROVE Outcome  OBVIOUS
<1>1. CASE Resume  BY <1>1, ResumeOutcome DEF Resume
<1>2. CASE ConnectSettles  BY <1>2, ConnectOutcome DEF ConnectSettles
<1>3. CASE Event  BY <1>3, EventOutcome
<1>4. CASE UNCHANGED vars  BY <1>4 DEF vars, control, audio, Outcome, NoneStarted
<1>5. CASE IdleTimer  BY <1>5 DEF IdleTimer, IdleCommit, control, AllOvertaken, Outcome
<1> QED  BY <1>1, <1>2, <1>3, <1>4, <1>5 DEF Next

LEMMA OvertakenPreserved == IInv /\ AllOvertaken /\ [Next]_vars => AllOvertaken'
<1> SUFFICES ASSUME IInv, AllOvertaken, [Next]_vars, isClosed'
             PROVE  /\ dstat' = "closed" /\ decoder' = NoDecoder /\ cur' = NoBackend /\ ~idle'
                    /\ \A u \in tasks' : u.gen < gen'
    BY DEF AllOvertaken
<1>1. gen \in Nat /\ \A t \in tasks : t.gen \in Nat /\ t.gen <= gen
      BY DEF IInv, Generations, WorksFor, Tasks
<1>2. Outcome  BY EveryOutcome
<1>3. CASE Teardown
  <2>1. ASSUME NEW u \in tasks'  PROVE u.gen < gen'
    <3>1. PICK t \in tasks : u.gen = t.gen  BY <1>3 DEF Teardown, NoneStarted
    <3>2. CASE isClosed  BY <1>3, <3>1, <3>2 DEF Teardown, AllOvertaken
    <3>3. CASE ~isClosed  BY <1>1, <1>3, <3>1, <3>3 DEF Teardown
    <3> QED  BY <3>2, <3>3
  <2> QED  BY <1>3, <2>1 DEF Teardown
<1>4. CASE UNCHANGED <<isClosed, gen, dstat, decoder, cur, nb, sent, idle>> /\ NoneStarted
  <2>1. ASSUME NEW u \in tasks'  PROVE u.gen < gen'
    <3>1. PICK t \in tasks : u.gen = t.gen  BY <1>4 DEF NoneStarted
    <3> QED  BY <1>4, <3>1 DEF AllOvertaken
  <2> QED  BY <1>4, <2>1 DEF AllOvertaken
<1> QED  BY <1>2, <1>3, <1>4 DEF Outcome

\* A connection that doClose has closed stays closed and lets nothing more out: no call
\* that was suspended then sends, reconnects or takes a decoder over when it resumes.
THEOREM ClosedIsFinalHolds == Spec => ClosedIsFinal
<1>1. Init => AllOvertaken  BY DEF Init, AllOvertaken
<1>2. IInv /\ AllOvertaken /\ [Next]_vars
        => [isClosed => isClosed' /\ ~idle' /\ UNCHANGED <<sent, nb, cur, dstat, decoder>>]_vars
      BY EveryOutcome DEF Outcome, Teardown, AllOvertaken
<1> QED  BY <1>1, <1>2, InitIInv, NextPreserves, OvertakenPreserved, PTL DEF Spec, ClosedIsFinal
-----------------------------------------------------------------------------
(* How suspended calls, backends and the decoder belong together.            *)

\* A call that opens a backend in place of another; one that loads a decoder for a
\* format; initializeBackend.
Replacing(t) == t.kind \in {"reinit", "recover"} /\ t.at # "decoder"
Loading(t) == t.kind \in {"initReinit", "reinit"}
First(t) == t.kind \in {"initReinit", "init"}

\* What is known of a suspended call: while no other has overtaken it, its backend is
\* the current one and its decoder is awaited.
Stage(t) ==
    /\ t.kind = "initReinit" => t.at = "decoder"
    /\ t.kind \in {"init", "recover"} => t.at # "decoder"
    /\ t.at # "decoder" => t.b \in 1..nb
    /\ Replacing(t) => t.b # 1
    /\ Replacing(t) /\ Current(t) => t.b = cur
    /\ Loading(t) /\ Current(t) => dstat = "pending"
    /\ Replacing(t) /\ t.at = "resolved" /\ ~isClosed => bstat[t.b] = "connected"

\* Two suspended calls do not work on the same thing.
Apart(t, u) ==
    /\ First(t) /\ First(u) => t = u
    /\ Replacing(t) /\ Replacing(u) => t = u \/ t.b # u.b
    /\ Loading(t) /\ Loading(u) /\ Current(t) /\ Current(u) => t = u

BackendsTyped ==
    /\ bstat \in [Backends -> {"none", "pending", "connected", "failed", "closed"}]
    /\ bfmt \in [Backends -> Formats]
    /\ cur <= nb
    /\ isClosed \in BOOLEAN
    /\ isClosed <=> cur = NoBackend
    /\ ~isClosed => dstat \in {"pending", "ready"} /\ bfmt[cur] = desired

CallsApart == (\A t \in tasks : Stage(t)) /\ (\A t, u \in tasks : Apart(t, u))

Wiring == BackendsTyped /\ CallsApart

LEMMA InitWiring == Init => Wiring
<1> SUFFICES ASSUME Init PROVE Wiring  OBVIOUS
<1>1. 1 \in Backends /\ NoBackend # 1  BY BoundAssumption DEF Backends, NoBackend
<1>2. desired \in Formats /\ desired = Desired[inFmt]  BY DesiredType DEF Init
<1>3. BackendsTyped
  <2>1. bstat \in [Backends -> {"none", "pending", "connected", "failed", "closed"}]  BY DEF Init
  <2>2. bfmt \in [Backends -> Formats] /\ bfmt[1] = desired  BY <1>1, <1>2 DEF Init
  <2>3. cur = 1 /\ nb = 1 /\ isClosed = FALSE /\ dstat = "pending"  BY DEF Init
  <2>4. cur <= nb  BY <2>3
  <2> QED  BY <1>1, <2>1, <2>2, <2>3, <2>4 DEF BackendsTyped
<1>4. tasks = {Task("initReinit", "decoder", 1, NoBackend, inFmt, desired)} /\ dstat = "pending"
      BY <1>2 DEF Init
<1>5. CallsApart  BY <1>4 DEF CallsApart, Stage, Apart, Replacing, Loading, Task
<1> QED  BY <1>3, <1>5 DEF Wiring

\* What the steps below use of the invariants.
LEMMA CallsTyped ==
    ASSUME IInv
    PROVE  /\ gen \in Nat /\ nb \in 1..MaxBackends /\ cur \in 0..MaxBackends
           /\ \A t \in tasks : t \in Tasks /\ t.gen \in Nat /\ t.gen <= gen
BY DEF IInv, Generations, WorksFor, Tasks, Backends

\* Tasks that are in order stay so when some end and nothing else changes.
LEMMA FewerCalls ==
    ASSUME CallsApart, tasks' \subseteq tasks, UNCHANGED <<gen, cur, nb, dstat, isClosed, bstat>>
    PROVE  CallsApart'
BY DEF CallsApart, Stage, Apart, Replacing, Loading, First, Current

\* A connect that settles; when it succeeds its backend is connected.
LEMMA SettledCalls ==
    ASSUME IInv, CallsApart, NEW t \in tasks, t.at = "connecting",
           NEW how \in {"resolved", "rejected"}, tasks' = Settle(t, how),
           UNCHANGED <<gen, cur, nb, dstat, isClosed>>,
           \A u \in tasks : Replacing(u) /\ u.at = "resolved" /\ ~isClosed => bstat'[u.b] = "connected",
           how = "resolved" => bstat'[t.b] = "connected"
    PROVE  CallsApart'
<1> DEFINE s == [t EXCEPT !.at = how]
<1>1. t \in Tasks  BY CallsTyped
<1>2. /\ s.kind = t.kind /\ s.gen = t.gen /\ s.b = t.b /\ s.at = how
      BY <1>1 DEF Tasks
<1>3. tasks' = (tasks \ {t}) \cup {s}  BY DEF Settle
<1> HIDE DEF s
<1>4. \A u \in tasks' : Stage(u)'
      BY <1>2, <1>3 DEF CallsApart, Stage, Replacing, Loading, Current
<1>5. \A u \in tasks : u # t => Apart(s, u)' /\ Apart(u, s)'
      BY <1>2 DEF CallsApart, Apart, Replacing, Loading, First, Current
<1>6. \A u, x \in tasks : Apart(u, x)'
      BY DEF CallsApart, Apart, Replacing, Loading, First, Current
<1>7. Apart(s, s)'  BY DEF Apart
<1> QED  BY <1>3, <1>4, <1>5, <1>6, <1>7 DEF CallsApart

\* What a new generation leaves of it.
OldCalls(ts) ==
    /\ \A t \in ts : /\ t.kind = "initReinit" => t.at = "decoder"
                     /\ t.kind \in {"init", "recover"} => t.at # "decoder"
                     /\ t.at # "decoder" => t.b \in 1..nb
                     /\ Replacing(t) => t.b # 1
                     /\ t.gen \in Nat /\ t.gen <= gen
    /\ \A t, u \in ts : /\ First(t) /\ First(u) => t = u
                        /\ Replacing(t) /\ Replacing(u) => t = u \/ t.b # u.b

LEMMA CallsGrowOld ==
    ASSUME IInv, CallsApart
    PROVE  /\ OldCalls(tasks)
           /\ \A t \in tasks : OldCalls(tasks \ {t})
           /\ \A t \in tasks : t.at = "connecting" => OldCalls(Settle(t, "rejected"))
<1>1. OldCalls(tasks) /\ \A t \in tasks : OldCalls(tasks \ {t})
      BY CallsTyped DEF CallsApart, Stage, Apart, OldCalls
<1>2. ASSUME NEW t \in tasks, t.at = "connecting"  PROVE OldCalls(Settle(t, "rejected"))
  <2> DEFINE s == [t EXCEPT !.at = "rejected"]
  <2>1. t \in Tasks  BY CallsTyped
  <2>2. s.kind = t.kind /\ s.gen = t.gen /\ s.b = t.b /\ s.at = "rejected"
        BY <2>1 DEF Tasks
  <2>3. Settle(t, "rejected") = (tasks \ {t}) \cup {s}  BY DEF Settle
  <2> HIDE DEF s
  <2> QED  BY <1>1, <1>2, <2>2, <2>3 DEF OldCalls, Replacing, First
<1> QED  BY <1>1, <1>2

\* doClose overtakes every call.
LEMMA ClosedCalls ==
    ASSUME IInv, AllOvertaken, Wiring, NEW st, NEW g, NEW c, DoClose(st, g, c),
           st \in [Backends -> {"none", "pending", "connected", "failed", "closed"}],
           OldCalls(tasks'), \A u \in tasks' : isClosed => u.gen < gen
    PROVE  Wiring'
<1>1. /\ isClosed' = TRUE /\ cur' = NoBackend /\ nb' = nb /\ bfmt' = bfmt
      /\ bstat' \in [Backends -> {"none", "pending", "connected", "failed", "closed"}]
      /\ gen' = IF isClosed THEN gen ELSE gen + 1
      BY DEF DoClose
<1>2. BackendsTyped'
  <2>1. cur' <= nb'  BY <1>1, CallsTyped DEF NoBackend
  <2> QED  BY <1>1, <2>1 DEF BackendsTyped, Wiring
<1>3. \A u \in tasks' : u.gen # gen'  BY <1>1, CallsTyped DEF OldCalls
<1>4. CallsApart'
      BY <1>1, <1>3 DEF OldCalls, CallsApart, Stage, Apart, Replacing, Loading, First, Current
<1> QED  BY <1>2, <1>4 DEF Wiring

\* A backend is replaced by a new one, with a new generation.
LEMMA ReplacedCalls ==
    ASSUME IInv, Wiring, ~isClosed, NEW st, NEW want \in Formats, NEW f, NEW ts,
           st \in [Backends -> {"none", "pending", "connected", "failed", "closed"}],
           ReconnectBackend(st, want), OldCalls(ts), \A u \in ts : u.at # "resolved",
           gen' = gen + 1, desired' = want, isClosed' = isClosed, dstat' \in {"pending", "ready"},
           NEW kind \in {"reinit", "recover"}, kind = "reinit" => dstat' = "pending",
           tasks' = ts \cup {Task(kind, "connecting", gen + 1, nb + 1, f, want)}
    PROVE  Wiring'
<1>1. /\ nb + 1 \in Backends /\ nb' = nb + 1 /\ cur' = nb + 1 /\ nb \in 1..MaxBackends
      BY CallsTyped, BoundAssumption DEF ReconnectBackend, Backends
<1>2. bstat' \in [Backends -> {"none", "pending", "connected", "failed", "closed"}]
      BY <1>1, CallsTyped DEF ReconnectBackend, CloseOld
<1>3. bfmt' \in [Backends -> Formats] /\ bfmt'[nb + 1] = want
      BY <1>1 DEF ReconnectBackend, Wiring, BackendsTyped
<1>4. BackendsTyped'
      BY <1>1, <1>2, <1>3 DEF BackendsTyped, Wiring, NoBackend
<1> DEFINE s == Task(kind, "connecting", gen + 1, nb + 1, f, want)
<1>5. s.kind = kind /\ s.at = "connecting" /\ s.gen = gen + 1 /\ s.b = nb + 1  BY DEF Task
<1>6. tasks' = ts \cup {s}  OBVIOUS
<1> HIDE DEF s
<1>7. gen \in Nat  BY CallsTyped
<1>8. \A u \in tasks' : Stage(u)'
      BY <1>1, <1>5, <1>6, <1>7 DEF OldCalls, Stage, Replacing, Loading, Current
<1>9. \A u, x \in tasks' : Apart(u, x)'
      BY <1>1, <1>5, <1>6, <1>7 DEF OldCalls, Apart, Replacing, Loading, First, Current
<1> QED  BY <1>4, <1>8, <1>9 DEF Wiring, CallsApart

LEMMA OnErrorWiring ==
    ASSUME IInv, AllOvertaken, Wiring, NEW st, NEW recoverable, NEW ts, OnError(st, recoverable, ts),
           st \in [Backends -> {"none", "pending", "connected", "failed", "closed"}],
           OldCalls(ts), \A u \in ts : u.at # "resolved" /\ (isClosed => u.gen < gen),
           UNCHANGED desired
    PROVE  Wiring'
<1>1. CASE /\ Recovers(recoverable)
           /\ gen' = gen + 1
           /\ ReconnectBackend(st, desired)
           /\ tasks' = ts \cup {Task("recover", "connecting", gen + 1, nb + 1, inFmt, desired)}
           /\ UNCHANGED <<isClosed, dstat>>
  <2>1. ~isClosed  BY <1>1 DEF Recovers
  <2>2. desired \in Formats  BY DesiredType DEF IInv, Generations
  <2>3. dstat' \in {"pending", "ready"}  BY <1>1, <2>1 DEF Wiring, BackendsTyped
  <2> QED  BY <1>1, <2>1, <2>2, <2>3, ReplacedCalls
<1>2. CASE DoClose(st, gauge, cur) /\ tasks' = ts
      BY <1>2, ClosedCalls
<1> QED  BY <1>1, <1>2 DEF OnError
-----------------------------------------------------------------------------
LEMMA TaskFields ==
    ASSUME NEW kind, NEW at, NEW g, NEW b, NEW f, NEW d
    PROVE  /\ Task(kind, at, g, b, f, d).kind = kind /\ Task(kind, at, g, b, f, d).at = at
           /\ Task(kind, at, g, b, f, d).gen = g /\ Task(kind, at, g, b, f, d).b = b
           /\ Task(kind, at, g, b, f, d).in = f /\ Task(kind, at, g, b, f, d).out = d
BY DEF Task

LEMMA SettledTask ==
    ASSUME NEW t \in Tasks, NEW how
    PROVE  \E s : /\ Settle(t, how) = (tasks \ {t}) \cup {s}
                  /\ s.kind = t.kind /\ s.gen = t.gen /\ s.b = t.b /\ s.at = how
<1>1. /\ [t EXCEPT !.at = how].kind = t.kind /\ [t EXCEPT !.at = how].gen = t.gen
      /\ [t EXCEPT !.at = how].b = t.b /\ [t EXCEPT !.at = how].at = how
      BY DEF Tasks
<1>2. Settle(t, how) = (tasks \ {t}) \cup {[t EXCEPT !.at = how]}  BY DEF Settle
<1> QED  BY <1>1, <1>2

LEMMA NothingSettled ==
    ASSUME MicrotasksDone
    PROVE  \A t \in tasks : t.at # "resolved" /\ t.at # "rejected"
BY DEF MicrotasksDone, IsMicrotask

\* The steps that leave formats, generation and the current backend alone.
LEMMA SameBackends ==
    ASSUME IInv, Wiring, UNCHANGED <<gen, cur, nb, isClosed, bfmt, desired>>,
           bstat' \in [Backends -> {"none", "pending", "connected", "failed", "closed"}],
           dstat' = dstat \/ (~isClosed /\ dstat' = "ready")
    PROVE  BackendsTyped'
BY DEF Wiring, BackendsTyped

LEMMA DecoderReadyWiring ==
    ASSUME IInv, AllOvertaken, Wiring, NEW t \in tasks, DecoderReady(t)
    PROVE  Wiring'
<1>1. /\ UNCHANGED <<gen, cur, nb, isClosed, bfmt, bstat, desired>>
      /\ t \in Tasks /\ t.at = "decoder" /\ t.gen \in Nat /\ gen \in Nat
      BY CallsTyped DEF DecoderReady
<1>2. isClosed => ~Current(t)  BY <1>1 DEF AllOvertaken, Current
<1>3. (~Current(t) /\ dstat' = dstat) \/ (Current(t) /\ dstat' = "ready")
      BY <1>2 DEF DecoderReady
<1>4. BackendsTyped'  BY <1>1, <1>2, <1>3, SameBackends DEF Wiring, BackendsTyped
<1>5. \A u \in tasks : u # t /\ Loading(u) /\ Current(u) => dstat' = "pending"
  <2>1. \A u \in tasks : Loading(u) /\ Current(u) => dstat = "pending"
        BY DEF Wiring, CallsApart, Stage
  <2>2. Loading(t)  BY <1>1 DEF Wiring, CallsApart, Stage, Loading, Tasks
  <2>3. \A u \in tasks : u # t /\ Loading(u) /\ Current(u) => ~Current(t)
        BY <2>2 DEF Wiring, CallsApart, Apart
  <2> QED  BY <1>3, <2>1, <2>3
<1>6. \A u \in tasks : u # t => Stage(u)'
      BY <1>1, <1>5 DEF Wiring, CallsApart, Stage, Replacing, Loading, Current
<1>7. \A u, x \in tasks : Apart(u, x)'
      BY <1>1 DEF Wiring, CallsApart, Apart, Replacing, Loading, First, Current
<1>8. CASE tasks' = tasks \ {t}
      BY <1>4, <1>6, <1>7, <1>8 DEF Wiring, CallsApart
<1>9. CASE /\ t.kind = "initReinit" /\ ~isClosed
           /\ tasks' = (tasks \ {t}) \cup {Task("init", "connecting", t.gen, cur, t.in, t.out)}
  <2>1. PICK s : /\ tasks' = (tasks \ {t}) \cup {s}
                 /\ s.kind = "init" /\ s.at = "connecting" /\ s.gen = t.gen /\ s.b = cur
        BY <1>9, TaskFields
  <2>3. cur \in 1..nb  BY <1>9, CallsTyped DEF Wiring, BackendsTyped, NoBackend
  <2>4. Stage(s)'  BY <1>1, <2>1, <2>3 DEF Stage, Replacing, Loading
  <2>5. \A u \in tasks \ {t} : Apart(s, u)' /\ Apart(u, s)'
        BY <1>9, <2>1 DEF Wiring, CallsApart, Apart, Replacing, Loading, First
  <2>6. Apart(s, s)'  BY DEF Apart
  <2> QED  BY <1>4, <1>6, <1>7, <2>1, <2>4, <2>5, <2>6 DEF Wiring, CallsApart
<1> QED  BY <1>8, <1>9 DEF DecoderReady

LEMMA ReconnectedWiring ==
    ASSUME IInv, AllOvertaken, Wiring, NEW t \in tasks, Reconnected(t)
    PROVE  Wiring'
<1>1. /\ UNCHANGED <<gen, cur, nb, isClosed, bfmt, dstat, desired>>
      /\ t.kind \in {"recover", "reinit"} /\ t.at = "resolved" /\ t \in Tasks
      BY CallsTyped DEF Reconnected
<1>2. CASE tasks' = tasks \ {t} /\ UNCHANGED bstat
  <2>1. CallsApart'  BY <1>1, <1>2, FewerCalls DEF Wiring
  <2> QED  BY <1>1, <1>2, <2>1, SameBackends DEF Wiring, BackendsTyped
<1>3. CASE ~isClosed /\ tasks' = tasks \ {t} /\ bstat' = [bstat EXCEPT ![t.b] = "closed"]
  <2>1. bstat' \in [Backends -> {"none", "pending", "connected", "failed", "closed"}]
        BY <1>3 DEF Wiring, BackendsTyped
  <2>2. \A u \in tasks \ {t} : Replacing(u) => u.b # t.b
        BY <1>1 DEF Wiring, CallsApart, Apart, Replacing
  <2>3. \A u \in tasks \ {t} : Replacing(u) /\ u.at = "resolved" => bstat'[u.b] = "connected"
        BY <1>3, <2>2 DEF Wiring, CallsApart, Stage, BackendsTyped
  <2>4. \A u \in tasks' : Stage(u)'
        BY <1>1, <1>3, <2>3 DEF Wiring, CallsApart, Stage, Replacing, Loading, Current
  <2>5. \A u, x \in tasks' : Apart(u, x)'
        BY <1>1, <1>3 DEF Wiring, CallsApart, Apart, Replacing, Loading, First, Current
  <2>6. BackendsTyped'  BY <1>1, <2>1, SameBackends DEF Wiring, BackendsTyped
  <2> QED  BY <2>4, <2>5, <2>6 DEF Wiring, CallsApart
<1>4. CASE /\ Current(t) /\ t.kind = "reinit" /\ UNCHANGED bstat
           /\ tasks' = (tasks \ {t}) \cup {Task("reinit", "decoder", t.gen, NoBackend, inFmt, t.out)}
  <2>1. PICK s : /\ tasks' = (tasks \ {t}) \cup {s}
                 /\ s.kind = "reinit" /\ s.at = "decoder" /\ s.gen = t.gen
        BY <1>4, TaskFields
  <2>3. dstat = "pending"  BY <1>4 DEF Wiring, CallsApart, Stage, Loading
  <2>4. \A u \in tasks' : Stage(u)'
        BY <1>1, <1>4, <2>1, <2>3 DEF Wiring, CallsApart, Stage, Replacing, Loading, Current
  <2>5. \A u, x \in tasks : Apart(u, x)'
        BY <1>1 DEF Wiring, CallsApart, Apart, Replacing, Loading, First, Current
  <2>6. \A u \in tasks \ {t} : Apart(s, u)' /\ Apart(u, s)'
        BY <1>1, <1>4, <2>1 DEF Wiring, CallsApart, Apart, Replacing, Loading, First, Current
  <2>7. Apart(s, s)'  BY DEF Apart
  <2>8. BackendsTyped'  BY <1>1, <1>4, SameBackends DEF Wiring, BackendsTyped
  <2> QED  BY <2>1, <2>4, <2>5, <2>6, <2>7, <2>8 DEF Wiring, CallsApart
<1> QED  BY <1>2, <1>3, <1>4 DEF Reconnected

\* A format change that keeps the backend.
LEMMA StartEventWiring ==
    ASSUME IInv, AllOvertaken, Wiring, NEW f \in InputFormats, StartEvent(f)
    PROVE  Wiring'
<1>1. /\ ~isClosed /\ isClosed' = isClosed /\ gen' = gen + 1 /\ dstat' = "pending"
      /\ desired' = Desired[f] /\ Desired[f] \in Formats /\ gen \in Nat
      /\ \A t \in tasks : t.at # "resolved"
      /\ OldCalls(tasks)
      BY DesiredType, CallsTyped, NothingSettled, CallsGrowOld
      DEF StartEvent, IInv, Generations, Wiring
<1>2. CASE /\ ReconnectBackend(bstat, Desired[f])
           /\ tasks' = tasks \cup {Task("reinit", "connecting", gen + 1, nb + 1, f, Desired[f])}
  <2>1. bstat \in [Backends -> {"none", "pending", "connected", "failed", "closed"}]
        BY DEF Wiring, BackendsTyped
  <2> QED  BY <1>1, <1>2, <2>1, ReplacedCalls
<1>3. CASE /\ Desired[f] = desired
           /\ tasks' = tasks \cup {Task("reinit", "decoder", gen + 1, NoBackend, f, Desired[f])}
           /\ UNCHANGED <<nb, cur, bstat, bfmt>>
  <2> DEFINE s == Task("reinit", "decoder", gen + 1, NoBackend, f, Desired[f])
  <2>1. s.kind = "reinit" /\ s.at = "decoder" /\ s.gen = gen + 1  BY DEF Task
  <2>2. tasks' = tasks \cup {s}  BY <1>3
  <2> HIDE DEF s
  <2>3. \A u \in tasks' : Stage(u)'
        BY <1>1, <1>3, <2>1, <2>2 DEF OldCalls, Stage, Replacing, Loading, Current
  <2>4. \A u, x \in tasks' : Apart(u, x)'
        BY <1>1, <1>3, <2>1, <2>2 DEF OldCalls, Apart, Replacing, Loading, First, Current
  <2>5. BackendsTyped'  BY <1>1, <1>3 DEF Wiring, BackendsTyped
  <2> QED  BY <2>3, <2>4, <2>5 DEF Wiring, CallsApart
<1> QED  BY <1>2, <1>3 DEF StartEvent

LEMMA UnchangedWiring ==
    ASSUME IInv, Wiring, tasks' \subseteq tasks,
           UNCHANGED <<gen, cur, nb, isClosed, bstat, bfmt, dstat, desired>>
    PROVE  Wiring'
<1>1. CallsApart'  BY FewerCalls DEF Wiring
<1> QED  BY <1>1, SameBackends DEF Wiring, BackendsTyped

\* Every action keeps the calls apart.
LEMMA WiringStep == IInv /\ AllOvertaken /\ Wiring /\ [Next]_vars => Wiring'
<1> SUFFICES ASSUME IInv, AllOvertaken, Wiring, [Next]_vars PROVE Wiring'  OBVIOUS
<1>0. /\ bstat \in [Backends -> {"none", "pending", "connected", "failed", "closed"}]
      /\ \A b : [bstat EXCEPT ![b] = "failed"] \in [Backends -> {"none", "pending", "connected", "failed", "closed"}]
      /\ \A b : [bstat EXCEPT ![b] = "closed"] \in [Backends -> {"none", "pending", "connected", "failed", "closed"}]
      /\ \A b : [bstat EXCEPT ![b] = "connected"] \in [Backends -> {"none", "pending", "connected", "failed", "closed"}]
      /\ OldCalls(tasks)
      /\ \A t \in tasks : OldCalls(tasks \ {t})
      /\ \A t \in tasks : t.at = "connecting" => OldCalls(Settle(t, "rejected"))
      /\ \A u \in tasks : isClosed => u.gen < gen
      BY CallsGrowOld DEF Wiring, BackendsTyped, AllOvertaken
<1>1. ASSUME NEW t \in tasks, InitConnected(t) PROVE Wiring'
      BY <1>1, UnchangedWiring DEF InitConnected
<1>2. ASSUME NEW t \in tasks, InitFailed(t) PROVE Wiring'
  <2>1. CASE isClosed  BY <1>2, <2>1, UnchangedWiring DEF InitFailed
  <2>2. CASE ~isClosed  BY <1>0, <1>2, <2>2, ClosedCalls DEF InitFailed
  <2> QED  BY <2>1, <2>2
<1>3. ASSUME NEW t \in tasks, ReconnectFailed(t) PROVE Wiring'
  <2>1. CASE ~Current(t)  BY <1>3, <2>1, UnchangedWiring DEF ReconnectFailed
  <2>2. CASE Current(t)  BY <1>0, <1>3, <2>2, ClosedCalls DEF ReconnectFailed
  <2> QED  BY <2>1, <2>2
<1>4. CASE Resume
      BY <1>1, <1>2, <1>3, <1>4, DecoderReadyWiring, ReconnectedWiring DEF Resume
<1>5. ASSUME NEW t \in tasks, BackendOpens(t) PROVE Wiring'
  <2>1. t.at = "connecting" /\ \A u \in tasks : u.at # "resolved"
        BY <1>5, NothingSettled DEF BackendOpens, Connecting
  <2>2. t.b \in Backends /\ bstat'[t.b] = "connected"
        BY <1>0, <1>5, <2>1, CallsTyped DEF BackendOpens, Wiring, CallsApart, Stage, Backends
  <2>3. CallsApart'  BY <1>5, <2>1, <2>2, SettledCalls DEF BackendOpens, Wiring
  <2>4. BackendsTyped'  BY <1>0, <1>5, SameBackends DEF BackendOpens, Wiring, BackendsTyped
  <2> QED  BY <2>3, <2>4 DEF Wiring
<1>6. ASSUME NEW t \in tasks, BackendFailsToConnect(t) PROVE Wiring'
  <2>1. t \in Tasks /\ t.at = "connecting" /\ \A u \in tasks : u.at # "resolved"
        BY <1>6, NothingSettled, CallsTyped DEF BackendFailsToConnect, Connecting
  <2>2. \A u \in Settle(t, "rejected") : u.at # "resolved" /\ (isClosed => u.gen < gen)
        BY <1>0, <2>1 DEF Settle, Tasks
  <2> QED  BY <1>0, <1>6, <2>1, <2>2, OnErrorWiring DEF BackendFailsToConnect
<1>7. ASSUME NEW t \in tasks, ConnectAborted(t) PROVE Wiring'
  <2>1. t.at = "connecting" /\ \A u \in tasks : u.at # "resolved"
        BY <1>7, NothingSettled DEF ConnectAborted, Connecting
  <2>2. CallsApart'  BY <1>7, <2>1, SettledCalls DEF ConnectAborted, Wiring
  <2>3. BackendsTyped'  BY <1>0, <1>7, SameBackends DEF ConnectAborted, Wiring, BackendsTyped
  <2> QED  BY <2>2, <2>3 DEF Wiring
<1>8. CASE ConnectSettles  BY <1>5, <1>6, <1>7, <1>8 DEF ConnectSettles
<1>9. ASSUME NEW t \in tasks, DecoderFails(t) PROVE Wiring'
  <2>1. CASE \E c : DoClose(bstat, gauge, c)
        BY <1>0, <1>9, <2>1, ClosedCalls DEF DecoderFails
  <2>2. CASE UNCHANGED <<isClosed, gen, dstat, cur, nb, bstat, bfmt>>
        BY <1>9, <2>2, UnchangedWiring DEF DecoderFails
  <2> QED  BY <1>9, <2>1, <2>2 DEF DecoderFails
<1>10. ASSUME NEW r, StreamError(r) PROVE Wiring'
  <2>1. \A u \in tasks : u.at # "resolved"  BY <1>10, NothingSettled DEF StreamError
  <2> QED  BY <1>0, <1>10, <2>1, OnErrorWiring DEF StreamError
<1>11. ASSUME NEW b, BackendCloses(b) PROVE Wiring'
       BY <1>0, <1>11, ClosedCalls DEF BackendCloses
<1>12. CASE Close  BY <1>0, <1>12, ClosedCalls DEF Close
<1>13. ASSUME UNCHANGED control  PROVE Wiring'
       BY <1>13, UnchangedWiring DEF control
<1>14. ASSUME NEW n, Media(n)  PROVE UNCHANGED control  BY <1>14 DEF Media
<1>15. CASE ResetChunkTracking \/ IdleTimer \/ UNCHANGED vars \/ \E all : FinalTranscript(all)
       BY <1>13, <1>15 DEF ResetChunkTracking, IdleTimer, IdleCommit, vars, FinalTranscript
<1>16. CASE Event
       BY <1>9, <1>10, <1>11, <1>12, <1>13, <1>14, <1>15, <1>16, StartEventWiring DEF Event
<1> QED  BY <1>4, <1>8, <1>15, <1>16 DEF Next
-----------------------------------------------------------------------------
(* What the audio operators return.  Ascending is the only one that needs an  *)
(* induction, on the size of its set: by its least counterexample.            *)

LEMMA LeastOf ==
    ASSUME NEW S, S \subseteq Nat, S # {}
    PROVE  \E x \in S : \A y \in S : x <= y
<1>1. IsWellFoundedOn(OpToRel(<, Nat), Nat)  BY NatLessThanWellFounded
<1>2. PICK x \in S : \A y \in S : ~(<<y, x>> \in OpToRel(<, Nat))  BY <1>1, WFMin
<1>3. \A y \in S : ~(y < x)  BY <1>2 DEF OpToRel
<1> QED  BY <1>3

\* A non-empty set of numbers with a bound has a greatest member.
LEMMA GreatestOf ==
    ASSUME NEW S, S \subseteq Nat, S # {}, NEW m \in Nat, \A x \in S : x <= m
    PROVE  \E x \in S : \A y \in S : y <= x
<1> DEFINE U == {k \in Nat : \A x \in S : x <= k}
<1>1. PICK k \in U : \A u \in U : k <= u
  <2>1. U \subseteq Nat /\ U # {}  OBVIOUS
  <2> HIDE DEF U
  <2> QED  BY <2>1, LeastOf
<1>2. k \in Nat /\ \A x \in S : x <= k  BY <1>1
<1>3. k \in S
  <2> SUFFICES ASSUME k \notin S PROVE FALSE  OBVIOUS
  <2>1. \A x \in S : x < k  BY <1>2
  <2>2. k - 1 \in Nat
    <3>1. PICK x \in S : TRUE  OBVIOUS
    <3>2. x \in Nat /\ x < k  BY <2>1, <3>1
    <3> QED  BY <1>2, <3>2
  <2>3. k - 1 \in U  BY <1>2, <2>1, <2>2
  <2>4. k <= k - 1  BY <1>1, <2>3
  <2> QED  BY <1>2, <2>4
<1> QED  BY <1>2, <1>3

Enumerates(o, S) ==
    /\ o \in [1..Cardinality(S) -> S]
    /\ \A i, j \in DOMAIN o : i < j => o[i] < o[j]

LEMMA EnumerationExists ==
    ASSUME NEW S, S \subseteq Nat, IsFiniteSet(S)
    PROVE  \E o : Enumerates(o, S)
<1> DEFINE Bad == {n \in Nat : \E T : /\ T \subseteq Nat /\ IsFiniteSet(T) /\ Cardinality(T) = n
                                      /\ \A o : ~Enumerates(o, T)}
<1>1. Bad = {}
  <2> SUFFICES ASSUME Bad # {} PROVE FALSE  OBVIOUS
  <2>1. Bad \subseteq Nat  OBVIOUS
  <2>2. PICK n \in Bad : \A k \in Bad : n <= k
    <3> HIDE DEF Bad
    <3> QED  BY <2>1, LeastOf
  <2>3. PICK T : /\ T \subseteq Nat /\ IsFiniteSet(T) /\ Cardinality(T) = n
                 /\ \A o : ~Enumerates(o, T)
        BY <2>2
  <2>4. CASE T = {}
    <3>1. Cardinality(T) = 0  BY <2>4, FS_EmptySet
    <3>2. [i \in 1..0 |-> 0] \in [1..Cardinality(T) -> T]  BY <3>1
    <3>3. Enumerates([i \in 1..0 |-> 0], T)  BY <3>1, <3>2 DEF Enumerates
    <3> QED  BY <2>3, <3>3
  <2>5. CASE T # {}
    <3>1. PICK x \in T : \A y \in T : x <= y  BY <2>3, <2>5, LeastOf
    <3> DEFINE R == T \ {x}
    <3>2. /\ R \subseteq Nat /\ IsFiniteSet(R) /\ Cardinality(R) = n - 1
          /\ Cardinality(R) \in Nat /\ n \in Nat
          BY <2>2, <2>3, <3>1, FS_RemoveElement, FS_CardinalityType
    <3>3. PICK p : Enumerates(p, R)
      <4>1. ~(n <= n - 1)  BY <3>2
      <4>2. n - 1 \notin Bad  BY <2>2, <4>1
      <4> QED  BY <3>2, <4>2
    <3>4. DOMAIN p = 1..(n - 1) /\ \A i \in 1..(n - 1) : p[i] \in R
          BY <3>2, <3>3 DEF Enumerates
    <3> DEFINE o == [i \in 1..n |-> IF i = 1 THEN x ELSE p[i - 1]]
    <3>5. \A i \in 1..n : i # 1 => i - 1 \in 1..(n - 1)  BY <3>2
    <3>6. o \in [1..Cardinality(T) -> T]  BY <2>3, <3>1, <3>4, <3>5
    <3>7. ASSUME NEW i \in 1..n, NEW j \in 1..n, i < j  PROVE o[i] < o[j]
      <4>1. j # 1 /\ j - 1 \in 1..(n - 1) /\ o[j] = p[j - 1] /\ p[j - 1] \in R  BY <3>4, <3>5, <3>7
      <4>2. CASE i = 1
        <5>1. o[i] = x /\ x \in Nat /\ p[j - 1] \in Nat /\ p[j - 1] # x /\ x <= p[j - 1]
              BY <2>3, <3>1, <4>1, <4>2
        <5> QED  BY <4>1, <5>1
      <4>3. CASE i # 1
        <5>1. i - 1 \in 1..(n - 1) /\ i - 1 < j - 1 /\ o[i] = p[i - 1]  BY <3>2, <3>5, <3>7, <4>3
        <5> QED  BY <3>3, <3>4, <4>1, <5>1 DEF Enumerates
      <4> QED  BY <4>2, <4>3
    <3>8. Enumerates(o, T)  BY <3>6, <3>7 DEF Enumerates
    <3> QED  BY <2>3, <3>8
  <2> QED  BY <2>4, <2>5
<1>2. Cardinality(S) \in Nat  BY FS_CardinalityType
<1> QED  BY <1>1, <1>2

LEMMA AscendingEnumerates ==
    ASSUME NEW S, S \subseteq Nat, IsFiniteSet(S)
    PROVE  Enumerates(Ascending(S), S) /\ Cardinality(S) \in Nat
<1>1. \E o : Enumerates(o, S)  BY EnumerationExists
<1>2. Ascending(S) = CHOOSE o \in [1..Cardinality(S) -> S] : \A i, j \in DOMAIN o : i < j => o[i] < o[j]
      BY DEF Ascending
<1> QED  BY <1>1, <1>2, FS_CardinalityType DEF Enumerates

\* The accepted frames of a queue, in its order.
LEMMA AcceptedFrames ==
    ASSUME NEW q \in Seq(Frames), NEW d
    PROVE  /\ Accepted(d, q) \subseteq 1..Len(q) /\ Len(q) \in Nat
           /\ \A i \in Accepted(d, q) : q[i] \in Frames /\ q[i].n \in 1..MaxFrames
           /\ \A i \in Accepted(d, q) : \A j \in 1..(i - 1) : q[j].n < q[i].n
           /\ Enumerates(Ascending(Accepted(d, q)), Accepted(d, q))
           /\ Cardinality(Accepted(d, q)) \in Nat
<1>1. Accepted(d, q) \subseteq 1..Len(q) /\ Len(q) \in Nat  BY LenProperties DEF Accepted
<1>2. IsFiniteSet(Accepted(d, q)) /\ Accepted(d, q) \subseteq Nat
  <2>1. IsFiniteSet(1..Len(q))  BY <1>1, FS_Interval
  <2>2. Accepted(d, q) \in SUBSET (1..Len(q)) /\ 1..Len(q) \subseteq Nat  BY <1>1
  <2> QED  BY <2>1, <2>2, FS_Subset
<1>3. \A i \in Accepted(d, q) : q[i] \in Frames  BY <1>1, ElementOfSeq
<1>4. \A f \in Frames : f.n \in 1..MaxFrames  BY DEF Frames
<1>5. \A i \in Accepted(d, q) : \A j \in 1..(i - 1) : q[j].n < q[i].n
      BY DEF Accepted, Accepts
<1> QED  BY <1>1, <1>2, <1>3, <1>4, <1>5, AscendingEnumerates

\* decodeChunk over a queue: chunks of frames it took, each newer than those before,
\* with the decoder's formats and identity.
LEMMA DecodeYields ==
    ASSUME NEW q \in Seq(Frames), NEW d,
           d.in \in InputFormats, d.out \in Formats, d.gen \in Nat
    PROVE  /\ Decode(q, d) \in Seq(Chunks)
           /\ \A k \in DOMAIN Decode(q, d) :
                /\ \E i \in Accepted(d, q) : Decode(q, d)[k].frame = q[i]
                /\ Decode(q, d)[k].dec = d.in
                /\ Decode(q, d)[k].out = d.out
                /\ Decode(q, d)[k].gen = d.gen
           /\ \A k, l \in DOMAIN Decode(q, d) :
                k < l => Decode(q, d)[k].frame.n < Decode(q, d)[l].frame.n
           /\ q = <<>> => Decode(q, d) = <<>>
<1> DEFINE A == Accepted(d, q)
           o == Ascending(A)
           c(k) == [frame |-> q[o[k]], dec |-> d.in, out |-> d.out, gen |-> d.gen]
<1>1. /\ A \subseteq 1..Len(q) /\ Len(q) \in Nat
      /\ \A i \in A : q[i] \in Frames /\ q[i].n \in 1..MaxFrames
      /\ \A i \in A : \A j \in 1..(i - 1) : q[j].n < q[i].n
      /\ Enumerates(o, A) /\ Cardinality(A) \in Nat
      BY AcceptedFrames
<1>2. DOMAIN o = 1..Cardinality(A) /\ \A k \in DOMAIN o : o[k] \in A  BY <1>1 DEF Enumerates
<1>3. Decode(q, d) = [k \in 1..Cardinality(A) |-> c(k)]  BY <1>2 DEF Decode
<1> HIDE DEF A, o
<1>5. \A k \in 1..Cardinality(A) : c(k) \in Chunks  BY <1>1, <1>2 DEF Chunks
<1>6. Decode(q, d) \in [1..Cardinality(A) -> Chunks]
      BY <1>3, <1>5
<1>7. Decode(q, d) \in Seq(Chunks)  BY <1>1, <1>6, SeqDef
<1>8. \A k \in DOMAIN Decode(q, d) : k \in 1..Cardinality(A) /\ Decode(q, d)[k] = c(k)  BY <1>3
<1>9. ASSUME NEW k \in DOMAIN Decode(q, d), NEW l \in DOMAIN Decode(q, d), k < l
      PROVE  Decode(q, d)[k].frame.n < Decode(q, d)[l].frame.n
  <2>1. o[k] \in A /\ o[l] \in A /\ o[k] < o[l]  BY <1>1, <1>2, <1>8, <1>9 DEF Enumerates
  <2>2. \A x, y \in A : x < y => x \in 1..(y - 1)
    <3>1. A \subseteq 1..Len(q) /\ Len(q) \in Nat  BY <1>1
    <3> QED  BY <3>1
  <2>a. o[k] \in 1..(o[l] - 1)  BY <2>1, <2>2
  <2>3. q[o[k]].n < q[o[l]].n  BY <1>1, <2>1, <2>a
  <2>4. Decode(q, d)[k].frame = q[o[k]] /\ Decode(q, d)[l].frame = q[o[l]]  BY <1>8
  <2> QED  BY <2>3, <2>4
<1>10. ASSUME q = <<>>  PROVE Decode(q, d) = <<>>
  <2>1. Len(q) = 0  BY <1>10, EmptySeq
  <2>2. A = {}  BY <1>1, <2>1
  <2>3. Cardinality(A) = 0  BY <2>2, FS_EmptySet
  <2>4. Decode(q, d) \in [1..0 -> Chunks]  BY <1>6, <2>3
  <2>5. Len(Decode(q, d)) = 0  BY <1>7, <2>4, LenProperties
  <2> QED  BY <1>7, <2>5, EmptySeq
<1> QED  BY <1>2, <1>7, <1>8, <1>9, <1>10 DEF A

\* A decoder that took frames has the newest of them as its last.
LEMMA AdvanceYields ==
    ASSUME NEW q \in Seq(Frames), NEW d, d.last \in Nat, "last" \in DOMAIN d
    PROVE  /\ Advance(d, q).last \in {d.last} \cup {q[i].n : i \in Accepted(d, q)}
           /\ Advance(d, q).last >= d.last /\ Advance(d, q).last \in Nat
           /\ \A i \in Accepted(d, q) : Advance(d, q).last >= q[i].n
<1> DEFINE N == {d.last} \cup {q[i].n : i \in Accepted(d, q)}
<1>1. \A i \in Accepted(d, q) : q[i].n \in 1..MaxFrames  BY AcceptedFrames
<1>2. N \subseteq Nat /\ N # {}  BY <1>1, BoundAssumption
<1>3. \A n \in N : n <= d.last + MaxFrames /\ d.last + MaxFrames \in Nat
      BY <1>1, BoundAssumption
<1>4. PICK m \in N : \A n \in N : n <= m
  <2> HIDE DEF N
  <2> QED  BY <1>2, <1>3, GreatestOf
<1>5. m >= d.last /\ \A i \in Accepted(d, q) : m >= q[i].n  BY <1>1, <1>2, <1>4, BoundAssumption
<1>6. Advance(d, q).last = CHOOSE n \in N : n >= d.last /\ \A i \in Accepted(d, q) : n >= q[i].n
      BY DEF Advance
<1> HIDE DEF N
<1>7. /\ Advance(d, q).last \in N
      /\ Advance(d, q).last >= d.last
      /\ \A i \in Accepted(d, q) : Advance(d, q).last >= q[i].n
      BY <1>4, <1>5, <1>6
<1> QED  BY <1>2, <1>7 DEF N

\* The length of a sequence given as a function.
LEMMA LengthOf ==
    ASSUME NEW S, NEW n \in Nat, NEW s \in [1..n -> S]
    PROVE  s \in Seq(S) /\ Len(s) = n
<1>1. s \in Seq(S)  BY SeqDef
<1>2. 1..Len(s) = 1..n /\ Len(s) \in Nat  BY <1>1, LenProperties
<1>3. ~(Len(s) < n)
  <2>1. (n \in 1..n /\ n \notin 1..Len(s)) \/ ~(Len(s) < n)  BY <1>2
  <2> QED  BY <1>2, <2>1
<1>4. ~(n < Len(s))
  <2>1. (Len(s) \in 1..Len(s) /\ Len(s) \notin 1..n) \/ ~(n < Len(s))  BY <1>2
  <2> QED  BY <1>2, <2>1
<1> QED  BY <1>1, <1>2, <1>3, <1>4

LEMMA ToYields ==
    ASSUME NEW q \in Seq(Chunks), NEW b \in Backends
    PROVE  /\ To(q, b) \in Seq([audio : Chunks, to : Backends])
           /\ Len(To(q, b)) = Len(q) /\ Len(q) \in Nat
           /\ DOMAIN To(q, b) = 1..Len(q) /\ DOMAIN q = 1..Len(q)
           /\ \A i \in 1..Len(q) : To(q, b)[i].audio = q[i] /\ To(q, b)[i].to = b /\ q[i] \in Chunks
<1>1. DOMAIN q = 1..Len(q) /\ Len(q) \in Nat /\ \A i \in 1..Len(q) : q[i] \in Chunks
      BY LenProperties, ElementOfSeq
<1>2. To(q, b) \in [1..Len(q) -> [audio : Chunks, to : Backends]]  BY <1>1 DEF To
<1>3. To(q, b) \in Seq([audio : Chunks, to : Backends]) /\ Len(To(q, b)) = Len(q)
      BY <1>1, <1>2, LengthOf
<1> QED  BY <1>1, <1>2, <1>3 DEF To
-----------------------------------------------------------------------------
(* The kinds of the variables.                                               *)

Sendings == [audio : Chunks, to : Backends]

AudioTyped ==
    /\ decoder \in Decoders
    /\ recov \in 0..MaxRecoveries
    /\ pin \in Seq(Frames)
    /\ pau \in Seq(Chunks)
    /\ sent \in Seq(Sendings)
    /\ lost \subseteq Frames
    /\ idle \in BOOLEAN
    /\ owed \in {"no", "yes", "passed"}

ClientTyped ==
    /\ starts \in 0..MaxStarts
    /\ frames \in 0..MaxFrames
    /\ stream \in 0..MaxReattaches
    /\ top \in 0..MaxFrames
    /\ dropped \subseteq Frames
    /\ hooked \subseteq Backends
    /\ gauge \in Int
    /\ cause \in {"none", "fault", "proxy"}

Typed == AudioTyped /\ ClientTyped

\* d is a decoder in use: its formats are real ones.
InUse(d) == d \in Decoders /\ d.in \in InputFormats /\ d.out \in Formats

LEMMA DecoderFields ==
    ASSUME NEW d \in Decoders
    PROVE  d.gen \in Nat /\ d.last \in Nat /\ "last" \in DOMAIN d
BY DEF Decoders, NoDecoder

LEMMA ReadyInUse ==
    ASSUME IInv, AudioTyped, dstat = "ready"
    PROVE  InUse(decoder) /\ decoder.in = inFmt /\ decoder.out = desired
BY DesiredType DEF IInv, Generations, DecoderFits, AudioTyped, InUse

LEMMA AdvanceTyped ==
    ASSUME NEW d, InUse(d), NEW q \in Seq(Frames)
    PROVE  /\ InUse(Advance(d, q)) /\ Advance(d, q).gen = d.gen
           /\ Advance(d, q).in = d.in /\ Advance(d, q).out = d.out
<1>1. d.gen \in Nat /\ d.last \in Nat /\ "last" \in DOMAIN d  BY DecoderFields DEF InUse
<1>2. Advance(d, q).last \in Nat  BY <1>1, AdvanceYields
<1>3. Advance(d, q) = [d EXCEPT !.last = Advance(d, q).last]  BY <1>1 DEF Advance
<1>4. DOMAIN d = {"in", "out", "gen", "last"}  BY DEF InUse, Decoders, NoDecoder
<1>5. d = [in |-> d.in, out |-> d.out, gen |-> d.gen, last |-> d.last]
      BY DEF InUse, Decoders, NoDecoder
<1>6. Advance(d, q) = [in |-> d.in, out |-> d.out, gen |-> d.gen, last |-> Advance(d, q).last]
      BY <1>3, <1>5
<1> QED  BY <1>1, <1>2, <1>6 DEF InUse, Decoders

LEMMA RefusedTyped ==
    ASSUME NEW q \in Seq(Frames), NEW d
    PROVE  Refused(d, q) \subseteq Frames
BY LenProperties, ElementOfSeq DEF Refused

\* What is sent when the chunks of new are handed to backend b.
LEMMA SentAfter ==
    ASSUME sent \in Seq(Sendings), NEW new \in Seq(Chunks), NEW b \in Backends,
           sent' = sent \o To(new, b)
    PROVE  /\ sent' \in Seq(Sendings)
           /\ Len(sent) \in Nat /\ Len(new) \in Nat /\ Len(sent') = Len(sent) + Len(new)
           /\ DOMAIN sent = 1..Len(sent) /\ DOMAIN sent' = 1..Len(sent') /\ DOMAIN new = 1..Len(new)
           /\ \A i \in DOMAIN sent : sent'[i] = sent[i] /\ sent[i] \in Sendings
           /\ \A i \in DOMAIN sent' : i > Len(sent) =>
                /\ i - Len(sent) \in DOMAIN new
                /\ sent'[i].audio = new[i - Len(sent)] /\ sent'[i].to = b
<1>1. /\ To(new, b) \in Seq(Sendings) /\ Len(To(new, b)) = Len(new) /\ DOMAIN new = 1..Len(new)
      /\ \A i \in 1..Len(new) : To(new, b)[i].audio = new[i] /\ To(new, b)[i].to = b
      BY ToYields DEF Sendings
<1>2. Len(sent) \in Nat /\ Len(new) \in Nat /\ DOMAIN sent = 1..Len(sent)
      BY LenProperties
<1>3. /\ sent' \in Seq(Sendings) /\ Len(sent') = Len(sent) + Len(new)
      /\ \A i \in 1..(Len(sent) + Len(new)) :
           sent'[i] = IF i <= Len(sent) THEN sent[i] ELSE To(new, b)[i - Len(sent)]
  <2> DEFINE T == To(new, b)
  <2>1. T \in Seq(Sendings) /\ Len(T) = Len(new)  BY <1>1
  <2> HIDE DEF T
  <2>2. /\ sent \o T \in Seq(Sendings)
        /\ Len(sent \o T) = Len(sent) + Len(T)
        /\ \A i \in 1..(Len(sent) + Len(T)) :
             (sent \o T)[i] = IF i <= Len(sent) THEN sent[i] ELSE T[i - Len(sent)]
        BY <2>1, ConcatProperties
  <2> QED  BY <2>1, <2>2 DEF T
<1>4. DOMAIN sent' = 1..Len(sent')  BY <1>3, LenProperties
<1>5. \A i \in DOMAIN sent : sent'[i] = sent[i] /\ sent[i] \in Sendings
      BY <1>2, <1>3, ElementOfSeq
<1>6. ASSUME NEW i \in DOMAIN sent', i > Len(sent)
      PROVE  i - Len(sent) \in 1..Len(new) /\ sent'[i] = To(new, b)[i - Len(sent)]
      BY <1>2, <1>3, <1>4, <1>6
<1> QED  BY <1>1, <1>2, <1>3, <1>4, <1>5, <1>6

\* The chunks of a flush: the decoded ones, then those that waited.
LEMMA ChunksJoined ==
    ASSUME NEW s \in Seq(Chunks), NEW t \in Seq(Chunks)
    PROVE  /\ s \o t \in Seq(Chunks)
           /\ DOMAIN s = 1..Len(s) /\ DOMAIN t = 1..Len(t) /\ Len(s) \in Nat /\ Len(t) \in Nat
           /\ DOMAIN (s \o t) = 1..(Len(s) + Len(t)) /\ Len(s \o t) = Len(s) + Len(t)
           /\ \A i \in DOMAIN s : (s \o t)[i] = s[i]
           /\ \A i \in DOMAIN (s \o t) : i > Len(s) =>
                i - Len(s) \in DOMAIN t /\ (s \o t)[i] = t[i - Len(s)]
<1>1. DOMAIN s = 1..Len(s) /\ DOMAIN t = 1..Len(t) /\ Len(s) \in Nat /\ Len(t) \in Nat
      BY LenProperties
<1>2. /\ s \o t \in Seq(Chunks) /\ Len(s \o t) = Len(s) + Len(t)
      /\ \A i \in 1..(Len(s) + Len(t)) : (s \o t)[i] = IF i <= Len(s) THEN s[i] ELSE t[i - Len(s)]
      BY ConcatProperties
<1>3. DOMAIN (s \o t) = 1..(Len(s) + Len(t))  BY <1>2, LenProperties
<1>4. ASSUME NEW i \in DOMAIN (s \o t), i > Len(s)
      PROVE  i - Len(s) \in 1..Len(t) /\ (s \o t)[i] = t[i - Len(s)]
      BY <1>1, <1>2, <1>3, <1>4
<1> QED  BY <1>1, <1>2, <1>3, <1>4

LEMMA FlushTyped ==
    ASSUME AudioTyped, NEW d, InUse(d), NEW b \in Backends, Flush(d, b)
    PROVE  AudioTyped'
<1> DEFINE new == Decode(pin, d) \o pau
<1>1. d.gen \in Nat  BY DecoderFields DEF InUse
<1>2. Decode(pin, d) \in Seq(Chunks)  BY <1>1, DecodeYields DEF InUse, AudioTyped
<1>3. new \in Seq(Chunks)  BY <1>2, ChunksJoined DEF AudioTyped
<1>4. sent' \in Seq(Sendings)  BY <1>3, SentAfter DEF Flush, AudioTyped
<1>5. decoder' \in Decoders  BY AdvanceTyped DEF Flush, AudioTyped, InUse
<1>6. lost' \subseteq Frames  BY RefusedTyped DEF Flush, AudioTyped
<1>7. recov' \in 0..MaxRecoveries
      BY BoundAssumption DEF Flush, AudioTyped, AfterSending
<1>9. idle' \in BOOLEAN /\ owed' \in {"no", "yes", "passed"}
      BY DEF Flush, AudioTyped, ResetIdleTimer
<1>8. pin' \in Seq(Frames) /\ pau' \in Seq(Chunks)  BY EmptySeq DEF Flush
<1> QED  BY <1>4, <1>5, <1>6, <1>7, <1>8, <1>9 DEF AudioTyped

LEMMA FlushIfReadyTyped ==
    ASSUME IInv, AudioTyped, Wiring, ~isClosed, FlushIfReady
    PROVE  AudioTyped'
<1>1. cur \in Backends  BY CallsTyped DEF Wiring, BackendsTyped, NoBackend, Backends
<1>2. CASE dstat = "ready"  BY <1>1, <1>2, ReadyInUse, FlushTyped DEF FlushIfReady
<1>3. CASE dstat # "ready"  BY <1>3 DEF FlushIfReady, audio, AudioTyped
<1> QED  BY <1>2, <1>3

LEMMA DecoderReadyTyped ==
    ASSUME IInv, AudioTyped, Wiring, NEW t \in tasks, DecoderReady(t)
    PROVE  AudioTyped'
<1>1. CASE UNCHANGED audio  BY <1>1 DEF audio, AudioTyped
<1> DEFINE d == [in |-> t.in, out |-> t.out, gen |-> t.gen, last |-> 0]
<1>2. InUse(d)
  <2>1. t \in Tasks  BY CallsTyped
  <2> QED  BY <2>1 DEF Tasks, InUse, Decoders
<1>3. CASE cur # NoBackend /\ Flush(d, cur)
  <2>1. cur \in Backends  BY <1>3, CallsTyped DEF NoBackend, Backends
  <2> HIDE DEF d
  <2> QED  BY <1>2, <1>3, <2>1, FlushTyped
<1>4. CASE decoder' = d /\ UNCHANGED <<recov, pin, pau, sent, lost, idle, owed>>
      BY <1>2, <1>4 DEF AudioTyped, InUse
<1> QED  BY <1>1, <1>3, <1>4 DEF DecoderReady

LEMMA DoCloseTyped ==
    ASSUME AudioTyped, ClientTyped, NEW st, NEW g \in Int, NEW c, DoClose(st, g, c),
           UNCHANGED <<recov, pin, pau, sent, lost, client>>, cause' \in {"none", "fault", "proxy"}
    PROVE  Typed'
<1>1. gauge' \in Int /\ hooked' \subseteq Backends  BY DEF DoClose, ClientTyped, Uncount
<1>2. ClientTyped'  BY <1>1 DEF ClientTyped, client
<1>3. AudioTyped'  BY DEF DoClose, AudioTyped, Decoders
<1> QED  BY <1>2, <1>3 DEF Typed

LEMMA OnErrorTyped ==
    ASSUME IInv, AudioTyped, ClientTyped, NEW st, NEW r, NEW ts, OnError(st, r, ts),
           UNCHANGED <<pin, pau, sent, lost, client>>, cause' = "fault"
    PROVE  Typed'
<1>1. CASE /\ Recovers(r) /\ recov' = recov + 1 /\ ReconnectBackend(st, desired)
           /\ UNCHANGED <<isClosed, dstat, decoder>>
  <2>1. recov' \in 0..MaxRecoveries
        BY <1>1, BoundAssumption DEF Recovers, WithinBudget, AudioTyped
  <2>2. nb + 1 \in Backends  BY <1>1, CallsTyped, BoundAssumption DEF ReconnectBackend, Backends
  <2>3. hooked' \subseteq Backends /\ gauge' \in Int /\ owed' \in {"no", "yes", "passed"} /\ idle' = idle
        BY <1>1, <2>2 DEF ReconnectBackend, Uncount, ClientTyped
  <2> QED  BY <1>1, <2>1, <2>3 DEF Typed, AudioTyped, ClientTyped, client
<1>2. CASE DoClose(st, gauge, cur) /\ UNCHANGED recov
      BY <1>2, DoCloseTyped DEF ClientTyped
<1> QED  BY <1>1, <1>2 DEF OnError

LEMMA StartEventTyped ==
    ASSUME IInv, AudioTyped, ClientTyped, NEW f \in InputFormats, StartEvent(f)
    PROVE  Typed'
<1>1. /\ starts' \in 0..MaxStarts /\ pin' = <<>> /\ pau' = <<>> /\ decoder' = NoDecoder
      /\ UNCHANGED <<recov, sent, lost, frames, stream, top, dropped, cause>>
      BY BoundAssumption DEF StartEvent, ClientTyped, DropQueues
<1>2. pin' \in Seq(Frames) /\ pau' \in Seq(Chunks) /\ decoder' \in Decoders
      BY <1>1, EmptySeq DEF Decoders
<1>3. CASE UNCHANGED <<hooked, gauge, idle, owed>>
      BY <1>1, <1>2, <1>3 DEF Typed, AudioTyped, ClientTyped
<1>4. CASE ReconnectBackend(bstat, Desired[f])
  <2>1. nb + 1 \in Backends  BY <1>4, CallsTyped, BoundAssumption DEF ReconnectBackend, Backends
  <2>2. hooked' \subseteq Backends /\ gauge' \in Int /\ owed' \in {"no", "yes", "passed"} /\ idle' = idle
        BY <1>4, <2>1 DEF ReconnectBackend, Uncount, ClientTyped
  <2> QED  BY <1>1, <1>2, <2>2 DEF Typed, AudioTyped, ClientTyped
<1> QED  BY <1>3, <1>4 DEF StartEvent

\* The frame of a media event.
Arriving(n) == [stream |-> stream, n |-> n, fmt |-> inFmt, late |-> n <= top]

LEMMA ArrivingTyped ==
    ASSUME IInv, ClientTyped, NEW n \in 1..MaxFrames
    PROVE  /\ Arriving(n) \in Frames /\ <<Arriving(n)>> \in Seq(Frames)
           /\ Len(<<Arriving(n)>>) = 1 /\ <<Arriving(n)>>[1] = Arriving(n)
BY DEF IInv, Generations, ClientTyped, Arriving, Frames

LEMMA MediaTyped ==
    ASSUME IInv, AllOvertaken, AudioTyped, ClientTyped, Wiring, NEW n \in 1..MaxFrames, Media(n)
    PROVE  Typed'
<1> DEFINE q == <<Arriving(n)>>
           chunk == Decode(q, decoder)
<1>1. q \in Seq(Frames) /\ Arriving(n) \in Frames  BY ArrivingTyped
<1>2. dropped' \subseteq Frames => ClientTyped'
      BY BoundAssumption DEF Media, ClientTyped, control
<1>3. CASE /\ pin' = Append(pin, Arriving(n))
           /\ UNCHANGED <<decoder, recov, pau, sent, lost, idle, owed, dropped>>
  <2>1. pin' \in Seq(Frames)  BY <1>1, <1>3 DEF AudioTyped
  <2>2. dropped' \subseteq Frames  BY <1>3 DEF ClientTyped
  <2> QED  BY <1>2, <1>3, <2>1, <2>2 DEF AudioTyped, Typed
<1>4. CASE /\ dstat = "ready"
           /\ decoder' = Advance(decoder, q)
           /\ lost' = lost \cup Refused(decoder, q)
           /\ \/ /\ sent' = sent \o To(chunk, cur)
                 /\ recov' = AfterSending(chunk)
                 /\ ResetIdleTimer(chunk)
                 /\ UNCHANGED <<pau, dropped>>
              \/ /\ dropped' = dropped \cup {chunk[i].frame : i \in DOMAIN chunk}
                 /\ recov' = AfterSending(chunk)
                 /\ idle' = (idle \/ chunk # <<>>)
                 /\ UNCHANGED <<pau, sent, owed>>
              \/ pau' = pau \o chunk /\ UNCHANGED <<recov, sent, idle, owed, dropped>>
              \/ UNCHANGED <<recov, pau, sent, idle, owed, dropped>>
           /\ UNCHANGED pin
  <2>1. InUse(decoder)  BY <1>4, ReadyInUse
  <2>2. decoder.gen \in Nat  BY <2>1, DecoderFields DEF InUse
  <2>3. chunk \in Seq(Chunks)  BY <1>1, <2>1, <2>2, DecodeYields DEF InUse
  <2>4. cur \in Backends  BY CallsTyped DEF Media, Wiring, BackendsTyped, NoBackend, Backends
  <2>5. decoder' \in Decoders  BY <1>1, <1>4, <2>1, AdvanceTyped DEF InUse
  <2>6. lost' \subseteq Frames  BY <1>1, <1>4, RefusedTyped DEF AudioTyped
  <2> HIDE DEF chunk, q
  <2>7. sent' \in Seq(Sendings)
    <3>1. sent \in Seq(Sendings)  BY DEF AudioTyped
    <3>2. sent \o To(chunk, cur) \in Seq(Sendings)
          BY <2>3, <2>4, <3>1, ToYields, ConcatProperties DEF Sendings
    <3> QED  BY <1>4, <3>1, <3>2
  <2>8. pau' \in Seq(Chunks)
    <3>1. pau \in Seq(Chunks)  BY DEF AudioTyped
    <3>2. pau \o chunk \in Seq(Chunks)  BY <2>3, <3>1, ConcatProperties
    <3> QED  BY <1>4, <3>1, <3>2
  <2>9. recov' \in 0..MaxRecoveries  BY <1>4, BoundAssumption DEF AfterSending, AudioTyped
  <2>10. idle' \in BOOLEAN /\ owed' \in {"no", "yes", "passed"}
         BY <1>4 DEF ResetIdleTimer, AudioTyped
  <2>11. dropped' \subseteq Frames
    <3>1. \A i \in DOMAIN chunk : chunk[i] \in Chunks  BY <2>3
    <3>2. \A i \in DOMAIN chunk : chunk[i].frame \in Frames  BY <3>1 DEF Chunks
    <3> QED  BY <1>4, <3>2 DEF ClientTyped
  <2> QED  BY <1>2, <1>4, <2>5, <2>6, <2>7, <2>8, <2>9, <2>10, <2>11
           DEF AudioTyped, Typed
<1> QED  BY <1>3, <1>4 DEF Media, Arriving

LEMMA TypedStep == IInv /\ AllOvertaken /\ Wiring /\ Typed /\ [Next]_vars => Typed'
<1> SUFFICES ASSUME IInv, AllOvertaken, Wiring, Typed, [Next]_vars PROVE Typed'  OBVIOUS
<1>0. AudioTyped /\ ClientTyped /\ gauge \in Int /\ gauge - 1 \in Int  BY DEF Typed, ClientTyped
<1>1. ASSUME NEW t \in tasks, DecoderReady(t) PROVE Typed'
  <2>1. AudioTyped'  BY <1>0, <1>1, DecoderReadyTyped
  <2>2. hooked' \subseteq Backends
    <3>1. CASE hooked' = hooked  BY <1>0, <3>1 DEF ClientTyped
    <3>2. CASE ~isClosed /\ hooked' = hooked \cup {cur}
      <4>1. cur \in Backends  BY <3>2, CallsTyped DEF Wiring, BackendsTyped, NoBackend, Backends
      <4> QED  BY <1>0, <3>2, <4>1 DEF ClientTyped
    <3> QED  BY <1>1, <3>1, <3>2 DEF DecoderReady
  <2> QED  BY <1>0, <1>1, <2>1, <2>2 DEF DecoderReady, Typed, ClientTyped, history, client
<1>2. ASSUME NEW t \in tasks, InitConnected(t) PROVE Typed'
  <2>1. AudioTyped'
        BY <1>0, <1>2, FlushIfReadyTyped DEF InitConnected, audio, AudioTyped
  <2> QED  BY <1>0, <1>2, <2>1 DEF InitConnected, Typed, ClientTyped, history, client
<1>3. ASSUME NEW t \in tasks, InitFailed(t) PROVE Typed'
  <2>1. CASE isClosed
        BY <1>0, <1>3, <2>1 DEF InitFailed, history, client, ClientTyped, Typed, AudioTyped
  <2>2. CASE ~isClosed
        BY <1>0, <1>3, <2>2, DoCloseTyped DEF InitFailed, history, client, ClientTyped
  <2> QED  BY <2>1, <2>2
<1>4. ASSUME NEW t \in tasks, Reconnected(t) PROVE Typed'
  <2>1. AudioTyped'
        BY <1>0, <1>4, FlushIfReadyTyped DEF Reconnected, audio, AudioTyped
  <2>2. hooked' \subseteq Backends /\ gauge' \in Int
        BY <1>0, <1>4 DEF Reconnected, Uncount, ClientTyped
  <2> QED  BY <1>0, <1>4, <2>1, <2>2 DEF Reconnected, Typed, ClientTyped, history, client
<1>5. ASSUME NEW t \in tasks, ReconnectFailed(t) PROVE Typed'
  <2>1. CASE ~Current(t)
        BY <1>0, <1>5, <2>1 DEF ReconnectFailed, history, client, ClientTyped, Typed, AudioTyped
  <2>2. CASE Current(t)
        BY <1>0, <1>5, <2>2, DoCloseTyped DEF ReconnectFailed, history, client, ClientTyped
  <2> QED  BY <2>1, <2>2
<1>6. CASE Resume  BY <1>1, <1>2, <1>3, <1>4, <1>5, <1>6 DEF Resume
<1>7. ASSUME UNCHANGED <<audio, hooked, gauge, history>>  PROVE Typed'
      BY <1>0, <1>7 DEF audio, history, client, Typed, AudioTyped, ClientTyped
<1>8. ASSUME NEW t \in tasks, BackendOpens(t) \/ ConnectAborted(t)  PROVE Typed'
      BY <1>7, <1>8 DEF BackendOpens, ConnectAborted
<1>9. ASSUME NEW t \in tasks, BackendFailsToConnect(t) PROVE Typed'
      BY <1>0, <1>9, OnErrorTyped DEF BackendFailsToConnect
<1>10. CASE ConnectSettles  BY <1>8, <1>9, <1>10 DEF ConnectSettles
<1>11. ASSUME NEW t \in tasks, DecoderFails(t) PROVE Typed'
  <2>1. CASE \E c : DoClose(bstat, gauge, c)
        BY <1>0, <1>11, <2>1, DoCloseTyped DEF DecoderFails
  <2>2. CASE UNCHANGED <<decoder, hooked, gauge, idle, owed>>
        BY <1>0, <1>11, <2>2 DEF DecoderFails, client, ClientTyped, Typed, AudioTyped
  <2> QED  BY <1>11, <2>1, <2>2 DEF DecoderFails
<1>12. ASSUME NEW r, StreamError(r) PROVE Typed'
       BY <1>0, <1>12, OnErrorTyped DEF StreamError
<1>13. ASSUME NEW b, BackendCloses(b) PROVE Typed'
       BY <1>0, <1>13, DoCloseTyped DEF BackendCloses
<1>14. CASE Close  BY <1>0, <1>14, DoCloseTyped DEF Close
<1>15. ASSUME NEW all, FinalTranscript(all)  PROVE Typed'
       BY <1>0, <1>15 DEF FinalTranscript, control, history, client, Typed, AudioTyped, ClientTyped
<1>16. CASE IdleTimer
       BY <1>0, <1>16 DEF IdleTimer, IdleCommit, control, history, client, Typed, AudioTyped, ClientTyped
<1>17. CASE ResetChunkTracking
  <2>1. decoder' \in Decoders
    <3>1. decoder = [in |-> decoder.in, out |-> decoder.out, gen |-> decoder.gen, last |-> decoder.last]
          BY <1>0 DEF AudioTyped, Decoders, NoDecoder
    <3>2. decoder' = [in |-> decoder.in, out |-> decoder.out, gen |-> decoder.gen, last |-> 0]
          BY <1>17, <3>1 DEF ResetChunkTracking
    <3> QED  BY <1>0, <3>2 DEF AudioTyped, Decoders, NoDecoder
  <2> QED  BY <1>0, <1>17, <2>1, BoundAssumption DEF ResetChunkTracking, control, client, Typed, AudioTyped, ClientTyped
<1>18. CASE Event
       BY <1>0, <1>11, <1>12, <1>13, <1>14, <1>15, <1>17, <1>18, MediaTyped, StartEventTyped DEF Event
<1>19. CASE UNCHANGED vars  BY <1>7, <1>19 DEF vars, control
<1> QED  BY <1>6, <1>10, <1>16, <1>18, <1>19 DEF Next

LEMMA InitTyped == Init => Typed
<1> SUFFICES ASSUME Init PROVE Typed  OBVIOUS
<1>1. pin \in Seq(Frames) /\ pau \in Seq(Chunks) /\ sent \in Seq(Sendings)  BY EmptySeq DEF Init
<1>2. decoder \in Decoders  BY DEF Init, Decoders
<1>3. AudioTyped
  <2>1. recov \in 0..MaxRecoveries /\ lost \subseteq Frames  BY BoundAssumption DEF Init
  <2>2. idle \in BOOLEAN /\ owed \in {"no", "yes", "passed"}  BY DEF Init
  <2> QED  BY <1>1, <1>2, <2>1, <2>2 DEF AudioTyped
<1>4. ClientTyped  BY BoundAssumption DEF Init, ClientTyped
<1> QED  BY <1>3, <1>4 DEF Typed

(* Transcribe's backend before it is told to connect.                        *)

\* Until its first decoder is there nothing has connected, so nothing recovers, and that
\* decoder is the only one awaited until the client changes its format.
BeforeConnect == Provider = "aws" /\ ~TakesAudio =>
    /\ recov = 0
    /\ \A t \in tasks : t.at = "decoder"
    /\ \A b \in Backends : bstat[b] # "connected"
    /\ \A t, u \in tasks : t.kind = "initReinit" /\ u.kind = "initReinit" => t = u
    /\ starts = 0 => dstat # "ready" /\ \A t \in tasks : t.kind = "initReinit"

LEMMA InitBeforeConnect == Init => BeforeConnect
<1> SUFFICES ASSUME Init PROVE BeforeConnect  OBVIOUS
<1>1. tasks = {Task("initReinit", "decoder", 1, NoBackend, inFmt, Desired[inFmt])}  BY DEF Init
<1>2. \A t \in tasks : t.kind = "initReinit" /\ t.at = "decoder"  BY <1>1 DEF Task
<1> QED  BY <1>1, <1>2 DEF Init, BeforeConnect

\* Steps that connect nothing and start no call but a reinitializeDecoder.
LEMMA StillBeforeConnect ==
    ASSUME BeforeConnect, UNCHANGED profile, recov' \in {0, recov},
           \A u \in tasks' : u \in tasks \/ (u.kind = "reinit" /\ u.at = "decoder" /\ starts' # 0),
           starts' = 0 => starts = 0 /\ (dstat' = "ready" => dstat = "ready"),
           \A b \in Backends : bstat'[b] = "connected" => bstat[b] = "connected"
    PROVE  BeforeConnect'
<1> SUFFICES ASSUME Provider = "aws", NEW w \in tasks', w.kind = "initReinit" PROVE BeforeConnect'
    BY DEF BeforeConnect, TakesAudio, Provider
<1>1. w \in tasks  OBVIOUS
<1>2. /\ recov = 0
      /\ \A t \in tasks : t.at = "decoder"
      /\ \A b \in Backends : bstat[b] # "connected"
      /\ \A t, u \in tasks : t.kind = "initReinit" /\ u.kind = "initReinit" => t = u
      /\ starts = 0 => dstat # "ready" /\ \A t \in tasks : t.kind = "initReinit"
      BY <1>1 DEF BeforeConnect, TakesAudio
<1>3. recov' = 0 /\ \A t \in tasks' : t.at = "decoder"  BY <1>2
<1>4. \A t, u \in tasks' : t.kind = "initReinit" /\ u.kind = "initReinit" => t = u  BY <1>2
<1>5. starts' = 0 => dstat' # "ready" /\ \A t \in tasks' : t.kind = "initReinit"  BY <1>2
<1> QED  BY <1>2, <1>3, <1>4, <1>5 DEF BeforeConnect

\* A call that is past its decoder goes on: then the first decoder has come already.
LEMMA AfterConnect ==
    ASSUME BeforeConnect, UNCHANGED profile,
           (\E t \in tasks : t.at # "decoder") \/ (\E b \in Backends : bstat[b] = "connected"),
           \A u \in tasks' : u.kind = "initReinit" => \E v \in tasks : v.kind = "initReinit"
    PROVE  BeforeConnect'
BY DEF BeforeConnect, TakesAudio, Provider

LEMMA DoCloseBeforeConnect ==
    ASSUME Wiring, NEW c \in 0..MaxBackends, DoClose(bstat, gauge, c)
    PROVE  /\ dstat' # "ready"
           /\ \A b \in Backends : bstat'[b] = "connected" => bstat[b] = "connected"
BY DEF Wiring, BackendsTyped, DoClose

LEMMA OnErrorCalls ==
    ASSUME NEW st, NEW rec, NEW ts, OnError(st, rec, ts), NEW u \in tasks'
    PROVE  u \in ts \/ u.kind = "recover"
BY DEF OnError, Task

LEMMA SettledKind ==
    ASSUME IInv, NEW t \in tasks, NEW how \in {"resolved", "rejected"}, NEW u \in Settle(t, how)
    PROVE  u \in tasks \/ u.kind = t.kind
<1>1. t \in Tasks  BY DEF IInv, Generations, WorksFor
<1> QED  BY <1>1 DEF Settle, Tasks

LEMMA BeforeConnectStep == IInv /\ Wiring /\ Typed /\ BeforeConnect /\ [Next]_vars => BeforeConnect'
<1> SUFFICES ASSUME IInv, Wiring, Typed, BeforeConnect, [Next]_vars PROVE BeforeConnect'  OBVIOUS
<1>0. /\ UNCHANGED profile /\ cur \in 0..MaxBackends
      /\ NoBackend \in 0..MaxBackends
      BY BoundAssumption DEF Next, Resume, ConnectSettles, Event, IdleTimer, vars, IInv, Generations, NoBackend
<1>1. ASSUME NEW t \in tasks, DecoderReady(t)  PROVE BeforeConnect'
  <2>1. /\ t.at = "decoder" /\ UNCHANGED <<bstat, starts>>
        /\ \/ t.kind = "initReinit" /\ tasks' \subseteq (tasks \ {t}) \cup {Task("init", "connecting", t.gen, cur, t.in, t.out)}
           \/ tasks' = tasks \ {t}
        BY <1>1 DEF DecoderReady, history, client
  <2>2. CASE t.kind = "initReinit"
    <3>1. ASSUME Provider = "aws", ~TakesAudio' PROVE FALSE
      <4>1. PICK u \in tasks' : u.kind = "initReinit"  BY <3>1 DEF TakesAudio
      <4>2. u \in tasks \ {t}  BY <2>1, <4>1 DEF Task
      <4> QED  BY <2>2, <3>1, <4>1, <4>2 DEF BeforeConnect, TakesAudio
    <3> QED  BY <1>0, <3>1 DEF BeforeConnect, Provider
  <2>3. CASE t.kind # "initReinit"
    <3>1. tasks' = tasks \ {t}  BY <2>1, <2>3
    <3>2. SUFFICES ASSUME Provider = "aws", ~TakesAudio' PROVE BeforeConnect'
          BY <1>0 DEF BeforeConnect, Provider
    <3>3. ~TakesAudio  BY <3>1, <3>2 DEF TakesAudio
    <3>4. starts # 0 /\ \A b \in Backends : bstat[b] # "connected"
          BY <2>3, <3>2, <3>3 DEF BeforeConnect
    <3>5. ~(cur # NoBackend /\ bstat[cur] = "connected")  BY <1>0, <3>4 DEF Backends, NoBackend
    <3>6. recov' = recov  BY <1>1, <3>5 DEF DecoderReady, audio
    <3> QED  BY <1>0, <2>1, <3>1, <3>4, <3>6, StillBeforeConnect
  <2> QED  BY <2>2, <2>3
<1>2. ASSUME NEW t \in tasks, DecoderFails(t)  PROVE BeforeConnect'
  <2>1. /\ tasks' = tasks \ {t} /\ UNCHANGED <<recov, starts>>
        /\ \/ \E c \in {cur, NoBackend} : DoClose(bstat, gauge, c)
           \/ UNCHANGED <<dstat, bstat>>
        BY <1>2 DEF DecoderFails, client
  <2> QED  BY <1>0, <2>1, DoCloseBeforeConnect, StillBeforeConnect
<1>3. ASSUME NEW t \in tasks,
             \/ InitConnected(t) \/ InitFailed(t) \/ Reconnected(t) \/ ReconnectFailed(t)
      PROVE  BeforeConnect'
  <2>1. t.at # "decoder"  BY <1>3 DEF InitConnected, InitFailed, Reconnected, ReconnectFailed
  <2>2. \A u \in tasks' : u \in tasks \/ u.kind = "reinit"
        BY <1>3 DEF InitConnected, InitFailed, Reconnected, ReconnectFailed, Task
  <2> QED  BY <1>0, <2>1, <2>2, AfterConnect
<1>4. ASSUME NEW t \in tasks, BackendOpens(t) \/ BackendFailsToConnect(t) \/ ConnectAborted(t)
      PROVE  BeforeConnect'
  <2>1. t.at = "connecting"  BY <1>4 DEF BackendOpens, BackendFailsToConnect, ConnectAborted, Connecting
  <2>2. PICK how \in {"resolved", "rejected"} :
          \A u \in tasks' : u \in Settle(t, how) \/ u.kind = "recover"
        BY <1>4, OnErrorCalls DEF BackendOpens, BackendFailsToConnect, ConnectAborted
  <2>3. \A u \in tasks' : u \in tasks \/ u.kind \in {t.kind, "recover"}  BY <2>2, SettledKind
  <2> QED  BY <1>0, <2>1, <2>3, AfterConnect
<1>5. ASSUME NEW rec, StreamError(rec)  PROVE BeforeConnect'
  <2>1. cur \in Backends /\ bstat[cur] = "connected"
        BY <1>0, <1>5 DEF StreamError, NoBackend, Backends
  <2>2. \A u \in tasks' : u \in tasks \/ u.kind = "recover"  BY <1>5, OnErrorCalls DEF StreamError
  <2> QED  BY <1>0, <2>1, <2>2, AfterConnect
<1>6. ASSUME NEW b \in Backends, BackendCloses(b)  PROVE BeforeConnect'
      BY <1>0, <1>6 DEF BackendCloses, BeforeConnect, Provider
<1>7. ASSUME NEW f \in InputFormats, StartEvent(f)  PROVE BeforeConnect'
  <2>1. CASE Provider # "aws"  BY <1>0, <2>1 DEF BeforeConnect, Provider
  <2>2. CASE Provider = "aws"
    <3>1. Desired[f] = desired
          BY <2>2, AsyncAssumption DEF IInv, Generations, Provider, Desired
    <3>2. /\ tasks' = tasks \cup {Task("reinit", "decoder", gen + 1, NoBackend, f, Desired[f])}
          /\ starts' = starts + 1 /\ UNCHANGED <<bstat, recov>>
          BY <1>7, <3>1 DEF StartEvent
    <3>4. starts' # 0  BY <3>2 DEF Typed, ClientTyped
    <3>3. \A u \in tasks' : u \in tasks \/ (u.kind = "reinit" /\ u.at = "decoder")  BY <3>2 DEF Task
    <3> QED  BY <1>0, <3>2, <3>3, <3>4, StillBeforeConnect
  <2> QED  BY <2>1, <2>2
<1>8. ASSUME NEW n \in 1..MaxFrames, Media(n)  PROVE BeforeConnect'
  <2>1. UNCHANGED <<tasks, starts, dstat, bstat>>  BY <1>8 DEF Media, control
  <2>2. recov' \in {0, recov}  BY <1>8 DEF Media, AfterSending
  <2> QED  BY <1>0, <2>1, <2>2, StillBeforeConnect
<1>9. CASE Close
      BY <1>0, <1>9, DoCloseBeforeConnect, StillBeforeConnect DEF Close, client
<1>10. ASSUME UNCHANGED <<tasks, starts, dstat, bstat, recov>>  PROVE BeforeConnect'
       BY <1>0, <1>10, StillBeforeConnect
<1>11. CASE ResetChunkTracking \/ IdleTimer \/ UNCHANGED vars \/ \E all : FinalTranscript(all)
       BY <1>10, <1>11 DEF ResetChunkTracking, IdleTimer, IdleCommit, vars, audio, FinalTranscript,
          control, history, client
<1>12. CASE Resume  BY <1>1, <1>3, <1>12 DEF Resume
<1>13. CASE ConnectSettles  BY <1>4, <1>13 DEF ConnectSettles
<1>14. CASE Event  BY <1>2, <1>5, <1>6, <1>7, <1>8, <1>9, <1>11, <1>14 DEF Event
<1> QED  BY <1>11, <1>12, <1>13, <1>14 DEF Next

Sound == IInv /\ AllOvertaken /\ Wiring /\ Typed /\ BeforeConnect

LEMMA SoundInductive ==
    /\ Init => Sound
    /\ Sound /\ [Next]_vars => Sound'
<1>1. Init => AllOvertaken  BY DEF Init, AllOvertaken
<1> QED  BY <1>1, InitIInv, NextPreserves, OvertakenPreserved, InitWiring, WiringStep,
            InitTyped, TypedStep, InitBeforeConnect, BeforeConnectStep DEF Sound

\* Every variable holds a value of its kind.
THEOREM TypesHold == Spec => []TypeOK
<1>1. Sound => TypeOK
  <2> SUFFICES ASSUME Sound PROVE TypeOK  OBVIOUS
  <2>1. desired \in Formats /\ tasks \subseteq Tasks /\ dstat \in {"pending", "ready", "closed"}
        BY DesiredType DEF Sound, IInv, Generations, WorksFor, Wiring, BackendsTyped, AllOvertaken
  <2> QED  BY <2>1 DEF Sound, IInv, Generations, Wiring, BackendsTyped, Typed, AudioTyped,
                       ClientTyped, Sendings, TypeOK
<1> QED  BY <1>1, SoundInductive, PTL DEF Spec
-----------------------------------------------------------------------------
(* The formats of the audio.                                                 *)

Fits(c, fmt) == c.dec = c.frame.fmt /\ c.out = fmt

SentFits == \A i \in DOMAIN sent :
    sent[i].to <= nb /\ Fits(sent[i].audio, bfmt[sent[i].to])

QueuesFit == ~isClosed =>
    /\ \A i \in DOMAIN pin : pin[i].fmt = inFmt
    /\ \A i \in DOMAIN pau : Fits(pau[i], desired)
    /\ dstat = "pending" => pau = <<>>

\* What waits although it could be sent is about to be, by a call that resumes.
Flushed == ~isClosed /\ dstat = "ready" /\ bstat[cur] = "connected" =>
    (pin = <<>> /\ pau = <<>>) \/ \E t \in tasks : t.at = "resolved" /\ t.b = cur

Usable == SentFits /\ QueuesFit /\ Flushed

\* The decoder of the formats in force.
Fresh(d) == InUse(d) /\ d.in = inFmt /\ d.out = desired

LEMMA CurrentBackend ==
    ASSUME Sound, ~isClosed
    PROVE  cur \in Backends /\ cur \in 1..nb /\ cur # NoBackend /\ bfmt[cur] = desired
           /\ dstat \in {"pending", "ready"} /\ nb \in Backends
BY CallsTyped DEF Sound, Wiring, BackendsTyped, NoBackend, Backends

LEMMA SentItems ==
    ASSUME sent \in Seq(Sendings)
    PROVE  /\ DOMAIN sent = 1..Len(sent) /\ Len(sent) \in Nat
           /\ \A i \in DOMAIN sent : sent[i] \in Sendings /\ sent[i].to \in Backends /\ sent[i].audio \in Chunks
<1>1. DOMAIN sent = 1..Len(sent) /\ Len(sent) \in Nat  BY LenProperties
<1>2. \A i \in DOMAIN sent : sent[i] \in Sendings  BY <1>1, ElementOfSeq
<1> QED  BY <1>1, <1>2 DEF Sendings

LEMMA SendFits ==
    ASSUME Typed, SentFits, NEW new \in Seq(Chunks), NEW b \in Backends, b <= nb,
           \A k \in DOMAIN new : Fits(new[k], bfmt[b]),
           sent' = sent \o To(new, b), UNCHANGED <<bfmt, nb>>
    PROVE  SentFits'
<1>1. /\ Len(sent) \in Nat /\ DOMAIN sent = 1..Len(sent) /\ DOMAIN sent' = 1..Len(sent')
      /\ Len(sent') \in Nat
      /\ \A i \in DOMAIN sent : sent'[i] = sent[i]
      /\ \A i \in DOMAIN sent' : i > Len(sent) =>
           /\ i - Len(sent) \in DOMAIN new
           /\ sent'[i].audio = new[i - Len(sent)] /\ sent'[i].to = b
  <2>1. sent \in Seq(Sendings)  BY DEF Typed, AudioTyped
  <2>2. /\ sent' \in Seq(Sendings) /\ Len(sent') = Len(sent) + Len(new)
        /\ Len(sent) \in Nat /\ Len(new) \in Nat
        /\ DOMAIN sent = 1..Len(sent) /\ DOMAIN sent' = 1..Len(sent')
        /\ \A i \in DOMAIN sent : sent'[i] = sent[i]
        /\ \A i \in DOMAIN sent' : i > Len(sent) =>
             /\ i - Len(sent) \in DOMAIN new
             /\ sent'[i].audio = new[i - Len(sent)] /\ sent'[i].to = b
        BY <2>1, SentAfter
  <2> QED  BY <2>2
<1>2. ASSUME NEW i \in DOMAIN sent'
      PROVE  sent'[i].to <= nb /\ Fits(sent'[i].audio, bfmt[sent'[i].to])
  <2>1. CASE i > Len(sent)  BY <1>1, <2>1
  <2>2. CASE ~(i > Len(sent))
    <3>1. i \in DOMAIN sent  BY <1>1, <2>2
    <3> QED  BY <1>1, <3>1 DEF SentFits
  <2> QED  BY <2>1, <2>2
<1> QED  BY <1>2 DEF SentFits, Fits

\* The chunks a decoder makes of frames of its own format.
LEMMA DecodeFits ==
    ASSUME NEW q \in Seq(Frames), NEW d, Fresh(d), \A i \in DOMAIN q : q[i].fmt = inFmt
    PROVE  /\ Decode(q, d) \in Seq(Chunks)
           /\ \A k \in DOMAIN Decode(q, d) : Fits(Decode(q, d)[k], desired)
<1>1. d.gen \in Nat /\ d.in \in InputFormats /\ d.out \in Formats
      BY DecoderFields DEF Fresh, InUse
<1>2. Accepted(d, q) \subseteq DOMAIN q  BY DEF Accepted
<1> QED  BY <1>1, <1>2, DecodeYields DEF Fresh, Fits

LEMMA FlushFits ==
    ASSUME Sound, Usable, ~isClosed, NEW d, Fresh(d), Flush(d, cur), UNCHANGED <<bfmt, nb>>
    PROVE  SentFits' /\ pin' = <<>> /\ pau' = <<>>
<1> DEFINE D == Decode(pin, d)
           new == D \o pau
<1>1. D \in Seq(Chunks) /\ \A k \in DOMAIN D : Fits(D[k], desired)
      BY DecodeFits DEF Sound, Typed, AudioTyped, Usable, QueuesFit
<1>2. pau \in Seq(Chunks) /\ \A k \in DOMAIN pau : Fits(pau[k], desired)
      BY DEF Sound, Typed, AudioTyped, Usable, QueuesFit
<1>3. cur \in Backends /\ cur <= nb /\ bfmt[cur] = desired  BY CurrentBackend
<1>4. sent' = sent \o To(new, cur) /\ pin' = <<>> /\ pau' = <<>>  BY DEF Flush
<1> HIDE DEF D
<1>5. /\ new \in Seq(Chunks) /\ DOMAIN new = 1..(Len(D) + Len(pau))
      /\ DOMAIN D = 1..Len(D) /\ Len(D) \in Nat /\ Len(pau) \in Nat
      /\ \A i \in DOMAIN D : new[i] = D[i]
      /\ \A i \in DOMAIN new : i > Len(D) => i - Len(D) \in DOMAIN pau /\ new[i] = pau[i - Len(D)]
      BY <1>1, <1>2, ChunksJoined
<1> HIDE DEF new
<1>6. ASSUME NEW k \in DOMAIN new  PROVE Fits(new[k], bfmt[cur])
  <2>1. CASE k > Len(D)  BY <1>2, <1>3, <1>5, <2>1
  <2>2. CASE ~(k > Len(D))
    <3>1. k \in DOMAIN D  BY <1>5, <2>2
    <3> QED  BY <1>1, <1>3, <1>5, <3>1
  <2> QED  BY <2>1, <2>2
<1>7. SentFits'  BY <1>3, <1>4, <1>5, <1>6, SendFits DEF Sound, Usable
<1> QED  BY <1>4, <1>7

LEMMA ReadyFresh ==
    ASSUME Sound, dstat = "ready"
    PROVE  Fresh(decoder)
BY ReadyInUse DEF Sound, Typed, Fresh

\* A task that is still current loads the decoder of the formats in force.
LEMMA TaskFresh ==
    ASSUME Sound, NEW t \in tasks, Current(t)
    PROVE  Fresh([in |-> t.in, out |-> t.out, gen |-> t.gen, last |-> 0])
<1>1. t \in Tasks /\ t.in = inFmt /\ t.out = desired
      BY DEF Sound, IInv, Generations, WorksFor, Current
<1> QED  BY <1>1 DEF Fresh, InUse, Decoders, Tasks

\* Steps after which nothing waits.
LEMMA EmptiedUsable ==
    ASSUME SentFits', pin' = <<>>, pau' = <<>>
    PROVE  Usable'
BY DEF Usable, QueuesFit, Flushed

LEMMA FlushIfReadyUsable ==
    ASSUME Sound, Usable, ~isClosed, FlushIfReady,
           UNCHANGED <<isClosed, inFmt, desired, dstat, cur, nb, bfmt>>
    PROVE  Usable'
<1>1. CASE dstat = "ready"
  <2>1. Flush(decoder, cur)  BY <1>1 DEF FlushIfReady
  <2> QED  BY <1>1, <2>1, ReadyFresh, FlushFits, EmptiedUsable
<1>2. CASE dstat # "ready"
      BY <1>2 DEF FlushIfReady, audio, Usable, SentFits, QueuesFit, Flushed
<1> QED  BY <1>1, <1>2

\* Steps that touch no audio, and leave no way open to flush it.
LEMMA QuietUsable ==
    ASSUME Usable, UNCHANGED <<isClosed, inFmt, desired, dstat, cur, nb, bfmt, sent, pin, pau>>, Flushed'
    PROVE  Usable'
BY DEF Usable, SentFits, QueuesFit

LEMMA ClosingUsable ==
    ASSUME Usable, isClosed', UNCHANGED <<nb, bfmt, sent>>
    PROVE  Usable'
BY DEF Usable, SentFits, QueuesFit, Flushed

LEMMA NewBackendSentFits ==
    ASSUME Sound, SentFits, NEW st, NEW want, ReconnectBackend(st, want), sent' = sent
    PROVE  SentFits'
<1>1. /\ bfmt' = [bfmt EXCEPT ![nb + 1] = want] /\ nb' = nb + 1 /\ nb \in Nat
      /\ bfmt \in [Backends -> Formats]
      BY CallsTyped DEF ReconnectBackend, Sound, Wiring, BackendsTyped
<1>2. \A i \in DOMAIN sent : sent[i].to \in Backends
      BY SentItems DEF Sound, Typed, AudioTyped
<1>3. \A i \in DOMAIN sent : sent[i].to <= nb /\ bfmt'[sent[i].to] = bfmt[sent[i].to]
      BY <1>1, <1>2 DEF SentFits, Backends
<1> QED  BY <1>1, <1>2, <1>3 DEF SentFits, Backends

\* The new backend is connecting: nothing can be flushed to it yet.
LEMMA NewBackendPending ==
    ASSUME Sound, NEW st, NEW want, ReconnectBackend(st, want),
           st \in [Backends -> {"none", "pending", "connected", "failed", "closed"}]
    PROVE  bstat'[cur'] = "pending"
BY CallsTyped, BoundAssumption DEF ReconnectBackend, CloseOld, Sound, Backends

LEMMA OnErrorUsable ==
    ASSUME Sound, Usable, NEW st, NEW r, NEW ts, OnError(st, r, ts),
           st \in [Backends -> {"none", "pending", "connected", "failed", "closed"}],
           UNCHANGED <<inFmt, desired, pin, pau, sent>>
    PROVE  Usable'
<1>1. CASE Recovers(r) /\ ReconnectBackend(st, desired) /\ UNCHANGED <<isClosed, dstat>>
  <2>1. SentFits'  BY <1>1, NewBackendSentFits DEF Usable
  <2>2. bstat'[cur'] = "pending"  BY <1>1, NewBackendPending
  <2> QED  BY <1>1, <2>1, <2>2 DEF Usable, QueuesFit, Flushed
<1>2. CASE DoClose(st, gauge, cur)  BY <1>2, ClosingUsable DEF DoClose
<1> QED  BY <1>1, <1>2 DEF OnError

LEMMA MediaUsable ==
    ASSUME Sound, Usable, NEW n \in 1..MaxFrames, Media(n)
    PROVE  Usable'
<1> DEFINE q == <<Arriving(n)>>
           chunk == Decode(q, decoder)
<1>1. /\ q \in Seq(Frames) /\ Arriving(n) \in Frames /\ \A i \in DOMAIN q : q[i].fmt = inFmt
      /\ pin \in Seq(Frames) /\ pau \in Seq(Chunks)
      BY ArrivingTyped DEF Sound, Typed, AudioTyped, Arriving
<1>2. ~isClosed /\ UNCHANGED control /\ MicrotasksDone  BY DEF Media
<1>3. /\ cur \in Backends /\ cur <= nb /\ bfmt[cur] = desired
      /\ \A t \in tasks : t.at # "resolved"
      BY <1>2, CurrentBackend, NothingSettled
<1>4. UNCHANGED <<isClosed, inFmt, desired, dstat, cur, nb, bstat, bfmt, tasks>>
      BY <1>2 DEF control
<1>5. CASE dstat = "pending" /\ pin' = Append(pin, Arriving(n)) /\ UNCHANGED <<pau, sent>>
  <2>1. \A i \in DOMAIN pin' : pin'[i].fmt = inFmt
    <3>1. DOMAIN pin = 1..Len(pin) /\ Len(pin) \in Nat  BY <1>1, LenProperties
    <3>2. pin' \in Seq(Frames) /\ Len(pin') = Len(pin) + 1  BY <1>1, <1>5
    <3>3. DOMAIN pin' = 1..(Len(pin) + 1)  BY <3>2, LenProperties
    <3>4. \A i \in 1..(Len(pin) + 1) : pin'[i] = IF i = Len(pin) + 1 THEN Arriving(n) ELSE pin[i]
          BY <1>1, <1>5, <3>1
    <3> QED  BY <1>2, <3>1, <3>3, <3>4 DEF Usable, QueuesFit, Arriving
  <2> QED  BY <1>4, <1>5, <2>1 DEF Usable, SentFits, QueuesFit, Flushed
<1>6. CASE /\ dstat = "ready" /\ UNCHANGED pin
           /\ \/ bstat[cur] \in {"connected", "pending"} /\ sent' = sent \o To(chunk, cur) /\ UNCHANGED pau
              \/ bstat[cur] = "pending" /\ pau' = pau \o chunk /\ UNCHANGED sent
              \/ UNCHANGED <<pau, sent>>
  <2>1. chunk \in Seq(Chunks) /\ \A k \in DOMAIN chunk : Fits(chunk[k], desired)
        BY <1>1, <1>6, ReadyFresh, DecodeFits
  <2> HIDE DEF chunk, q
  <2>2. CASE sent' = sent \o To(chunk, cur) /\ UNCHANGED pau
    <3>1. SentFits'  BY <1>3, <1>4, <2>1, <2>2, SendFits DEF Sound, Usable
    <3> QED  BY <1>3, <1>4, <1>6, <2>2, <3>1 DEF Usable, QueuesFit, Flushed
  <2>3. CASE bstat[cur] = "pending" /\ pau' = pau \o chunk /\ UNCHANGED sent
    <3>1. /\ DOMAIN pau = 1..Len(pau) /\ DOMAIN (pau \o chunk) = 1..(Len(pau) + Len(chunk))
          /\ Len(pau) \in Nat /\ Len(chunk) \in Nat
          /\ \A i \in DOMAIN pau : (pau \o chunk)[i] = pau[i]
          /\ \A i \in DOMAIN (pau \o chunk) : i > Len(pau) =>
               i - Len(pau) \in DOMAIN chunk /\ (pau \o chunk)[i] = chunk[i - Len(pau)]
          BY <1>1, <2>1, ChunksJoined
    <3>2. ASSUME NEW i \in DOMAIN (pau \o chunk)  PROVE Fits((pau \o chunk)[i], desired)
      <4>1. CASE i > Len(pau)  BY <2>1, <3>1, <4>1
      <4>2. CASE ~(i > Len(pau))
        <5>1. i \in DOMAIN pau  BY <3>1, <4>2
        <5> QED  BY <1>2, <3>1, <5>1 DEF Usable, QueuesFit
      <4> QED  BY <4>1, <4>2
    <3> QED  BY <1>4, <1>6, <2>3, <3>2 DEF Usable, SentFits, QueuesFit, Flushed, Fits
  <2>4. CASE UNCHANGED <<pau, sent>>
        BY <1>4, <1>6, <2>4 DEF Usable, SentFits, QueuesFit, Flushed
  <2> QED  BY <1>6, <2>2, <2>3, <2>4
<1> QED  BY <1>5, <1>6 DEF Media, Arriving

LEMMA DecoderReadyUsable ==
    ASSUME Sound, Usable, NEW t \in tasks, DecoderReady(t)
    PROVE  Usable'
<1>1. /\ UNCHANGED <<isClosed, gen, inFmt, desired, cur, nb, bstat, bfmt>>
      /\ t.at = "decoder" /\ tasks \ {t} \subseteq tasks'
      BY DEF DecoderReady
<1>2. CASE UNCHANGED <<dstat, audio>>
  <2>1. Flushed'  BY <1>1, <1>2 DEF Usable, Flushed, audio
  <2> QED  BY <1>1, <1>2, <2>1, QuietUsable DEF audio
<1> DEFINE d == [in |-> t.in, out |-> t.out, gen |-> t.gen, last |-> 0]
<1>3. CASE Current(t) /\ Flush(d, cur)
  <2>1. ~isClosed
        BY <1>3, CallsTyped DEF Sound, AllOvertaken, Current
  <2>2. Fresh(d)  BY <1>3, TaskFresh
  <2> HIDE DEF d
  <2> QED  BY <1>1, <1>3, <2>1, <2>2, FlushFits, EmptiedUsable
<1>4. CASE /\ Current(t) /\ dstat' = "ready" /\ ~(cur # NoBackend /\ bstat[cur] = "connected")
           /\ UNCHANGED <<pin, pau, sent>>
  <2>1. ~isClosed /\ cur # NoBackend
        BY <1>4, CallsTyped, CurrentBackend DEF Sound, AllOvertaken, Current
  <2> QED  BY <1>1, <1>4, <2>1 DEF Usable, SentFits, QueuesFit, Flushed
<1> QED  BY <1>2, <1>3, <1>4 DEF DecoderReady

LEMMA ReconnectedUsable ==
    ASSUME Sound, Usable, NEW t \in tasks, Reconnected(t)
    PROVE  Usable'
<1>1. /\ UNCHANGED <<isClosed, gen, inFmt, desired, dstat, cur, nb, bfmt>>
      /\ t.kind \in {"recover", "reinit"} /\ t.at = "resolved" /\ tasks \ {t} \subseteq tasks'
      BY DEF Reconnected
<1>2. CASE isClosed /\ UNCHANGED audio
      BY <1>1, <1>2, ClosingUsable DEF audio
<1>3. CASE ~isClosed /\ bstat' = [bstat EXCEPT ![t.b] = "closed"] /\ UNCHANGED audio
  <2>1. cur \in Backends /\ bstat \in [Backends -> {"none", "pending", "connected", "failed", "closed"}]
        BY <1>3, CurrentBackend DEF Sound, Wiring, BackendsTyped
  <2>2. bstat'[cur] = "connected" => t.b # cur /\ bstat[cur] = "connected"
        BY <1>3, <2>1
  <2>3. Flushed'  BY <1>1, <1>3, <2>2 DEF Usable, Flushed, audio
  <2> QED  BY <1>1, <1>3, <2>3, QuietUsable DEF audio
<1>4. CASE ~isClosed /\ FlushIfReady
      BY <1>1, <1>4, FlushIfReadyUsable
<1>5. CASE ~isClosed /\ Current(t) /\ t.kind = "reinit" /\ UNCHANGED <<bstat, audio>>
  <2>1. dstat = "pending"
        BY <1>1, <1>5 DEF Sound, Wiring, CallsApart, Stage, Loading
  <2>2. Flushed'  BY <1>1, <2>1 DEF Flushed
  <2> QED  BY <1>1, <1>5, <2>2, QuietUsable DEF audio
<1> QED  BY <1>2, <1>3, <1>4, <1>5 DEF Reconnected

LEMMA StartEventUsable ==
    ASSUME Sound, Usable, NEW f \in InputFormats, StartEvent(f)
    PROVE  Usable'
<1>1. /\ pin' = <<>> /\ pau' = <<>> /\ UNCHANGED sent  BY DEF StartEvent, DropQueues
<1>2. CASE UNCHANGED <<nb, bfmt>>
      BY <1>1, <1>2, EmptiedUsable DEF Usable, SentFits
<1>3. CASE ReconnectBackend(bstat, Desired[f])
      BY <1>1, <1>3, NewBackendSentFits, EmptiedUsable DEF Usable
<1> QED  BY <1>2, <1>3 DEF StartEvent

LEMMA UsableStep == Sound /\ Usable /\ [Next]_vars => Usable'
<1> SUFFICES ASSUME Sound, Usable, [Next]_vars PROVE Usable'  OBVIOUS
<1>0. /\ bstat \in [Backends -> {"none", "pending", "connected", "failed", "closed"}]
      /\ \A b : [bstat EXCEPT ![b] = "failed"] \in [Backends -> {"none", "pending", "connected", "failed", "closed"}]
      BY DEF Sound, Wiring, BackendsTyped
<1>1. ASSUME NEW t \in tasks, InitConnected(t) PROVE Usable'
  <2>1. CASE isClosed  BY <1>1, <2>1, ClosingUsable DEF InitConnected, audio
  <2>2. CASE ~isClosed  BY <1>1, <2>2, FlushIfReadyUsable DEF InitConnected
  <2> QED  BY <2>1, <2>2
<1>2. ASSUME NEW t \in tasks, InitFailed(t) PROVE Usable'
      BY <1>2, ClosingUsable DEF InitFailed, DoClose
<1>3. ASSUME NEW t \in tasks, ReconnectFailed(t) PROVE Usable'
  <2>1. CASE Current(t)  BY <1>3, <2>1, ClosingUsable DEF ReconnectFailed, DoClose
  <2>2. CASE ~Current(t)
    <3>1. t.at = "rejected" /\ tasks' = tasks \ {t} /\ UNCHANGED <<bstat, isClosed, dstat, cur, pin, pau>>
          BY <1>3, <2>2 DEF ReconnectFailed
    <3>2. Flushed'  BY <3>1 DEF Usable, Flushed
    <3> QED  BY <1>3, <2>2, <3>2, QuietUsable DEF ReconnectFailed
  <2> QED  BY <2>1, <2>2
<1>4. CASE Resume
      BY <1>1, <1>2, <1>3, <1>4, DecoderReadyUsable, ReconnectedUsable DEF Resume
<1>5. ASSUME NEW t \in tasks, BackendOpens(t) PROVE Usable'
  <2>1. bstat' = [bstat EXCEPT ![t.b] = "connected"] /\ \A u \in tasks : u.at # "resolved"
        BY <1>5, NothingSettled DEF BackendOpens
  <2>2. t \in Tasks  BY CallsTyped DEF Sound
  <2>3. \E u \in tasks' : u.at = "resolved" /\ u.b = t.b
    <3>1. [t EXCEPT !.at = "resolved"] \in tasks'  BY <1>5 DEF BackendOpens, Settle
    <3>2. [t EXCEPT !.at = "resolved"].at = "resolved" /\ [t EXCEPT !.at = "resolved"].b = t.b
          BY <2>2 DEF Tasks
    <3> QED  BY <3>1, <3>2
  <2>4. UNCHANGED <<isClosed, inFmt, desired, dstat, cur, nb, bfmt, sent, pin, pau>>
        BY <1>5 DEF BackendOpens, audio
  <2>5. Flushed'
    <3>1. CASE t.b = cur  BY <2>3, <2>4, <3>1 DEF Flushed
    <3>2. CASE t.b # cur
      <4>1. ~isClosed => bstat'[cur] = bstat[cur]  BY <1>0, <2>1, <3>2, CurrentBackend
      <4> QED  BY <2>1, <2>4, <4>1 DEF Usable, Flushed
    <3> QED  BY <3>1, <3>2
  <2> QED  BY <2>4, <2>5, QuietUsable
<1>6. ASSUME NEW t \in tasks, BackendFailsToConnect(t) PROVE Usable'
      BY <1>0, <1>6, OnErrorUsable DEF BackendFailsToConnect
<1>7. ASSUME NEW t \in tasks, ConnectAborted(t) PROVE Usable'
  <2>1. UNCHANGED <<isClosed, inFmt, desired, dstat, cur, nb, bstat, bfmt, sent, pin, pau>>
        BY <1>7 DEF ConnectAborted, audio
  <2>2. Flushed'  BY <1>7, <2>1, NothingSettled DEF ConnectAborted, Usable, Flushed
  <2> QED  BY <2>1, <2>2, QuietUsable
<1>8. CASE ConnectSettles  BY <1>5, <1>6, <1>7, <1>8 DEF ConnectSettles
<1>9. ASSUME NEW t \in tasks, DecoderFails(t) PROVE Usable'
  <2>1. CASE \E c : DoClose(bstat, gauge, c)
        BY <1>9, <2>1, ClosingUsable DEF DecoderFails, DoClose
  <2>2. CASE UNCHANGED <<isClosed, dstat, cur, nb, bstat, bfmt>>
    <3>1. t.at = "decoder" /\ tasks' = tasks \ {t} /\ UNCHANGED <<pin, pau, sent, inFmt, desired>>
          BY <1>9 DEF DecoderFails
    <3>2. Flushed'  BY <2>2, <3>1 DEF Usable, Flushed
    <3> QED  BY <2>2, <3>1, <3>2, QuietUsable
  <2> QED  BY <1>9, <2>1, <2>2 DEF DecoderFails
<1>10. ASSUME NEW r, StreamError(r) PROVE Usable'
       BY <1>0, <1>10, OnErrorUsable DEF StreamError
<1>11. ASSUME NEW b, BackendCloses(b) PROVE Usable'
       BY <1>11, ClosingUsable DEF BackendCloses, DoClose
<1>12. CASE Close  BY <1>12, ClosingUsable DEF Close, DoClose
<1>13. ASSUME UNCHANGED <<control, pin, pau, sent>>  PROVE Usable'
       BY <1>13 DEF control, Usable, SentFits, QueuesFit, Flushed
<1>14. CASE ResetChunkTracking \/ IdleTimer \/ UNCHANGED vars \/ \E all : FinalTranscript(all)
       BY <1>13, <1>14 DEF ResetChunkTracking, IdleTimer, IdleCommit, vars, audio, FinalTranscript
<1>15. CASE Event
       BY <1>9, <1>10, <1>11, <1>12, <1>14, <1>15, StartEventUsable, MediaUsable DEF Event
<1> QED  BY <1>4, <1>8, <1>14, <1>15 DEF Next

LEMMA InitUsable == Init => Usable
<1> SUFFICES ASSUME Init PROVE Usable  OBVIOUS
<1>1. sent = <<>> /\ pin = <<>> /\ pau = <<>>  BY DEF Init
<1> QED  BY <1>1 DEF Usable, SentFits, QueuesFit, Flushed

\* Whatever format changes, recoveries and closes overtake each other, every chunk is
\* decoded as the format its frame was declared in and into the format its backend was
\* opened for, and what waits in a queue is usable when it gets its turn.
THEOREM FormatsAgreeHolds == Spec => []FormatsAgree
<1>2. Sound /\ Usable => FormatsAgree
  <2> SUFFICES ASSUME Sound, Usable PROVE FormatsAgree  OBVIOUS
  <2>1. FormatMatch  BY DEF Usable, SentFits, Fits, FormatMatch
  <2>2. QueuesCurrent
        BY CurrentBackend, NothingSettled DEF Usable, QueuesFit, Flushed, Fits, QueuesCurrent
  <2> QED  BY <2>1, <2>2 DEF FormatsAgree
<1> QED  BY <1>2, InitUsable, SoundInductive, UsableStep, PTL DEF Spec
-----------------------------------------------------------------------------
(* Recovery.                                                                 *)

\* The chunks of new go to the current backend.
Sends(new) ==
    /\ new \in Seq(Chunks) /\ cur \in Backends
    /\ sent' = sent \o To(new, cur)
    /\ recov' = IF new = <<>> THEN recov ELSE 0

LEMMA EmptyTo ==
    ASSUME NEW q \in Seq(Chunks), NEW b \in Backends
    PROVE  To(q, b) = <<>> <=> q = <<>>
<1>1. To(q, b) \in Seq(Sendings) /\ Len(To(q, b)) = Len(q)  BY ToYields DEF Sendings
<1>2. q = <<>> <=> Len(q) = 0  BY EmptySeq
<1>3. To(q, b) = <<>> <=> Len(To(q, b)) = 0  BY <1>1, EmptySeq
<1> QED  BY <1>1, <1>2, <1>3

LEMMA FlushSends ==
    ASSUME Typed, NEW d, InUse(d), cur \in Backends, Flush(d, cur)
    PROVE  Sends(Decode(pin, d) \o pau)
<1> DEFINE new == Decode(pin, d) \o pau
<1>1. d.gen \in Nat  BY DecoderFields DEF InUse
<1>2. Decode(pin, d) \in Seq(Chunks)  BY <1>1, DecodeYields DEF InUse, Typed, AudioTyped
<1>3. new \in Seq(Chunks)  BY <1>2, ChunksJoined DEF Typed, AudioTyped
<1>4. sent' = sent \o To(new, cur) /\ recov' = AfterSending(To(new, cur))  BY DEF Flush
<1> HIDE DEF new
<1>5. Sends(new)  BY <1>3, <1>4, EmptyTo DEF AfterSending, Sends
<1> QED  BY <1>5 DEF new

LEMMA FlushIfReadySends ==
    ASSUME Sound, ~isClosed, FlushIfReady
    PROVE  UNCHANGED <<sent, recov>> \/ \E new : Sends(new)
<1>1. cur \in Backends  BY CurrentBackend
<1>2. CASE dstat = "ready" /\ Flush(decoder, cur)
  <2>1. InUse(decoder)  BY <1>2, ReadyFresh DEF Fresh
  <2>2. Sends(Decode(pin, decoder) \o pau)  BY <1>1, <1>2, <2>1, FlushSends DEF Sound
  <2> QED  BY <2>2
<1>3. CASE UNCHANGED audio  BY <1>3 DEF audio
<1> QED  BY <1>2, <1>3 DEF FlushIfReady

LEMMA DecoderReadySends ==
    ASSUME Sound, NEW t \in tasks, DecoderReady(t)
    PROVE  \/ UNCHANGED <<sent, recov>>
           \/ bstat[cur] = "connected" /\ ~isClosed /\ \E new : Sends(new)
<1> DEFINE d == [in |-> t.in, out |-> t.out, gen |-> t.gen, last |-> 0]
<1>1. CASE Current(t) /\ cur # NoBackend /\ bstat[cur] = "connected" /\ Flush(d, cur)
  <2>1. InUse(d) /\ cur \in Backends /\ ~isClosed
        BY <1>1, TaskFresh, CallsTyped DEF Fresh, Sound, AllOvertaken, NoBackend, Backends
  <2> HIDE DEF d
  <2>2. Sends(Decode(pin, d) \o pau)  BY <1>1, <2>1, FlushSends DEF Sound
  <2> QED  BY <1>1, <2>1, <2>2
<1>2. CASE UNCHANGED audio  BY <1>2 DEF audio
<1> QED  BY <1>1, <1>2 DEF DecoderReady

LEMMA MediaSends ==
    ASSUME Sound, NEW n \in 1..MaxFrames, Media(n)
    PROVE  \/ UNCHANGED <<sent, recov>>
           \/ (bstat[cur] = "connected" \/ Provider = "aws") /\ \E new : Sends(new)
<1> DEFINE q == <<Arriving(n)>>
           chunk == Decode(q, decoder)
<1>1. CASE /\ dstat = "ready"
           /\ bstat[cur] = "connected" \/ Provider = "aws"
           /\ sent' = sent \o To(chunk, cur)
           /\ recov' = AfterSending(chunk)
  <2>1. q \in Seq(Frames)  BY ArrivingTyped DEF Sound, Typed
  <2>2. chunk \in Seq(Chunks)
        BY <1>1, <2>1, ReadyFresh, DecoderFields, DecodeYields DEF Fresh, InUse
  <2>3. cur \in Backends  BY CurrentBackend DEF Media
  <2> HIDE DEF chunk
  <2>4. Sends(chunk)  BY <1>1, <2>2, <2>3 DEF Sends, AfterSending
  <2> QED  BY <1>1, <2>4
<1>2. CASE UNCHANGED <<sent, recov>>  BY <1>2
<1>3. CASE Provider = "aws" /\ ~TakesAudio /\ recov' = AfterSending(chunk) /\ UNCHANGED sent
      BY <1>3 DEF Sound, BeforeConnect, AfterSending
<1> QED  BY <1>1, <1>2, <1>3 DEF Media, Arriving, AcceptsAudioBeforeConnected

\* Backends are created by recoveries, which are counted until audio flows, and start events.
Budget == nb <= 1 + starts + MaxRecoveries * Len(sent) + recov

BudgetStep ==
    \/ UNCHANGED <<nb, starts, sent, recov>>
    \/ UNCHANGED <<nb, starts>> /\ \E new : Sends(new)
    \/ nb' = nb + 1 /\ recov' = recov + 1 /\ UNCHANGED <<starts, sent>>
    \/ nb' \in {nb, nb + 1} /\ starts' = starts + 1 /\ UNCHANGED <<recov, sent>>

LEMMA DoCloseBudget ==
    ASSUME NEW st, NEW g, NEW c, DoClose(st, g, c), UNCHANGED <<starts, sent, recov>>
    PROVE  BudgetStep
BY DEF DoClose, BudgetStep

LEMMA OnErrorBudget ==
    ASSUME NEW st, NEW r, NEW ts, OnError(st, r, ts), UNCHANGED <<starts, sent>>
    PROVE  BudgetStep
BY DoCloseBudget DEF OnError, ReconnectBackend, BudgetStep

LEMMA EveryBudgetStep == Sound /\ [Next]_vars => BudgetStep
<1> SUFFICES ASSUME Sound, [Next]_vars PROVE BudgetStep  OBVIOUS
<1>1. ASSUME NEW t \in tasks, InitConnected(t) PROVE BudgetStep
      BY <1>1, FlushIfReadySends DEF InitConnected, audio, history, client, BudgetStep
<1>2. ASSUME NEW t \in tasks, InitFailed(t) \/ ReconnectFailed(t) PROVE BudgetStep
      BY <1>2, DoCloseBudget DEF InitFailed, ReconnectFailed, history, client, BudgetStep
<1>3. ASSUME NEW t \in tasks, Reconnected(t) PROVE BudgetStep
      BY <1>3, FlushIfReadySends DEF Reconnected, audio, history, client, BudgetStep
<1>4. ASSUME NEW t \in tasks, DecoderReady(t) PROVE BudgetStep
      BY <1>4, DecoderReadySends DEF DecoderReady, history, client, BudgetStep
<1>5. CASE Resume  BY <1>1, <1>2, <1>3, <1>4, <1>5 DEF Resume
<1>6. CASE ConnectSettles
      BY <1>6, OnErrorBudget DEF ConnectSettles, BackendOpens, ConnectAborted, BackendFailsToConnect,
         audio, history, client, BudgetStep
<1>7. ASSUME NEW t \in tasks, DecoderFails(t) PROVE BudgetStep
      BY <1>7, DoCloseBudget DEF DecoderFails, client, BudgetStep
<1>8. ASSUME NEW r, StreamError(r) PROVE BudgetStep
      BY <1>8, OnErrorBudget DEF StreamError, client
<1>9. (\E b : BackendCloses(b)) \/ Close => BudgetStep
      BY DoCloseBudget DEF BackendCloses, Close, client
<1>10. ASSUME NEW f, StartEvent(f)  PROVE BudgetStep
       BY <1>10 DEF StartEvent, ReconnectBackend, BudgetStep
<1>11. ASSUME NEW n \in 1..MaxFrames, Media(n)  PROVE BudgetStep
       BY <1>11, MediaSends DEF Media, control, BudgetStep
<1>12. CASE ResetChunkTracking \/ IdleTimer \/ UNCHANGED vars \/ \E all : FinalTranscript(all)
       BY <1>12 DEF ResetChunkTracking, IdleTimer, IdleCommit, vars, audio, control, history, client,
                    FinalTranscript, BudgetStep
<1>13. CASE Event
       BY <1>7, <1>8, <1>9, <1>10, <1>11, <1>12, <1>13 DEF Event
<1> QED  BY <1>5, <1>6, <1>12, <1>13 DEF Next

LEMMA MoreSent ==
    ASSUME NEW m \in Nat, NEW l \in Nat, NEW k \in Nat, k >= 1
    PROVE  m * (l + k) >= m * l + m
<1>1. m * (l + k) = m * l + m + m * (k - 1)  BY Z3
<1>2. m * (k - 1) >= 0  BY Z3
<1>3. m * l \in Nat  BY Z3
<1> QED  BY <1>1, <1>2, <1>3

LEMMA BudgetPreserved == Sound /\ Budget /\ [Next]_vars => Budget'
<1> SUFFICES ASSUME Sound, Budget, BudgetStep PROVE Budget'  BY EveryBudgetStep
<1>1. /\ nb \in Nat /\ starts \in Nat /\ recov \in Nat /\ recov <= MaxRecoveries
      /\ MaxRecoveries \in Nat /\ Len(sent) \in Nat
      BY CallsTyped, BoundAssumption, LenProperties DEF Sound, Typed, AudioTyped, ClientTyped
<1> DEFINE L == Len(sent)
           P == MaxRecoveries * L
<1>2. P \in Nat  BY <1>1, Z3
<1>3. nb <= 1 + starts + P + recov  BY DEF Budget
<1>4. CASE UNCHANGED <<nb, starts>> /\ \E new : Sends(new)
  <2>1. PICK new : Sends(new)  BY <1>4
  <2>2. CASE new = <<>>
    <3>1. Len(new) = 0 /\ recov' = recov /\ Len(sent') = L + Len(new)
          BY <2>1, <2>2, SentAfter, EmptySeq DEF Sends, Sound, Typed, AudioTyped
    <3>2. Len(sent') = L  BY <1>1, <3>1
    <3> QED  BY <1>3, <1>4, <3>1, <3>2 DEF Budget
  <2>3. CASE new # <<>>
    <3>1. Len(new) \in Nat \ {0} /\ recov' = 0 /\ Len(sent') = L + Len(new)
          BY <2>1, <2>3, SentAfter, EmptySeq DEF Sends, Sound, Typed, AudioTyped
    <3> DEFINE P2 == MaxRecoveries * (L + Len(new))
    <3>2. P2 >= P + MaxRecoveries /\ P2 \in Nat
      <4>1. P2 >= P + MaxRecoveries  BY <1>1, <3>1, MoreSent
      <4>2. P2 \in Nat  BY <1>1, <3>1, Z3
      <4> QED  BY <4>1, <4>2
    <3>3. Budget' <=> nb' <= 1 + starts' + P2 + recov'  BY <3>1 DEF Budget
    <3> HIDE DEF P, P2, L
    <3> QED  BY <1>1, <1>2, <1>3, <1>4, <3>1, <3>2, <3>3
  <2> QED  BY <2>2, <2>3
<1>5. CASE UNCHANGED <<nb, starts, sent, recov>>  BY <1>5 DEF Budget
<1>6. CASE \/ nb' = nb + 1 /\ recov' = recov + 1 /\ UNCHANGED <<starts, sent>>
           \/ nb' \in {nb, nb + 1} /\ starts' = starts + 1 /\ UNCHANGED <<recov, sent>>
  <2>1. Budget' <=> nb' <= 1 + starts' + P + recov'  BY <1>6 DEF Budget
  <2> HIDE DEF P
  <2> QED  BY <1>1, <1>2, <1>3, <1>6, <2>1
<1> QED  BY <1>4, <1>5, <1>6 DEF BudgetStep
-----------------------------------------------------------------------------
(* Without a fault and before close(), whatever start events overtake each    *)
(* other: no backend is lost; with a provider that wants one format there is    *)
(* but one, and with any other a connection whose first backend has been        *)
(* connected has no initial connect left to fail.                             *)
Carried == \E i \in DOMAIN sent : sent[i].to = 1

Intact(t) == Replacing(t) /\ Current(t) => t.at # "rejected" /\ bstat[t.b] # "closed"

OneBackend == OneDesired =>
    /\ cur = 1 /\ bstat[1] \in {"pending", "connected"}
    /\ \A t \in tasks : t.kind = "init" => t.b = 1 /\ t.at # "rejected"

Established == ~OneDesired /\ (Carried \/ bstat[1] = "connected") =>
    \A t \in tasks : t.kind # "initReinit" /\ (t.kind = "init" => t.at = "resolved")

Undisturbed == cause = "none" =>
    /\ isClosed => ~Carried /\ ~OneDesired
    /\ \A t \in tasks : t.kind # "recover"
    /\ ~isClosed => OneBackend /\ Established /\ \A t \in tasks : Intact(t)

LEMMA SameDesires ==
    ASSUME UNCHANGED profile
    PROVE  OneDesired' <=> OneDesired
BY DEF OneDesired, Desired

\* Transcribe is such a provider; and where one is, a start event replaces nothing.
LEMMA Desires ==
    ASSUME Sound
    PROVE  /\ profile \in Profiles /\ inFmt \in InputFormats /\ desired = Desired[inFmt]
           /\ Provider = "aws" => OneDesired
<1>1. profile \in Profiles /\ inFmt \in InputFormats /\ desired = Desired[inFmt]
      BY DEF Sound, IInv, Generations
<1> QED  BY <1>1, AsyncAssumption DEF Provider, Desired, OneDesired

LEMMA CarriedAfter ==
    ASSUME Sound, NEW new, Sends(new), Carried'
    PROVE  Carried \/ cur = 1
<1>1. sent \in Seq(Sendings)  BY DEF Sound, Typed, AudioTyped
<1>2. /\ Len(sent) \in Nat /\ DOMAIN sent = 1..Len(sent) /\ DOMAIN sent' = 1..Len(sent')
      /\ Len(sent') \in Nat /\ Len(sent') = Len(sent) + Len(new) /\ Len(new) \in Nat
      /\ \A i \in DOMAIN sent : sent'[i] = sent[i]
      /\ \A i \in DOMAIN sent' : i > Len(sent) => sent'[i].to = cur
      BY <1>1, SentAfter DEF Sends
<1>3. PICK i \in DOMAIN sent' : sent'[i].to = 1  BY DEF Carried
<1>4. CASE i > Len(sent)  BY <1>2, <1>3, <1>4
<1>5. CASE ~(i > Len(sent))
  <2>1. i \in DOMAIN sent  BY <1>2, <1>5
  <2> QED  BY <1>2, <1>3, <2>1 DEF Carried
<1> QED  BY <1>4, <1>5

\* The first backend is not opened twice.
LEMMA FirstBackend ==
    ASSUME Sound, 1 \in Backends, NEW t \in tasks, t.at # "decoder", t.b = 1
    PROVE  /\ t.kind = "init"
           /\ \A u \in tasks : u # t => u.kind # "init" /\ u.kind # "initReinit"
<1>1. t \in Tasks /\ Stage(t) /\ \A u \in tasks : Apart(t, u)
      BY CallsTyped DEF Sound, Wiring, CallsApart
<1>2. t.kind = "init"  BY <1>1 DEF Stage, Replacing, Tasks
<1> QED  BY <1>1, <1>2 DEF Apart, First

\* Steps that send nothing and start no call, and leave the backends alone.
CalmStep ==
    /\ tasks' \subseteq tasks
    /\ UNCHANGED <<profile, gen, isClosed, cur, bstat, cause>>
    /\ Carried' => Carried \/ (~isClosed /\ (OneDesired \/ (cur = 1 /\ bstat[1] = "connected")))

LEMMA CalmSteps == Undisturbed /\ CalmStep => Undisturbed'
BY SameDesires DEF CalmStep, Undisturbed, OneBackend, Established, Intact, Replacing, Current

LEMMA DecoderReadyUndisturbed ==
    ASSUME Sound, Undisturbed, NEW t \in tasks, DecoderReady(t), UNCHANGED profile
    PROVE  Undisturbed'
<1>1. UNCHANGED <<profile, gen, isClosed, cur, bstat, cause>> /\ t.at = "decoder"
      BY DEF DecoderReady, history
<1>2. Carried' => Carried \/ (cur = 1 /\ bstat[1] = "connected" /\ ~isClosed)
      BY DecoderReadySends, CarriedAfter DEF Carried
<1>3. CASE tasks' = tasks \ {t}  BY <1>1, <1>2, <1>3, CalmSteps DEF CalmStep
<1>4. CASE /\ t.kind = "initReinit" /\ ~isClosed
           /\ tasks' = (tasks \ {t}) \cup {Task("init", "connecting", t.gen, cur, t.in, t.out)}
  <2>1. PICK s : /\ tasks' = (tasks \ {t}) \cup {s}
                 /\ s.kind = "init" /\ s.at = "connecting" /\ s.b = cur
        BY <1>4, TaskFields
  <2>2. cause = "none" /\ ~OneDesired => ~Carried /\ bstat[1] # "connected"
        BY <1>4, SameDesires DEF Undisturbed, Established
  <2> QED  BY <1>1, <1>2, <1>4, <2>1, <2>2, SameDesires
           DEF Undisturbed, OneBackend, Established, Intact, Replacing, Current
<1> QED  BY <1>3, <1>4 DEF DecoderReady

LEMMA ReconnectedUndisturbed ==
    ASSUME Sound, Undisturbed, NEW t \in tasks, Reconnected(t), UNCHANGED profile
    PROVE  Undisturbed'
<1>1. /\ UNCHANGED <<profile, gen, isClosed, cur, cause>>
      /\ t.kind \in {"recover", "reinit"} /\ t.at = "resolved" /\ Replacing(t)
      BY DEF Reconnected, history, Replacing
<1>2. SUFFICES ASSUME cause = "none" PROVE Undisturbed'
      BY <1>1 DEF Undisturbed
<1>3. t.kind = "reinit"  BY <1>1, <1>2 DEF Undisturbed
<1>4. CASE isClosed /\ tasks' = tasks \ {t} /\ UNCHANGED <<bstat, audio>>
      BY <1>1, <1>4, CalmSteps DEF CalmStep, audio, Carried
<1>5. CASE ~isClosed /\ tasks' = tasks \ {t} /\ bstat' = [bstat EXCEPT ![t.b] = "closed"] /\ UNCHANGED audio
  <2>1. t.b # 1 /\ \A u \in tasks \ {t} : Replacing(u) => u.b # t.b
        BY <1>1 DEF Sound, Wiring, CallsApart, Stage, Apart
  <2>2. bstat'[1] = bstat[1]  BY <1>5, <2>1 DEF Sound, Wiring, BackendsTyped
  <2>3. \A u \in tasks' : Replacing(u) => bstat'[u.b] = bstat[u.b]
        BY <1>5, <2>1 DEF Sound, Wiring, BackendsTyped
  <2>4. Carried' <=> Carried  BY <1>5 DEF Carried, audio
  <2> QED  BY <1>1, <1>5, <2>2, <2>3, <2>4, SameDesires
           DEF Undisturbed, OneBackend, Established, Intact, Replacing, Current
<1>6. CASE /\ ~isClosed /\ UNCHANGED <<bstat, audio>>
           /\ tasks' = (tasks \ {t}) \cup {Task("reinit", "decoder", t.gen, NoBackend, inFmt, t.out)}
  <2>1. PICK s : /\ tasks' = (tasks \ {t}) \cup {s} /\ s.kind = "reinit" /\ s.at = "decoder"
        BY <1>6, TaskFields
  <2>2. Carried' <=> Carried  BY <1>6 DEF Carried, audio
  <2> QED  BY <1>1, <1>6, <2>1, <2>2, SameDesires
           DEF Undisturbed, OneBackend, Established, Intact, Replacing, Current
<1> QED  BY <1>3, <1>4, <1>5, <1>6 DEF Reconnected

LEMMA ConnectUndisturbed ==
    ASSUME Sound, Undisturbed, NEW t \in tasks, BackendOpens(t) \/ ConnectAborted(t), UNCHANGED profile
    PROVE  Undisturbed'
<1>1. /\ UNCHANGED <<profile, gen, isClosed, cur, cause, sent>>
      /\ t.at = "connecting" /\ \A u \in tasks : u.at # "resolved"
      /\ t \in Tasks /\ (Carried' <=> Carried)
      /\ bstat \in [Backends -> {"none", "pending", "connected", "failed", "closed"}]
      BY NothingSettled, CallsTyped
      DEF BackendOpens, ConnectAborted, Connecting, history, audio, Carried, Sound, Wiring, BackendsTyped
<1>2. 1 \in Backends  BY BoundAssumption DEF Backends
<1>3. SUFFICES ASSUME cause = "none" PROVE Undisturbed'
      BY <1>1 DEF Undisturbed
<1>4. CASE BackendOpens(t)
  <2>1. PICK s : /\ tasks' = (tasks \ {t}) \cup {s}
                 /\ s.kind = t.kind /\ s.gen = t.gen /\ s.b = t.b /\ s.at = "resolved"
        BY <1>1, <1>4, SettledTask DEF BackendOpens
  <2>2. bstat' = [bstat EXCEPT ![t.b] = "connected"]  BY <1>4 DEF BackendOpens
  <2>3. \A u \in tasks' : u.kind # "recover"  BY <1>3, <2>1 DEF Undisturbed
  <2>4. ~isClosed => \A u \in tasks' : Intact(u)'
        BY <1>1, <1>3, <2>1, <2>2 DEF Undisturbed, Intact, Replacing, Current
  <2>5. ~isClosed => OneBackend'
    <3>1. bstat'[1] = bstat[1] \/ bstat'[1] = "connected"  BY <1>1, <1>2, <2>2
    <3> QED  BY <1>1, <1>3, <2>1, <3>1, SameDesires DEF Undisturbed, OneBackend
  <2>6. ~isClosed => Established'
    <3>1. CASE t.b = 1
          BY <1>1, <1>2, <2>1, <3>1, FirstBackend DEF Established
    <3>2. CASE t.b # 1
      <4>1. bstat'[1] = bstat[1]  BY <1>1, <2>2, <3>2
      <4> QED  BY <1>1, <1>3, <2>1, <4>1, SameDesires DEF Undisturbed, Established
    <3> QED  BY <3>1, <3>2
  <2> QED  BY <1>1, <1>3, <2>3, <2>4, <2>5, <2>6, SameDesires DEF Undisturbed
<1>5. CASE ConnectAborted(t)
  <2>1. PICK s : /\ tasks' = (tasks \ {t}) \cup {s}
                 /\ s.kind = t.kind /\ s.gen = t.gen /\ s.b = t.b /\ s.at = "rejected"
        BY <1>1, <1>5, SettledTask DEF ConnectAborted
  <2>2. bstat' = bstat /\ bstat[t.b] = "closed"  BY <1>5 DEF ConnectAborted
  <2>3. \A u \in tasks' : u.kind # "recover"  BY <1>3, <2>1 DEF Undisturbed
  <2>4. ~isClosed => \A u \in tasks' : Intact(u)'
        BY <1>1, <1>3, <2>1, <2>2 DEF Undisturbed, Intact, Replacing, Current
  <2>5. ~isClosed => OneBackend'
        BY <1>1, <1>3, <2>1, <2>2, SameDesires DEF Undisturbed, OneBackend
  <2>6. ~isClosed => Established'
        BY <1>1, <1>3, <2>1, <2>2, SameDesires DEF Undisturbed, Established
  <2> QED  BY <1>1, <1>3, <2>3, <2>4, <2>5, <2>6, SameDesires DEF Undisturbed
<1> QED  BY <1>4, <1>5

LEMMA StartEventUndisturbed ==
    ASSUME Sound, Undisturbed, NEW f \in InputFormats, StartEvent(f), UNCHANGED profile
    PROVE  Undisturbed'
<1>1. /\ UNCHANGED <<profile, cause, sent, isClosed>> /\ ~isClosed
      /\ gen' = gen + 1 /\ (Carried' <=> Carried) /\ gen \in Nat
      /\ \A u \in tasks : u.gen \in Nat /\ u.gen <= gen
      /\ bstat \in [Backends -> {"none", "pending", "connected", "failed", "closed"}]
      /\ 1 \in Backends /\ cur \in 1..nb /\ nb \in Nat
      BY CallsTyped, CurrentBackend, BoundAssumption
      DEF StartEvent, Carried, Sound, Wiring, BackendsTyped, Backends
<1>2. \A u \in tasks : u.gen # gen'  BY <1>1
<1>3. SUFFICES ASSUME cause = "none" PROVE Undisturbed'
      BY <1>1 DEF Undisturbed
<1>4. CASE /\ UNCHANGED <<cur, bstat>>
           /\ tasks' = tasks \cup {Task("reinit", "decoder", gen + 1, NoBackend, f, Desired[f])}
  <2>1. PICK s : tasks' = tasks \cup {s} /\ s.kind = "reinit" /\ s.at = "decoder"
        BY <1>4, TaskFields
  <2> QED  BY <1>1, <1>2, <1>3, <1>4, <2>1, SameDesires
           DEF Undisturbed, OneBackend, Established, Intact, Replacing, Current
<1>5. CASE /\ Desired[f] # desired /\ ReconnectBackend(bstat, Desired[f])
           /\ tasks' = tasks \cup {Task("reinit", "connecting", gen + 1, nb + 1, f, Desired[f])}
  <2>1. PICK s : tasks' = tasks \cup {s} /\ s.kind = "reinit" /\ s.at = "connecting" /\ s.b = nb + 1
        BY <1>5, TaskFields
  <2>2. ~OneDesired  BY <1>5, Desires DEF OneDesired
  <2>3. bstat' = [CloseOld(bstat) EXCEPT ![nb + 1] = "pending"] /\ nb + 1 \in Backends /\ nb + 1 # 1
        BY <1>1, <1>5, BoundAssumption DEF ReconnectBackend, Backends
  <2>4. bstat'[nb + 1] = "pending" /\ (bstat'[1] = "connected" => bstat[1] = "connected")
        BY <1>1, <2>3 DEF CloseOld
  <2> QED  BY <1>1, <1>2, <1>3, <2>1, <2>2, <2>4, SameDesires
           DEF Undisturbed, OneBackend, Established, Intact, Replacing, Current
<1> QED  BY <1>4, <1>5 DEF StartEvent

LEMMA UndisturbedStep == Sound /\ Undisturbed /\ [Next]_vars => Undisturbed'
<1> SUFFICES ASSUME Sound, Undisturbed, [Next]_vars PROVE Undisturbed'  OBVIOUS
<1>0. ASSUME cause' # "none"  PROVE Undisturbed'  BY <1>0 DEF Undisturbed
<1>1. ASSUME NEW t \in tasks, InitConnected(t), UNCHANGED profile  PROVE Undisturbed'
  <2>1. UNCHANGED <<profile, gen, isClosed, cur, bstat, cause>> /\ tasks' = tasks \ {t}
        BY <1>1 DEF InitConnected, history
  <2>2. CASE isClosed
    <3>1. (Carried' <=> Carried)  BY <1>1, <2>2 DEF InitConnected, audio, Carried
    <3> QED  BY <2>1, <3>1, CalmSteps DEF CalmStep
  <2>3. CASE ~isClosed
    <3>1. Carried' => Carried \/ cur = 1
          BY <1>1, <2>3, FlushIfReadySends, CarriedAfter DEF InitConnected, Carried
    <3>2. \A u \in tasks' : u.kind # "initReinit" /\ u.kind # "init"
          BY <1>1, <2>1 DEF Sound, Wiring, CallsApart, Apart, First, InitConnected
    <3> QED  BY <2>1, <2>3, <3>2, SameDesires
             DEF Undisturbed, OneBackend, Established, Intact, Replacing, Current
  <2> QED  BY <2>2, <2>3
<1>2. ASSUME NEW t \in tasks, InitFailed(t), UNCHANGED profile  PROVE Undisturbed'
  <2>1. /\ t.kind = "init" /\ t.at = "rejected" /\ tasks' = tasks \ {t}
        /\ UNCHANGED <<profile, cause, sent>> /\ (Carried' <=> Carried)
        BY <1>2 DEF InitFailed, history, Carried
  <2>2. CASE isClosed
        BY <1>2, <2>1, <2>2, CalmSteps DEF CalmStep, InitFailed
  <2>3. CASE ~isClosed
    <3>1. isClosed'  BY <1>2, <2>3 DEF InitFailed, DoClose
    <3>2. cause = "none" => ~Carried /\ ~OneDesired
          BY <2>1, <2>3, SameDesires DEF Undisturbed, OneBackend, Established
    <3> QED  BY <2>1, <3>1, <3>2, SameDesires DEF Undisturbed
  <2> QED  BY <2>2, <2>3
<1>3. ASSUME NEW t \in tasks, ReconnectFailed(t), UNCHANGED profile  PROVE Undisturbed'
  <2>1. /\ t.at = "rejected" /\ tasks' = tasks \ {t} /\ Replacing(t)
        /\ UNCHANGED <<profile, cause, sent>> /\ (Carried' <=> Carried)
        BY <1>3 DEF ReconnectFailed, history, Carried, Replacing
  <2>2. CASE ~Current(t)
        BY <1>3, <2>1, <2>2, CalmSteps DEF CalmStep, ReconnectFailed
  <2>3. CASE Current(t)
    <3>1. ~isClosed  BY <2>3, CallsTyped DEF Sound, AllOvertaken, Current
    <3>2. cause # "none"  BY <2>1, <2>3, <3>1 DEF Undisturbed, Intact
    <3> QED  BY <1>0, <2>1, <3>2
  <2> QED  BY <2>2, <2>3
<1>4. CASE Resume
      BY <1>1, <1>2, <1>3, <1>4, DecoderReadyUndisturbed, ReconnectedUndisturbed DEF Resume
<1>5. CASE ConnectSettles
      BY <1>0, <1>5, ConnectUndisturbed DEF ConnectSettles, BackendFailsToConnect
<1>6. ASSUME NEW n \in 1..MaxFrames, Media(n), UNCHANGED profile  PROVE Undisturbed'
  <2>1. UNCHANGED <<profile, gen, isClosed, cur, bstat, cause>> /\ tasks' \subseteq tasks /\ ~isClosed
        BY <1>6 DEF Media, control
  <2>2. Carried' => Carried \/ OneDesired \/ (cur = 1 /\ bstat[1] = "connected")
        BY <1>6, MediaSends, CarriedAfter, Desires DEF Carried
  <2> QED  BY <2>1, <2>2, CalmSteps DEF CalmStep
<1>7. ASSUME UNCHANGED <<profile, gen, isClosed, cur, bstat, cause, sent, tasks>>  PROVE Undisturbed'
  <2>1. (Carried' <=> Carried)  BY <1>7 DEF Carried
  <2> QED  BY <1>7, <2>1, CalmSteps DEF CalmStep
<1>8. CASE \/ UNCHANGED profile /\ (ResetChunkTracking \/ \E all : FinalTranscript(all))
           \/ IdleTimer \/ UNCHANGED vars
      BY <1>7, <1>8 DEF ResetChunkTracking, IdleTimer, IdleCommit, vars, audio, control, history,
                        FinalTranscript
<1>9. CASE Event
      BY <1>0, <1>6, <1>8, <1>9, StartEventUndisturbed
      DEF Event, DecoderFails, StreamError, BackendCloses, Close
<1> QED  BY <1>4, <1>5, <1>8, <1>9 DEF Next

LEMMA InitRecovery == Init => Undisturbed /\ Budget
<1> SUFFICES ASSUME Init PROVE Undisturbed /\ Budget  OBVIOUS
<1>1. sent = <<>> /\ isClosed = FALSE /\ cur = 1 /\ nb = 1 /\ starts = 0 /\ recov = 0  BY DEF Init
<1>2. 1 \in Backends  BY BoundAssumption DEF Backends
<1>3. bstat[1] = "pending"  BY <1>2 DEF Init
<1>4. \A t \in tasks : t.kind = "initReinit" /\ t.at = "decoder"  BY TaskFields DEF Init
<1>5. ~Carried  BY <1>1 DEF Carried
<1>6. Undisturbed
      BY <1>1, <1>3, <1>4, <1>5 DEF Undisturbed, OneBackend, Established, Intact, Replacing
<1>7. Len(sent) = 0 /\ MaxRecoveries * 0 = 0  BY <1>1, BoundAssumption
<1>8. Budget  BY <1>1, <1>7 DEF Budget
<1> QED  BY <1>6, <1>8

\* A connection goes down for a reason only, with a provider that wants one format at any
\* moment and with any other once its first backend has carried audio; and backends are replaced no more than MaxRecoveries times in a row without audio sent in
\* between, start events apart.
THEOREM RecoverySafeHolds == Spec => []RecoverySafe
<1>1. Sound /\ Undisturbed => EstablishedSurvives
      BY DEF Undisturbed, EstablishedSurvives, Carried
<1>2. Sound /\ Budget => ReconnectsBounded
  <2> SUFFICES ASSUME Sound, Budget PROVE ReconnectsBounded  OBVIOUS
  <2>1. /\ nb \in Nat /\ starts \in Nat /\ recov \in Nat /\ recov <= MaxRecoveries
        /\ MaxRecoveries \in Nat /\ Len(sent) \in Nat
        BY CallsTyped, BoundAssumption, LenProperties DEF Sound, Typed, AudioTyped, ClientTyped
  <2> DEFINE P == MaxRecoveries * Len(sent)
             P2 == MaxRecoveries * (Len(sent) + 1)
  <2>2. P2 >= P + MaxRecoveries  BY <2>1, MoreSent
  <2>3. P \in Nat /\ P2 \in Nat  BY <2>1, Z3
  <2>4. nb <= 1 + starts + P + recov  BY DEF Budget
  <2> HIDE DEF P
  <2>5. nb <= 1 + starts + P2
    <3> HIDE DEF P2
    <3> QED  BY <2>1, <2>2, <2>3, <2>4
  <2> QED  BY <2>5 DEF ReconnectsBounded
<1> QED  BY <1>1, <1>2, SoundInductive, InitRecovery, UndisturbedStep, BudgetPreserved, PTL
         DEF Spec, RecoverySafe
-----------------------------------------------------------------------------
(* The order of the audio, until the session is reattached and the client    *)
(* numbers its chunks anew.                                                   *)

\* Decoder d has gone on as far as what it made: of the chunks it numbers, none that was
\* sent or waits is newer than the last frame it took.
Trails(d) ==
    /\ InUse(d) /\ d.gen <= gen /\ d.last <= top
    /\ \A i \in DOMAIN sent :
         /\ sent[i].audio.gen <= d.gen
         /\ sent[i].audio.gen = d.gen => sent[i].audio.frame.n <= d.last
    /\ \A i \in DOMAIN pau : pau[i].gen = d.gen /\ pau[i].frame.n <= d.last

\* The decoded audio waits in order, after what was sent and, unless it came late, after
\* the frames still to be decoded.
PauOrder ==
    /\ \A i, j \in DOMAIN pau : i < j => pau[i].frame.n < pau[j].frame.n
    /\ \A i \in DOMAIN sent, j \in DOMAIN pau :
         sent[i].audio.gen = pau[j].gen => sent[i].audio.frame.n < pau[j].frame.n
    /\ \A i \in DOMAIN pin, j \in DOMAIN pau : pau[j].frame.late \/ pin[i].n < pau[j].frame.n
    /\ Provider = "aws" => pau = <<>>

PinOrder ==
    /\ \A i \in DOMAIN pin : pin[i].n <= top
    /\ \A i, j \in DOMAIN pin : i < j => pin[j].late \/ pin[i].n < pin[j].n

Numbered == stream = 0 =>
    /\ InOrder
    /\ ~isClosed => /\ dstat = "ready" => Trails(decoder)
                    /\ dstat = "pending" => \A i \in DOMAIN sent : sent[i].audio.gen < gen
                    /\ PauOrder /\ PinOrder

Ordered == Sound /\ Usable /\ Numbered

\* Chunks in order that are newer than what was sent may follow it.
LEMMA SendInOrder ==
    ASSUME sent \in Seq(Sendings), InOrder, NEW new \in Seq(Chunks), NEW b \in Backends,
           sent' = sent \o To(new, b),
           \A i \in DOMAIN sent, k \in DOMAIN new :
             sent[i].audio.gen = new[k].gen => sent[i].audio.frame.n < new[k].frame.n,
           \A k, l \in DOMAIN new : k < l =>
             /\ new[k].frame.n # new[l].frame.n
             /\ new[k].frame.n < new[l].frame.n \/ new[l].frame.late
    PROVE  InOrder'
<1>1. /\ Len(sent) \in Nat /\ DOMAIN sent = 1..Len(sent) /\ DOMAIN sent' = 1..Len(sent')
      /\ Len(sent') \in Nat
      /\ \A i \in DOMAIN sent : sent'[i] = sent[i]
      /\ \A i \in DOMAIN sent' : i > Len(sent) =>
           i - Len(sent) \in DOMAIN new /\ sent'[i].audio = new[i - Len(sent)]
  <2>1. /\ sent' \in Seq(Sendings) /\ Len(sent') = Len(sent) + Len(new)
        /\ Len(sent) \in Nat /\ Len(new) \in Nat
        /\ DOMAIN sent = 1..Len(sent) /\ DOMAIN sent' = 1..Len(sent')
        /\ \A i \in DOMAIN sent : sent'[i] = sent[i]
        /\ \A i \in DOMAIN sent' : i > Len(sent) =>
             /\ i - Len(sent) \in DOMAIN new
             /\ sent'[i].audio = new[i - Len(sent)] /\ sent'[i].to = b
        BY SentAfter
  <2> QED  BY <2>1
<1>2. /\ \A i \in DOMAIN sent : sent[i].audio.frame.n \in Int /\ sent[i].audio.gen \in Int
      /\ \A k \in DOMAIN new : new[k].frame.n \in Int
  <2>1. \A c \in Chunks : c.frame.n \in Int /\ c.gen \in Int  BY BoundAssumption DEF Chunks, Frames
  <2>2. \A i \in DOMAIN sent : sent[i].audio \in Chunks  BY SentItems
  <2>3. \A k \in DOMAIN new : new[k] \in Chunks  BY LenProperties, ElementOfSeq
  <2> QED  BY <2>1, <2>2, <2>3
<1>3. SUFFICES ASSUME NEW i \in DOMAIN sent', NEW j \in DOMAIN sent', i < j,
                      sent'[i].audio.gen = sent'[j].audio.gen,
                      sent'[i].audio.frame.stream = sent'[j].audio.frame.stream
               PROVE  /\ sent'[i].audio.frame.n # sent'[j].audio.frame.n
                      /\ \/ sent'[i].audio.frame.n < sent'[j].audio.frame.n
                         \/ sent'[i].audio.frame.late
                         \/ sent'[j].audio.frame.late
      BY DEF InOrder
<1>4. CASE j <= Len(sent)
  <2>1. i \in DOMAIN sent /\ j \in DOMAIN sent  BY <1>1, <1>3, <1>4
  <2>2. sent'[i] = sent[i] /\ sent'[j] = sent[j]  BY <1>1, <2>1
  <2>3. sent[i].audio.gen = sent[j].audio.gen /\ sent[i].audio.frame.stream = sent[j].audio.frame.stream
        BY <1>3, <2>2
  <2>4. /\ sent[i].audio.frame.n # sent[j].audio.frame.n
        /\ \/ sent[i].audio.frame.n < sent[j].audio.frame.n
           \/ sent[i].audio.frame.late
           \/ sent[j].audio.frame.late
        BY <1>3, <2>1, <2>3 DEF InOrder
  <2> QED  BY <2>2, <2>4
<1>5. CASE i <= Len(sent) /\ j > Len(sent)
  <2>1. i \in DOMAIN sent /\ sent'[i] = sent[i]  BY <1>1, <1>5
  <2> DEFINE k == j - Len(sent)
  <2>2. k \in DOMAIN new /\ sent'[j].audio = new[k]  BY <1>1, <1>5
  <2> HIDE DEF k
  <2>3. sent[i].audio.frame.n < new[k].frame.n  BY <1>3, <2>1, <2>2
  <2> QED  BY <1>2, <2>1, <2>2, <2>3
<1>6. CASE i > Len(sent)
  <2> DEFINE k == i - Len(sent)
             l == j - Len(sent)
  <2>1. j > Len(sent) /\ k < l  BY <1>1, <1>3, <1>6
  <2>2. k \in DOMAIN new /\ sent'[i].audio = new[k]  BY <1>1, <1>6
  <2>3. l \in DOMAIN new /\ sent'[j].audio = new[l]  BY <1>1, <2>1
  <2> HIDE DEF k, l
  <2> QED  BY <2>1, <2>2, <2>3
<1> QED  BY <1>1, <1>4, <1>5, <1>6

\* The chunks decoder d makes of the frames of q: newer than the last it took, no newer
\* than the last it takes.
LEMMA DecodeNumbers ==
    ASSUME NEW q \in Seq(Frames), NEW d, InUse(d)
    PROVE  /\ Decode(q, d) \in Seq(Chunks) /\ InUse(Advance(d, q)) /\ Advance(d, q).gen = d.gen
           /\ d.last \in Nat /\ d.gen \in Nat
           /\ \A k \in DOMAIN Decode(q, d) :
                /\ Decode(q, d)[k].gen = d.gen
                /\ Decode(q, d)[k].frame.n \in Nat
                /\ Decode(q, d)[k].frame.n > d.last
                /\ Decode(q, d)[k].frame.n <= Advance(d, q).last
                /\ \E i \in DOMAIN q : Decode(q, d)[k].frame = q[i]
           /\ \A k, l \in DOMAIN Decode(q, d) :
                k < l => Decode(q, d)[k].frame.n < Decode(q, d)[l].frame.n
           /\ Advance(d, q).last \in Nat /\ Advance(d, q).last >= d.last
           /\ Advance(d, q).last # d.last => \E i \in DOMAIN q : Advance(d, q).last = q[i].n
<1>1. d.gen \in Nat /\ d.last \in Nat /\ "last" \in DOMAIN d  BY DecoderFields DEF InUse
<1>2. /\ Decode(q, d) \in Seq(Chunks)
      /\ \A k \in DOMAIN Decode(q, d) :
           /\ \E i \in Accepted(d, q) : Decode(q, d)[k].frame = q[i]
           /\ Decode(q, d)[k].gen = d.gen
      /\ \A k, l \in DOMAIN Decode(q, d) :
           k < l => Decode(q, d)[k].frame.n < Decode(q, d)[l].frame.n
      BY <1>1, DecodeYields DEF InUse
<1>3. \A i \in Accepted(d, q) : i \in DOMAIN q /\ q[i].n > d.last /\ q[i].n \in Nat
  <2>1. \A i \in Accepted(d, q) : q[i].n \in 1..MaxFrames  BY AcceptedFrames
  <2> QED  BY <2>1, BoundAssumption DEF Accepted, Accepts
<1>4. /\ Advance(d, q).last \in {d.last} \cup {q[i].n : i \in Accepted(d, q)}
      /\ Advance(d, q).last >= d.last /\ Advance(d, q).last \in Nat
      /\ \A i \in Accepted(d, q) : Advance(d, q).last >= q[i].n
      BY <1>1, AdvanceYields
<1>5. InUse(Advance(d, q)) /\ Advance(d, q).gen = d.gen  BY AdvanceTyped
<1>6. Advance(d, q).last # d.last => \E i \in DOMAIN q : Advance(d, q).last = q[i].n
      BY <1>3, <1>4
<1>7. ASSUME NEW k \in DOMAIN Decode(q, d)
      PROVE  /\ Decode(q, d)[k].frame.n \in Nat
             /\ Decode(q, d)[k].frame.n > d.last
             /\ Decode(q, d)[k].frame.n <= Advance(d, q).last
             /\ \E i \in DOMAIN q : Decode(q, d)[k].frame = q[i]
  <2>1. PICK i \in Accepted(d, q) : Decode(q, d)[k].frame = q[i]  BY <1>2
  <2> QED  BY <1>3, <1>4, <2>1
<1> QED  BY <1>1, <1>2, <1>4, <1>5, <1>6, <1>7

LEMMA ItemNumbers ==
    ASSUME Sound
    PROVE  /\ sent \in Seq(Sendings) /\ pin \in Seq(Frames) /\ pau \in Seq(Chunks) /\ top \in Nat /\ gen \in Nat
           /\ \A i \in DOMAIN sent : sent[i].audio.frame.n \in Nat /\ sent[i].audio.gen \in Nat
           /\ \A i \in DOMAIN pau : pau[i].frame.n \in Nat /\ pau[i].gen \in Nat
           /\ \A i \in DOMAIN pin : pin[i].n \in Nat /\ pin[i].n >= 1
<1>1. \A c \in Chunks : c.frame.n \in Nat /\ c.gen \in Nat  BY BoundAssumption DEF Chunks, Frames
<1>2. \A f \in Frames : f.n \in Nat /\ f.n >= 1  BY BoundAssumption DEF Frames
<1>3. sent \in Seq(Sendings) /\ pin \in Seq(Frames) /\ pau \in Seq(Chunks) /\ top \in Nat /\ gen \in Nat
      BY CallsTyped, BoundAssumption DEF Sound, Typed, AudioTyped, ClientTyped
<1>4. \A i \in DOMAIN sent : sent[i].audio \in Chunks  BY <1>3, SentItems
<1>5. \A i \in DOMAIN pau : pau[i] \in Chunks  BY <1>3, LenProperties, ElementOfSeq
<1>6. \A i \in DOMAIN pin : pin[i] \in Frames  BY <1>3, LenProperties, ElementOfSeq
<1> QED  BY <1>1, <1>2, <1>3, <1>4, <1>5, <1>6

\* A flush: the frames that wait are decoded and go first, the decoded audio follows.
LEMMA FlushNumbered ==
    ASSUME Ordered, stream = 0, ~isClosed, NEW d, Trails(d), Flush(d, cur),
           dstat' = "ready", UNCHANGED <<gen, top>>
    PROVE  Numbered'
<1> DEFINE D == Decode(pin, d)
           A == Advance(d, pin)
           new == D \o pau
<1>1. /\ sent \in Seq(Sendings) /\ pin \in Seq(Frames) /\ pau \in Seq(Chunks) /\ top \in Nat /\ gen \in Nat
      /\ \A i \in DOMAIN sent : sent[i].audio.frame.n \in Nat /\ sent[i].audio.gen \in Nat
      /\ \A i \in DOMAIN pau : pau[i].frame.n \in Nat /\ pau[i].gen \in Nat
      /\ \A i \in DOMAIN pin : pin[i].n \in Nat
      BY ItemNumbers DEF Ordered
<1>2. /\ D \in Seq(Chunks) /\ InUse(A) /\ A.gen = d.gen /\ d.last \in Nat /\ d.gen \in Nat
      /\ \A k \in DOMAIN D : /\ D[k].gen = d.gen /\ D[k].frame.n \in Nat /\ D[k].frame.n > d.last
                             /\ D[k].frame.n <= A.last
                             /\ \E i \in DOMAIN pin : D[k].frame = pin[i]
      /\ \A k, l \in DOMAIN D : k < l => D[k].frame.n < D[l].frame.n
      /\ A.last \in Nat /\ A.last >= d.last
      /\ A.last # d.last => \E i \in DOMAIN pin : A.last = pin[i].n
      BY <1>1, DecodeNumbers DEF Trails
<1>3. cur \in Backends  BY CurrentBackend DEF Ordered
<1>4. InOrder /\ PauOrder /\ PinOrder  BY DEF Ordered, Numbered
<1>5. /\ sent' = sent \o To(new, cur) /\ pin' = <<>> /\ pau' = <<>> /\ decoder' = A  BY DEF Flush
<1> HIDE DEF D, A
<1>6. /\ new \in Seq(Chunks) /\ DOMAIN new = 1..(Len(D) + Len(pau))
      /\ DOMAIN D = 1..Len(D) /\ DOMAIN pau = 1..Len(pau) /\ Len(D) \in Nat /\ Len(pau) \in Nat
      /\ \A i \in DOMAIN D : new[i] = D[i]
      /\ \A i \in DOMAIN new : i > Len(D) => i - Len(D) \in DOMAIN pau /\ new[i] = pau[i - Len(D)]
      BY <1>1, <1>2, ChunksJoined
<1> HIDE DEF new
<1>7. \A k \in DOMAIN new :
        \/ k \in DOMAIN D /\ new[k] = D[k]
        \/ k - Len(D) \in DOMAIN pau /\ new[k] = pau[k - Len(D)] /\ k > Len(D)
  <2> SUFFICES ASSUME NEW k \in DOMAIN new
               PROVE \/ k \in DOMAIN D /\ new[k] = D[k]
                     \/ k - Len(D) \in DOMAIN pau /\ new[k] = pau[k - Len(D)] /\ k > Len(D)
      OBVIOUS
  <2>1. CASE k > Len(D)  BY <1>6, <2>1
  <2>2. CASE ~(k > Len(D))
    <3>1. k \in DOMAIN D  BY <1>6, <2>2
    <3> QED  BY <1>6, <3>1
  <2> QED  BY <2>1, <2>2
<1>8. \A k \in DOMAIN new : new[k].gen = d.gen /\ new[k].frame.n <= A.last /\ new[k].frame.n \in Nat
  <2> SUFFICES ASSUME NEW k \in DOMAIN new
               PROVE new[k].gen = d.gen /\ new[k].frame.n <= A.last /\ new[k].frame.n \in Nat
      OBVIOUS
  <2>1. CASE k \in DOMAIN D /\ new[k] = D[k]  BY <1>2, <2>1
  <2>2. CASE k - Len(D) \in DOMAIN pau /\ new[k] = pau[k - Len(D)]
    <3>1. PICK m \in DOMAIN pau : new[k] = pau[m]  BY <2>2
    <3>2. pau[m].gen = d.gen /\ pau[m].frame.n <= d.last  BY DEF Trails
    <3> QED  BY <1>1, <1>2, <3>1, <3>2
  <2> QED  BY <1>7, <2>1, <2>2
<1>9. ASSUME NEW i \in DOMAIN sent, NEW k \in DOMAIN new, sent[i].audio.gen = new[k].gen
      PROVE  sent[i].audio.frame.n < new[k].frame.n
  <2>1. sent[i].audio.frame.n <= d.last  BY <1>8, <1>9 DEF Trails
  <2>2. CASE k \in DOMAIN D /\ new[k] = D[k]  BY <1>1, <1>2, <2>1, <2>2
  <2>3. CASE k - Len(D) \in DOMAIN pau /\ new[k] = pau[k - Len(D)]
    <3>1. PICK m \in DOMAIN pau : new[k] = pau[m]  BY <2>3
    <3> QED  BY <1>4, <1>9, <3>1 DEF PauOrder
  <2> QED  BY <1>7, <2>2, <2>3
<1>10. ASSUME NEW k \in DOMAIN new, NEW l \in DOMAIN new, k < l
       PROVE  /\ new[k].frame.n # new[l].frame.n
              /\ new[k].frame.n < new[l].frame.n \/ new[l].frame.late
  <2>1. CASE l \in DOMAIN D /\ new[l] = D[l]
    <3>1. k \in DOMAIN D /\ new[k] = D[k]  BY <1>6, <1>10, <2>1
    <3>2. D[k].frame.n < D[l].frame.n  BY <1>2, <1>10, <2>1, <3>1
    <3> QED  BY <1>2, <2>1, <3>1, <3>2
  <2>2. CASE l - Len(D) \in DOMAIN pau /\ new[l] = pau[l - Len(D)] /\ l > Len(D)
    <3> DEFINE m == l - Len(D)
    <3>1. m \in DOMAIN pau /\ new[l] = pau[m]  BY <2>2
    <3>2. CASE k \in DOMAIN D /\ new[k] = D[k]
      <4>1. PICK i \in DOMAIN pin : D[k].frame = pin[i]  BY <1>2, <3>2
      <4>2. D[k].frame.n > d.last /\ D[k].frame.n \in Nat  BY <1>2, <3>2
      <4>3. pau[m].frame.n <= d.last /\ pau[m].frame.n \in Nat  BY <1>1, <3>1 DEF Trails
      <4>4. pau[m].frame.late \/ pin[i].n < pau[m].frame.n  BY <1>4, <3>1, <4>1 DEF PauOrder
      <4> HIDE DEF m
      <4> QED  BY <1>2, <3>1, <3>2, <4>1, <4>2, <4>3, <4>4
    <3>3. CASE k - Len(D) \in DOMAIN pau /\ new[k] = pau[k - Len(D)]
      <4> DEFINE p == k - Len(D)
      <4>1. p \in DOMAIN pau /\ new[k] = pau[p] /\ p < m  BY <1>6, <1>10, <3>3
      <4>2. pau[p].frame.n < pau[m].frame.n  BY <1>4, <3>1, <4>1 DEF PauOrder
      <4> HIDE DEF m, p
      <4> QED  BY <1>1, <3>1, <4>1, <4>2
    <3> QED  BY <1>7, <3>2, <3>3
  <2> QED  BY <1>7, <2>1, <2>2
<1>11. InOrder'  BY <1>1, <1>3, <1>4, <1>5, <1>6, <1>9, <1>10, SendInOrder
<1>12. /\ Len(sent) \in Nat /\ DOMAIN sent = 1..Len(sent) /\ DOMAIN sent' = 1..Len(sent')
       /\ Len(sent') \in Nat
       /\ \A i \in DOMAIN sent : sent'[i] = sent[i]
       /\ \A i \in DOMAIN sent' : i > Len(sent) =>
            i - Len(sent) \in DOMAIN new /\ sent'[i].audio = new[i - Len(sent)]
  <2>1. /\ sent' \in Seq(Sendings) /\ Len(sent') = Len(sent) + Len(new)
        /\ Len(sent) \in Nat /\ Len(new) \in Nat
        /\ DOMAIN sent = 1..Len(sent) /\ DOMAIN sent' = 1..Len(sent')
        /\ \A i \in DOMAIN sent : sent'[i] = sent[i]
        /\ \A i \in DOMAIN sent' : i > Len(sent) =>
             /\ i - Len(sent) \in DOMAIN new
             /\ sent'[i].audio = new[i - Len(sent)] /\ sent'[i].to = cur
        BY <1>1, <1>3, <1>5, <1>6, SentAfter
  <2> QED  BY <2>1
<1>13. ASSUME NEW i \in DOMAIN sent'
       PROVE  /\ sent'[i].audio.gen <= A.gen
              /\ sent'[i].audio.gen = A.gen => sent'[i].audio.frame.n <= A.last
  <2>1. CASE i > Len(sent)
    <3>1. PICK k \in DOMAIN new : sent'[i].audio = new[k]  BY <1>12, <2>1
    <3> QED  BY <1>2, <1>8, <3>1
  <2>2. CASE ~(i > Len(sent))
    <3>1. i \in DOMAIN sent /\ sent'[i] = sent[i]  BY <1>12, <2>2
    <3> QED  BY <1>1, <1>2, <3>1 DEF Trails
  <2> QED  BY <2>1, <2>2
<1>14. A.last <= top
  <2>1. CASE A.last = d.last  BY <2>1 DEF Trails
  <2>2. CASE A.last # d.last
    <3>1. PICK i \in DOMAIN pin : A.last = pin[i].n  BY <1>2, <2>2
    <3> QED  BY <1>4, <3>1 DEF PinOrder
  <2> QED  BY <2>1, <2>2
<1>15. Trails(decoder)'
       BY <1>2, <1>5, <1>13, <1>14 DEF Trails, InUse
<1>16. PauOrder' /\ PinOrder'  BY <1>5 DEF PauOrder, PinOrder
<1> QED  BY <1>11, <1>15, <1>16 DEF Numbered
-----------------------------------------------------------------------------
\* Steps that send nothing.
LEMMA QuietNumbered ==
    ASSUME Numbered, stream = 0, UNCHANGED <<profile, isClosed, gen, dstat, decoder, sent, pin, pau, top>>
    PROVE  Numbered'
BY DEF Numbered, InOrder, Trails, InUse, PauOrder, PinOrder, Provider

LEMMA ClosingNumbered ==
    ASSUME Numbered, stream = 0, isClosed', sent' = sent
    PROVE  Numbered'
BY DEF Numbered, InOrder

LEMMA FlushIfReadyNumbered ==
    ASSUME Ordered, stream = 0, ~isClosed, FlushIfReady, UNCHANGED <<profile, isClosed, gen, dstat, top>>
    PROVE  Numbered'
<1>1. CASE dstat = "ready"
      BY <1>1, FlushNumbered DEF FlushIfReady, Ordered, Numbered
<1>2. CASE dstat # "ready"
      BY <1>2, QuietNumbered DEF FlushIfReady, audio, Ordered
<1> QED  BY <1>1, <1>2

\* The generation goes on and what waits stays: recovery.
LEMMA OnErrorNumbered ==
    ASSUME Ordered, stream = 0, NEW st, NEW r, NEW ts, OnError(st, r, ts),
           UNCHANGED <<profile, pin, pau, sent, top>>
    PROVE  Numbered'
<1>1. CASE DoClose(st, gauge, cur)  BY <1>1, ClosingNumbered DEF DoClose, Ordered
<1>2. CASE gen' = gen + 1 /\ UNCHANGED <<isClosed, dstat, decoder>>
  <2>1. InOrder'  BY <1>2 DEF Ordered, Numbered, InOrder
  <2>2. CASE isClosed  BY <1>2, <2>1, <2>2 DEF Numbered
  <2>3. CASE ~isClosed
    <3>1. gen \in Nat /\ \A i \in DOMAIN sent : sent[i].audio.gen \in Nat  BY ItemNumbers DEF Ordered
    <3>2. PauOrder' /\ PinOrder'  BY <1>2, <2>3 DEF Ordered, Numbered, PauOrder, PinOrder, Provider
    <3>3. dstat' = "pending" => \A i \in DOMAIN sent' : sent'[i].audio.gen < gen'
          BY <1>2, <2>3, <3>1 DEF Ordered, Numbered
    <3>4. ASSUME dstat' = "ready"  PROVE Trails(decoder)'
      <4>1. Trails(decoder)  BY <1>2, <2>3, <3>4 DEF Ordered, Numbered
      <4>2. decoder.gen \in Nat  BY <4>1, DecoderFields DEF Trails, InUse
      <4> QED  BY <1>2, <3>1, <4>1, <4>2 DEF Trails, InUse
    <3> QED  BY <1>2, <2>1, <2>3, <3>2, <3>3, <3>4 DEF Numbered
  <2> QED  BY <2>2, <2>3
<1> QED  BY <1>1, <1>2 DEF OnError

LEMMA StartEventNumbered ==
    ASSUME Ordered, stream = 0, NEW f, StartEvent(f), profile' = profile
    PROVE  Numbered'
<1>1. /\ pin' = <<>> /\ pau' = <<>> /\ sent' = sent /\ dstat' = "pending" /\ gen' = gen + 1
      /\ ~isClosed
      BY DEF StartEvent, DropQueues
<1>2. gen \in Nat /\ \A i \in DOMAIN sent : sent[i].audio.gen \in Nat  BY ItemNumbers DEF Ordered
<1>3. \A i \in DOMAIN sent : sent[i].audio.gen < gen + 1
  <2>1. CASE dstat = "ready"
    <3>1. Trails(decoder)  BY <1>1, <2>1 DEF Ordered, Numbered
    <3>2. decoder.gen \in Nat  BY <3>1, DecoderFields DEF Trails, InUse
    <3> QED  BY <1>2, <3>1, <3>2 DEF Trails
  <2>2. CASE dstat = "pending"  BY <1>1, <1>2, <2>2 DEF Ordered, Numbered
  <2> QED  BY <1>1, <2>1, <2>2, CurrentBackend DEF Ordered
<1>4. InOrder'  BY <1>1 DEF Ordered, Numbered, InOrder
<1>5. PauOrder' /\ PinOrder'  BY <1>1 DEF PauOrder, PinOrder
<1> QED  BY <1>1, <1>3, <1>4, <1>5 DEF Numbered

\* A decoder that is still current finds no decoded audio, and all that was sent older.
LEMMA DecoderReadyNumbered ==
    ASSUME Ordered, stream = 0, NEW t \in tasks, DecoderReady(t), profile' = profile
    PROVE  Numbered'
<1> DEFINE d == [in |-> t.in, out |-> t.out, gen |-> t.gen, last |-> 0]
<1>1. UNCHANGED <<isClosed, gen, cur, top>> /\ t.at = "decoder"  BY DEF DecoderReady, history, client
<1>2. CASE UNCHANGED <<dstat, audio>>  BY <1>1, <1>2, QuietNumbered DEF audio, Ordered
<1>3. CASE Current(t) /\ dstat' = "ready"
  <2>1. ~isClosed  BY <1>3, CallsTyped DEF Ordered, Sound, AllOvertaken, Current
  <2>2. dstat = "pending"
    <3>1. t.kind \in {"initReinit", "init", "reinit", "recover"}  BY CallsTyped DEF Ordered, Sound, Tasks
    <3> QED  BY <1>1, <1>3, <3>1 DEF Ordered, Sound, Wiring, CallsApart, Stage, Loading
  <2>3. pau = <<>> /\ \A i \in DOMAIN sent : sent[i].audio.gen < gen
        BY <2>1, <2>2 DEF Ordered, Usable, QueuesFit, Numbered
  <2>4. gen \in Nat /\ top \in Nat /\ \A i \in DOMAIN sent : sent[i].audio.gen \in Nat
        BY ItemNumbers DEF Ordered
  <2>5. InUse(d) /\ d.gen = gen /\ d.last = 0
        BY <1>3, TaskFresh DEF Ordered, Fresh, Current
  <2> HIDE DEF d
  <2>6. Trails(d)  BY <2>3, <2>4, <2>5 DEF Trails
  <2>7. CASE Flush(d, cur)  BY <1>1, <1>3, <2>1, <2>6, <2>7, FlushNumbered
  <2>8. CASE decoder' = d /\ UNCHANGED <<pin, pau, sent>>
    <3>1. Trails(decoder)'  BY <1>1, <2>6, <2>8 DEF Trails, InUse
    <3>2. InOrder' /\ PauOrder' /\ PinOrder'
          BY <1>1, <2>1, <2>8 DEF Ordered, Numbered, InOrder, PauOrder, PinOrder, Provider
    <3> QED  BY <1>3, <3>1, <3>2 DEF Numbered
  <2> QED  BY <1>3, <2>7, <2>8 DEF DecoderReady, d
<1> QED  BY <1>2, <1>3 DEF DecoderReady

LEMMA ReconnectedNumbered ==
    ASSUME Ordered, stream = 0, NEW t \in tasks, Reconnected(t), profile' = profile
    PROVE  Numbered'
<1>1. UNCHANGED <<isClosed, gen, dstat, top>>  BY DEF Reconnected, history, client
<1>2. CASE UNCHANGED audio  BY <1>1, <1>2, QuietNumbered DEF audio, Ordered
<1>3. CASE ~isClosed /\ FlushIfReady  BY <1>1, <1>3, FlushIfReadyNumbered
<1> QED  BY <1>2, <1>3 DEF Reconnected

\* A frame for a decoder that is still loading.
LEMMA PendingMediaNumbered ==
    ASSUME Ordered, stream = 0, ~isClosed, NEW n \in 1..MaxFrames, dstat = "pending",
           pin' = Append(pin, Arriving(n)), top' = IF n > top THEN n ELSE top,
           UNCHANGED <<profile, isClosed, gen, dstat, sent, pau>>
    PROVE  Numbered'
<1>1. pin \in Seq(Frames) /\ Arriving(n) \in Frames /\ top \in Nat /\ n \in Nat
      /\ \A i \in DOMAIN pin : pin[i].n \in Nat
      BY ItemNumbers, ArrivingTyped, BoundAssumption DEF Ordered, Sound, Typed
<1>2. Arriving(n).n = n /\ (Arriving(n).late <=> n <= top)  BY DEF Arriving
<1>3. /\ DOMAIN pin = 1..Len(pin) /\ Len(pin) \in Nat /\ DOMAIN pin' = 1..(Len(pin) + 1)
      /\ \A i \in 1..(Len(pin) + 1) : pin'[i] = IF i = Len(pin) + 1 THEN Arriving(n) ELSE pin[i]
  <2>1. DOMAIN pin = 1..Len(pin) /\ Len(pin) \in Nat  BY <1>1, LenProperties
  <2>2. pin' \in Seq(Frames) /\ Len(pin') = Len(pin) + 1  BY <1>1
  <2>3. DOMAIN pin' = 1..(Len(pin) + 1)  BY <2>2, LenProperties
  <2>4. \A i \in 1..(Len(pin) + 1) : pin'[i] = IF i = Len(pin) + 1 THEN Arriving(n) ELSE pin[i]
        BY <1>1, <2>1
  <2> QED  BY <2>1, <2>3, <2>4
<1>4. PinOrder  BY DEF Ordered, Numbered
<1>5. \A i \in DOMAIN pin' : pin'[i].n <= top'
      BY <1>1, <1>2, <1>3, <1>4 DEF PinOrder
<1>6. ASSUME NEW i \in DOMAIN pin', NEW j \in DOMAIN pin', i < j
      PROVE  pin'[j].late \/ pin'[i].n < pin'[j].n
  <2>1. i \in DOMAIN pin /\ pin'[i] = pin[i]  BY <1>3, <1>6
  <2>2. CASE j = Len(pin) + 1
    <3>1. pin'[j] = Arriving(n)  BY <1>3, <2>2
    <3>2. pin[i].n <= top /\ pin[i].n \in Nat  BY <1>1, <1>4, <2>1 DEF PinOrder
    <3> QED  BY <1>1, <1>2, <2>1, <3>1, <3>2
  <2>3. CASE j # Len(pin) + 1
    <3>1. j \in DOMAIN pin /\ pin'[j] = pin[j]  BY <1>3, <2>3
    <3> QED  BY <1>4, <1>6, <2>1, <3>1 DEF PinOrder
  <2> QED  BY <2>2, <2>3
<1>7. PinOrder'  BY <1>5, <1>6 DEF PinOrder
<1>8. pau = <<>>  BY DEF Ordered, Usable, QueuesFit
<1>9. PauOrder'  BY <1>8 DEF PauOrder
<1> QED  BY <1>7, <1>9 DEF Ordered, Numbered, InOrder

\* The chunk made of frame n that has just come, if it is taken, by the decoder, which is
\* then later: it follows all that was sent and all that waits.
Follows(chunk, later, n) ==
    /\ chunk \in Seq(Chunks)
    /\ InUse(later) /\ later.gen = decoder.gen /\ later.gen \in Nat /\ later.last \in Nat
    /\ later.last >= decoder.last /\ decoder.last \in Nat /\ decoder.gen \in Nat
    /\ later.last <= IF n > top THEN n ELSE top
    /\ \A k \in DOMAIN chunk :
         /\ chunk[k].gen = decoder.gen /\ chunk[k].frame = Arriving(n)
         /\ chunk[k].frame.n \in Nat /\ chunk[k].frame.n <= later.last
         /\ chunk[k].frame.n > decoder.last
    /\ \A k, l \in DOMAIN chunk : k < l => chunk[k].frame.n < chunk[l].frame.n

LEMMA NextChunk ==
    ASSUME Ordered, stream = 0, ~isClosed, dstat = "ready", NEW n \in 1..MaxFrames
    PROVE  Follows(Decode(<<Arriving(n)>>, decoder), Advance(decoder, <<Arriving(n)>>), n)
<1> DEFINE q == <<Arriving(n)>>
           chunk == Decode(q, decoder)
           later == Advance(decoder, q)
<1>1. /\ q \in Seq(Frames) /\ DOMAIN q = {1} /\ q[1] = Arriving(n) /\ Arriving(n).n = n
      BY ArrivingTyped DEF Ordered, Sound, Typed, Arriving
<1>2. Trails(decoder)  BY DEF Ordered, Numbered
<1>3. top \in Nat /\ n \in Nat  BY ItemNumbers, BoundAssumption DEF Ordered
<1> HIDE DEF q
<1>4. /\ chunk \in Seq(Chunks) /\ InUse(later) /\ later.gen = decoder.gen
      /\ decoder.last \in Nat /\ decoder.gen \in Nat
      /\ \A k \in DOMAIN chunk :
           /\ chunk[k].gen = decoder.gen
           /\ chunk[k].frame.n \in Nat
           /\ chunk[k].frame.n > decoder.last
           /\ chunk[k].frame.n <= later.last
           /\ \E i \in DOMAIN q : chunk[k].frame = q[i]
      /\ \A k, l \in DOMAIN chunk : k < l => chunk[k].frame.n < chunk[l].frame.n
      /\ later.last \in Nat /\ later.last >= decoder.last
      /\ later.last # decoder.last => \E i \in DOMAIN q : later.last = q[i].n
      BY <1>1, <1>2, DecodeNumbers DEF Trails
<1> HIDE DEF chunk, later
<1>5. \A k \in DOMAIN chunk : chunk[k].frame = Arriving(n)  BY <1>1, <1>4
<1>6. later.last # decoder.last => later.last = n  BY <1>1, <1>4
<1>7. decoder.last <= top  BY <1>2 DEF Trails
<1>8. later.last <= IF n > top THEN n ELSE top  BY <1>3, <1>4, <1>6, <1>7
<1> QED  BY <1>4, <1>5, <1>8 DEF Follows, chunk, later, q

\* It is sent at once.
LEMMA SentMediaNumbered ==
    ASSUME Ordered, stream = 0, ~isClosed, NEW n \in 1..MaxFrames, dstat = "ready", pau = <<>>,
           NEW chunk, NEW later, Follows(chunk, later, n), decoder' = later,
           top' = IF n > top THEN n ELSE top,
           sent' = sent \o To(chunk, cur),
           UNCHANGED <<profile, isClosed, gen, dstat, pin, pau>>
    PROVE  Numbered'
<1>1. /\ chunk \in Seq(Chunks)
      /\ InUse(later) /\ later.gen = decoder.gen /\ later.gen \in Nat /\ later.last \in Nat
      /\ later.last >= decoder.last /\ decoder.last \in Nat /\ decoder.gen \in Nat
      /\ later.last <= top'
      BY DEF Follows
<1>a. \A k \in DOMAIN chunk :
        /\ chunk[k].gen = decoder.gen /\ chunk[k].frame = Arriving(n)
        /\ chunk[k].frame.n \in Nat /\ chunk[k].frame.n <= later.last
        /\ chunk[k].frame.n > decoder.last
      BY DEF Follows
<1>b. \A k, l \in DOMAIN chunk : k < l => chunk[k].frame.n < chunk[l].frame.n
      BY DEF Follows
<1>3. /\ sent \in Seq(Sendings) /\ pin \in Seq(Frames) /\ top \in Nat /\ gen \in Nat
      /\ \A i \in DOMAIN sent : sent[i].audio.frame.n \in Nat /\ sent[i].audio.gen \in Nat
      /\ \A i \in DOMAIN pin : pin[i].n \in Nat
      /\ n \in Nat
      BY ItemNumbers, BoundAssumption DEF Ordered
<1>4. cur \in Backends  BY CurrentBackend DEF Ordered
<1>5. InOrder /\ PauOrder /\ PinOrder /\ Trails(decoder)  BY DEF Ordered, Numbered
<1>6. InOrder'
  <2>1. ASSUME NEW i \in DOMAIN sent, NEW k \in DOMAIN chunk, sent[i].audio.gen = chunk[k].gen
        PROVE  sent[i].audio.frame.n < chunk[k].frame.n
    <3>1. sent[i].audio.frame.n <= decoder.last  BY <1>1, <1>a, <1>5, <2>1 DEF Trails
    <3> QED  BY <1>1, <1>a, <1>3, <3>1
  <2>2. \A k, l \in DOMAIN chunk : k < l =>
          chunk[k].frame.n # chunk[l].frame.n /\ chunk[k].frame.n < chunk[l].frame.n
        BY <1>a, <1>b
  <2> QED  BY <1>1, <1>3, <1>4, <1>5, <2>1, <2>2, SendInOrder
<1>7. /\ Len(sent) \in Nat /\ DOMAIN sent = 1..Len(sent) /\ DOMAIN sent' = 1..Len(sent')
      /\ Len(sent') \in Nat
      /\ \A i \in DOMAIN sent : sent'[i] = sent[i]
      /\ \A i \in DOMAIN sent' : i > Len(sent) =>
           i - Len(sent) \in DOMAIN chunk /\ sent'[i].audio = chunk[i - Len(sent)]
  <2>1. /\ sent' \in Seq(Sendings) /\ Len(sent') = Len(sent) + Len(chunk)
        /\ Len(sent) \in Nat /\ Len(chunk) \in Nat
        /\ DOMAIN sent = 1..Len(sent) /\ DOMAIN sent' = 1..Len(sent')
        /\ \A i \in DOMAIN sent : sent'[i] = sent[i]
        /\ \A i \in DOMAIN sent' : i > Len(sent) =>
             /\ i - Len(sent) \in DOMAIN chunk
             /\ sent'[i].audio = chunk[i - Len(sent)] /\ sent'[i].to = cur
        BY <1>1, <1>3, <1>4, SentAfter
  <2> QED  BY <2>1
<1>8. ASSUME NEW i \in DOMAIN sent'
      PROVE  /\ sent'[i].audio.gen <= later.gen
             /\ sent'[i].audio.gen = later.gen => sent'[i].audio.frame.n <= later.last
  <2>1. CASE i > Len(sent)
    <3>1. PICK k \in DOMAIN chunk : sent'[i].audio = chunk[k]  BY <1>7, <2>1
    <3> QED  BY <1>1, <1>a, <3>1
  <2>2. CASE ~(i > Len(sent))
    <3>1. i \in DOMAIN sent /\ sent'[i] = sent[i]  BY <1>7, <2>2
    <3>2. /\ sent[i].audio.gen <= decoder.gen
          /\ sent[i].audio.gen = decoder.gen => sent[i].audio.frame.n <= decoder.last
          BY <1>5, <3>1 DEF Trails
    <3> QED  BY <1>1, <1>3, <3>1, <3>2
  <2> QED  BY <2>1, <2>2
<1>9. Trails(decoder)'  BY <1>1, <1>5, <1>8 DEF Trails, InUse
<1>10. PinOrder'  BY <1>3, <1>5 DEF PinOrder
<1>11. PauOrder'  BY DEF PauOrder
<1> QED  BY <1>6, <1>9, <1>10, <1>11 DEF Numbered

\* It waits for the backend.
LEMMA QueuedMediaNumbered ==
    ASSUME Ordered, stream = 0, ~isClosed, NEW n \in 1..MaxFrames, dstat = "ready", Provider # "aws",
           NEW chunk, NEW later, Follows(chunk, later, n), decoder' = later,
           top' = IF n > top THEN n ELSE top,
           pau' = pau \o chunk,
           UNCHANGED <<profile, isClosed, gen, dstat, pin, sent>>
    PROVE  Numbered'
<1>1. /\ chunk \in Seq(Chunks)
      /\ InUse(later) /\ later.gen = decoder.gen /\ later.gen \in Nat /\ later.last \in Nat
      /\ later.last >= decoder.last /\ decoder.last \in Nat /\ decoder.gen \in Nat
      /\ later.last <= top'
      BY DEF Follows
<1>a. \A k \in DOMAIN chunk :
        /\ chunk[k].gen = decoder.gen /\ chunk[k].frame = Arriving(n)
        /\ chunk[k].frame.n \in Nat /\ chunk[k].frame.n <= later.last
        /\ chunk[k].frame.n > decoder.last
      BY DEF Follows
<1>b. \A k, l \in DOMAIN chunk : k < l => chunk[k].frame.n < chunk[l].frame.n
      BY DEF Follows
<1>3. /\ pau \in Seq(Chunks) /\ top \in Nat /\ n \in Nat
      /\ \A i \in DOMAIN sent : sent[i].audio.frame.n \in Nat /\ sent[i].audio.gen \in Nat
      /\ \A i \in DOMAIN pau : pau[i].frame.n \in Nat /\ pau[i].gen \in Nat
      /\ \A i \in DOMAIN pin : pin[i].n \in Nat
      BY ItemNumbers, BoundAssumption DEF Ordered
<1>4. Arriving(n).n = n /\ (Arriving(n).late <=> n <= top)  BY DEF Arriving
<1>5. InOrder /\ PauOrder /\ PinOrder /\ Trails(decoder)  BY DEF Ordered, Numbered
<1>6. /\ DOMAIN pau = 1..Len(pau) /\ Len(pau) \in Nat /\ Len(chunk) \in Nat
      /\ DOMAIN pau' = 1..(Len(pau) + Len(chunk))
      /\ \A i \in DOMAIN pau : pau'[i] = pau[i]
      /\ \A i \in DOMAIN pau' : i > Len(pau) =>
           i - Len(pau) \in DOMAIN chunk /\ pau'[i] = chunk[i - Len(pau)]
      BY <1>1, <1>3, ChunksJoined
<1>7. \A k \in DOMAIN pau' :
        \/ k \in DOMAIN pau /\ pau'[k] = pau[k]
        \/ k - Len(pau) \in DOMAIN chunk /\ pau'[k] = chunk[k - Len(pau)] /\ k > Len(pau)
  <2> SUFFICES ASSUME NEW k \in DOMAIN pau'
               PROVE \/ k \in DOMAIN pau /\ pau'[k] = pau[k]
                     \/ k - Len(pau) \in DOMAIN chunk /\ pau'[k] = chunk[k - Len(pau)] /\ k > Len(pau)
      OBVIOUS
  <2>1. CASE k > Len(pau)  BY <1>6, <2>1
  <2>2. CASE ~(k > Len(pau))
    <3>1. k \in DOMAIN pau  BY <1>6, <2>2
    <3> QED  BY <1>6, <3>1
  <2> QED  BY <2>1, <2>2
<1>8. \A j \in DOMAIN pau : pau[j].gen = decoder.gen /\ pau[j].frame.n <= decoder.last
      BY <1>5 DEF Trails
<1>9. \A k \in DOMAIN pau' : pau'[k].gen = later.gen /\ pau'[k].frame.n <= later.last
  <2> SUFFICES ASSUME NEW k \in DOMAIN pau'
               PROVE pau'[k].gen = later.gen /\ pau'[k].frame.n <= later.last
      OBVIOUS
  <2>1. CASE k \in DOMAIN pau /\ pau'[k] = pau[k]  BY <1>1, <1>3, <1>8, <2>1
  <2>2. CASE k - Len(pau) \in DOMAIN chunk /\ pau'[k] = chunk[k - Len(pau)]  BY <1>1, <1>a, <2>2
  <2> QED  BY <1>7, <2>1, <2>2
<1>10. Trails(decoder)'
  <2>1. \A i \in DOMAIN sent :
          /\ sent[i].audio.gen <= later.gen
          /\ sent[i].audio.gen = later.gen => sent[i].audio.frame.n <= later.last
        BY <1>1, <1>3, <1>5 DEF Trails
  <2>2. later.gen <= gen  BY <1>1, <1>5 DEF Trails
  <2> QED  BY <1>1, <1>9, <2>1, <2>2 DEF Trails, InUse
<1>11. ASSUME NEW i \in DOMAIN pau', NEW j \in DOMAIN pau', i < j
       PROVE  pau'[i].frame.n < pau'[j].frame.n
  <2>1. CASE j \in DOMAIN pau /\ pau'[j] = pau[j]
    <3>1. i \in DOMAIN pau /\ pau'[i] = pau[i]  BY <1>6, <1>11, <2>1
    <3> QED  BY <1>5, <1>11, <2>1, <3>1 DEF PauOrder
  <2>2. CASE j - Len(pau) \in DOMAIN chunk /\ pau'[j] = chunk[j - Len(pau)] /\ j > Len(pau)
    <3> DEFINE l == j - Len(pau)
    <3>1. l \in DOMAIN chunk /\ pau'[j] = chunk[l]  BY <2>2
    <3>2. CASE i \in DOMAIN pau /\ pau'[i] = pau[i]
      <4> HIDE DEF l
      <4> QED  BY <1>1, <1>a, <1>3, <1>8, <3>1, <3>2
    <3>3. CASE i - Len(pau) \in DOMAIN chunk /\ pau'[i] = chunk[i - Len(pau)]
      <4> DEFINE k == i - Len(pau)
      <4>1. k \in DOMAIN chunk /\ pau'[i] = chunk[k] /\ k < l  BY <1>6, <1>11, <3>3
      <4> HIDE DEF k, l
      <4> QED  BY <1>b, <3>1, <4>1
    <3> QED  BY <1>7, <3>2, <3>3
  <2> QED  BY <1>7, <2>1, <2>2
<1>12. ASSUME NEW i \in DOMAIN sent, NEW j \in DOMAIN pau', sent[i].audio.gen = pau'[j].gen
       PROVE  sent[i].audio.frame.n < pau'[j].frame.n
  <2>1. CASE j \in DOMAIN pau /\ pau'[j] = pau[j]  BY <1>5, <1>12, <2>1 DEF PauOrder
  <2>2. CASE j - Len(pau) \in DOMAIN chunk /\ pau'[j] = chunk[j - Len(pau)]
    <3>1. PICK k \in DOMAIN chunk : pau'[j] = chunk[k]  BY <2>2
    <3>2. sent[i].audio.frame.n <= decoder.last  BY <1>1, <1>a, <1>5, <1>12, <3>1 DEF Trails
    <3> QED  BY <1>1, <1>a, <1>3, <3>1, <3>2
  <2> QED  BY <1>7, <2>1, <2>2
<1>13. ASSUME NEW i \in DOMAIN pin, NEW j \in DOMAIN pau'
       PROVE  pau'[j].frame.late \/ pin[i].n < pau'[j].frame.n
  <2>1. CASE j \in DOMAIN pau /\ pau'[j] = pau[j]  BY <1>5, <2>1 DEF PauOrder
  <2>2. CASE j - Len(pau) \in DOMAIN chunk /\ pau'[j] = chunk[j - Len(pau)]
    <3>1. PICK k \in DOMAIN chunk : pau'[j] = chunk[k]  BY <2>2
    <3>2. chunk[k].frame = Arriving(n)  BY <1>a
    <3>3. pin[i].n <= top /\ pin[i].n \in Nat  BY <1>3, <1>5 DEF PinOrder
    <3> QED  BY <1>3, <1>4, <3>1, <3>2, <3>3
  <2> QED  BY <1>7, <2>1, <2>2
<1>14. PauOrder'  BY <1>11, <1>12, <1>13 DEF PauOrder, Provider
<1>15. PinOrder'  BY <1>3, <1>5 DEF PinOrder
<1>16. InOrder'  BY <1>5 DEF InOrder
<1> QED  BY <1>10, <1>14, <1>15, <1>16 DEF Numbered
-----------------------------------------------------------------------------
LEMMA MediaNumbered ==
    ASSUME Ordered, stream = 0, NEW n \in 1..MaxFrames, Media(n), profile' = profile
    PROVE  Numbered'
<1> DEFINE chunk == Decode(<<Arriving(n)>>, decoder)
           later == Advance(decoder, <<Arriving(n)>>)
<1>1. /\ ~isClosed /\ UNCHANGED <<isClosed, gen, dstat>> /\ MicrotasksDone
      /\ top' = IF n > top THEN n ELSE top
      BY DEF Media, control
<1>2. CASE /\ dstat = "pending" /\ pin' = Append(pin, Arriving(n)) /\ UNCHANGED <<pau, sent>>
      BY <1>1, <1>2, PendingMediaNumbered
<1>3. ASSUME dstat = "ready"
      PROVE  Follows(chunk, later, n)
      BY <1>1, <1>3, NextChunk
<1> HIDE DEF chunk, later
<1>4. CASE /\ dstat = "ready" /\ UNCHANGED <<pin, pau>> /\ decoder' = later
           /\ bstat[cur] = "connected" \/ Provider = "aws"
           /\ sent' = sent \o To(chunk, cur)
  <2>1. pau = <<>>
    <3>1. CASE bstat[cur] = "connected"
          BY <1>1, <1>4, <3>1, NothingSettled DEF Ordered, Usable, Flushed
    <3>2. CASE Provider = "aws"  BY <1>1, <3>2 DEF Ordered, Numbered, PauOrder
    <3> QED  BY <1>4, <3>1, <3>2
  <2> QED  BY <1>1, <1>3, <1>4, <2>1, SentMediaNumbered
<1>5. CASE /\ dstat = "ready" /\ UNCHANGED <<pin, sent>> /\ decoder' = later
           /\ Provider # "aws" /\ pau' = pau \o chunk
      BY <1>1, <1>3, <1>5, QueuedMediaNumbered
<1>6. CASE dstat = "ready" /\ UNCHANGED <<pin, pau, sent>> /\ decoder' = later
  <2>1. /\ top \in Nat /\ n \in Nat /\ \A i \in DOMAIN pin : pin[i].n \in Nat
        /\ \A i \in DOMAIN sent : sent[i].audio.frame.n \in Nat /\ sent[i].audio.gen \in Nat
        /\ \A i \in DOMAIN pau : pau[i].frame.n \in Nat /\ pau[i].gen \in Nat
        BY ItemNumbers, BoundAssumption DEF Ordered
  <2>2. /\ InUse(later) /\ later.gen = decoder.gen /\ later.last \in Nat /\ decoder.gen \in Nat
        /\ later.last >= decoder.last /\ decoder.last \in Nat
        /\ later.last <= top'
        BY <1>1, <1>3, <1>6 DEF Follows
  <2>3. InOrder /\ PauOrder /\ PinOrder /\ Trails(decoder)  BY <1>1, <1>6 DEF Ordered, Numbered
  <2>4. \A i \in DOMAIN sent :
          /\ sent[i].audio.gen <= later.gen
          /\ sent[i].audio.gen = later.gen => sent[i].audio.frame.n <= later.last
        BY <2>1, <2>2, <2>3 DEF Trails
  <2>5. \A i \in DOMAIN pau : pau[i].gen = later.gen /\ pau[i].frame.n <= later.last
        BY <2>1, <2>2, <2>3 DEF Trails
  <2>6. Trails(decoder)'  BY <1>1, <1>6, <2>2, <2>3, <2>4, <2>5 DEF Trails, InUse
  <2>7. InOrder' /\ PauOrder'  BY <1>6, <2>3 DEF InOrder, PauOrder, Provider
  <2>8. \A i \in DOMAIN pin : pin[i].n <= top'  BY <1>1, <2>1, <2>3 DEF PinOrder
  <2>9. PinOrder'  BY <1>6, <2>3, <2>8 DEF PinOrder
  <2> QED  BY <1>1, <1>6, <2>6, <2>7, <2>9 DEF Numbered
<1> QED  BY <1>1, <1>2, <1>4, <1>5, <1>6 DEF Media, Arriving, AcceptsAudioBeforeConnected, chunk, later

LEMMA SameStream ==
    ASSUME Sound, [Next]_vars, stream' = 0
    PROVE  stream = 0 /\ profile' = profile
<1>1. stream \in Nat  BY BoundAssumption DEF Sound, Typed, ClientTyped
<1>2. profile' = profile  BY DEF Next, Resume, ConnectSettles, Event, IdleTimer, vars
<1>3. stream' = stream \/ stream' = stream + 1
  <2>1. CASE Resume
        BY <2>1 DEF Resume, DecoderReady, InitConnected, InitFailed, Reconnected, ReconnectFailed, history, client
  <2>2. CASE ConnectSettles
        BY <2>2 DEF ConnectSettles, BackendOpens, BackendFailsToConnect, ConnectAborted, history, client
  <2>3. CASE Event
        BY <2>3 DEF Event, DecoderFails, StreamError, BackendCloses, FinalTranscript, StartEvent, Media,
                    ResetChunkTracking, Close, history, client
  <2>4. CASE IdleTimer \/ UNCHANGED vars  BY <2>4 DEF IdleTimer, IdleCommit, vars, history, client
  <2> QED  BY <2>1, <2>2, <2>3, <2>4 DEF Next
<1> QED  BY <1>1, <1>2, <1>3

LEMMA NumberedStep == Ordered /\ [Next]_vars => Numbered'
<1> SUFFICES ASSUME Ordered, [Next]_vars, stream' = 0 PROVE Numbered'  BY DEF Numbered
<1>0. Numbered /\ stream = 0 /\ profile' = profile /\ (isClosed \in BOOLEAN)
      BY SameStream DEF Ordered, Sound, Wiring, BackendsTyped
<1>1. ASSUME NEW t \in tasks, InitConnected(t) PROVE Numbered'
  <2>1. CASE isClosed  BY <1>0, <1>1, <2>1, ClosingNumbered DEF InitConnected, audio
  <2>2. CASE ~isClosed
        BY <1>0, <1>1, <2>2, FlushIfReadyNumbered DEF InitConnected, history, client
  <2> QED  BY <2>1, <2>2
<1>2. ASSUME NEW t \in tasks, InitFailed(t) PROVE Numbered'
      BY <1>0, <1>2, ClosingNumbered DEF InitFailed, DoClose
<1>3. ASSUME NEW t \in tasks, ReconnectFailed(t) PROVE Numbered'
  <2>1. CASE Current(t)  BY <1>0, <1>3, <2>1, ClosingNumbered DEF ReconnectFailed, DoClose
  <2>2. CASE ~Current(t)
        BY <1>0, <1>3, <2>2, QuietNumbered DEF ReconnectFailed, history, client
  <2> QED  BY <2>1, <2>2
<1>4. CASE Resume
      BY <1>0, <1>1, <1>2, <1>3, <1>4, DecoderReadyNumbered, ReconnectedNumbered DEF Resume
<1>5. ASSUME NEW t \in tasks, BackendOpens(t) PROVE Numbered'
      BY <1>0, <1>5, QuietNumbered DEF BackendOpens, audio, history, client
<1>6. ASSUME NEW t \in tasks, BackendFailsToConnect(t) PROVE Numbered'
      BY <1>0, <1>6, OnErrorNumbered DEF BackendFailsToConnect, client
<1>7. ASSUME NEW t \in tasks, ConnectAborted(t) PROVE Numbered'
      BY <1>0, <1>7, QuietNumbered DEF ConnectAborted, audio, history, client
<1>8. CASE ConnectSettles  BY <1>5, <1>6, <1>7, <1>8 DEF ConnectSettles
<1>9. ASSUME NEW t \in tasks, DecoderFails(t) PROVE Numbered'
  <2>1. CASE \E c : DoClose(bstat, gauge, c)
        BY <1>0, <1>9, <2>1, ClosingNumbered DEF DecoderFails, DoClose
  <2>2. CASE UNCHANGED <<isClosed, gen, dstat, decoder>>
        BY <1>0, <1>9, <2>2, QuietNumbered DEF DecoderFails, client
  <2> QED  BY <1>9, <2>1, <2>2 DEF DecoderFails
<1>10. ASSUME NEW r, StreamError(r) PROVE Numbered'
       BY <1>0, <1>10, OnErrorNumbered DEF StreamError, client
<1>11. ASSUME NEW b, BackendCloses(b) PROVE Numbered'
       BY <1>0, <1>11, ClosingNumbered DEF BackendCloses, DoClose
<1>12. CASE Close  BY <1>0, <1>12, ClosingNumbered DEF Close, DoClose
<1>13. CASE IdleTimer \/ UNCHANGED vars \/ \E all : FinalTranscript(all)
       BY <1>0, <1>13, QuietNumbered
       DEF IdleTimer, IdleCommit, vars, audio, FinalTranscript, control, history, client
<1>14. CASE ResetChunkTracking
  <2>1. stream' = stream + 1  BY <1>14 DEF ResetChunkTracking
  <2> QED  BY <1>0, <2>1
<1>15. CASE Event
       BY <1>0, <1>9, <1>10, <1>11, <1>12, <1>13, <1>14, <1>15, StartEventNumbered, MediaNumbered DEF Event
<1> QED  BY <1>4, <1>8, <1>13, <1>15 DEF Next
-----------------------------------------------------------------------------
(* Where no decoder loads asynchronously, a decoder starts with its queue.   *)

\* The frames that wait are decoded by the decoder about to be created.
FreshQueue(t) ==
    \/ pin = <<>>
    \/ bstat[cur] = "connected" /\ \A u \in tasks : Replacing(u) => u.b # cur

NoneLost == AsyncInputs = {} /\ stream = 0 =>
    /\ lost = {}
    /\ ~isClosed => /\ dstat = "ready" => pin = <<>>
                    /\ \A t \in tasks : t.at = "decoder" /\ Current(t) => FreshQueue(t)

\* A decoder refuses nothing of a queue it starts with, but late frames.
LEMMA NothingRefusedAtFirst ==
    ASSUME Ordered, Numbered, stream = 0, ~isClosed, NEW d, d.last = 0
    PROVE  Refused(d, pin) = {}
<1>1. PinOrder /\ \A i \in DOMAIN pin : pin[i].n \in Nat /\ pin[i].n >= 1
      BY ItemNumbers DEF Ordered, Numbered
<1>2. DOMAIN pin = 1..Len(pin) /\ Len(pin) \in Nat
      BY ItemNumbers, LenProperties DEF Ordered
<1>3. ASSUME NEW i \in DOMAIN pin, ~pin[i].late  PROVE Accepts(d, pin, i)
  <2>1. \A j \in 1..(i - 1) : j \in DOMAIN pin /\ j < i  BY <1>2
  <2> QED  BY <1>1, <1>3, <2>1 DEF PinOrder, Accepts
<1> QED  BY <1>3 DEF Refused

LEMMA NothingRefusedEmpty ==
    ASSUME NEW d
    PROVE  Refused(d, <<>>) = {}
BY DEF Refused

\* Without asynchronous decoders the loop is idle only when no decoder is awaited.
LEMMA NoDecoderAwaited ==
    ASSUME AsyncInputs = {}, MicrotasksDone
    PROVE  \A t \in tasks : t.at # "decoder"
BY DEF MicrotasksDone, IsMicrotask

LEMMA ClosingLost ==
    ASSUME NoneLost, stream = 0, profile' = profile, isClosed', lost' = lost
    PROVE  NoneLost'
BY DEF NoneLost, AsyncInputs

\* Steps of the idle loop: no decoder is awaited before or after them.
LEMMA IdleLost ==
    ASSUME NoneLost, stream = 0, UNCHANGED <<profile, isClosed, dstat, pin, lost>>,
           AsyncInputs = {} => \A t \in tasks' : t.at # "decoder"
    PROVE  NoneLost'
BY DEF NoneLost, AsyncInputs

\* Steps that take a suspended call away.
LEMMA FewerLost ==
    ASSUME NoneLost, stream = 0,
           UNCHANGED <<profile, isClosed, gen, dstat, cur, bstat, pin, lost>>, tasks' \subseteq tasks
    PROVE  NoneLost'
BY DEF NoneLost, AsyncInputs, FreshQueue, Replacing, Current

LEMMA FlushIfReadyLost ==
    ASSUME Ordered, NoneLost, stream = 0, ~isClosed, FlushIfReady,
           UNCHANGED <<profile, isClosed, gen, dstat, cur, bstat>>, tasks' \subseteq tasks
    PROVE  NoneLost'
<1>1. CASE dstat = "ready"
  <2>1. pin' = <<>> /\ lost' = lost \cup Refused(decoder, pin)  BY <1>1 DEF FlushIfReady, Flush
  <2>2. AsyncInputs = {} => lost' = lost
        BY <1>1, <2>1, NothingRefusedEmpty DEF NoneLost
  <2> QED  BY <2>1, <2>2 DEF NoneLost, AsyncInputs, FreshQueue
<1>2. CASE dstat # "ready"
      BY <1>2, FewerLost DEF FlushIfReady, audio
<1> QED  BY <1>1, <1>2

LEMMA DecoderReadyLost ==
    ASSUME Ordered, NoneLost, stream = 0, NEW t \in tasks, DecoderReady(t), profile' = profile
    PROVE  NoneLost'
<1> DEFINE d == [in |-> t.in, out |-> t.out, gen |-> t.gen, last |-> 0]
<1>1. UNCHANGED <<isClosed, gen, cur, bstat, stream>> /\ t.at = "decoder"
      BY DEF DecoderReady, history, client
<1>2. \A u \in tasks' : u.at = "decoder" \/ Replacing(u) => u \in tasks
  <2>1. CASE tasks' = tasks \ {t}  BY <2>1
  <2>2. CASE tasks' = (tasks \ {t}) \cup {Task("init", "connecting", t.gen, cur, t.in, t.out)}
    <3>1. PICK s : tasks' = (tasks \ {t}) \cup {s} /\ s.kind = "init" /\ s.at = "connecting"
          BY <2>2, TaskFields
    <3> QED  BY <3>1 DEF Replacing
  <2> QED  BY <2>1, <2>2 DEF DecoderReady
<1>3. CASE UNCHANGED <<dstat, audio>>
      BY <1>1, <1>2, <1>3 DEF audio, NoneLost, AsyncInputs, FreshQueue, Current
<1>4. CASE Current(t) /\ dstat' = "ready"
  <2>1. ~isClosed  BY <1>4, CallsTyped DEF Ordered, Sound, AllOvertaken, Current
  <2>2. CASE Flush(d, cur)
    <3>1. pin' = <<>> /\ lost' = lost \cup Refused(d, pin)  BY <2>2 DEF Flush
    <3>2. Refused(d, pin) = {}  BY <2>1, NothingRefusedAtFirst DEF Ordered
    <3> QED  BY <3>1, <3>2 DEF NoneLost, AsyncInputs, FreshQueue
  <2>3. CASE /\ ~(cur # NoBackend /\ bstat[cur] = "connected") /\ UNCHANGED <<pin, lost>>
    <3>1. cur # NoBackend  BY <2>1, CurrentBackend DEF Ordered
    <3>2. AsyncInputs = {} => pin = <<>>
          BY <1>1, <1>4, <2>1, <2>3, <3>1 DEF NoneLost, FreshQueue
    <3> QED  BY <2>3, <3>2 DEF NoneLost, AsyncInputs, FreshQueue
  <2> QED  BY <1>4, <2>2, <2>3 DEF DecoderReady
<1> QED  BY <1>3, <1>4 DEF DecoderReady

LEMMA ReconnectedLost ==
    ASSUME Ordered, NoneLost, stream = 0, NEW t \in tasks, Reconnected(t), profile' = profile
    PROVE  NoneLost'
<1>1. /\ UNCHANGED <<isClosed, gen, dstat, cur, stream>>
      /\ t.kind \in {"recover", "reinit"} /\ t.at = "resolved"
      BY DEF Reconnected, history, client
<1>2. CASE isClosed /\ UNCHANGED audio  BY <1>1, <1>2, ClosingLost DEF audio
<1>3. CASE ~isClosed /\ tasks' = tasks \ {t} /\ bstat' = [bstat EXCEPT ![t.b] = "closed"] /\ UNCHANGED audio
  <2>1. bstat \in [Backends -> {"none", "pending", "connected", "failed", "closed"}] /\ cur \in Backends
        BY <1>3, CurrentBackend DEF Ordered, Sound, Wiring, BackendsTyped
  <2>2. t.b # cur => bstat'[cur] = bstat[cur]  BY <1>3, <2>1
  <2>3. ASSUME NEW u \in tasks', FreshQueue(u)  PROVE FreshQueue(u)'
        BY <1>1, <1>3, <2>2, <2>3 DEF FreshQueue, Replacing, audio
  <2> QED  BY <1>1, <1>3, <2>3 DEF NoneLost, AsyncInputs, Current, audio
<1>4. CASE ~isClosed /\ FlushIfReady /\ tasks' = tasks \ {t} /\ UNCHANGED bstat
      BY <1>1, <1>4, FlushIfReadyLost
<1>5. CASE /\ ~isClosed /\ Current(t) /\ t.kind = "reinit" /\ UNCHANGED <<bstat, audio>>
           /\ tasks' = (tasks \ {t}) \cup {Task("reinit", "decoder", t.gen, NoBackend, inFmt, t.out)}
  <2>1. PICK s : tasks' = (tasks \ {t}) \cup {s} /\ s.kind = "reinit" /\ s.at = "decoder" /\ s.gen = t.gen
        BY <1>5, TaskFields
  <2>2. bstat[cur] = "connected" /\ \A u \in tasks \ {t} : Replacing(u) => u.b # cur
        BY <1>1, <1>5 DEF Ordered, Sound, Wiring, CallsApart, Stage, Apart, Replacing
  <2>3. \A u \in tasks' : FreshQueue(u)'
        BY <1>1, <1>5, <2>1, <2>2 DEF FreshQueue, Replacing
  <2> QED  BY <1>1, <1>5, <2>3 DEF NoneLost, AsyncInputs, audio
<1> QED  BY <1>2, <1>3, <1>4, <1>5 DEF Reconnected

LEMMA MediaLost ==
    ASSUME Ordered, NoneLost, stream = 0, NEW n \in 1..MaxFrames, Media(n), profile' = profile
    PROVE  NoneLost'
<1> DEFINE q == <<Arriving(n)>>
<1>1. ~isClosed /\ MicrotasksDone /\ UNCHANGED <<isClosed, dstat, tasks, stream>>
      BY DEF Media, control
<1>2. AsyncInputs = {} => \A t \in tasks' : t.at # "decoder"  BY <1>1, NoDecoderAwaited
<1>3. CASE dstat = "pending" /\ UNCHANGED lost
      BY <1>1, <1>2, <1>3 DEF NoneLost, AsyncInputs
<1>4. CASE dstat = "ready" /\ UNCHANGED pin /\ lost' = lost \cup Refused(decoder, q)
  <2>1. decoder.last <= top /\ decoder.last \in Nat /\ top \in Nat /\ n \in Nat
        BY <1>1, <1>4, ItemNumbers, DecoderFields, BoundAssumption DEF Ordered, Numbered, Trails, InUse
  <2>2. DOMAIN q = {1} /\ q[1] = Arriving(n)  OBVIOUS
  <2>a. Arriving(n).n = n /\ (Arriving(n).late <=> n <= top)  BY DEF Arriving
  <2> HIDE DEF q
  <2>3. ~Arriving(n).late => Accepts(decoder, q, 1)  BY <2>1, <2>2, <2>a DEF Accepts
  <2>4. Refused(decoder, q) = {}  BY <2>2, <2>3 DEF Refused
  <2> QED  BY <1>1, <1>2, <1>4, <2>4 DEF NoneLost, AsyncInputs
<1> QED  BY <1>1, <1>3, <1>4 DEF Media, Arriving

LEMMA OnErrorLost ==
    ASSUME NoneLost, stream = 0, NEW st, NEW r, NEW ts, OnError(st, r, ts),
           UNCHANGED <<profile, pin, lost>>, AsyncInputs = {} => \A u \in ts : u.at # "decoder"
    PROVE  NoneLost'
<1>1. CASE DoClose(st, gauge, cur)  BY <1>1, ClosingLost DEF DoClose
<1>2. CASE /\ tasks' = ts \cup {Task("recover", "connecting", gen + 1, nb + 1, inFmt, desired)}
           /\ UNCHANGED <<isClosed, dstat>>
  <2>1. PICK s : tasks' = ts \cup {s} /\ s.at = "connecting"  BY <1>2, TaskFields
  <2>2. AsyncInputs = {} => \A u \in tasks' : u.at # "decoder"  BY <2>1
  <2> QED  BY <1>2, <2>2, IdleLost
<1> QED  BY <1>1, <1>2 DEF OnError

LEMMA NoneLostStep == Ordered /\ NoneLost /\ [Next]_vars => NoneLost'
<1> SUFFICES ASSUME Ordered, NoneLost, [Next]_vars, stream' = 0 PROVE NoneLost'  BY DEF NoneLost
<1>0. stream = 0 /\ profile' = profile
      BY SameStream DEF Ordered
<1>1. ASSUME NEW t \in tasks, InitConnected(t) PROVE NoneLost'
  <2>1. CASE isClosed  BY <1>0, <1>1, <2>1, ClosingLost DEF InitConnected, audio
  <2>2. CASE ~isClosed
    <3>1. tasks' \subseteq tasks  BY <1>1 DEF InitConnected
    <3> QED  BY <1>0, <1>1, <2>2, <3>1, FlushIfReadyLost DEF InitConnected
  <2> QED  BY <2>1, <2>2
<1>2. ASSUME NEW t \in tasks, InitFailed(t) PROVE NoneLost'
      BY <1>0, <1>2, ClosingLost DEF InitFailed, DoClose
<1>3. ASSUME NEW t \in tasks, ReconnectFailed(t) PROVE NoneLost'
  <2>1. CASE Current(t)  BY <1>0, <1>3, <2>1, ClosingLost DEF ReconnectFailed, DoClose
  <2>2. CASE ~Current(t)
    <3>1. tasks' \subseteq tasks  BY <1>3 DEF ReconnectFailed
    <3> QED  BY <1>0, <1>3, <2>2, <3>1, FewerLost DEF ReconnectFailed
  <2> QED  BY <2>1, <2>2
<1>4. CASE Resume
      BY <1>0, <1>1, <1>2, <1>3, <1>4, DecoderReadyLost, ReconnectedLost DEF Resume
<1>5. ASSUME NEW t \in tasks, NEW how \in {"resolved", "rejected"}, MicrotasksDone
      PROVE  AsyncInputs = {} => \A u \in Settle(t, how) : u.at # "decoder"
  <2>1. t \in Tasks  BY CallsTyped DEF Ordered, Sound
  <2>2. PICK s : Settle(t, how) = (tasks \ {t}) \cup {s} /\ s.at = how  BY <2>1, SettledTask
  <2> QED  BY <1>5, <2>2, NoDecoderAwaited
<1>6. ASSUME NEW t \in tasks, BackendOpens(t) PROVE NoneLost'
  <2>1. AsyncInputs = {} => \A u \in tasks' : u.at # "decoder"  BY <1>5, <1>6 DEF BackendOpens
  <2> QED  BY <1>0, <1>6, <2>1, IdleLost DEF BackendOpens, audio
<1>7. ASSUME NEW t \in tasks, BackendFailsToConnect(t) PROVE NoneLost'
      BY <1>0, <1>5, <1>7, OnErrorLost DEF BackendFailsToConnect
<1>8. ASSUME NEW t \in tasks, ConnectAborted(t) PROVE NoneLost'
  <2>1. AsyncInputs = {} => \A u \in tasks' : u.at # "decoder"  BY <1>5, <1>8 DEF ConnectAborted
  <2> QED  BY <1>0, <1>8, <2>1, IdleLost DEF ConnectAborted, audio
<1>9. CASE ConnectSettles  BY <1>6, <1>7, <1>8, <1>9 DEF ConnectSettles
<1>10. ASSUME NEW t \in tasks, DecoderFails(t) PROVE NoneLost'
  <2>1. CASE \E c : DoClose(bstat, gauge, c)
        BY <1>0, <1>10, <2>1, ClosingLost DEF DecoderFails, DoClose
  <2>2. CASE UNCHANGED <<isClosed, gen, dstat, cur, bstat>>
    <3>1. tasks' \subseteq tasks  BY <1>10 DEF DecoderFails
    <3> QED  BY <1>0, <1>10, <2>2, <3>1, FewerLost DEF DecoderFails
  <2> QED  BY <1>10, <2>1, <2>2 DEF DecoderFails
<1>11. ASSUME NEW r, StreamError(r) PROVE NoneLost'
       BY <1>0, <1>11, OnErrorLost, NoDecoderAwaited DEF StreamError
<1>12. ASSUME NEW b, BackendCloses(b) PROVE NoneLost'
       BY <1>0, <1>12, ClosingLost DEF BackendCloses, DoClose
<1>13. CASE Close  BY <1>0, <1>13, ClosingLost DEF Close, DoClose
<1>14. CASE IdleTimer \/ UNCHANGED vars \/ \E all : FinalTranscript(all)
       BY <1>0, <1>14, FewerLost
       DEF IdleTimer, IdleCommit, vars, audio, FinalTranscript, control
<1>15. CASE ResetChunkTracking
  <2>1. stream' = stream + 1  BY <1>15 DEF ResetChunkTracking
  <2> QED  BY <1>0, <2>1
<1>16. ASSUME NEW f \in InputFormats, StartEvent(f) PROVE NoneLost'
       BY <1>0, <1>16 DEF StartEvent, DropQueues, NoneLost, AsyncInputs, FreshQueue
<1>17. CASE Event
       BY <1>0, <1>10, <1>11, <1>12, <1>13, <1>14, <1>15, <1>16, <1>17, MediaLost DEF Event
<1> QED  BY <1>4, <1>9, <1>14, <1>17 DEF Next

\* Until the session is reattached, no chunk reaches a backend twice, the frames that
\* came in order reach it in order, through both queues and whatever format changes and
\* recoveries come between, and where no decoder loads asynchronously none is refused.
THEOREM AudioInOrderHolds == Spec => [](stream = 0 => AudioInOrder)
<1>1. Init => Numbered /\ NoneLost
  <2> SUFFICES ASSUME Init PROVE Numbered /\ NoneLost  OBVIOUS
  <2>1. sent = <<>> /\ pin = <<>> /\ pau = <<>> /\ dstat = "pending" /\ lost = {}  BY DEF Init
  <2> QED  BY <2>1 DEF Numbered, InOrder, PauOrder, PinOrder, NoneLost, FreshQueue
<1>2. Numbered /\ NoneLost => (stream = 0 => AudioInOrder)
      BY DEF Numbered, NoneLost, AudioInOrder, PassThroughKeepsAll, NothingRefused
<1>3. Sound /\ Usable /\ Numbered /\ NoneLost /\ [Next]_vars => (Sound /\ Usable /\ Numbered /\ NoneLost)'
      BY SoundInductive, UsableStep, NumberedStep, NoneLostStep DEF Ordered
<1> QED  BY <1>1, <1>2, <1>3, InitUsable, SoundInductive, PTL DEF Spec
-----------------------------------------------------------------------------
(* Audio for a backend that wants it before it is connected.                 *)

\* With one format wanted, and an input whose decoder does not load by itself: the
\* decoder is ready or about to be, and no frame ever waits for it.
Prompt == OneDesired /\ ~isClosed /\ inFmt \notin AsyncInputs =>
    /\ pin = <<>>
    /\ dstat = "pending" => \E t \in tasks : t.at = "decoder" /\ Current(t)

\* Transcribe's audio does not wait for its backend.
NothingHeld == Provider = "aws" => pau = <<>>

LEMMA PromptlyReady ==
    ASSUME Sound, Prompt, MicrotasksDone, OneDesired, ~isClosed, inFmt \notin AsyncInputs
    PROVE  dstat = "ready"
<1>1. dstat \in {"pending", "ready"}  BY CurrentBackend
<1>2. \A t \in tasks : Current(t) => t.in = inFmt
      BY DEF Sound, IInv, Generations, WorksFor, Current
<1> QED  BY <1>1, <1>2 DEF Prompt, MicrotasksDone, IsMicrotask

\* Steps that take away no decoder that is still awaited, and queue no frame.
LEMMA QuietPrompt ==
    ASSUME Prompt, UNCHANGED <<profile, isClosed, inFmt, gen>>, pin' \in {pin, <<>>},
           dstat' = "pending" =>
             dstat = "pending" /\ \A t \in tasks : t.at = "decoder" /\ Current(t) => t \in tasks'
    PROVE  Prompt'
BY SameDesires DEF Prompt, Current, AsyncInputs

\* A recovery comes when no decoder is awaited.
LEMMA OnErrorPrompt ==
    ASSUME Sound, Prompt, MicrotasksDone, NEW st, NEW r, NEW ts, OnError(st, r, ts),
           UNCHANGED <<profile, inFmt, pin>>
    PROVE  Prompt'
<1>1. CASE isClosed'  BY <1>1 DEF Prompt
<1>2. CASE UNCHANGED <<isClosed, dstat>>
      BY <1>2, PromptlyReady, SameDesires DEF Prompt, AsyncInputs
<1> QED  BY <1>1, <1>2 DEF OnError, DoClose

LEMMA FlushIfReadyQueue ==
    ASSUME FlushIfReady
    PROVE  pin' \in {pin, <<>>} /\ pau' \in {pau, <<>>}
BY DEF FlushIfReady, Flush, audio

LEMMA DecoderReadyPrompt ==
    ASSUME Prompt, NEW t \in tasks, DecoderReady(t), UNCHANGED profile
    PROVE  Prompt'
<1>1. UNCHANGED <<isClosed, inFmt, gen>> /\ tasks \ {t} \subseteq tasks'  BY DEF DecoderReady
<1>2. CASE ~Current(t) /\ UNCHANGED <<dstat, audio>>
      BY <1>1, <1>2, QuietPrompt DEF audio
<1>3. CASE dstat' = "ready" /\ pin' \in {pin, <<>>}
      BY <1>1, <1>3, QuietPrompt
<1> QED  BY <1>2, <1>3 DEF DecoderReady, Flush

LEMMA PromptStep == Sound /\ Prompt /\ [Next]_vars => Prompt'
<1> SUFFICES ASSUME Sound, Prompt, [Next]_vars PROVE Prompt'  OBVIOUS
<1>0. UNCHANGED profile  BY DEF Next, Resume, ConnectSettles, Event, IdleTimer, vars
<1>1. ASSUME isClosed'  PROVE Prompt'  BY <1>1 DEF Prompt
<1>2. ASSUME NEW t \in tasks, t.at # "decoder", tasks \ {t} \subseteq tasks',
             UNCHANGED <<isClosed, inFmt, gen, dstat>>, pin' \in {pin, <<>>}
      PROVE  Prompt'
      BY <1>0, <1>2, QuietPrompt
<1>3. ASSUME NEW t \in tasks, InitConnected(t) \/ Reconnected(t)  PROVE Prompt'
      BY <1>2, <1>3, FlushIfReadyQueue DEF InitConnected, Reconnected, audio
<1>4. ASSUME NEW t \in tasks, InitFailed(t) \/ ReconnectFailed(t)  PROVE Prompt'
      BY <1>1, <1>2, <1>4 DEF InitFailed, ReconnectFailed, DoClose
<1>5. CASE Resume  BY <1>0, <1>3, <1>4, <1>5, DecoderReadyPrompt DEF Resume
<1>6. ASSUME NEW t \in tasks, BackendOpens(t) \/ ConnectAborted(t)  PROVE Prompt'
      BY <1>2, <1>6 DEF BackendOpens, ConnectAborted, Connecting, Settle, audio
<1>7. CASE ConnectSettles
      BY <1>0, <1>6, <1>7, OnErrorPrompt DEF ConnectSettles, BackendFailsToConnect
<1>8. ASSUME NEW t \in tasks, DecoderFails(t)  PROVE Prompt'
  <2>1. CASE \E c : DoClose(bstat, gauge, c)  BY <1>1, <2>1 DEF DoClose
  <2>2. CASE /\ ~Current(t) \/ isClosed
             /\ tasks' = tasks \ {t} /\ UNCHANGED <<isClosed, gen, dstat, inFmt, pin>>
    <3>1. CASE isClosed  BY <1>1, <2>2, <3>1
    <3>2. CASE ~Current(t)  BY <1>0, <2>2, <3>2, QuietPrompt
    <3> QED  BY <2>2, <3>1, <3>2
  <2>3. \/ \E c : DoClose(bstat, gauge, c)
        \/ UNCHANGED <<isClosed, gen, dstat>> /\ (~Current(t) \/ isClosed)
        BY <1>8 DEF DecoderFails
  <2> QED  BY <1>8, <2>1, <2>2, <2>3 DEF DecoderFails
<1>9. ASSUME NEW r, StreamError(r)  PROVE Prompt'
      BY <1>0, <1>9, OnErrorPrompt DEF StreamError
<1>10. ASSUME NEW f \in InputFormats, StartEvent(f)  PROVE Prompt'
  <2>1. pin' = <<>> /\ gen' = gen + 1  BY <1>10 DEF StartEvent, DropQueues
  <2>2. CASE OneDesired
    <3>1. tasks' = tasks \cup {Task("reinit", "decoder", gen + 1, NoBackend, f, Desired[f])}
          BY <1>10, <2>2, Desires DEF StartEvent, OneDesired
    <3>2. \E t \in tasks' : t.at = "decoder" /\ t.gen = gen'  BY <2>1, <3>1, TaskFields
    <3> QED  BY <2>1, <3>2 DEF Prompt, Current
  <2>3. CASE ~OneDesired  BY <1>0, <2>3, SameDesires DEF Prompt
  <2> QED  BY <2>2, <2>3
<1>11. ASSUME NEW n \in 1..MaxFrames, Media(n)  PROVE Prompt'
  <2>1. UNCHANGED <<isClosed, inFmt, gen, dstat, tasks>> /\ MicrotasksDone /\ ~isClosed
        BY <1>11 DEF Media, control
  <2>2. CASE OneDesired /\ inFmt \notin AsyncInputs
    <3>1. dstat = "ready"  BY <2>1, <2>2, PromptlyReady
    <3>2. pin' = pin  BY <1>11, <3>1 DEF Media
    <3> QED  BY <1>0, <2>1, <3>2, QuietPrompt
  <2>3. CASE ~(OneDesired /\ inFmt \notin AsyncInputs)
        BY <1>0, <2>1, <2>3, SameDesires DEF Prompt, AsyncInputs
  <2> QED  BY <2>2, <2>3
<1>12. ASSUME UNCHANGED <<control, pin>>  PROVE Prompt'
       BY <1>0, <1>12, QuietPrompt DEF control
<1>13. CASE ResetChunkTracking \/ IdleTimer \/ UNCHANGED vars \/ \E all : FinalTranscript(all)
       BY <1>12, <1>13 DEF ResetChunkTracking, IdleTimer, IdleCommit, vars, audio, FinalTranscript
<1>14. CASE Event
       BY <1>1, <1>8, <1>9, <1>10, <1>11, <1>13, <1>14 DEF Event, BackendCloses, Close, DoClose
<1> QED  BY <1>5, <1>7, <1>13, <1>14 DEF Next

LEMMA HeldStep == Sound /\ NothingHeld /\ [Next]_vars => NothingHeld'
<1> SUFFICES ASSUME Sound, NothingHeld, [Next]_vars, Provider = "aws" PROVE pau' = <<>>
    BY DEF NothingHeld, Next, Resume, ConnectSettles, Event, IdleTimer, vars, Provider
<1>1. pau = <<>>  BY DEF NothingHeld
<1>2. CASE Resume
      BY <1>1, <1>2, FlushIfReadyQueue
      DEF Resume, DecoderReady, Flush, InitConnected, InitFailed, Reconnected, ReconnectFailed, audio
<1>3. CASE ConnectSettles
      BY <1>1, <1>3 DEF ConnectSettles, BackendOpens, BackendFailsToConnect, ConnectAborted, audio
<1>4. CASE IdleTimer \/ UNCHANGED vars
      BY <1>1, <1>4 DEF IdleTimer, IdleCommit, vars, audio
<1>5. ASSUME NEW n, Media(n)  PROVE pau' = <<>>
  <2>1. pau' = pau \/ (bstat[cur] = "pending" /\ ~AcceptsAudioBeforeConnected)
        BY <1>5 DEF Media
  <2> QED  BY <1>1, <2>1 DEF AcceptsAudioBeforeConnected
<1>6. CASE Event
      BY <1>1, <1>5, <1>6 DEF Event, DecoderFails, StreamError, BackendCloses, FinalTranscript,
         StartEvent, DropQueues, ResetChunkTracking, Close
<1> QED  BY <1>2, <1>3, <1>4, <1>6 DEF Next

\* Nothing is handed to Transcribe's backend too early unless the client changed its format.
NoneTooEarly == Provider = "aws" /\ (starts = 0 \/ AsyncInputs = {}) => dropped = {}

LEMMA TooEarlyStep == Sound /\ NoneTooEarly /\ [Next]_vars => NoneTooEarly'
<1> SUFFICES ASSUME Sound, NoneTooEarly, [Next]_vars PROVE NoneTooEarly'  OBVIOUS
<1>0. UNCHANGED profile
      BY DEF Next, Resume, ConnectSettles, Event, IdleTimer, vars
<1>1. CASE UNCHANGED dropped /\ (starts' = 0 => starts = 0)
      BY <1>0, <1>1 DEF NoneTooEarly, Provider, AsyncInputs
<1>2. CASE Resume
      BY <1>1, <1>2 DEF Resume, DecoderReady, InitConnected, InitFailed, Reconnected, ReconnectFailed,
         history, client
<1>3. CASE ConnectSettles
      BY <1>1, <1>3 DEF ConnectSettles, BackendOpens, BackendFailsToConnect, ConnectAborted, history, client
<1>4. CASE IdleTimer \/ UNCHANGED vars
      BY <1>1, <1>4 DEF IdleTimer, IdleCommit, vars, history, client
<1>5. ASSUME NEW n \in 1..MaxFrames, Media(n)  PROVE NoneTooEarly'
  <2>1. CASE UNCHANGED dropped  BY <1>1, <1>5, <2>1 DEF Media
  <2>2. CASE dropped' # dropped
    <3>1. dstat = "ready" /\ Provider = "aws" /\ ~TakesAudio /\ MicrotasksDone /\ starts' = starts
          BY <1>5, <2>2 DEF Media, AcceptsAudioBeforeConnected
    <3>2. PICK t \in tasks : t.kind = "initReinit"  BY <3>1 DEF TakesAudio
    <3>3. t.at = "decoder" /\ starts # 0  BY <3>1, <3>2 DEF Sound, BeforeConnect
    <3>4. t.in \in AsyncInputs  BY <3>1, <3>2, <3>3 DEF MicrotasksDone, IsMicrotask
    <3> QED  BY <1>0, <3>1, <3>3, <3>4 DEF NoneTooEarly, AsyncInputs
  <2> QED  BY <2>1, <2>2
<1>6. ASSUME NEW f \in InputFormats, StartEvent(f)  PROVE NoneTooEarly'
  <2>1. starts' # 0 /\ UNCHANGED dropped  BY <1>6 DEF StartEvent, Sound, Typed, ClientTyped
  <2> QED  BY <1>1, <2>1
<1>7. CASE Event
      BY <1>1, <1>5, <1>6, <1>7 DEF Event, DecoderFails, StreamError, BackendCloses, FinalTranscript,
         ResetChunkTracking, Close, history, client
<1> QED  BY <1>2, <1>3, <1>4, <1>7 DEF Next

\* Whenever the event loop is idle, the proxy holds nothing back from Amazon Transcribe that
\* the client sent in a format whose decoder does not load by itself, whatever start events,
\* recoveries and failures overtake each other; and the backend took all it was handed,
\* unless a start event came before the first decoder was there.
THEOREM EarlyAudioFlowsHolds == Spec => []EarlyAudioFlows
<1>1. Init => Prompt /\ NothingHeld /\ NoneTooEarly
  <2> SUFFICES ASSUME Init PROVE Prompt /\ NothingHeld /\ NoneTooEarly  OBVIOUS
  <2>1. tasks = {Task("initReinit", "decoder", 1, NoBackend, inFmt, Desired[inFmt])}
        /\ gen = 1 /\ pin = <<>> /\ pau = <<>> /\ dropped = {}
        BY DEF Init
  <2>2. \E t \in tasks : t.at = "decoder" /\ t.gen = gen  BY <2>1, TaskFields
  <2> QED  BY <2>1, <2>2 DEF Prompt, NothingHeld, NoneTooEarly, Current
<1>2. Sound /\ Prompt /\ NothingHeld /\ NoneTooEarly => EarlyAudioFlows
  <2> SUFFICES ASSUME Sound, Prompt, NothingHeld, NoneTooEarly, Provider = "aws"
               PROVE  /\ inFmt \notin AsyncInputs /\ MicrotasksDone /\ ~isClosed
                            => dstat = "ready" /\ pin = <<>> /\ pau = <<>>
                      /\ starts = 0 \/ AsyncInputs = {} => dropped = {}
      BY DEF EarlyAudioFlows, AcceptsAudioBeforeConnected
  <2>1. OneDesired  BY Desires
  <2> QED  BY <2>1, PromptlyReady DEF Prompt, NothingHeld, NoneTooEarly
<1> QED  BY <1>1, <1>2, SoundInductive, PromptStep, HeldStep, TooEarlyStep, PTL DEF Spec
-----------------------------------------------------------------------------
(* The accounts of the WebSocket providers, while the client keeps the format *)
(* it began with.                                                             *)

\* The one call of an open connection that does not serve yet: the first decoder is
\* loading, or a backend is connecting or has connected just now.
Waiting(t) ==
    \/ t.kind = "initReinit" /\ bstat[cur] = "pending"
    \/ /\ t.kind \in {"init", "recover"} /\ t.b = cur /\ dstat = "ready"
       /\ \/ t.at = "connecting" /\ bstat[cur] = "pending"
          \/ t.at = "resolved" /\ bstat[cur] = "connected"

Serving == tasks = {} /\ bstat[cur] = "connected" /\ dstat = "ready" /\ gauge = 1

Starting == gauge = 0 /\ \E t \in tasks : tasks = {t} /\ t.gen = gen /\ Waiting(t)

OthersClosed == \A b \in Backends \ {cur} : bstat[b] \in {"none", "closed"}

AllClosed ==
    /\ gauge = 0
    /\ \A b \in Backends : bstat[b] # "connected"
    /\ \A t \in tasks : t.at # "resolved" /\ (t.at = "connecting" => bstat[t.b] # "pending")

Steady == starts = 0 /\ Provider # "aws" =>
    /\ isClosed => AllClosed
    /\ ~isClosed => OthersClosed /\ (Serving \/ Starting)

\* Steps of a connection that is closed already: calls end or are aborted.
LEMMA ClosedSteady ==
    ASSUME AllClosed, UNCHANGED <<gauge, bstat>>,
           \A u \in tasks' : u \in tasks \/ u.at = "rejected"
    PROVE  AllClosed'
BY DEF AllClosed

\* The connection closes: its backend, if it is still held, and every call that connects.
LEMMA ClosingSteady ==
    ASSUME Sound, ~isClosed, OthersClosed, NEW st, NEW g \in Int, NEW c, DoClose(st, g, c),
           c \in {NoBackend, cur},
           st \in [Backends -> {"none", "pending", "connected", "failed", "closed"}],
           \A b \in Backends \ {cur} : st[b] = bstat[b],
           g = IF st[cur] = "connected" THEN 1 ELSE 0,
           c = NoBackend => st[cur] # "connected",
           \A u \in tasks' : u.at # "resolved" /\ (u.at = "connecting" => u.b = cur /\ c = cur)
    PROVE  AllClosed' /\ isClosed'
<1>1. cur \in Backends /\ cur # NoBackend  BY CurrentBackend
<1>2. CASE c = cur
  <2>1. bstat' = [st EXCEPT ![cur] = "closed"] /\ gauge' = Uncount(st, g, cur)
        BY <1>1, <1>2 DEF DoClose
  <2>2. gauge' = 0  BY <2>1 DEF Uncount
  <2>3. bstat'[cur] = "closed" /\ \A b \in Backends \ {cur} : bstat'[b] \in {"none", "closed"}
        BY <1>1, <2>1 DEF OthersClosed
  <2> QED  BY <2>2, <2>3 DEF AllClosed, DoClose
<1>3. CASE c = NoBackend
  <2>1. bstat' = st /\ gauge' = 0  BY <1>3 DEF DoClose
  <2>2. \A b \in Backends \ {cur} : bstat'[b] \in {"none", "closed"}
        BY <2>1 DEF OthersClosed
  <2>3. bstat'[cur] # "connected"  BY <1>3, <2>1
  <2> QED  BY <1>1, <1>3, <2>1, <2>2, <2>3 DEF AllClosed, DoClose
<1> QED  BY <1>2, <1>3

\* A step that ends in service.
LEMMA ServingSteady ==
    ASSUME Sound, ~isClosed, OthersClosed, gauge = 0, bstat[cur] = "connected", dstat = "ready",
           gauge' = gauge + 1, tasks' = {}, UNCHANGED <<isClosed, cur, dstat, bstat>>
    PROVE  Steady'
BY DEF Steady, OthersClosed, Serving

LEMMA QuietSteady ==
    ASSUME Steady, UNCHANGED <<profile, isClosed, gen, dstat, cur, bstat, gauge, tasks, starts>>
    PROVE  Steady'
BY DEF Steady, AllClosed, OthersClosed, Serving, Starting, Waiting, Provider

\* The single task of an open connection.
LEMMA OneCall ==
    ASSUME Steady, starts = 0, Provider # "aws", ~isClosed, NEW t \in tasks
    PROVE  tasks = {t} /\ t.gen = gen /\ Waiting(t) /\ gauge = 0 /\ OthersClosed
BY DEF Steady, Serving, Starting

\* Between two tasks of the event loop a backend that is connected serves.
LEMMA ConnectedServes ==
    ASSUME Sound, Steady, starts = 0, Provider # "aws", ~isClosed, MicrotasksDone,
           bstat[cur] = "connected"
    PROVE  Serving /\ OthersClosed
BY NothingSettled DEF Steady, Starting, Waiting

LEMMA DecoderReadySteady ==
    ASSUME Sound, Steady, starts = 0, Provider # "aws", NEW t \in tasks, DecoderReady(t)
    PROVE  Steady'
<1>1. UNCHANGED <<isClosed, gen, cur, bstat, gauge>> /\ t.at = "decoder"
      BY DEF DecoderReady
<1>2. CASE isClosed
  <2>1. tasks' = tasks \ {t}  BY <1>2 DEF DecoderReady
  <2>2. AllClosed'  BY <1>1, <1>2, <2>1, ClosedSteady DEF Steady
  <2> QED  BY <1>1, <1>2, <2>2 DEF Steady
<1>3. CASE ~isClosed
  <2>1. tasks = {t} /\ t.gen = gen /\ Waiting(t) /\ gauge = 0 /\ OthersClosed
        BY <1>3, OneCall
  <2>2. t.kind = "initReinit" /\ bstat[cur] = "pending"  BY <1>1, <2>1 DEF Waiting
  <2>3. dstat' = "ready"  BY <2>1 DEF DecoderReady, Current
  <2>4. PICK s : /\ tasks' = {s} /\ s.kind = "init" /\ s.at = "connecting" /\ s.gen = gen /\ s.b = cur
    <3>1. tasks' = (tasks \ {t}) \cup {Task("init", "connecting", t.gen, cur, t.in, t.out)}
          BY <1>3, <2>2 DEF DecoderReady
    <3> QED  BY <2>1, <3>1, TaskFields
  <2>5. Waiting(s)'  BY <1>1, <2>2, <2>3, <2>4 DEF Waiting
  <2>6. Starting'  BY <1>1, <2>1, <2>4, <2>5 DEF Starting
  <2> QED  BY <1>1, <1>3, <2>1, <2>6 DEF Steady, OthersClosed
<1> QED  BY <1>2, <1>3

LEMMA OnErrorSteady ==
    ASSUME Sound, Steady, starts = 0, Provider # "aws", ~isClosed, Serving, NEW r, OnError(bstat, r, tasks)
    PROVE  Steady'
<1>0. /\ bstat \in [Backends -> {"none", "pending", "connected", "failed", "closed"}]
      /\ cur \in Backends /\ cur # NoBackend /\ nb \in Nat /\ OthersClosed
      BY CallsTyped, CurrentBackend DEF Sound, Wiring, BackendsTyped, Steady, Backends
<1>1. CASE /\ gen' = gen + 1
           /\ ReconnectBackend(bstat, desired)
           /\ tasks' = tasks \cup {Task("recover", "connecting", gen + 1, nb + 1, inFmt, desired)}
           /\ UNCHANGED <<isClosed, dstat>>
  <2>1. PICK s : /\ tasks' = {s} /\ s.kind = "recover" /\ s.at = "connecting"
                 /\ s.gen = gen + 1 /\ s.b = nb + 1
        BY <1>1, TaskFields DEF Serving
  <2>2. /\ cur' = nb + 1 /\ nb + 1 \in Backends /\ gauge' = Uncount(bstat, gauge, cur)
        /\ bstat' = [CloseOld(bstat) EXCEPT ![nb + 1] = "pending"]
        BY <1>0, <1>1, BoundAssumption DEF ReconnectBackend, Backends
  <2>3. gauge' = 0  BY <2>2 DEF Serving, Uncount
  <2>4. bstat'[cur'] = "pending" /\ \A b \in Backends \ {cur'} : bstat'[b] \in {"none", "closed"}
        BY <1>0, <2>2 DEF CloseOld, OthersClosed
  <2>5. Waiting(s)'  BY <1>1, <2>1, <2>2, <2>4 DEF Waiting, Serving
  <2>6. Starting'  BY <1>1, <2>1, <2>3, <2>5 DEF Starting
  <2> QED  BY <1>1, <2>4, <2>6 DEF Steady, OthersClosed
<1>2. CASE DoClose(bstat, gauge, cur) /\ tasks' = tasks
  <2>1. AllClosed' /\ isClosed'  BY <1>0, <1>2, ClosingSteady DEF Serving
  <2> QED  BY <2>1 DEF Steady
<1> QED  BY <1>1, <1>2 DEF OnError

LEMMA SameFormat ==
    ASSUME Sound, [Next]_vars, starts' = 0
    PROVE  starts = 0 /\ profile' = profile /\ \A f : ~StartEvent(f)
<1>1. starts \in Nat  BY BoundAssumption DEF Sound, Typed, ClientTyped
<1>2. profile' = profile  BY DEF Next, Resume, ConnectSettles, Event, IdleTimer, vars
<1>3. ASSUME NEW f, StartEvent(f)  PROVE starts' = starts + 1  BY <1>3 DEF StartEvent
<1>4. starts' = starts \/ starts' = starts + 1
  <2>1. CASE Resume
        BY <2>1 DEF Resume, DecoderReady, InitConnected, InitFailed, Reconnected, ReconnectFailed, history, client
  <2>2. CASE ConnectSettles
        BY <2>2 DEF ConnectSettles, BackendOpens, BackendFailsToConnect, ConnectAborted, history, client
  <2>3. CASE Event
        BY <1>3, <2>3 DEF Event, DecoderFails, StreamError, BackendCloses, FinalTranscript, Media,
                    ResetChunkTracking, Close, history, client
  <2>4. CASE IdleTimer \/ UNCHANGED vars  BY <2>4 DEF IdleTimer, IdleCommit, vars, history, client
  <2> QED  BY <2>1, <2>2, <2>3, <2>4 DEF Next
<1> QED  BY <1>1, <1>2, <1>3, <1>4

LEMMA SteadyStep == Sound /\ Steady /\ [Next]_vars => Steady'
<1> SUFFICES ASSUME Sound, Steady, [Next]_vars, starts' = 0, Provider # "aws", profile' = profile
             PROVE Steady'
    BY SameFormat DEF Steady, Provider
<1>0. /\ starts = 0 /\ UNCHANGED <<profile, starts>> /\ isClosed \in BOOLEAN
      /\ bstat \in [Backends -> {"none", "pending", "connected", "failed", "closed"}]
      /\ ~isClosed => cur \in Backends /\ OthersClosed
      /\ isClosed => AllClosed
      /\ \A t \in tasks : isClosed => ~Current(t)
      BY SameFormat, CurrentBackend, CallsTyped
      DEF Sound, Wiring, BackendsTyped, Steady, AllOvertaken, Current
<1>1. ASSUME NEW t \in tasks, t.at \in {"resolved", "rejected"}
      PROVE  /\ ~isClosed => t.at = "resolved" /\ t.kind \in {"init", "recover"} /\ Current(t)
                             /\ dstat = "ready" /\ bstat[cur] = "connected" /\ tasks \ {t} = {} /\ gauge = 0
             /\ isClosed => t.at = "rejected"
  <2>1. t.kind # "initReinit"  BY <1>1 DEF Sound, Wiring, CallsApart, Stage
  <2>2. ~isClosed => tasks = {t} /\ t.gen = gen /\ Waiting(t) /\ gauge = 0
        BY <1>0, OneCall
  <2> QED  BY <1>0, <1>1, <2>1, <2>2 DEF Waiting, AllClosed, Current
<1>2. ASSUME NEW t \in tasks, InitConnected(t) PROVE Steady'
      BY <1>0, <1>1, <1>2, ServingSteady DEF InitConnected
<1>3. ASSUME NEW t \in tasks, tasks' = tasks \ {t}, isClosed, UNCHANGED <<isClosed, gauge, bstat>>
      PROVE  Steady'
  <2>1. AllClosed'  BY <1>0, <1>3, ClosedSteady
  <2> QED  BY <1>3, <2>1 DEF Steady
<1>4. ASSUME NEW t \in tasks, InitFailed(t) \/ ReconnectFailed(t) PROVE Steady'
      BY <1>0, <1>1, <1>3, <1>4 DEF InitFailed, ReconnectFailed
<1>5. ASSUME NEW t \in tasks, Reconnected(t) PROVE Steady'
  <2>1. ~isClosed  BY <1>1, <1>5 DEF Reconnected
  <2>2. t.kind = "recover" /\ Current(t)  BY <1>1, <1>5, <2>1 DEF Reconnected
  <2> QED  BY <1>0, <1>1, <1>5, <2>1, <2>2, ServingSteady DEF Reconnected
<1>6. CASE Resume
      BY <1>0, <1>2, <1>4, <1>5, <1>6, DecoderReadySteady DEF Resume
<1>7. ASSUME NEW t \in tasks, BackendOpens(t) PROVE Steady'
  <2>1. t \in Tasks /\ t.at = "connecting" /\ bstat[t.b] = "pending"
        /\ bstat' = [bstat EXCEPT ![t.b] = "connected"] /\ UNCHANGED <<isClosed, gen, dstat, cur, gauge>>
        BY <1>7, CallsTyped DEF BackendOpens, Connecting, Sound
  <2>2. ~isClosed  BY <1>0, <2>1 DEF AllClosed
  <2>3. tasks = {t} /\ t.gen = gen /\ Waiting(t) /\ gauge = 0 /\ OthersClosed
        BY <1>0, <2>2, OneCall
  <2>4. t.kind \in {"init", "recover"} /\ t.b = cur /\ dstat = "ready"
    <3>1. t.kind # "initReinit"
          BY <2>1 DEF Sound, Wiring, CallsApart, Stage
    <3> QED  BY <2>3, <3>1 DEF Waiting
  <2>5. PICK s : tasks' = {s} /\ s.kind = t.kind /\ s.gen = t.gen /\ s.b = t.b /\ s.at = "resolved"
    <3>1. tasks' = Settle(t, "resolved")  BY <1>7 DEF BackendOpens
    <3> QED  BY <2>1, <2>3, <3>1, SettledTask
  <2>6. bstat'[cur] = "connected" /\ \A b \in Backends \ {cur} : bstat'[b] = bstat[b]
        BY <1>0, <2>1, <2>2, <2>4
  <2>7. Waiting(s)'  BY <2>1, <2>4, <2>5, <2>6 DEF Waiting
  <2>8. Starting'  BY <2>1, <2>3, <2>5, <2>7 DEF Starting
  <2> QED  BY <2>1, <2>2, <2>3, <2>6, <2>8 DEF Steady, OthersClosed
<1>8. ASSUME NEW t \in tasks, BackendFailsToConnect(t) PROVE Steady'
  <2>1. t \in Tasks /\ t.at = "connecting" /\ bstat[t.b] = "pending"
        BY <1>8, CallsTyped DEF BackendFailsToConnect, Connecting, Sound
  <2>2. ~isClosed  BY <1>0, <2>1 DEF AllClosed
  <2>3. tasks = {t} /\ Waiting(t) /\ gauge = 0 /\ OthersClosed
        BY <1>0, <2>2, OneCall
  <2>4. t.b = cur
    <3>1. t.kind # "initReinit"
          BY <2>1 DEF Sound, Wiring, CallsApart, Stage
    <3> QED  BY <2>3, <3>1 DEF Waiting
  <2> DEFINE st == [bstat EXCEPT ![t.b] = "failed"]
  <2>5. DoClose(st, gauge, cur) /\ tasks' = Settle(t, "rejected")
        BY <1>0, <1>8 DEF BackendFailsToConnect, OnError, Recovers, ConnectErrorRecoverable
  <2>6. PICK s : tasks' = {s} /\ s.at = "rejected"
        BY <2>1, <2>3, <2>5, SettledTask
  <2>7. /\ st \in [Backends -> {"none", "pending", "connected", "failed", "closed"}]
        /\ st[cur] = "failed" /\ \A b \in Backends \ {cur} : st[b] = bstat[b]
        BY <1>0, <2>2, <2>4
  <2> HIDE DEF st
  <2>8. AllClosed' /\ isClosed'  BY <2>2, <2>3, <2>5, <2>6, <2>7, ClosingSteady
  <2> QED  BY <2>8 DEF Steady
<1>9. ASSUME NEW t \in tasks, ConnectAborted(t) PROVE Steady'
  <2>1. /\ t \in Tasks /\ t.at = "connecting" /\ bstat[t.b] = "closed" /\ tasks' = Settle(t, "rejected")
        /\ UNCHANGED <<isClosed, gauge, bstat>>
        BY <1>9, CallsTyped DEF ConnectAborted, Connecting, Sound
  <2>2. isClosed
    <3> SUFFICES ASSUME ~isClosed PROVE FALSE  BY <1>0
    <3>1. Waiting(t)  BY <1>0, OneCall
    <3>2. t.kind # "initReinit"
          BY <2>1 DEF Sound, Wiring, CallsApart, Stage
    <3> QED  BY <2>1, <3>1, <3>2 DEF Waiting
  <2>3. PICK s : tasks' = (tasks \ {t}) \cup {s} /\ s.at = "rejected"  BY <2>1, SettledTask
  <2>4. AllClosed'  BY <1>0, <2>1, <2>2, <2>3, ClosedSteady
  <2> QED  BY <2>1, <2>2, <2>4 DEF Steady
<1>10. CASE ConnectSettles  BY <1>7, <1>8, <1>9, <1>10 DEF ConnectSettles
<1>11. ASSUME NEW t \in tasks, DecoderFails(t) PROVE Steady'
  <2>1. tasks' = tasks \ {t} /\ t.at = "decoder"  BY <1>11 DEF DecoderFails
  <2>2. CASE isClosed
        BY <1>0, <1>3, <1>11, <2>1, <2>2 DEF DecoderFails
  <2>3. CASE ~isClosed
    <3>1. tasks = {t} /\ Waiting(t) /\ gauge = 0 /\ OthersClosed
          BY <1>0, <2>3, OneCall
    <3>2. t.kind = "initReinit" /\ bstat[cur] = "pending"  BY <2>1, <3>1 DEF Waiting
    <3>3. DoClose(bstat, gauge, NoBackend)  BY <1>11, <2>3, <3>2 DEF DecoderFails
    <3>4. tasks' = {}  BY <2>1, <3>1
    <3>5. AllClosed' /\ isClosed'  BY <1>0, <2>3, <3>1, <3>2, <3>3, <3>4, ClosingSteady
    <3> QED  BY <3>5 DEF Steady
  <2> QED  BY <2>2, <2>3
<1>12. ASSUME NEW r, StreamError(r) PROVE Steady'
  <2>1. MicrotasksDone /\ cur # NoBackend /\ bstat[cur] = "connected" /\ OnError(bstat, r, tasks)
        BY <1>0, <1>12 DEF StreamError
  <2>2. ~isClosed  BY <2>1 DEF Sound, AllOvertaken
  <2>3. Serving  BY <1>0, <2>1, <2>2, ConnectedServes
  <2> QED  BY <1>0, <2>1, <2>2, <2>3, OnErrorSteady
<1>13. ASSUME NEW b \in Backends, BackendCloses(b) PROVE Steady'
  <2>1. /\ MicrotasksDone /\ bstat[b] = "connected" /\ UNCHANGED tasks
        /\ DoClose([bstat EXCEPT ![b] = "closed"], gauge - 1, cur)
        BY <1>13 DEF BackendCloses
  <2>2. ~isClosed /\ b = cur  BY <1>0, <2>1 DEF AllClosed, OthersClosed
  <2>3. Serving /\ OthersClosed  BY <1>0, <2>1, <2>2, ConnectedServes
  <2> DEFINE st == [bstat EXCEPT ![b] = "closed"]
  <2>4. /\ st \in [Backends -> {"none", "pending", "connected", "failed", "closed"}]
        /\ st[cur] = "closed" /\ \A x \in Backends \ {cur} : st[x] = bstat[x]
        BY <1>0, <2>2
  <2>5. DoClose(st, 0, cur) /\ tasks' = {}  BY <2>1, <2>3 DEF Serving
  <2> HIDE DEF st
  <2>6. AllClosed' /\ isClosed'  BY <2>2, <2>3, <2>4, <2>5, ClosingSteady
  <2> QED  BY <2>6 DEF Steady
<1>14. CASE Close
  <2>1. MicrotasksDone /\ ~isClosed /\ DoClose(bstat, gauge, cur) /\ UNCHANGED tasks
        BY <1>14 DEF Close
  <2>2. gauge = IF bstat[cur] = "connected" THEN 1 ELSE 0
        BY <1>0, <2>1, NothingSettled DEF Steady, Serving, Starting, Waiting
  <2>3. \A u \in tasks' : u.at # "resolved" /\ (u.at = "connecting" => u.b = cur)
    <3> SUFFICES ASSUME NEW u \in tasks
                 PROVE  u.at # "resolved" /\ (u.at = "connecting" => u.b = cur)
        BY <2>1
    <3>1. Waiting(u)  BY <1>0, <2>1, OneCall
    <3>2. u.kind = "initReinit" => u.at = "decoder"
          BY DEF Sound, Wiring, CallsApart, Stage
    <3> QED  BY <2>1, <3>1, <3>2, NothingSettled DEF Waiting
  <2>4. AllClosed' /\ isClosed'  BY <1>0, <2>1, <2>2, <2>3, ClosingSteady, CurrentBackend
  <2> QED  BY <2>4 DEF Steady
<1>15. ASSUME UNCHANGED control  PROVE Steady'
       BY <1>0, <1>15, QuietSteady DEF control
<1>16. CASE ResetChunkTracking \/ IdleTimer \/ UNCHANGED vars \/ \E all : FinalTranscript(all) \/ \E n : Media(n)
       BY <1>15, <1>16 DEF ResetChunkTracking, IdleTimer, IdleCommit, vars, FinalTranscript, Media
<1>17. CASE Event
       BY <1>0, <1>11, <1>12, <1>13, <1>14, <1>16, <1>17, SameFormat DEF Event
<1> QED  BY <1>6, <1>10, <1>16, <1>17 DEF Next

LEMMA InitSteady == Init => Steady
<1> SUFFICES ASSUME Init PROVE Steady  OBVIOUS
<1>1. /\ cur = 1 /\ gen = 1 /\ gauge = 0 /\ isClosed = FALSE
      /\ bstat = [b \in Backends |-> IF b = 1 THEN "pending" ELSE "none"]
      /\ tasks = {Task("initReinit", "decoder", 1, NoBackend, inFmt, Desired[inFmt])}
      BY DEF Init
<1>2. 1 \in Backends  BY BoundAssumption DEF Backends
<1>3. PICK s : tasks = {s} /\ s.kind = "initReinit" /\ s.gen = 1  BY <1>1, TaskFields
<1>4. Starting  BY <1>1, <1>2, <1>3 DEF Starting, Waiting
<1>5. OthersClosed  BY <1>1 DEF OthersClosed
<1> QED  BY <1>1, <1>4, <1>5 DEF Steady

-----------------------------------------------------------------------------
(* The backends of a provider that wants one format, whatever the client       *)
(* changes to and whatever recoveries come between.                            *)

\* The first backend's calls wait for it while it is the only one.
FirstWaits(t) == First(t) =>
    /\ cur = 1
    /\ t.kind = "initReinit" => bstat[1] = "pending"
    /\ t.kind = "init" => t.b = 1 /\ \/ t.at = "connecting" /\ bstat[1] = "pending"
                                     \/ t.at = "resolved" /\ bstat[1] = "connected"

\* Nothing is open, and nothing can open any more.
Gone ==
    /\ \A b \in Backends : bstat[b] # "connected"
    /\ \A t \in tasks : t.at = "connecting" => bstat[t.b] # "pending"

Kept == OneDesired /\ Provider # "aws" =>
    /\ isClosed => Gone
    /\ ~isClosed => /\ OthersClosed
                    /\ \A t \in tasks : FirstWaits(t) /\ Intact(t) /\ (t.kind = "reinit" => t.at = "decoder")

\* Steps of a connection that is closed already.
LEMMA StaysGone ==
    ASSUME Gone, bstat' = bstat, \A u \in tasks' : u \in tasks \/ u.at # "connecting"
    PROVE  Gone'
BY DEF Gone

\* The connection closes: with its backend, or with one that is not open and that no call
\* is connecting.
LEMMA ClosingGone ==
    ASSUME Sound, ~isClosed, OthersClosed, NEW st, NEW g, NEW c \in {NoBackend, cur}, DoClose(st, g, c),
           st \in [Backends -> {"none", "pending", "connected", "failed", "closed"}],
           \A b \in Backends \ {cur} : st[b] = bstat[b],
           \A u \in tasks' : u.at = "connecting" => u.b \in Backends,
           c = NoBackend =>
             st[cur] # "connected" /\ \A u \in tasks' : u.at = "connecting" => u.b # cur
    PROVE  Gone' /\ isClosed'
<1>1. cur \in Backends /\ cur # NoBackend  BY CurrentBackend
<1>2. CASE c = cur
  <2>1. bstat' = [st EXCEPT ![cur] = "closed"]  BY <1>1, <1>2 DEF DoClose
  <2>2. \A b \in Backends : bstat'[b] \in {"none", "closed"}
        BY <1>1, <2>1 DEF OthersClosed
  <2> QED  BY <2>2 DEF Gone, DoClose
<1>3. CASE c = NoBackend
  <2>1. bstat' = st  BY <1>3 DEF DoClose
  <2>2. \A b \in Backends \ {cur} : bstat'[b] \in {"none", "closed"}
        BY <2>1 DEF OthersClosed
  <2> QED  BY <1>1, <1>3, <2>1, <2>2 DEF Gone, DoClose
<1> QED  BY <1>2, <1>3

\* What the steps below use of a suspended call.
LEMMA KeptCall ==
    ASSUME Sound, Kept, OneDesired, Provider # "aws", NEW t \in tasks
    PROVE  /\ t \in Tasks /\ Stage(t) /\ \A u \in tasks : Apart(t, u)
           /\ t.at # "decoder" => t.b \in Backends
           /\ ~isClosed => FirstWaits(t) /\ Intact(t) /\ (t.kind = "reinit" => t.at = "decoder")
           /\ ~isClosed /\ t.at # "decoder" /\ bstat[t.b] \notin {"none", "closed"} => t.b = cur
<1>1. t \in Tasks /\ Stage(t) /\ \A u \in tasks : Apart(t, u)
      BY CallsTyped DEF Sound, Wiring, CallsApart
<1>2. t.at # "decoder" => t.b \in Backends
      BY <1>1, CallsTyped, BoundAssumption DEF Stage, Sound, Backends
<1> QED  BY <1>1, <1>2 DEF Kept, OthersClosed

\* Calls end and nothing else happens.
LEMMA FewerKept ==
    ASSUME Sound, Kept, UNCHANGED <<profile, isClosed, gen, cur, bstat>>, tasks' \subseteq tasks
    PROVE  Kept'
BY SameDesires DEF Kept, Gone, OthersClosed, FirstWaits, Intact, Current, Provider

LEMMA DecoderReadyKept ==
    ASSUME Sound, Kept, OneDesired, Provider # "aws", NEW t \in tasks, DecoderReady(t), UNCHANGED profile
    PROVE  Kept'
<1>1. UNCHANGED <<isClosed, gen, cur, bstat>>  BY DEF DecoderReady
<1>2. CASE tasks' = tasks \ {t}  BY <1>1, <1>2, FewerKept
<1>3. CASE /\ t.kind = "initReinit" /\ ~isClosed
           /\ tasks' = (tasks \ {t}) \cup {Task("init", "connecting", t.gen, cur, t.in, t.out)}
  <2>1. PICK s : tasks' = (tasks \ {t}) \cup {s} /\ s.kind = "init" /\ s.at = "connecting" /\ s.b = cur
        BY <1>3, TaskFields
  <2>2. cur = 1 /\ bstat[1] = "pending"  BY <1>3, KeptCall DEF FirstWaits, First
  <2>3. FirstWaits(s)' /\ Intact(s)'
        BY <1>1, <2>1, <2>2 DEF FirstWaits, Intact, Replacing
  <2>4. \A u \in tasks \ {t} : FirstWaits(u)' /\ Intact(u)' /\ (u.kind = "reinit" => u.at = "decoder")
        BY <1>1, <1>3 DEF Kept, FirstWaits, Intact, Current
  <2> QED  BY <1>1, <1>3, <2>1, <2>3, <2>4 DEF Kept, OthersClosed
<1> QED  BY <1>2, <1>3 DEF DecoderReady

LEMMA ReconnectedKept ==
    ASSUME Sound, Kept, OneDesired, Provider # "aws", NEW t \in tasks, Reconnected(t), UNCHANGED profile
    PROVE  Kept'
<1>1. UNCHANGED <<isClosed, gen, cur>> /\ t.at = "resolved" /\ Replacing(t)
      BY DEF Reconnected, Replacing
<1>2. CASE tasks' = tasks \ {t} /\ UNCHANGED bstat  BY <1>1, <1>2, FewerKept
<1>3. CASE ~isClosed /\ tasks' = tasks \ {t} /\ bstat' = [bstat EXCEPT ![t.b] = "closed"]
  <2>1. t.b # 1 /\ \A u \in tasks \ {t} : Replacing(u) => u.b # t.b
        BY <1>1, KeptCall DEF Stage, Apart
  <2>2. bstat \in [Backends -> {"none", "pending", "connected", "failed", "closed"}]
        BY DEF Sound, Wiring, BackendsTyped
  <2>3. bstat'[1] = bstat[1] /\ \A u \in tasks' : Replacing(u) => bstat'[u.b] = bstat[u.b]
        BY <1>3, <2>1, <2>2
  <2>4. OthersClosed'  BY <1>1, <1>3, <2>2 DEF Kept, OthersClosed
  <2>5. \A u \in tasks' : FirstWaits(u)' /\ Intact(u)' /\ (u.kind = "reinit" => u.at = "decoder")
        BY <1>1, <1>3, <2>3 DEF Kept, FirstWaits, Intact, Replacing, Current
  <2> QED  BY <1>1, <1>3, <2>4, <2>5 DEF Kept
<1>4. CASE ~isClosed /\ t.kind = "reinit"  BY <1>1, <1>4, KeptCall
<1> QED  BY <1>2, <1>3, <1>4 DEF Reconnected

LEMMA BackendOpensKept ==
    ASSUME Sound, Kept, OneDesired, Provider # "aws", NEW t \in tasks, BackendOpens(t), UNCHANGED profile
    PROVE  Kept'
<1>1. /\ UNCHANGED <<isClosed, gen, cur>> /\ t.at = "connecting" /\ bstat[t.b] = "pending"
      /\ bstat' = [bstat EXCEPT ![t.b] = "connected"] /\ tasks' = Settle(t, "resolved")
      BY DEF BackendOpens, Connecting
<1>2. ~isClosed  BY <1>1 DEF Kept, Gone
<1>3. t.b = cur /\ cur \in Backends /\ t \in Tasks  BY <1>1, <1>2, KeptCall
<1>4. bstat \in [Backends -> {"none", "pending", "connected", "failed", "closed"}]
      BY DEF Sound, Wiring, BackendsTyped
<1>5. bstat'[cur] = "connected" /\ \A b \in Backends \ {cur} : bstat'[b] = bstat[b]
      BY <1>1, <1>3, <1>4
<1>6. PICK s : /\ tasks' = (tasks \ {t}) \cup {s}
               /\ s.kind = t.kind /\ s.gen = t.gen /\ s.b = t.b /\ s.at = "resolved"
      BY <1>1, <1>3, SettledTask
<1>7. ASSUME NEW u \in tasks, u # t
      PROVE  FirstWaits(u)' /\ Intact(u)' /\ (u.kind = "reinit" => u.at = "decoder")
  <2>1. ~First(u)
    <3>1. First(u) => cur = 1  BY <1>2, KeptCall DEF FirstWaits
    <3>2. cur = 1 => First(t)
          BY <1>1, <1>3, KeptCall DEF Stage, Replacing, First, Tasks
    <3> QED  BY <1>7, <3>1, <3>2, KeptCall DEF Apart
  <2>2. Intact(u)'
    <3>1. Replacing(u) => u.b \in Backends  BY KeptCall DEF Replacing
    <3> QED  BY <1>1, <1>2, <1>5, <3>1, KeptCall DEF Intact, Replacing, Current
  <2> QED  BY <1>2, <2>1, <2>2, KeptCall DEF FirstWaits, First
<1>8. FirstWaits(s)' /\ Intact(s)' /\ (s.kind = "reinit" => s.at = "decoder")
  <2>1. FirstWaits(t) /\ t.kind # "reinit" /\ (t.kind = "initReinit" => t.at = "decoder")
        BY <1>1, <1>2, KeptCall DEF Stage
  <2> QED  BY <1>1, <1>3, <1>5, <1>6, <2>1 DEF FirstWaits, First, Intact, Replacing
<1>9. OthersClosed'  BY <1>1, <1>2, <1>5 DEF Kept, OthersClosed
<1> QED  BY <1>1, <1>2, <1>6, <1>7, <1>8, <1>9 DEF Kept

LEMMA ConnectAbortedKept ==
    ASSUME Sound, Kept, OneDesired, Provider # "aws", NEW t \in tasks, ConnectAborted(t), UNCHANGED profile
    PROVE  Kept'
<1>1. /\ UNCHANGED <<isClosed, gen, cur, bstat>> /\ t.at = "connecting" /\ bstat[t.b] = "closed"
      /\ tasks' = Settle(t, "rejected")
      BY DEF ConnectAborted, Connecting
<1>2. PICK s : /\ tasks' = (tasks \ {t}) \cup {s}
               /\ s.kind = t.kind /\ s.gen = t.gen /\ s.b = t.b /\ s.at = "rejected"
      BY <1>1, KeptCall, SettledTask
<1>3. CASE isClosed
  <2>1. Gone'  BY <1>1, <1>2, <1>3, StaysGone DEF Kept
  <2> QED  BY <1>1, <1>3, <2>1 DEF Kept
<1>4. CASE ~isClosed
  <2>1. /\ FirstWaits(t) /\ Intact(t) /\ (t.kind = "reinit" => t.at = "decoder")
        /\ (t.kind = "initReinit" => t.at = "decoder")
        BY <1>4, KeptCall DEF Stage
  <2>2. FirstWaits(s)' /\ Intact(s)' /\ (s.kind = "reinit" => s.at = "decoder")
        BY <1>1, <1>2, <2>1 DEF FirstWaits, First, Intact, Replacing, Current
  <2>3. \A u \in tasks : FirstWaits(u)' /\ Intact(u)' /\ (u.kind = "reinit" => u.at = "decoder")
        BY <1>1, <1>4 DEF Kept, FirstWaits, Intact, Current
  <2> QED  BY <1>1, <1>2, <1>4, <2>2, <2>3 DEF Kept, OthersClosed
<1> QED  BY <1>3, <1>4

LEMMA StreamErrorKept ==
    ASSUME Sound, Kept, OneDesired, Provider # "aws", NEW r, StreamError(r), UNCHANGED profile
    PROVE  Kept'
<1>0. /\ bstat \in [Backends -> {"none", "pending", "connected", "failed", "closed"}]
      /\ MicrotasksDone /\ cur # NoBackend /\ bstat[cur] = "connected" /\ OnError(bstat, r, tasks)
      BY DEF Sound, Wiring, BackendsTyped, StreamError
<1>1. ~isClosed /\ cur \in Backends /\ nb \in Nat /\ gen \in Nat /\ OthersClosed
      BY <1>0, CurrentBackend, CallsTyped DEF Sound, Wiring, BackendsTyped, Kept
<1>2. CASE /\ gen' = gen + 1
           /\ ReconnectBackend(bstat, desired)
           /\ tasks' = tasks \cup {Task("recover", "connecting", gen + 1, nb + 1, inFmt, desired)}
           /\ UNCHANGED <<isClosed, dstat>>
  <2>1. PICK s : tasks' = tasks \cup {s} /\ s.kind = "recover" /\ s.at = "connecting" /\ s.b = nb + 1
        BY <1>2, TaskFields
  <2>2. /\ cur' = nb + 1 /\ nb + 1 \in Backends
        /\ bstat' = [CloseOld(bstat) EXCEPT ![nb + 1] = "pending"]
        BY <1>1, <1>2, BoundAssumption DEF ReconnectBackend, Backends
  <2>3. bstat'[nb + 1] = "pending" /\ OthersClosed'
        BY <1>0, <1>1, <2>2 DEF CloseOld, OthersClosed
  <2>4. \A u \in tasks : ~First(u)
    <3> SUFFICES ASSUME NEW u \in tasks, First(u) PROVE FALSE  OBVIOUS
    <3>1. FirstWaits(u)  BY <1>1, KeptCall
    <3> QED  BY <1>0, <3>1, NothingSettled DEF FirstWaits, First
  <2>5. \A u \in tasks : u.gen # gen'  BY <1>1, <1>2, CallsTyped DEF Sound
  <2>6. \A u \in tasks : FirstWaits(u)' /\ Intact(u)' /\ (u.kind = "reinit" => u.at = "decoder")
        BY <1>1, <2>4, <2>5 DEF Kept, FirstWaits, First, Intact, Current
  <2>7. FirstWaits(s)' /\ Intact(s)' /\ s.kind # "reinit"
        BY <2>1, <2>3 DEF FirstWaits, First, Intact
  <2> QED  BY <1>1, <1>2, <2>1, <2>3, <2>6, <2>7 DEF Kept
<1>3. CASE DoClose(bstat, gauge, cur) /\ tasks' = tasks
  <2>1. \A u \in tasks' : u.at = "connecting" => u.b \in Backends  BY <1>3, KeptCall
  <2>2. Gone' /\ isClosed'
        BY <1>0, <1>1, <1>3, <2>1, ClosingGone DEF NoBackend
  <2> QED  BY <2>2 DEF Kept
<1> QED  BY <1>0, <1>2, <1>3 DEF OnError

LEMMA DecoderFailsKept ==
    ASSUME Sound, Kept, OneDesired, Provider # "aws", NEW t \in tasks, DecoderFails(t), UNCHANGED profile
    PROVE  Kept'
<1>0. /\ bstat \in [Backends -> {"none", "pending", "connected", "failed", "closed"}]
      /\ tasks' = tasks \ {t} /\ t.at = "decoder"
      BY DEF Sound, Wiring, BackendsTyped, DecoderFails
<1>1. \A u \in tasks' : u.at = "connecting" => u.b \in Backends  BY <1>0, KeptCall
<1>2. CASE t.kind = "initReinit" /\ ~isClosed /\ DoClose(bstat, gauge, NoBackend)
  <2>1. cur = 1 /\ bstat[1] = "pending" /\ OthersClosed
        BY <1>2, KeptCall DEF FirstWaits, First, Kept
  <2>2. \A u \in tasks' : u.at = "connecting" => u.b # cur
    <3> SUFFICES ASSUME NEW u \in tasks', u.at = "connecting", u.b = 1 PROVE FALSE  BY <2>1
    <3>1. u \in tasks /\ u # t /\ 1 \in Backends  BY <1>0, BoundAssumption DEF Backends
    <3> QED  BY <1>2, <3>1, FirstBackend
  <2>3. Gone' /\ isClosed'
        BY <1>0, <1>1, <1>2, <2>1, <2>2, ClosingGone
  <2> QED  BY <2>3 DEF Kept
<1>3. CASE Current(t) /\ DoClose(bstat, gauge, cur)
  <2>1. ~isClosed  BY <1>3, CallsTyped DEF Sound, AllOvertaken, Current
  <2>2. Gone' /\ isClosed'
        BY <1>0, <1>1, <1>3, <2>1, ClosingGone, CurrentBackend DEF Kept
  <2> QED  BY <2>2 DEF Kept
<1>4. CASE UNCHANGED <<isClosed, gen, cur, bstat>>  BY <1>0, <1>4, FewerKept
<1> QED  BY <1>2, <1>3, <1>4 DEF DecoderFails

LEMMA BackendFailsKept ==
    ASSUME Sound, Kept, OneDesired, Provider # "aws", NEW t \in tasks, BackendFailsToConnect(t), UNCHANGED profile
    PROVE  Kept' /\ isClosed'
<1>0. bstat \in [Backends -> {"none", "pending", "connected", "failed", "closed"}]
      BY DEF Sound, Wiring, BackendsTyped
<1>1. t.at = "connecting" /\ bstat[t.b] = "pending"  BY DEF BackendFailsToConnect, Connecting
<1>2. ~isClosed  BY <1>1 DEF Kept, Gone
<1>3. t.b = cur /\ cur \in Backends /\ t \in Tasks  BY <1>1, <1>2, KeptCall
<1> DEFINE st == [bstat EXCEPT ![t.b] = "failed"]
<1>4. DoClose(st, gauge, cur) /\ tasks' = Settle(t, "rejected")
      BY DEF BackendFailsToConnect, OnError, Recovers, ConnectErrorRecoverable
<1>5. /\ st \in [Backends -> {"none", "pending", "connected", "failed", "closed"}]
      /\ \A b \in Backends \ {cur} : st[b] = bstat[b]
      BY <1>0, <1>3
<1> HIDE DEF st
<1>6. PICK s : tasks' = (tasks \ {t}) \cup {s} /\ s.at = "rejected"  BY <1>3, <1>4, SettledTask
<1>7. \A u \in tasks' : u.at = "connecting" => u.b \in Backends  BY <1>6, KeptCall
<1>8. Gone' /\ isClosed'
      BY <1>2, <1>4, <1>5, <1>7, ClosingGone, CurrentBackend DEF Kept
<1> QED  BY <1>8 DEF Kept

LEMMA KeptStep == Sound /\ Kept /\ [Next]_vars => Kept'
<1> SUFFICES ASSUME Sound, Kept, [Next]_vars PROVE Kept'  OBVIOUS
<1>a. UNCHANGED profile  BY DEF Next, Resume, ConnectSettles, Event, IdleTimer, vars
<1> SUFFICES ASSUME OneDesired, Provider # "aws" PROVE Kept'
    BY <1>a, SameDesires DEF Kept, Provider
<1>0. /\ bstat \in [Backends -> {"none", "pending", "connected", "failed", "closed"}]
      /\ ~isClosed => cur \in Backends /\ cur # NoBackend /\ OthersClosed
      /\ \A u \in tasks : u.at = "connecting" => u.b \in Backends
      BY CurrentBackend, KeptCall DEF Sound, Wiring, BackendsTyped, Kept
<1>1. ASSUME NEW t \in tasks, InitConnected(t)  PROVE Kept'
      BY <1>a, <1>1, FewerKept DEF InitConnected
<1>2. ASSUME NEW t \in tasks, InitFailed(t)  PROVE Kept'
  <2>1. isClosed
    <3> SUFFICES ASSUME ~isClosed PROVE FALSE  OBVIOUS
    <3>1. FirstWaits(t)  BY KeptCall
    <3> QED  BY <1>2, <3>1 DEF InitFailed, FirstWaits, First
  <2> QED  BY <1>a, <1>2, <2>1, FewerKept DEF InitFailed
<1>3. ASSUME NEW t \in tasks, ReconnectFailed(t)  PROVE Kept'
  <2>1. ~Current(t)
    <3> SUFFICES ASSUME Current(t) PROVE FALSE  OBVIOUS
    <3>1. ~isClosed  BY CallsTyped DEF Sound, AllOvertaken, Current
    <3>2. Intact(t)  BY <3>1, KeptCall
    <3> QED  BY <1>3, <3>2 DEF ReconnectFailed, Intact, Replacing
  <2> QED  BY <1>a, <1>3, <2>1, FewerKept DEF ReconnectFailed
<1>4. CASE Resume
      BY <1>a, <1>1, <1>2, <1>3, <1>4, DecoderReadyKept, ReconnectedKept DEF Resume
<1>5. CASE ConnectSettles
      BY <1>a, <1>5, BackendOpensKept, BackendFailsKept, ConnectAbortedKept DEF ConnectSettles
<1>6. ASSUME NEW b \in Backends, BackendCloses(b)  PROVE Kept'
  <2>1. ~isClosed /\ b = cur  BY <1>6 DEF BackendCloses, Kept, Gone, OthersClosed
  <2>2. DoClose([bstat EXCEPT ![b] = "closed"], gauge - 1, cur) /\ tasks' = tasks
        BY <1>6 DEF BackendCloses
  <2>3. /\ [bstat EXCEPT ![b] = "closed"] \in [Backends -> {"none", "pending", "connected", "failed", "closed"}]
        /\ \A x \in Backends \ {cur} : [bstat EXCEPT ![b] = "closed"][x] = bstat[x]
        BY <1>0, <2>1
  <2>4. Gone' /\ isClosed'  BY <1>0, <2>1, <2>2, <2>3, ClosingGone
  <2> QED  BY <2>4 DEF Kept
<1>7. CASE Close
  <2>1. ~isClosed /\ DoClose(bstat, gauge, cur) /\ tasks' = tasks  BY <1>7 DEF Close
  <2>2. Gone' /\ isClosed'  BY <1>0, <2>1, ClosingGone
  <2> QED  BY <2>2 DEF Kept
<1>8. ASSUME NEW f \in InputFormats, StartEvent(f)  PROVE Kept'
  <2>1. /\ tasks' = tasks \cup {Task("reinit", "decoder", gen + 1, NoBackend, f, Desired[f])}
        /\ UNCHANGED <<isClosed, cur, bstat>> /\ gen' = gen + 1 /\ ~isClosed
        BY <1>8, Desires DEF StartEvent, OneDesired
  <2>2. PICK s : tasks' = tasks \cup {s} /\ s.kind = "reinit" /\ s.at = "decoder"
        BY <2>1, TaskFields
  <2>3. \A u \in tasks : u.gen # gen'  BY <2>1, CallsTyped DEF Sound
  <2>4. \A u \in tasks : FirstWaits(u)' /\ Intact(u)' /\ (u.kind = "reinit" => u.at = "decoder")
        BY <2>1, <2>3 DEF Kept, FirstWaits, Intact, Current
  <2>5. FirstWaits(s)' /\ Intact(s)'  BY <2>2 DEF FirstWaits, First, Intact, Replacing
  <2> QED  BY <2>1, <2>2, <2>4, <2>5 DEF Kept, OthersClosed
<1>9. ASSUME UNCHANGED control  PROVE Kept'  BY <1>a, <1>9, FewerKept DEF control
<1>10. CASE ResetChunkTracking \/ IdleTimer \/ UNCHANGED vars \/ \E all : FinalTranscript(all) \/ \E n : Media(n)
       BY <1>9, <1>10 DEF ResetChunkTracking, IdleTimer, IdleCommit, vars, FinalTranscript, Media
<1>11. CASE Event
       BY <1>a, <1>6, <1>7, <1>8, <1>10, <1>11, StreamErrorKept, DecoderFailsKept DEF Event
<1> QED  BY <1>4, <1>5, <1>10, <1>11 DEF Next

LEMMA InitKept == Init => Kept
<1> SUFFICES ASSUME Init PROVE Kept  OBVIOUS
<1>1. /\ cur = 1 /\ isClosed = FALSE
      /\ bstat = [b \in Backends |-> IF b = 1 THEN "pending" ELSE "none"]
      /\ tasks = {Task("initReinit", "decoder", 1, NoBackend, inFmt, Desired[inFmt])}
      BY DEF Init
<1>2. 1 \in Backends  BY BoundAssumption DEF Backends
<1>3. PICK s : tasks = {s} /\ s.kind = "initReinit"  BY <1>1, TaskFields
<1>4. FirstWaits(s) /\ Intact(s)  BY <1>1, <1>2, <1>3 DEF FirstWaits, Intact, Replacing
<1>5. OthersClosed  BY <1>1 DEF OthersClosed
<1> QED  BY <1>1, <1>3, <1>4, <1>5 DEF Kept
-----------------------------------------------------------------------------
(* An open connection of a WebSocket provider holds no backend but its own.    *)

Alone == ~isClosed /\ Provider # "aws" => OthersClosed

LEMMA ReconnectAlone ==
    ASSUME Sound, ~isClosed, OthersClosed, NEW want, ReconnectBackend(bstat, want)
    PROVE  OthersClosed'
<1>1. /\ bstat \in [Backends -> {"none", "pending", "connected", "failed", "closed"}]
      /\ cur \in Backends /\ nb \in Nat
      BY CurrentBackend, CallsTyped DEF Sound, Wiring, BackendsTyped
<1>2. /\ cur' = nb + 1 /\ nb + 1 \in Backends
      /\ bstat' = [CloseOld(bstat) EXCEPT ![nb + 1] = "pending"]
      BY <1>1, BoundAssumption DEF ReconnectBackend, Backends
<1> QED  BY <1>1, <1>2 DEF CloseOld, OthersClosed

LEMMA AloneStep == Sound /\ Alone /\ [Next]_vars => Alone'
<1> SUFFICES ASSUME Sound, Alone, [Next]_vars PROVE Alone'  OBVIOUS
<1>a. UNCHANGED profile  BY DEF Next, Resume, ConnectSettles, Event, IdleTimer, vars
<1> SUFFICES ASSUME Provider # "aws", ~isClosed', ~isClosed => OthersClosed PROVE OthersClosed'
    BY <1>a DEF Alone, Provider
<1>0. bstat \in [Backends -> {"none", "pending", "connected", "failed", "closed"}]
      BY DEF Sound, Wiring, BackendsTyped
<1>1. ASSUME ~isClosed, UNCHANGED <<cur, bstat>>  PROVE OthersClosed'
      BY <1>1 DEF OthersClosed
<1>2. ASSUME NEW t \in tasks, Reconnected(t)  PROVE OthersClosed'
  <2>1. ~isClosed /\ UNCHANGED cur /\ (bstat' = bstat \/ bstat' = [bstat EXCEPT ![t.b] = "closed"])
        BY <1>2 DEF Reconnected
  <2> QED  BY <1>0, <2>1 DEF OthersClosed
<1>3. CASE Resume
      BY <1>1, <1>2, <1>3 DEF Resume, DecoderReady, InitConnected, InitFailed, ReconnectFailed, DoClose
<1>4. ASSUME NEW t \in tasks, BackendOpens(t)  PROVE OthersClosed'
  <2>1. ~isClosed /\ UNCHANGED cur /\ bstat' = [bstat EXCEPT ![t.b] = "connected"]
        /\ bstat[t.b] = "pending" /\ t.at = "connecting"
        BY <1>4 DEF BackendOpens, Connecting
  <2>2. t.b \in Backends
        BY <2>1, CallsTyped, BoundAssumption DEF Sound, Wiring, CallsApart, Stage, Backends
  <2>3. t.b = cur  BY <2>1, <2>2 DEF OthersClosed
  <2> QED  BY <1>0, <2>1, <2>3 DEF OthersClosed
<1>5. CASE ConnectSettles
      BY <1>1, <1>4, <1>5 DEF ConnectSettles, BackendFailsToConnect, OnError, Recovers,
         ConnectErrorRecoverable, ConnectAborted, DoClose
<1>6. ASSUME NEW r, StreamError(r)  PROVE OthersClosed'
  <2>1. OnError(bstat, r, tasks)  BY <1>6 DEF StreamError
  <2>2. ~isClosed /\ ReconnectBackend(bstat, desired)  BY <2>1 DEF OnError, DoClose
  <2> QED  BY <2>2, ReconnectAlone
<1>7. ASSUME NEW f \in InputFormats, StartEvent(f)  PROVE OthersClosed'
      BY <1>1, <1>7, ReconnectAlone DEF StartEvent
<1>q. ASSUME UNCHANGED control  PROVE OthersClosed'  BY <1>1, <1>q DEF control
<1>8. CASE ResetChunkTracking \/ IdleTimer \/ UNCHANGED vars \/ \E all : FinalTranscript(all) \/ \E n : Media(n)
      BY <1>q, <1>8 DEF ResetChunkTracking, IdleTimer, IdleCommit, vars, FinalTranscript, Media
<1>9. ASSUME NEW t \in tasks, DecoderFails(t)  PROVE OthersClosed'
      BY <1>1, <1>9 DEF DecoderFails, DoClose
<1>10. ASSUME NEW b \in Backends, BackendCloses(b)  PROVE OthersClosed'
       BY <1>1, <1>10 DEF BackendCloses, DoClose
<1>11. CASE Close  BY <1>11 DEF Close, DoClose
<1>12. CASE Event
       BY <1>6, <1>7, <1>8, <1>9, <1>10, <1>11, <1>12 DEF Event
<1> QED  BY <1>3, <1>5, <1>8, <1>12 DEF Next
-----------------------------------------------------------------------------
(* One microtask at a time: what a task unblocks has run when the next begins. *)

OneMicrotask == \A t, u \in tasks : IsMicrotask(t) /\ IsMicrotask(u) => t = u

\* A step keeps that when the microtasks it leaves were not there, but for one.
LEMMA OneNewMicrotask ==
    ASSUME UNCHANGED profile, NEW ts, NEW x, tasks' \subseteq ts \cup {x},
           \A t, u \in ts : IsMicrotask(t) /\ IsMicrotask(u) => t = u,
           IsMicrotask(x) => \A t \in ts : ~IsMicrotask(t)
    PROVE  OneMicrotask'
BY DEF OneMicrotask, IsMicrotask, AsyncInputs

LEMMA FewerMicrotasks ==
    ASSUME UNCHANGED profile, OneMicrotask, tasks' \subseteq tasks
    PROVE  OneMicrotask'
BY DEF OneMicrotask, IsMicrotask, AsyncInputs

LEMMA OneMicrotaskStep == Sound /\ OneMicrotask /\ [Next]_vars => OneMicrotask'
<1> SUFFICES ASSUME Sound, OneMicrotask, [Next]_vars PROVE OneMicrotask'  OBVIOUS
<1>a. UNCHANGED profile  BY DEF Next, Resume, ConnectSettles, Event, IdleTimer, vars
<1>0. ASSUME tasks' \subseteq tasks  PROVE OneMicrotask'  BY <1>a, <1>0, FewerMicrotasks
<1>1. ASSUME MicrotasksDone, NEW x, tasks' \subseteq tasks \cup {x}  PROVE OneMicrotask'
      BY <1>a, <1>1, OneNewMicrotask DEF MicrotasksDone
<1>2. ASSUME NEW t \in tasks, IsMicrotask(t), NEW x, tasks' \subseteq (tasks \ {t}) \cup {x}
      PROVE  OneMicrotask'
      BY <1>a, <1>2, OneNewMicrotask DEF OneMicrotask
<1>3. ASSUME NEW t \in tasks, DecoderReady(t)  PROVE OneMicrotask'
      BY <1>0, <1>1, <1>2, <1>3 DEF DecoderReady
<1>4. ASSUME NEW t \in tasks, Reconnected(t)  PROVE OneMicrotask'
      BY <1>0, <1>2, <1>4 DEF Reconnected, IsMicrotask
<1>5. CASE Resume
      BY <1>0, <1>3, <1>4, <1>5 DEF Resume, InitConnected, InitFailed, ReconnectFailed
<1>6. ASSUME NEW t \in tasks, NEW how, tasks' = Settle(t, how), MicrotasksDone  PROVE OneMicrotask'
      BY <1>1, <1>6 DEF Settle
<1>7. ASSUME NEW t \in tasks, BackendFailsToConnect(t)  PROVE OneMicrotask'
  <2> DEFINE s == [t EXCEPT !.at = "rejected"]
             n == Task("recover", "connecting", gen + 1, nb + 1, inFmt, desired)
  <2>1. MicrotasksDone /\ tasks' \subseteq (tasks \cup {n}) \cup {s}
        BY <1>7 DEF BackendFailsToConnect, OnError, Settle
  <2>2. ~IsMicrotask(n)  BY TaskFields DEF IsMicrotask
  <2> HIDE DEF s, n
  <2>3. \A u \in tasks \cup {n} : ~IsMicrotask(u)  BY <2>1, <2>2 DEF MicrotasksDone
  <2> QED  BY <1>a, <2>1, <2>3, OneNewMicrotask
<1>8. CASE ConnectSettles
      BY <1>6, <1>7, <1>8 DEF ConnectSettles, BackendOpens, ConnectAborted
<1>9. ASSUME NEW r, StreamError(r)  PROVE OneMicrotask'
      BY <1>0, <1>1, <1>9 DEF StreamError, OnError
<1>10. ASSUME NEW f \in InputFormats, StartEvent(f)  PROVE OneMicrotask'
       BY <1>1, <1>10 DEF StartEvent
<1>11. CASE ResetChunkTracking \/ IdleTimer \/ UNCHANGED vars \/ \E all : FinalTranscript(all) \/ \E n : Media(n)
       BY <1>0, <1>11 DEF ResetChunkTracking, IdleTimer, IdleCommit, vars, FinalTranscript, Media, control
<1>12. CASE Event
       BY <1>0, <1>9, <1>10, <1>11, <1>12 DEF Event, DecoderFails, BackendCloses, Close
<1> QED  BY <1>5, <1>8, <1>11, <1>12 DEF Next
-----------------------------------------------------------------------------
(* Deepgram's share of the gauge, while one backend is good for all formats:   *)
(* it counts from initializeBackend's return.                                  *)

Counted == Provider = "deepgram" /\ OneDesired =>
    /\ \A t \in tasks : t.kind # "recover"
    /\ isClosed => gauge = 0
    /\ ~isClosed => /\ cur = 1
                    /\ gauge = IF bstat[1] = "connected" /\ \A t \in tasks : t.kind # "init" THEN 1 ELSE 0

LEMMA InitCounted == Init => Counted
<1> SUFFICES ASSUME Init PROVE Counted  OBVIOUS
<1>1. 1 \in Backends  BY BoundAssumption DEF Backends
<1>2. PICK s : tasks = {s} /\ s.kind = "initReinit"  BY TaskFields DEF Init
<1> QED  BY <1>1, <1>2 DEF Init, Counted

\* Unless initializeBackend is about to resume, a connected backend is counted.
LEMMA CountedExactly ==
    ASSUME Sound, Kept, Counted, OneDesired, Provider = "deepgram", ~isClosed,
           \A u \in tasks : u.at # "resolved"
    PROVE  gauge = IF bstat[1] = "connected" THEN 1 ELSE 0
<1>1. \A u \in tasks : u.kind = "init" => bstat[1] = "pending"
      BY KeptCall DEF FirstWaits, First
<1> QED  BY <1>1 DEF Counted

LEMMA ClosingCounted ==
    ASSUME UNCHANGED profile, Sound, ~isClosed, NEW st, NEW g, NEW c, DoClose(st, g, c),
           g = IF c # NoBackend /\ st[c] = "connected" THEN 1 ELSE 0,
           \A u \in tasks' : u.kind # "recover"
    PROVE  Counted'
<1>1. gauge' = 0 /\ isClosed'  BY DEF DoClose, Uncount
<1> QED  BY <1>1 DEF Counted

LEMMA CountedStep == Sound /\ Kept /\ OneMicrotask /\ Counted /\ [Next]_vars => Counted'
<1> SUFFICES ASSUME Sound, Kept, OneMicrotask, Counted, [Next]_vars PROVE Counted'  OBVIOUS
<1>a. UNCHANGED profile  BY DEF Next, Resume, ConnectSettles, Event, IdleTimer, vars
<1> SUFFICES ASSUME OneDesired, Provider = "deepgram" PROVE Counted'
    BY <1>a, SameDesires DEF Counted, Provider
<1>0. /\ bstat \in [Backends -> {"none", "pending", "connected", "failed", "closed"}]
      /\ \A u \in tasks : u.kind # "recover"
      /\ ~isClosed => cur = 1 /\ 1 \in Backends /\ cur # NoBackend
      /\ isClosed => gauge = 0
      /\ ~isClosed /\ MicrotasksDone => gauge = IF bstat[1] = "connected" THEN 1 ELSE 0
      BY CurrentBackend, CountedExactly, NothingSettled DEF Sound, Wiring, BackendsTyped, Counted
<1>1. ASSUME UNCHANGED <<isClosed, cur, bstat, gauge>>,
             \A u \in tasks' : u.kind # "recover" /\ (u.kind = "init" => u \in tasks),
             \A u \in tasks : u.kind = "init" => u \in tasks'
      PROVE  Counted'
      BY <1>1 DEF Counted
<1>2. ASSUME NEW t \in tasks, t.kind # "init", UNCHANGED <<isClosed, cur, bstat, gauge>>, tasks' = tasks \ {t}
      PROVE  Counted'
      BY <1>0, <1>1, <1>2
<1>3. ASSUME NEW t \in tasks, isClosed, UNCHANGED <<isClosed, gauge>>, tasks' = tasks \ {t}
      PROVE  Counted'
      BY <1>0, <1>3 DEF Counted
<1>4. ASSUME NEW t \in tasks, DecoderReady(t)  PROVE Counted'
  <2>1. UNCHANGED <<isClosed, cur, bstat, gauge>> /\ t.at = "decoder"  BY <1>4 DEF DecoderReady
  <2>2. t.kind # "init"  BY <2>1, KeptCall DEF Stage
  <2>3. CASE /\ t.kind = "initReinit" /\ ~isClosed
             /\ tasks' = (tasks \ {t}) \cup {Task("init", "connecting", t.gen, cur, t.in, t.out)}
    <3>1. bstat[1] = "pending"  BY <2>3, KeptCall DEF FirstWaits, First
    <3>2. \A u \in tasks' : u.kind # "recover"  BY <1>0, <2>3, TaskFields
    <3> QED  BY <1>0, <2>1, <2>3, <3>1, <3>2 DEF Counted
  <2> QED  BY <1>2, <1>4, <2>1, <2>2, <2>3 DEF DecoderReady
<1>5. ASSUME NEW t \in tasks, InitConnected(t)  PROVE Counted'
  <2>1. UNCHANGED <<isClosed, cur, bstat>> /\ tasks' = tasks \ {t} /\ t.kind = "init"
        /\ gauge' = IF isClosed THEN gauge ELSE gauge + 1
        BY <1>5 DEF InitConnected
  <2>2. CASE ~isClosed
    <3>1. bstat[1] = "connected"
          BY <1>5, <2>2, KeptCall DEF FirstWaits, First, InitConnected
    <3>2. \A u \in tasks' : u.kind # "init"
          BY <2>1, KeptCall DEF Apart, First
    <3>3. gauge = 0  BY <2>1, <2>2 DEF Counted
    <3> QED  BY <1>0, <2>1, <2>2, <3>1, <3>2, <3>3 DEF Counted
  <2> QED  BY <1>3, <2>1, <2>2
<1>6. ASSUME NEW t \in tasks, InitFailed(t)  PROVE Counted'
  <2>1. isClosed
    <3> SUFFICES ASSUME ~isClosed PROVE FALSE  OBVIOUS
    <3>1. FirstWaits(t)  BY KeptCall
    <3> QED  BY <1>6, <3>1 DEF InitFailed, FirstWaits, First
  <2> QED  BY <1>3, <1>6, <2>1 DEF InitFailed
<1>7. ASSUME NEW t \in tasks, Reconnected(t)  PROVE Counted'
  <2>1. t.kind = "reinit" /\ t.at = "resolved"  BY <1>0, <1>7 DEF Reconnected
  <2>2. isClosed  BY <2>1, KeptCall
  <2> QED  BY <1>3, <1>7, <2>2 DEF Reconnected
<1>8. ASSUME NEW t \in tasks, ReconnectFailed(t)  PROVE Counted'
  <2>1. t.kind = "reinit" /\ t.at = "rejected"  BY <1>0, <1>8 DEF ReconnectFailed
  <2>2. isClosed  BY <2>1, KeptCall
  <2>3. ~Current(t)  BY <2>2, CallsTyped DEF Sound, AllOvertaken, Current
  <2> QED  BY <1>3, <1>8, <2>2, <2>3 DEF ReconnectFailed
<1>9. CASE Resume  BY <1>4, <1>5, <1>6, <1>7, <1>8, <1>9 DEF Resume
<1>10. ASSUME NEW t \in tasks, BackendOpens(t)  PROVE Counted'
  <2>1. /\ UNCHANGED <<isClosed, cur, gauge>> /\ t.at = "connecting" /\ bstat[t.b] = "pending"
        /\ bstat' = [bstat EXCEPT ![t.b] = "connected"] /\ tasks' = Settle(t, "resolved")
        BY <1>10 DEF BackendOpens, Connecting
  <2>2. ~isClosed  BY <2>1 DEF Kept, Gone
  <2>3. t.b = 1 /\ t \in Tasks  BY <1>0, <2>1, <2>2, KeptCall
  <2>4. PICK s : tasks' = (tasks \ {t}) \cup {s} /\ s.kind = t.kind  BY <2>1, <2>3, SettledTask
  <2>5. t.kind = "init"  BY <1>0, <2>1, <2>2, <2>3, FirstBackend
  <2>6. gauge = 0  BY <2>2, <2>5 DEF Counted
  <2> QED  BY <1>0, <2>1, <2>2, <2>4, <2>5, <2>6 DEF Counted
<1>11. ASSUME NEW t \in tasks, BackendFailsToConnect(t)  PROVE Counted'
  <2>1. t.at = "connecting" /\ bstat[t.b] = "pending" /\ MicrotasksDone
        BY <1>11 DEF BackendFailsToConnect, Connecting
  <2>2. ~isClosed  BY <2>1 DEF Kept, Gone
  <2>3. t.b = 1 /\ t \in Tasks  BY <1>0, <2>1, <2>2, KeptCall
  <2>4. DoClose([bstat EXCEPT ![t.b] = "failed"], gauge, cur) /\ tasks' = Settle(t, "rejected")
        BY <1>11 DEF BackendFailsToConnect, OnError, Recovers, ConnectErrorRecoverable
  <2>5. PICK s : tasks' = (tasks \ {t}) \cup {s} /\ s.kind = t.kind  BY <2>3, <2>4, SettledTask
  <2>6. [bstat EXCEPT ![t.b] = "failed"][1] = "failed" /\ gauge = 0  BY <1>0, <2>1, <2>2, <2>3
  <2> QED  BY <1>a, <1>0, <2>2, <2>4, <2>5, <2>6, ClosingCounted
<1>12. ASSUME NEW t \in tasks, ConnectAborted(t)  PROVE Counted'
  <2>1. /\ UNCHANGED <<isClosed, cur, bstat, gauge>> /\ t.at = "connecting" /\ bstat[t.b] = "closed"
        /\ tasks' = Settle(t, "rejected")
        BY <1>12 DEF ConnectAborted, Connecting
  <2>2. PICK s : tasks' = (tasks \ {t}) \cup {s} /\ s.kind = t.kind
        BY <2>1, KeptCall, SettledTask
  <2>3. CASE isClosed  BY <1>0, <2>1, <2>2, <2>3 DEF Counted
  <2>4. CASE ~isClosed
    <3>1. t.kind # "init"  BY <2>1, <2>4, KeptCall DEF FirstWaits, First
    <3> QED  BY <1>0, <1>1, <2>1, <2>2, <3>1
  <2> QED  BY <2>3, <2>4
<1>13. CASE ConnectSettles  BY <1>10, <1>11, <1>12, <1>13 DEF ConnectSettles
<1>14. ASSUME NEW t \in tasks, DecoderFails(t)  PROVE Counted'
  <2>1. tasks' = tasks \ {t} /\ t.at = "decoder"  BY <1>14 DEF DecoderFails
  <2>2. t.kind # "init" /\ \A u \in tasks' : u.kind # "recover"
        BY <1>0, <2>1, KeptCall DEF Stage
  <2>3. \A u \in tasks : u.at # "resolved"
        BY <1>14, <2>1, NothingSettled DEF DecoderFails, OneMicrotask, IsMicrotask
  <2>4. CASE t.kind = "initReinit" /\ ~isClosed /\ DoClose(bstat, gauge, NoBackend)
    <3>1. bstat[1] = "pending"  BY <2>4, KeptCall DEF FirstWaits, First
    <3>2. gauge = 0  BY <2>4, <3>1 DEF Counted
    <3> QED  BY <1>a, <2>2, <2>4, <3>2, ClosingCounted
  <2>5. CASE Current(t) /\ DoClose(bstat, gauge, cur)
    <3>1. ~isClosed  BY <2>5, CallsTyped DEF Sound, AllOvertaken, Current
    <3>2. gauge = IF bstat[1] = "connected" THEN 1 ELSE 0  BY <2>3, <3>1, CountedExactly
    <3> QED  BY <1>a, <1>0, <2>2, <2>5, <3>1, <3>2, ClosingCounted
  <2>6. CASE UNCHANGED <<isClosed, cur, bstat, gauge>>  BY <1>2, <2>1, <2>2, <2>6
  <2> QED  BY <1>14, <2>4, <2>5, <2>6 DEF DecoderFails
<1>15. ASSUME NEW r \in Recoverable, StreamError(r)  PROVE Counted'
  <2>1. MicrotasksDone /\ cur # NoBackend /\ OnError(bstat, r, tasks)
        BY <1>15 DEF StreamError
  <2>2. ~isClosed  BY <2>1 DEF Sound, AllOvertaken
  <2>3. r = FALSE  BY <1>15 DEF Recoverable
  <2>4. DoClose(bstat, gauge, cur) /\ tasks' = tasks  BY <2>1, <2>3 DEF OnError, Recovers
  <2> QED  BY <1>a, <1>0, <2>1, <2>2, <2>4, ClosingCounted
<1>16. ASSUME NEW b \in Backends, BackendCloses(b)  PROVE Counted'
  <2>1. ~isClosed /\ b = cur  BY <1>16 DEF BackendCloses, Kept, Gone, OthersClosed
  <2>2. /\ MicrotasksDone /\ bstat[cur] = "connected" /\ tasks' = tasks
        /\ DoClose([bstat EXCEPT ![cur] = "closed"], gauge - 1, cur)
        BY <1>16, <2>1 DEF BackendCloses
  <2>3. gauge - 1 = 0 /\ [bstat EXCEPT ![cur] = "closed"][cur] = "closed"  BY <1>0, <2>1, <2>2
  <2> QED  BY <1>a, <1>0, <2>1, <2>2, <2>3, ClosingCounted
<1>17. CASE Close
  <2>1. MicrotasksDone /\ ~isClosed /\ DoClose(bstat, gauge, cur) /\ tasks' = tasks
        BY <1>17 DEF Close
  <2> QED  BY <1>a, <1>0, <2>1, ClosingCounted
<1>18. ASSUME NEW f \in InputFormats, StartEvent(f)  PROVE Counted'
  <2>1. /\ tasks' = tasks \cup {Task("reinit", "decoder", gen + 1, NoBackend, f, Desired[f])}
        /\ UNCHANGED <<isClosed, cur, bstat, gauge>>
        BY <1>18, Desires DEF StartEvent, OneDesired
  <2>2. PICK s : tasks' = tasks \cup {s} /\ s.kind = "reinit"  BY <2>1, TaskFields
  <2> QED  BY <1>0, <1>1, <2>1, <2>2
<1>19. ASSUME UNCHANGED control  PROVE Counted'
       BY <1>0, <1>1, <1>19 DEF control
<1>20. CASE ResetChunkTracking \/ IdleTimer \/ UNCHANGED vars \/ \E all : FinalTranscript(all) \/ \E n : Media(n)
       BY <1>19, <1>20 DEF ResetChunkTracking, IdleTimer, IdleCommit, vars, FinalTranscript, Media
<1>21. CASE Event
       BY <1>14, <1>15, <1>16, <1>17, <1>18, <1>20, <1>21 DEF Event
<1> QED  BY <1>9, <1>13, <1>20, <1>21 DEF Next
-----------------------------------------------------------------------------
(* Deepgram, which recovers from nothing: an open connection that has not      *)
(* decoder and backend yet has the calls under way that bring them.            *)

Awaited == Provider = "deepgram" /\ ~isClosed =>
    /\ \A t \in tasks : t.kind # "recover"
    /\ dstat = "pending" => \E t \in tasks : Loading(t) /\ Current(t)

\* Call t connects the current backend, or will.
Connects(t) == t.kind = "initReinit" \/ (t.at = "connecting" /\ t.b = cur)

Backed == Provider = "deepgram" /\ ~isClosed /\ (OneDesired \/ EachItsOwn) =>
    /\ \A t \in tasks : Replacing(t) /\ t.b = cur => Current(t)
    /\ \A t \in tasks : t.kind = "initReinit" => cur = 1
    /\ bstat[cur] # "connected" => bstat[cur] = "pending" /\ \E t \in tasks : Connects(t)

LEMMA InitBacked == Init => Awaited /\ Backed
<1> SUFFICES ASSUME Init PROVE Awaited /\ Backed  OBVIOUS
<1>1. 1 \in Backends  BY BoundAssumption DEF Backends
<1>2. cur = 1 /\ bstat[1] = "pending" /\ gen = 1  BY <1>1 DEF Init
<1>3. PICK s : tasks = {s} /\ s.kind = "initReinit" /\ s.gen = 1  BY TaskFields DEF Init
<1>4. Awaited  BY <1>2, <1>3 DEF Awaited, Loading, Current
<1>5. Backed  BY <1>2, <1>3 DEF Backed, Connects, Replacing
<1> QED  BY <1>4, <1>5

\* Call t ends, or goes on as s: with what it was to bring.
GoesOn(t, s) ==
    /\ UNCHANGED <<profile, isClosed, gen, cur>>
    /\ tasks' = tasks \ {t} \/ tasks' = (tasks \ {t}) \cup {s}

LEMMA AwaitedGoesOn ==
    ASSUME Awaited, NEW t \in tasks, NEW s, GoesOn(t, s), s.kind # "recover",
           dstat' = "pending" => dstat = "pending",
           dstat' = "pending" /\ ~isClosed /\ Loading(t) /\ Current(t) => s \in tasks' /\ Loading(s) /\ Current(s)
    PROVE  Awaited'
<1> SUFFICES ASSUME Provider = "deepgram", ~isClosed PROVE Awaited'
    BY DEF Awaited, GoesOn, Provider
<1>1. \A u \in tasks' : u.kind # "recover"  BY DEF Awaited, GoesOn
<1>2. dstat' = "pending" => \E u \in tasks' : Loading(u) /\ Current(u)
      BY DEF Awaited, GoesOn
<1> QED  BY <1>1, <1>2 DEF Awaited, Loading, Current, GoesOn

LEMMA BackedGoesOn ==
    ASSUME Backed, NEW t \in tasks, NEW s, GoesOn(t, s),
           ~isClosed => /\ Replacing(s) => Replacing(t) /\ s.b = t.b /\ s.gen = t.gen
                        /\ s.kind = "initReinit" => t.kind = "initReinit"
                        /\ bstat'[cur] = bstat[cur] \/ bstat'[cur] = "connected"
                        /\ Connects(t) /\ bstat'[cur] # "connected" => s \in tasks' /\ Connects(s)
    PROVE  Backed'
<1> SUFFICES ASSUME Provider = "deepgram", ~isClosed, OneDesired \/ EachItsOwn PROVE Backed'
    BY DEF Backed, GoesOn, OneDesired, EachItsOwn, Desired, Provider
<1>1. /\ \A u \in tasks : Replacing(u) /\ u.b = cur => Current(u)
      /\ \A u \in tasks : u.kind = "initReinit" => cur = 1
      /\ bstat[cur] # "connected" => bstat[cur] = "pending" /\ \E u \in tasks : Connects(u)
      BY DEF Backed
<1>2. \A u \in tasks' : Replacing(u) /\ u.b = cur => Current(u)
      BY <1>1 DEF Current, GoesOn
<1>3. \A u \in tasks' : u.kind = "initReinit" => cur = 1
      BY <1>1 DEF GoesOn
<1>4. bstat'[cur] # "connected" => bstat'[cur] = "pending" /\ \E u \in tasks' : Connects(u)
      BY <1>1 DEF GoesOn
<1> QED  BY <1>2, <1>3, <1>4 DEF Backed, Replacing, Current, Connects, GoesOn

\* A new format, whatever was under way for the last one.
LEMMA StartEventBacked ==
    ASSUME Sound, Kept, Awaited, Backed, NEW f \in InputFormats, StartEvent(f), UNCHANGED profile,
           Provider = "deepgram", OneDesired \/ EachItsOwn
    PROVE  Backed'
<1>0. /\ MicrotasksDone /\ ~isClosed /\ isClosed' = isClosed /\ gen' = gen + 1 /\ f # inFmt
      /\ desired = Desired[inFmt] /\ inFmt \in InputFormats /\ profile \in Profiles
      /\ cur \in 1..nb /\ nb \in Nat /\ bstat \in [Backends -> {"none", "pending", "connected", "failed", "closed"}]
      BY CurrentBackend, Desires, CallsTyped DEF StartEvent, Sound, Wiring, BackendsTyped
<1>1. CASE /\ Desired[f] = desired
           /\ tasks' = tasks \cup {Task("reinit", "decoder", gen + 1, NoBackend, f, Desired[f])}
           /\ UNCHANGED <<cur, bstat>>
  <2>1. OneDesired  BY <1>0, <1>1 DEF EachItsOwn
  <2>2. \A u \in tasks : ~Replacing(u)
    <3> SUFFICES ASSUME NEW u \in tasks, Replacing(u) PROVE FALSE  OBVIOUS
    <3>1. u.kind = "reinit" => u.at = "decoder"  BY <1>0, <2>1, KeptCall
    <3>2. u.kind # "recover"  BY <1>0 DEF Awaited
    <3> QED  BY <3>1, <3>2 DEF Replacing
  <2>3. PICK s : tasks' = tasks \cup {s} /\ s.kind = "reinit" /\ s.at = "decoder"
        BY <1>1, TaskFields
  <2> QED  BY <1>0, <1>1, <2>2, <2>3 DEF Backed, Replacing, Connects
<1>2. CASE /\ Desired[f] # desired
           /\ ReconnectBackend(bstat, Desired[f])
           /\ tasks' = tasks \cup {Task("reinit", "connecting", gen + 1, nb + 1, f, Desired[f])}
  <2>1. \A u \in tasks : u.kind # "initReinit"
    <3> SUFFICES ASSUME NEW u \in tasks, u.kind = "initReinit" PROVE FALSE  OBVIOUS
    <3>1. AsyncInputs = {}
          BY <1>0, <1>2, AsyncAssumption DEF AsyncInputs, Desired
    <3>2. u.at = "decoder"  BY DEF Sound, Wiring, CallsApart, Stage
    <3> QED  BY <1>0, <3>1, <3>2 DEF MicrotasksDone, IsMicrotask
  <2>2. PICK s : /\ tasks' = tasks \cup {s} /\ s.kind = "reinit" /\ s.at = "connecting"
                 /\ s.gen = gen + 1 /\ s.b = nb + 1
        BY <1>2, TaskFields
  <2>3. cur' = nb + 1 /\ nb + 1 \in Backends /\ bstat'[nb + 1] = "pending"
        BY <1>0, <1>2, BoundAssumption DEF ReconnectBackend, Backends, CloseOld
  <2>4. \A u \in tasks : Replacing(u) => u.b # nb + 1
        BY <1>0 DEF Sound, Wiring, CallsApart, Stage, Replacing
  <2>5. \A u \in tasks' : Replacing(u) /\ u.b = cur' => u.gen = gen'
        BY <1>0, <2>2, <2>3, <2>4
  <2>6. \A u \in tasks' : u.kind # "initReinit"  BY <2>1, <2>2
  <2>7. Connects(s)'  BY <2>2, <2>3 DEF Connects
  <2> QED  BY <2>2, <2>3, <2>5, <2>6, <2>7 DEF Backed, Replacing, Current
<1> QED  BY <1>1, <1>2 DEF StartEvent
-----------------------------------------------------------------------------
LEMMA BackedStep == Sound /\ Kept /\ Awaited /\ Backed /\ [Next]_vars => Awaited' /\ Backed'
<1> SUFFICES ASSUME Sound, Kept, Awaited, Backed, [Next]_vars PROVE Awaited' /\ Backed'  OBVIOUS
<1>a. UNCHANGED profile  BY DEF Next, Resume, ConnectSettles, Event, IdleTimer, vars
<1>b. CASE isClosed'  BY <1>b DEF Awaited, Backed
<1>c. CASE Provider # "deepgram"  BY <1>a, <1>c DEF Awaited, Backed, Provider
<1> SUFFICES ASSUME Provider = "deepgram", ~isClosed' PROVE Awaited' /\ Backed'
    BY <1>b, <1>c
<1>0. /\ bstat \in [Backends -> {"none", "pending", "connected", "failed", "closed"}]
      /\ ~isClosed => cur \in Backends /\ \A u \in tasks : u.kind # "recover"
      /\ \A u \in tasks : Stage(u) /\ u \in Tasks
      BY CurrentBackend, CallsTyped DEF Sound, Wiring, BackendsTyped, CallsApart, Awaited
<1>d. OneDesired \/ EachItsOwn \/ Backed'
      BY <1>a DEF Backed, OneDesired, EachItsOwn, Desired
<1>1. ASSUME NEW t \in tasks, DecoderReady(t)  PROVE Awaited' /\ Backed'
  <2>1. UNCHANGED <<isClosed, gen, cur, bstat>> /\ t.at = "decoder"  BY <1>1 DEF DecoderReady
  <2>2. dstat' = "pending" => dstat = "pending" /\ ~Current(t)  BY <1>1 DEF DecoderReady
  <2>3. CASE /\ t.kind = "initReinit" /\ ~isClosed
             /\ tasks' = (tasks \ {t}) \cup {Task("init", "connecting", t.gen, cur, t.in, t.out)}
    <3>1. PICK s : tasks' = (tasks \ {t}) \cup {s} /\ s.kind = "init" /\ s.at = "connecting" /\ s.b = cur
          BY <2>3, TaskFields
    <3>2. GoesOn(t, s)  BY <1>a, <2>1, <3>1 DEF GoesOn
    <3>3. Awaited'  BY <2>2, <3>1, <3>2, AwaitedGoesOn
    <3>4. Backed'  BY <2>1, <3>1, <3>2, BackedGoesOn DEF Replacing, Connects
    <3> QED  BY <3>3, <3>4
  <2>4. CASE ~(t.kind = "initReinit" /\ ~isClosed) /\ tasks' = tasks \ {t}
    <3>1. GoesOn(t, t)  BY <1>a, <2>1, <2>4 DEF GoesOn
    <3>2. Awaited'  BY <1>0, <2>1, <2>2, <3>1, AwaitedGoesOn
    <3>3. Backed'  BY <2>1, <2>4, <3>1, BackedGoesOn DEF Connects
    <3> QED  BY <3>2, <3>3
  <2> QED  BY <1>1, <2>3, <2>4 DEF DecoderReady
<1>2. ASSUME NEW t \in tasks, UNCHANGED <<isClosed, gen, dstat, cur, bstat>>, tasks' = tasks \ {t},
             ~isClosed, ~Connects(t), ~(Loading(t) /\ Current(t))
      PROVE  Awaited' /\ Backed'
  <2>1. GoesOn(t, t)  BY <1>a, <1>2 DEF GoesOn
  <2> QED  BY <1>0, <1>2, <2>1, AwaitedGoesOn, BackedGoesOn
<1>3. ASSUME NEW t \in tasks, InitConnected(t)  PROVE Awaited' /\ Backed'
      BY <1>2, <1>3 DEF InitConnected, Loading, Connects
<1>4. ASSUME NEW t \in tasks, InitFailed(t)  PROVE Awaited' /\ Backed'
      BY <1>4 DEF InitFailed, DoClose
<1>5. ASSUME NEW t \in tasks, ReconnectFailed(t)  PROVE Awaited' /\ Backed'
  <2>1. ~Current(t)  BY <1>5 DEF ReconnectFailed, DoClose
  <2> QED  BY <1>2, <1>5, <2>1 DEF ReconnectFailed, Connects
<1>6. ASSUME NEW t \in tasks, Reconnected(t)  PROVE Awaited' /\ Backed'
  <2>1. /\ ~isClosed /\ UNCHANGED <<isClosed, gen, dstat, cur>>
        /\ t.kind = "reinit" /\ t.at = "resolved" /\ Replacing(t)
        BY <1>0, <1>6 DEF Reconnected, Replacing
  <2>2. CASE ~Current(t) /\ tasks' = tasks \ {t} /\ bstat' = [bstat EXCEPT ![t.b] = "closed"]
    <3>1. GoesOn(t, t)  BY <1>a, <2>1, <2>2 DEF GoesOn
    <3>2. Awaited'  BY <2>1, <2>2, <3>1, AwaitedGoesOn
    <3>3. ASSUME OneDesired \/ EachItsOwn  PROVE Backed'
      <4>1. t.b # cur  BY <2>1, <2>2, <3>3 DEF Backed
      <4>2. bstat'[cur] = bstat[cur]  BY <1>0, <2>1, <2>2, <4>1
      <4> QED  BY <2>1, <3>1, <4>2, BackedGoesOn DEF Connects
    <3> QED  BY <1>d, <3>2, <3>3
  <2>3. CASE /\ Current(t) /\ UNCHANGED bstat
             /\ tasks' = (tasks \ {t}) \cup {Task("reinit", "decoder", t.gen, NoBackend, inFmt, t.out)}
    <3>1. PICK s : tasks' = (tasks \ {t}) \cup {s} /\ s.kind = "reinit" /\ s.at = "decoder" /\ s.gen = t.gen
          BY <2>3, TaskFields
    <3>2. GoesOn(t, s)  BY <1>a, <2>1, <3>1 DEF GoesOn
    <3>3. Awaited'  BY <2>1, <2>3, <3>1, <3>2, AwaitedGoesOn DEF Loading, Current
    <3>4. Backed'  BY <2>1, <2>3, <3>1, <3>2, BackedGoesOn DEF Replacing, Connects
    <3> QED  BY <3>3, <3>4
  <2> QED  BY <1>6, <2>1, <2>2, <2>3 DEF Reconnected
<1>7. CASE Resume  BY <1>1, <1>3, <1>4, <1>5, <1>6, <1>7 DEF Resume
<1>8. ASSUME NEW t \in tasks, t.at = "connecting", NEW how, tasks' = Settle(t, how),
             UNCHANGED <<isClosed, gen, dstat, cur>>,
             ~isClosed => bstat'[cur] = "connected" \/ (bstat'[cur] = bstat[cur] /\ ~Connects(t))
      PROVE  Awaited' /\ Backed'
  <2>1. PICK s : /\ tasks' = (tasks \ {t}) \cup {s}
                 /\ s.kind = t.kind /\ s.gen = t.gen /\ s.b = t.b /\ s.at = how
        BY <1>0, <1>8, SettledTask
  <2>2. GoesOn(t, s)  BY <1>a, <1>8, <2>1 DEF GoesOn
  <2>3. Awaited'  BY <1>0, <1>8, <2>1, <2>2, AwaitedGoesOn DEF Loading, Current
  <2>4. Backed'  BY <1>8, <2>1, <2>2, BackedGoesOn DEF Replacing
  <2> QED  BY <2>3, <2>4
<1>9. ASSUME NEW t \in tasks, BackendOpens(t)  PROVE Awaited' /\ Backed'
  <2>1. /\ t.at = "connecting" /\ t.kind # "initReinit" /\ tasks' = Settle(t, "resolved")
        /\ bstat' = [bstat EXCEPT ![t.b] = "connected"] /\ UNCHANGED <<isClosed, gen, dstat, cur>>
        BY <1>0, <1>9 DEF BackendOpens, Connecting, Stage
  <2>2. ~isClosed => bstat'[cur] = "connected" \/ (bstat'[cur] = bstat[cur] /\ ~Connects(t))
        BY <1>0, <2>1 DEF Connects
  <2> QED  BY <1>8, <2>1, <2>2
<1>10. ASSUME NEW t \in tasks, BackendFailsToConnect(t)  PROVE FALSE
       BY <1>10 DEF BackendFailsToConnect, OnError, Recovers, ConnectErrorRecoverable, DoClose
<1>11. ASSUME NEW t \in tasks, ConnectAborted(t)  PROVE Awaited' /\ Backed'
  <2>1. /\ t.at = "connecting" /\ t.kind # "initReinit" /\ bstat[t.b] = "closed"
        /\ tasks' = Settle(t, "rejected") /\ UNCHANGED <<isClosed, gen, dstat, cur, bstat>>
        BY <1>0, <1>11 DEF ConnectAborted, Connecting, Stage
  <2>2. CASE Connects(t)
    <3>1. t.b = cur  BY <2>1, <2>2 DEF Connects
    <3>2. ~(OneDesired \/ EachItsOwn)  BY <2>1, <3>1 DEF Backed
    <3>3. Backed'  BY <1>d, <3>2
    <3>4. PICK s : /\ tasks' = (tasks \ {t}) \cup {s}
                   /\ s.kind = t.kind /\ s.gen = t.gen
          BY <1>0, <2>1, SettledTask
    <3>5. GoesOn(t, s)  BY <1>a, <2>1, <3>4 DEF GoesOn
    <3>6. Awaited'  BY <1>0, <2>1, <3>4, <3>5, AwaitedGoesOn DEF Loading, Current
    <3> QED  BY <3>3, <3>6
  <2> QED  BY <1>8, <2>1, <2>2
<1>12. CASE ConnectSettles  BY <1>9, <1>10, <1>11, <1>12 DEF ConnectSettles
<1>13. ASSUME NEW t \in tasks, DecoderFails(t)  PROVE Awaited' /\ Backed'
  <2>1. /\ t.at = "decoder" /\ tasks' = tasks \ {t} /\ UNCHANGED <<isClosed, gen, dstat, cur, bstat>>
        /\ ~isClosed /\ t.kind # "initReinit" /\ ~Current(t)
        BY <1>13 DEF DecoderFails, DoClose
  <2> QED  BY <1>2, <2>1 DEF Connects
<1>14. ASSUME NEW r \in Recoverable, StreamError(r)  PROVE FALSE
       BY <1>14 DEF StreamError, OnError, Recovers, Recoverable, DoClose
<1>15. ASSUME NEW b \in Backends, BackendCloses(b)  PROVE FALSE
       BY <1>15 DEF BackendCloses, DoClose
<1>16. CASE Close  BY <1>16 DEF Close, DoClose
<1>17. ASSUME NEW f \in InputFormats, StartEvent(f)  PROVE Awaited' /\ Backed'
  <2>1. \E s \in tasks' : s.kind = "reinit" /\ s.gen = gen'
        BY <1>17, TaskFields DEF StartEvent
  <2>2. \A u \in tasks' : u.kind # "recover"
        BY <1>0, <1>17, TaskFields DEF StartEvent
  <2>3. Awaited'  BY <2>1, <2>2 DEF Awaited, Loading, Current
  <2>4. Backed'  BY <1>a, <1>d, <1>17, StartEventBacked
  <2> QED  BY <2>3, <2>4
<1>18. ASSUME UNCHANGED control  PROVE Awaited' /\ Backed'
       BY <1>a, <1>18 DEF control, Awaited, Backed, Loading, Current, Replacing, Connects,
                          OneDesired, EachItsOwn, Desired, Provider
<1>19. CASE ResetChunkTracking \/ IdleTimer \/ UNCHANGED vars \/ \E all : FinalTranscript(all) \/ \E n : Media(n)
       BY <1>18, <1>19 DEF ResetChunkTracking, IdleTimer, IdleCommit, vars, FinalTranscript, Media
<1>20. CASE Event
       BY <1>13, <1>14, <1>15, <1>16, <1>17, <1>19, <1>20 DEF Event
<1> QED  BY <1>7, <1>12, <1>19, <1>20 DEF Next
-----------------------------------------------------------------------------
LEMMA SteadyHolds == Spec => [](Sound /\ Usable /\ Steady)
BY InitUsable, SoundInductive, InitSteady, UsableStep, SteadyStep, PTL DEF Spec

LEMMA KeptHolds == Spec => [](Sound /\ Kept /\ Alone)
<1>1. Init => Alone  BY DEF Init, Alone, OthersClosed
<1>2. [Next]_vars /\ Sound /\ Alone => Alone'  BY AloneStep
<1>3. [Next]_vars /\ Sound /\ Kept => Kept'  BY KeptStep
<1> QED  BY <1>1, <1>2, <1>3, InitKept, SoundInductive, PTL DEF Spec

LEMMA CountedHolds == Spec => []Counted
<1>1. Init => OneMicrotask
  <2>1. Init => \A t, u \in tasks : t = u  BY DEF Init
  <2> QED  BY <2>1 DEF OneMicrotask
<1>2. [Next]_vars /\ Sound /\ OneMicrotask => OneMicrotask'  BY OneMicrotaskStep
<1>3. [Next]_vars /\ Sound /\ Kept /\ OneMicrotask /\ Counted => Counted'  BY CountedStep
<1> QED  BY <1>1, <1>2, <1>3, InitCounted, KeptHolds, PTL DEF Spec

LEMMA BackedHolds == Spec => [](Awaited /\ Backed)
<1>1. [Next]_vars /\ Sound /\ Kept /\ Awaited /\ Backed => Awaited' /\ Backed'  BY BackedStep
<1> QED  BY <1>1, InitBacked, KeptHolds, PTL DEF Spec

\* Every backend of a WebSocket provider is the current one or closed, while the connection
\* is open; after it, where the provider wants one format or the format never changed.
\* This connection's share of backendConnectionsActive is the number of those open until
\* the format changes, and with Deepgram across all changes if it wants one format,
\* whatever recoveries, failures and closes come at whatever moment.
THEOREM BackendsAccountedHolds == Spec => []BackendsAccounted
<1>1. Sound /\ Steady /\ Kept /\ Alone /\ Counted => BackendsAccounted
  <2> SUFFICES ASSUME Sound, Steady, Kept, Alone, Counted, Provider # "aws" PROVE BackendsAccounted
      BY DEF BackendsAccounted
  <2>0. ~isClosed => cur \in Backends /\ OthersClosed  BY CurrentBackend DEF Alone
  <2>1. ASSUME OneDesired \/ starts = 0 \/ ~isClosed  PROVE NoLeak
    <3> SUFFICES ASSUME NEW b \in Backends, bstat[b] = "connected" \/ Opening(b)
                 PROVE  ~isClosed /\ b = cur
        BY DEF NoLeak
    <3>1. ~isClosed
          BY <2>1 DEF Steady, AllClosed, Kept, Gone, Opening, Connecting
    <3> QED  BY <2>0, <3>1 DEF OthersClosed, Opening
  <2> DEFINE C == {b \in Backends : bstat[b] = "connected"}
  <2>2. ASSUME MicrotasksDone,
               \/ ~isClosed /\ bstat[cur] = "connected" /\ gauge = 1
               \/ ~isClosed /\ bstat[cur] # "connected" /\ gauge = 0
               \/ isClosed /\ gauge = 0 /\ \A b \in Backends : bstat[b] # "connected"
        PROVE  gauge = Cardinality(C)
    <3>1. (C = {cur} /\ gauge = 1) \/ (C = {} /\ gauge = 0)  BY <2>0, <2>2 DEF OthersClosed
    <3> QED  BY <3>1, FS_Singleton, FS_EmptySet
  <2>3. ASSUME starts = 0  PROVE GaugeExact
    <3> SUFFICES ASSUME MicrotasksDone PROVE gauge = Cardinality(C)  BY DEF GaugeExact
    <3>1. CASE isClosed  BY <2>2, <2>3, <3>1 DEF Steady, AllClosed
    <3>2. CASE ~isClosed /\ Serving  BY <2>2, <3>2 DEF Serving
    <3>3. CASE ~isClosed /\ ~Serving
      <4>1. Starting  BY <2>3, <3>3 DEF Steady
      <4>2. bstat[cur] = "pending"  BY <4>1, NothingSettled DEF Starting, Waiting
      <4> QED  BY <2>2, <3>3, <4>1, <4>2 DEF Starting
    <3> QED  BY <3>1, <3>2, <3>3
  <2>4. ASSUME Provider = "deepgram", OneDesired  PROVE GaugeExact
    <3> SUFFICES ASSUME MicrotasksDone PROVE gauge = Cardinality(C)  BY DEF GaugeExact
    <3>1. CASE isClosed  BY <2>2, <2>4, <3>1 DEF Counted, Kept, Gone
    <3>2. CASE ~isClosed
      <4>1. cur = 1 /\ gauge = IF bstat[1] = "connected" THEN 1 ELSE 0
            BY <2>4, <3>2, NothingSettled, CountedExactly DEF Counted
      <4> QED  BY <2>2, <3>2, <4>1
    <3> QED  BY <3>1, <3>2
  <2> QED  BY <2>1, <2>3, <2>4 DEF BackendsAccounted
<1> QED  BY <1>1, SteadyHolds, KeptHolds, CountedHolds, PTL

\* An open connection with no call under way serves (backend connected, decoder ready,
\* queues empty): until the format changes, and with Deepgram across all changes, if it
\* wants one format for all or one for each.
THEOREM AtRestServesHolds == Spec => []AtRestServes
<1>1. Sound /\ Usable /\ Steady /\ Awaited /\ Backed => AtRestServes
  <2> SUFFICES ASSUME Sound, Usable, Steady, Awaited, Backed, tasks = {}, ~isClosed,
                      \/ Provider # "aws" /\ starts = 0
                      \/ Provider = "deepgram" /\ (OneDesired \/ EachItsOwn)
               PROVE  bstat[cur] = "connected" /\ dstat = "ready" /\ pin = <<>> /\ pau = <<>>
      BY DEF AtRestServes
  <2>1. bstat[cur] = "connected" /\ dstat = "ready"
    <3>1. CASE Provider # "aws" /\ starts = 0  BY <3>1 DEF Steady, Serving, Starting
    <3>2. CASE Provider = "deepgram" /\ (OneDesired \/ EachItsOwn)
          BY <3>2, CurrentBackend DEF Awaited, Backed
    <3> QED  BY <3>1, <3>2
  <2> QED  BY <2>1 DEF Usable, Flushed
<1> QED  BY <1>1, SteadyHolds, BackedHolds, PTL

\* No audio is stuck: at rest the connection serves, and nothing is held back from
\* Transcribe, which answers only once it has audio, nor lost to it before it connects
\* unless the format changes by then.
THEOREM NothingStuckHolds == Spec => []NothingStuck
<1>1. AtRestServes /\ EarlyAudioFlows => NothingStuck  BY DEF NothingStuck
<1> QED  BY <1>1, AtRestServesHolds, EarlyAudioFlowsHolds, PTL
=============================================================================
