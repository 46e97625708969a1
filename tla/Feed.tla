---------------------------------- MODULE Feed ----------------------------------
(***************************************************************************)
(* How the web page follows the engine: StateHandle and cap_transcript of  *)
(* state.rs, the handlers of web/mod.rs and the script of web/ui.rs.       *)
(*                                                                         *)
(* Whoever changes the shared state first writes it under its mutex and    *)
(* then, with the mutex free, sends an event to a broadcast channel that   *)
(* drops the oldest event when it is full.  The page applies events as     *)
(* they come, asks for the graph when one says that it changed, loads      *)
(* everything when it opens and reconnects, and asks for it again at       *)
(* intervals.  Answers are taken on the server and applied later.          *)
(***************************************************************************)
EXTENDS Naturals, Sequences, SequencesExt

CONSTANTS
  Task,        \* the tasks, each a writer of the state
  Capacity,    \* slots of the broadcast channel
  HeadMin,     \* the entries a cut transcript keeps at least (50)
  Cap,         \* limits.task_transcript_cap
  MaxWrites,   \* bound: changes of the state
  MaxEntries,  \* bound: entries of the transcript
  MaxBlank,    \* bound: reads of the graph that race with a save
  MaxBreaks    \* bound: connections that break

ASSUME FeedAssumption ==
  /\ Capacity \in Nat \ {0} /\ HeadMin \in Nat \ {0} /\ Cap \in Nat
  /\ MaxWrites \in Nat /\ MaxEntries \in Nat /\ MaxBlank \in Nat /\ MaxBreaks \in Nat

VARIABLES
  server,     \* EngineState and the graph on disk: [sched, status, graph]
  unsent,     \* each writer's event between its write and its emit
  wire,       \* the channel as the page's subscription sees it
  online,     \* whether the page has an open EventSource
  page,       \* the script's `state`, null until the first answer
  loading,    \* whether load() is to be called
  answer,     \* what load() and the resync wait for: /api/state
  graphAsked, \* a request for /api/graph on its way
  graphs,     \* answers of /api/graph on their way
  transcript, \* EngineTask::transcript of one task: entries by number
  pushed,     \* entries pushed so far
  count       \* writes, blank reads and breaks so far

engine == <<server, unsent>>
client == <<online, page, loading, answer, graphAsked, graphs>>
log == <<transcript, pushed>>
vars == <<engine, wire, client, log, count>>

Scheduler == {"Running", "Paused"}
Status == {"none", "Running", "Done"}

(* A graph is the number of its version; load_topology(...).unwrap_or_     *)
(* default() yields a graph without a root when it cannot be read.         *)
Blank == 0
Graph == Nat

View == [sched : Scheduler, status : [Task -> Status], graph : Graph]
Null == [null |-> TRUE]

(* Two functions of the script ask for the state; prev is what the page    *)
(* showed when load() was called.                                          *)
Asker == {"load", "resync"}
Answer == [prev : Graph, view : View \cup {Null}]
NoEvent == [kind |-> "none"]

Init ==
  /\ server = [sched |-> "Running", status |-> [t \in Task |-> "none"], graph |-> 1]
  /\ unsent = [t \in Task |-> NoEvent]
  /\ wire = <<>>
  /\ online = TRUE
  /\ page = Null
  /\ loading = TRUE
  /\ answer = [k \in Asker |-> Null]
  /\ graphAsked = FALSE /\ graphs = {}
  /\ transcript = <<>> /\ pushed = 0
  /\ count = [writes |-> 0, blank |-> 0, breaks |-> 0]

-----------------------------------------------------------------------------
(* The server: StateHandle::write, then StateHandle::emit.                 *)

Write(t, state, event) ==
  /\ unsent[t] = NoEvent /\ count.writes < MaxWrites
  /\ server' = state
  /\ unsent' = [unsent EXCEPT ![t] = event]
  /\ count' = [count EXCEPT !.writes = @ + 1]
  /\ UNCHANGED <<wire, client, log>>

(* A rate limit met or over, or the operator's pause and resume.           *)
SetScheduler(t, sched) ==
  /\ server.sched # sched
  /\ Write(t, [server EXCEPT !.sched = sched], [kind |-> "sched", sched |-> sched])

(* The task is listed, and has ended.                                      *)
SetStatus(t, status) ==
  /\ <<server.status[t], status>> \in {<<"none", "Running">>, <<"Running", "Done">>}
  /\ Write(t, [server EXCEPT !.status[t] = status],
           [kind |-> "status", task |-> t, status |-> status])

(* A submitted architecture or dep, the sweep or a reset: the graph is     *)
(* saved, GraphTopologyChanged emitted.                                    *)
ChangeTopology(t) ==
  Write(t, [server EXCEPT !.graph = @ + 1], [kind |-> "topology"])

(* A stage mark is saved: NodeChanged, of which the page makes nothing.    *)
MarkStage(t) == Write(t, [server EXCEPT !.graph = @ + 1], [kind |-> "node"])

Emit(t) ==
  /\ unsent[t] # NoEvent
  /\ unsent' = [unsent EXCEPT ![t] = NoEvent]
  /\ wire' = IF ~online THEN wire
             ELSE IF Len(wire) = Capacity THEN Append(Tail(wire), unsent[t])
             ELSE Append(wire, unsent[t])
  /\ UNCHANGED <<server, client, log, count>>

-----------------------------------------------------------------------------
(* Transcripts: entries are pushed as they come; the end of a role cuts.   *)

Marker == 0

Greater(a, b) == IF a > b THEN a ELSE b
Lesser(a, b) == IF a < b THEN a ELSE b

HeadKeep(entries) == Lesser(Greater(Cap \div 4, HeadMin), Len(entries))

TailTarget(entries) ==
  IF Cap > HeadKeep(entries) THEN Cap - HeadKeep(entries) ELSE 1

(* Mutant: the tail is counted from the front. *)
CapTranscript_TailFromFront(entries) ==
  IF Cap = 0 \/ Len(entries) <= Cap
     \/ Len(entries) <= TailTarget(entries) + HeadKeep(entries)
  THEN entries
  ELSE SubSeq(entries, 1, HeadKeep(entries)) \o <<Marker>>
         \o SubSeq(entries, HeadKeep(entries) + 1, HeadKeep(entries) + TailTarget(entries))

CapTranscript(entries) ==
  LET head == HeadKeep(entries)
      tailStart == Greater(Len(entries), TailTarget(entries)) - TailTarget(entries)
  IN  IF Cap = 0 \/ Len(entries) <= Cap \/ tailStart <= head THEN entries
      ELSE SubSeq(entries, 1, head) \o <<Marker>>
             \o SubSeq(entries, tailStart + 1, Len(entries))

(* live_append_transcript and run_role's prompts.                          *)
PushEntry ==
  /\ pushed < MaxEntries
  /\ pushed' = pushed + 1
  /\ transcript' = Append(transcript, pushed + 1)
  /\ UNCHANGED <<engine, wire, client, count>>

(* run_role's last entry.                                                  *)
EndRole ==
  /\ pushed < MaxEntries
  /\ pushed' = pushed + 1
  /\ transcript' = CapTranscript(Append(transcript, pushed + 1))
  /\ UNCHANGED <<engine, wire, client, count>>

-----------------------------------------------------------------------------
(* The page.                                                               *)

(* What the server reads of the graph: the file, or nothing.               *)
ReadGraph(graph) ==
  \/ graph = server.graph /\ UNCHANGED count
  \/ /\ graph = Blank /\ count.blank < MaxBlank
     /\ count' = [count EXCEPT !.blank = @ + 1]

(* Mutant: the graph on the page is kept whatever the answer brings. *)
Carried_Always(prev, fresh) ==
  IF prev # Blank THEN [fresh EXCEPT !.graph = prev] ELSE fresh

(* A populated graph is not to be replaced by one without a root.          *)
Carried(prev, fresh) ==
  IF prev # Blank /\ fresh.graph = Blank THEN [fresh EXCEPT !.graph = prev] ELSE fresh

Shown == IF page = Null THEN Blank ELSE page.graph

(* load(), when the page is opened and when it reconnects; it notes what   *)
(* is shown before it waits for the answer.                                *)
Load ==
  /\ loading /\ answer["load"] = Null
  /\ loading' = FALSE
  /\ answer' = [answer EXCEPT !["load"] = [prev |-> Shown, view |-> Null]]
  /\ UNCHANGED <<engine, wire, online, page, graphAsked, graphs, log, count>>

(* api_state: a snapshot, and a read of the graph.                         *)
AnswerLoad ==
  /\ answer["load"] # Null /\ answer["load"].view = Null
  /\ \E graph \in {server.graph, Blank} :
       /\ ReadGraph(graph)
       /\ answer' = [answer EXCEPT !["load"].view = [server EXCEPT !.graph = graph]]
  /\ UNCHANGED <<engine, wire, online, page, loading, graphAsked, graphs, log>>

(* The resync at intervals looks at the page when its answer is there.     *)
AskResync ==
  /\ answer["resync"] = Null
  /\ \E graph \in {server.graph, Blank} :
       /\ ReadGraph(graph)
       /\ answer' = [answer EXCEPT !["resync"] =
                       [prev |-> Blank, view |-> [server EXCEPT !.graph = graph]]]
  /\ UNCHANGED <<engine, wire, online, page, loading, graphAsked, graphs, log>>

ApplyState(k) ==
  /\ answer[k] # Null /\ answer[k].view # Null
  /\ page' = Carried(IF k = "load" THEN answer[k].prev ELSE Shown, answer[k].view)
  /\ answer' = [answer EXCEPT ![k] = Null]
  /\ UNCHANGED <<engine, wire, online, loading, graphAsked, graphs, log, count>>

(* applyEvent; before the first answer there is nothing to patch.          *)
Applied(event) ==
  CASE event.kind = "sched"  -> [page EXCEPT !.sched = event.sched]
    [] event.kind = "status" -> [page EXCEPT !.status[event.task] = event.status]
    [] event.kind \in {"topology", "node"} -> page

ApplyEvent ==
  /\ online /\ wire # <<>>
  /\ wire' = Tail(wire)
  /\ page' = IF page = Null THEN page ELSE Applied(Head(wire))
  /\ graphAsked' = (graphAsked \/ (page # Null /\ Head(wire).kind = "topology"))
  /\ UNCHANGED <<engine, online, loading, answer, graphs, log, count>>

AnswerGraph ==
  /\ graphAsked
  /\ graphAsked' = FALSE
  /\ \E graph \in {server.graph, Blank} :
       ReadGraph(graph) /\ graphs' = graphs \cup {graph}
  /\ UNCHANGED <<engine, wire, online, page, loading, answer, log>>

(* Mutant: refreshGraph takes what it gets. *)
ApplyGraph_Unchecked(graph) ==
  /\ graph \in graphs
  /\ graphs' = graphs \ {graph}
  /\ page' = [page EXCEPT !.graph = graph]
  /\ UNCHANGED <<engine, wire, online, loading, answer, graphAsked, log, count>>

(* refreshGraph; its answers come in any order.                            *)
ApplyGraph(graph) ==
  /\ graph \in graphs
  /\ graphs' = graphs \ {graph}
  /\ page' = IF graph = Blank THEN page ELSE [page EXCEPT !.graph = graph]
  /\ UNCHANGED <<engine, wire, online, loading, answer, graphAsked, log, count>>

(* es.onerror: what was on its way is lost.                                *)
Break ==
  /\ online /\ count.breaks < MaxBreaks
  /\ online' = FALSE
  /\ wire' = <<>>
  /\ count' = [count EXCEPT !.breaks = @ + 1]
  /\ UNCHANGED <<engine, page, loading, answer, graphAsked, graphs, log>>

(* connectSse after two seconds; its onopen calls load().                  *)
Reconnect ==
  /\ ~online
  /\ online' = TRUE
  /\ loading' = TRUE
  /\ UNCHANGED <<engine, wire, page, answer, graphAsked, graphs, log, count>>

-----------------------------------------------------------------------------
Server ==
  \/ \E t \in Task :
       \/ \E sched \in Scheduler : SetScheduler(t, sched)
       \/ \E status \in Status : SetStatus(t, status)
       \/ ChangeTopology(t) \/ MarkStage(t) \/ Emit(t)
  \/ PushEntry \/ EndRole

Page ==
  \/ Load \/ AnswerLoad \/ AskResync \/ (\E k \in Asker : ApplyState(k))
  \/ ApplyEvent \/ AnswerGraph
  \/ (\E graph \in graphs : ApplyGraph(graph))
  \/ Break \/ Reconnect

Next == Server \/ Page

Spec == Init /\ [][Next]_vars

(* setInterval asks every 30 s, answers and events arrive, and whoever has *)
(* written emits.                                                          *)
Fairness ==
  /\ WF_vars(Load) /\ WF_vars(AnswerLoad) /\ WF_vars(AskResync)
  /\ \A k \in Asker : WF_vars(ApplyState(k))
  /\ WF_vars(ApplyEvent) /\ WF_vars(AnswerGraph) /\ WF_vars(\E graph \in graphs : ApplyGraph(graph))
  /\ WF_vars(Reconnect) /\ \A t \in Task : WF_vars(Emit(t))

FairSpec == Spec /\ Fairness

-----------------------------------------------------------------------------
(* Properties.                                                             *)

TypeOK ==
  /\ server \in View
  /\ page = Null \/ page \in View
  /\ \A k \in Asker : answer[k] = Null \/ answer[k] \in Answer
  /\ online \in BOOLEAN /\ loading \in BOOLEAN /\ graphAsked \in BOOLEAN
  /\ Len(wire) <= Capacity
  /\ graphs \subseteq Graph

(* Events are dropped by a full channel, lost with a connection, sent in   *)
(* another order than their writes, and overtaken by answers read before   *)
(* them; once the engine rests, the page shows what the engine has all the *)
(* same, and goes on showing it.                                           *)
PageCatchesUp == <>[](page = server)

(* The tree on the page does not go blank, whatever reads race with saves  *)
(* of the graph and in whatever order their answers come; with one         *)
(* exception, of a load() that was called when no tree was shown and is    *)
(* answered, without one, after another request has brought one.           *)
LateLoad == answer["load"] # Null /\ answer["load"].prev = Blank /\ answer'["load"] = Null

GraphNeverBlank ==
  [][(page # Null /\ page.graph # Blank /\ page'.graph = Blank) => LateLoad]_vars

(* However often a transcript is cut, with pushes in between, it has one   *)
(* marker at most, keeps its opening entries and its latest, what it keeps *)
(* is in order, and the cut at the end of a role leaves no more than the   *)
(* cap (or the least that is kept) and the marker; a cap of 0 is none.     *)
TranscriptKeepsEnds ==
  LET held == DOMAIN transcript
      kept == Lesser(HeadMin, pushed)
  IN  /\ \A i, j \in held : transcript[i] = Marker /\ transcript[j] = Marker => i = j
      /\ \A i, j \in held :
           i < j /\ Marker \notin {transcript[i], transcript[j]} => transcript[i] < transcript[j]
      /\ 1 .. kept \subseteq held /\ \A i \in 1 .. kept : transcript[i] = i
      /\ pushed > 0 => transcript # <<>> /\ Last(transcript) = pushed
      /\ Cap # 0 => Len(CapTranscript(transcript)) <= Greater(Cap, HeadMin + 1) + 1
=============================================================================
