------------------------------ MODULE FeedProofs ------------------------------
(***************************************************************************)
(* Proofs about Feed for any number of writers, any channel and any number *)
(* of changes: the types, that the tree on the page does not go blank, and *)
(* what cuts leave of a transcript.                                        *)
(***************************************************************************)
EXTENDS Feed, SequenceTheorems, TLAPS

-----------------------------------------------------------------------------
(* The inductive invariant.                                                *)

(* What writers emit. *)
Event ==
  [kind : {"sched"}, sched : Scheduler]
    \cup [kind : {"status"}, task : Task, status : Status]
    \cup [kind : {"topology", "node"}]

EventsOK ==
  /\ unsent \in [Task -> Event \cup {NoEvent}]
  /\ wire \in Seq(Event)

AnswersOK == answer \in [Asker -> Answer \cup {Null}]

ClientOK ==
  /\ online \in BOOLEAN /\ loading \in BOOLEAN /\ graphAsked \in BOOLEAN
  /\ graphs \subseteq Graph
  /\ page \in View \cup {Null}

(* The page asks for a graph only when it shows something, and goes on     *)
(* showing something. *)
GraphsForPage == graphAsked \/ graphs # {} => page # Null

Inv ==
  /\ server \in View
  /\ EventsOK /\ AnswersOK /\ ClientOK
  /\ Len(wire) <= Capacity
  /\ GraphsForPage

-----------------------------------------------------------------------------
(* Records.                                                                *)

LEMMA NullIsNoView == Null \notin View
BY DEF Null, View

LEMMA NullIsNoAnswer == Null \notin Answer
BY DEF Null, Answer

(* A view with one field replaced. *)
LEMMA ViewFields ==
  ASSUME NEW v \in View
  PROVE /\ \A s \in Scheduler :
             /\ [v EXCEPT !.sched = s] \in View
             /\ [v EXCEPT !.sched = s].graph = v.graph
        /\ \A t \in Task, s \in Status :
             /\ [v EXCEPT !.status[t] = s] \in View
             /\ [v EXCEPT !.status[t] = s].graph = v.graph
        /\ \A g \in Graph :
             /\ [v EXCEPT !.graph = g] \in View
             /\ [v EXCEPT !.graph = g].graph = g
BY DEF View

(* What the page shows after load() or a resync. *)
LEMMA CarriedView ==
  ASSUME NEW prev \in Graph, NEW fresh \in View
  PROVE /\ Carried(prev, fresh) \in View
        /\ prev # Blank => Carried(prev, fresh).graph # Blank
BY ViewFields DEF Carried, View

LEMMA ShownIsGraph == ASSUME Inv PROVE Shown \in Graph
BY DEF Inv, ClientOK, Shown, View, Graph, Blank

(* An event leaves the tree on the page as it is. *)
LEMMA AppliedView ==
  ASSUME page \in View, NEW event \in Event
  PROVE Applied(event) \in View /\ Applied(event).graph = page.graph
<1>1. CASE event.kind = "sched"
  <2>1. event.sched \in Scheduler
    BY <1>1 DEF Event
  <2> QED BY <1>1, <2>1, ViewFields DEF Applied
<1>2. CASE event.kind = "status"
  <2>1. event.task \in Task /\ event.status \in Status
    BY <1>2 DEF Event
  <2>2. Applied(event) = [page EXCEPT !.status[event.task] = event.status]
    BY <1>2 DEF Applied
  <2>3. /\ [page EXCEPT !.status[event.task] = event.status] \in View
        /\ [page EXCEPT !.status[event.task] = event.status].graph = page.graph
    BY <2>1, ViewFields
  <2> QED BY <2>2, <2>3
<1>3. CASE event.kind \in {"topology", "node"}
  BY <1>3 DEF Applied
<1> QED BY <1>1, <1>2, <1>3 DEF Event

-----------------------------------------------------------------------------
(* The server.                                                             *)

LEMMA WriteKeeps ==
  ASSUME Inv, NEW t \in Task, NEW state \in View, NEW event \in Event,
         Write(t, state, event)
  PROVE Inv'
BY DEF Inv, Write, EventsOK, AnswersOK, ClientOK, GraphsForPage, client

LEMMA EmitKeeps ==
  ASSUME Inv, NEW t \in Task, Emit(t)
  PROVE Inv'
<1>1. unsent' \in [Task -> Event \cup {NoEvent}]
  BY DEF Inv, Emit, EventsOK
<1>2. unsent[t] \in Event
  BY DEF Inv, Emit, EventsOK
<1>3. wire' \in Seq(Event) /\ Len(wire') <= Capacity
  BY <1>2, FeedAssumption DEF Inv, Emit, EventsOK
<1> QED BY <1>1, <1>3 DEF Inv, Emit, EventsOK, AnswersOK, ClientOK, GraphsForPage, client

LEMMA ServerKeeps ==
  ASSUME Inv, Server
  PROVE Inv'
<1> USE DEF Inv
<1>1. ASSUME NEW t \in Task, NEW sched \in Scheduler, SetScheduler(t, sched) PROVE Inv'
  <2>1. [kind |-> "sched", sched |-> sched] \in Event
    BY DEF Event
  <2> QED BY <1>1, <2>1, ViewFields, WriteKeeps DEF SetScheduler
<1>2. ASSUME NEW t \in Task, NEW status \in Status, SetStatus(t, status) PROVE Inv'
  <2>1. [kind |-> "status", task |-> t, status |-> status] \in Event
    BY DEF Event
  <2> QED BY <1>2, <2>1, ViewFields, WriteKeeps DEF SetStatus
<1>3. [server EXCEPT !.graph = @ + 1] \in View
  BY DEF View, Graph
<1>4. ASSUME NEW t \in Task, ChangeTopology(t) \/ MarkStage(t) PROVE Inv'
  <2>1. [kind |-> "topology"] \in Event /\ [kind |-> "node"] \in Event
    BY DEF Event
  <2> QED BY <1>3, <1>4, <2>1, WriteKeeps DEF ChangeTopology, MarkStage
<1>5. ASSUME NEW t \in Task, Emit(t) PROVE Inv'
  BY <1>5, EmitKeeps
<1>6. CASE PushEntry \/ EndRole
  BY <1>6 DEF PushEntry, EndRole, engine, client, EventsOK, AnswersOK, ClientOK, GraphsForPage
<1> QED BY <1>1, <1>2, <1>4, <1>5, <1>6 DEF Server

-----------------------------------------------------------------------------
(* The page.                                                               *)

(* A read of the graph. *)
LEMMA ReadsGraph ==
  ASSUME Inv, NEW graph \in {server.graph, Blank}
  PROVE graph \in Graph /\ [server EXCEPT !.graph = graph] \in View
BY ViewFields DEF Inv, View, Graph, Blank

LEMMA LoadKeeps == ASSUME Inv, Load PROVE Inv'
<1>1. [prev |-> Shown, view |-> Null] \in Answer
  BY ShownIsGraph DEF Answer
<1>2. AnswersOK'
  BY <1>1 DEF Inv, Load, AnswersOK, Asker
<1> QED BY <1>2 DEF Inv, Load, EventsOK, ClientOK, GraphsForPage, engine

LEMMA AnswerLoadKeeps == ASSUME Inv, AnswerLoad PROVE Inv'
<1>1. PICK graph \in {server.graph, Blank} :
        answer' = [answer EXCEPT !["load"].view = [server EXCEPT !.graph = graph]]
  BY DEF AnswerLoad
<1>2. answer["load"] \in Answer
  BY DEF Inv, AnswerLoad, AnswersOK, Asker
<1>3. [answer["load"] EXCEPT !.view = [server EXCEPT !.graph = graph]] \in Answer
  BY <1>2, ReadsGraph DEF Answer
<1>4. AnswersOK'
  BY <1>1, <1>3 DEF Inv, AnswersOK
<1> QED BY <1>4 DEF Inv, AnswerLoad, EventsOK, ClientOK, GraphsForPage, engine

LEMMA AskResyncKeeps == ASSUME Inv, AskResync PROVE Inv'
<1>1. PICK graph \in {server.graph, Blank} :
        answer' = [answer EXCEPT !["resync"] =
                     [prev |-> Blank, view |-> [server EXCEPT !.graph = graph]]]
  BY DEF AskResync
<1>2. [prev |-> Blank, view |-> [server EXCEPT !.graph = graph]] \in Answer
  BY ReadsGraph DEF Answer, Blank, Graph
<1>3. AnswersOK'
  BY <1>1, <1>2 DEF Inv, AnswersOK
<1> QED BY <1>3 DEF Inv, AskResync, EventsOK, ClientOK, GraphsForPage, engine

(* What an answer that is applied carries. *)
LEMMA AppliedAnswer ==
  ASSUME Inv, NEW k \in Asker, ApplyState(k)
  PROVE /\ answer[k].prev \in Graph /\ answer[k].view \in View
        /\ AnswersOK' /\ answer'[k] = Null
<1>1. answer[k] \in Answer /\ answer[k].view # Null
  BY DEF Inv, ApplyState, AnswersOK
<1>2. answer' = [answer EXCEPT ![k] = Null]
  BY DEF ApplyState
<1> QED BY <1>1, <1>2 DEF Inv, AnswersOK, Answer

LEMMA ApplyStateKeeps ==
  ASSUME Inv, NEW k \in Asker, ApplyState(k)
  PROVE Inv'
<1>1. page' \in View
  BY AppliedAnswer, ShownIsGraph, CarriedView DEF ApplyState
<1>2. ClientOK' /\ GraphsForPage'
  BY <1>1, NullIsNoView DEF Inv, ApplyState, ClientOK, GraphsForPage
<1> QED BY <1>2, AppliedAnswer DEF Inv, ApplyState, EventsOK, engine

LEMMA ApplyEventKeeps == ASSUME Inv, ApplyEvent PROVE Inv'
<1>1. Head(wire) \in Event /\ wire' \in Seq(Event) /\ Len(wire') <= Capacity
  BY FeedAssumption DEF Inv, ApplyEvent, EventsOK
<1>2. page # Null => page' \in View
  BY <1>1, AppliedView DEF Inv, ClientOK, ApplyEvent
<1>3. page = Null => page' = Null /\ graphAsked' = graphAsked
  BY DEF Inv, ClientOK, ApplyEvent
<1>4. ClientOK' /\ GraphsForPage'
  BY <1>2, <1>3, NullIsNoView DEF Inv, ApplyEvent, ClientOK, GraphsForPage
<1> QED BY <1>1, <1>4 DEF Inv, ApplyEvent, EventsOK, AnswersOK, engine

LEMMA AnswerGraphKeeps == ASSUME Inv, AnswerGraph PROVE Inv'
<1>1. graphs' \subseteq Graph /\ page # Null /\ page' = page
  BY ReadsGraph DEF Inv, AnswerGraph, ClientOK, GraphsForPage
<1> QED BY <1>1 DEF Inv, AnswerGraph, EventsOK, AnswersOK, ClientOK, GraphsForPage, engine

LEMMA ApplyGraphKeeps ==
  ASSUME Inv, NEW graph \in graphs, ApplyGraph(graph)
  PROVE Inv'
<1>1. page \in View /\ graph \in Graph
  BY DEF Inv, ClientOK, GraphsForPage
<1>2. page' \in View
  BY <1>1, ViewFields DEF ApplyGraph
<1> QED BY <1>1, <1>2, NullIsNoView
        DEF Inv, ApplyGraph, EventsOK, AnswersOK, ClientOK, GraphsForPage, engine

LEMMA ConnectionKeeps == ASSUME Inv, Break \/ Reconnect PROVE Inv'
<1>1. CASE Break
  <2>1. EventsOK' /\ Len(wire') <= Capacity
    BY <1>1, FeedAssumption DEF Inv, Break, EventsOK, engine
  <2>2. AnswersOK' /\ ClientOK' /\ GraphsForPage'
    BY <1>1 DEF Inv, Break, AnswersOK, ClientOK, GraphsForPage
  <2> QED BY <1>1, <2>1, <2>2 DEF Inv, Break, engine
<1>2. CASE Reconnect
  BY <1>2 DEF Inv, Reconnect, EventsOK, AnswersOK, ClientOK, GraphsForPage, engine
<1> QED BY <1>1, <1>2

LEMMA InitInv == Init => Inv
<1> SUFFICES ASSUME Init PROVE Inv
  OBVIOUS
<1>1. server \in View
  BY DEF Init, View, Scheduler, Status, Graph
<1>2. EventsOK /\ Len(wire) <= Capacity
  BY FeedAssumption DEF Init, EventsOK
<1>3. AnswersOK /\ ClientOK /\ GraphsForPage
  BY DEF Init, AnswersOK, ClientOK, GraphsForPage
<1> QED BY <1>1, <1>2, <1>3 DEF Inv

LEMMA NextInv == ASSUME Inv, [Next]_vars PROVE Inv'
<1>1. CASE Server
  BY <1>1, ServerKeeps
<1>2. CASE Page
  BY <1>2, LoadKeeps, AnswerLoadKeeps, AskResyncKeeps, ApplyStateKeeps, ApplyEventKeeps,
     AnswerGraphKeeps, ApplyGraphKeeps, ConnectionKeeps DEF Page
<1>3. CASE UNCHANGED vars
  <2>1. UNCHANGED <<engine, wire, client>>
    BY <1>3 DEF vars
  <2>2. EventsOK' /\ AnswersOK'
    BY <2>1 DEF engine, client, Inv, EventsOK, AnswersOK
  <2>3. ClientOK' /\ GraphsForPage'
    BY <2>1 DEF client, Inv, ClientOK, GraphsForPage
  <2> QED BY <2>1, <2>2, <2>3 DEF engine, Inv
<1> QED BY <1>1, <1>2, <1>3 DEF Next

-----------------------------------------------------------------------------
(* The theorems.                                                           *)

(* The variables of the engine and of the page have their types: the page  *)
(* never patches a state it does not have.                                 *)
THEOREM TypeCorrect == Spec => []TypeOK
<1>1. Inv => TypeOK
  BY DEF Inv, AnswersOK, ClientOK, TypeOK
<1> QED BY <1>1, InitInv, NextInv, PTL DEF Spec

LEMMA TreeStays ==
  ASSUME Inv, [Next]_vars, page # Null, page.graph # Blank, page'.graph = Blank
  PROVE LateLoad
<1>1. page \in View
  BY DEF Inv, ClientOK
<1>2. page' # page
  OBVIOUS
<1>3. CASE \E k \in Asker : ApplyState(k)
  <2>1. PICK k \in Asker : ApplyState(k)
    BY <1>3
  <2>2. page' = Carried(IF k = "load" THEN answer[k].prev ELSE page.graph, answer[k].view)
    BY <2>1 DEF ApplyState, Shown
  <2>3. k = "load" /\ answer[k].prev = Blank
    BY <1>1, <2>1, <2>2, AppliedAnswer, CarriedView DEF View
  <2> QED BY <2>1, <2>3, AppliedAnswer DEF ApplyState, LateLoad
<1>4. CASE ApplyEvent
  <2>1. Head(wire) \in Event /\ page' = Applied(Head(wire))
    BY <1>4 DEF Inv, EventsOK, ApplyEvent
  <2> QED BY <1>1, <2>1, AppliedView
<1>5. CASE \E graph \in graphs : ApplyGraph(graph)
  <2>1. PICK graph \in graphs : ApplyGraph(graph)
    BY <1>5
  <2>2. graph \in Graph
    BY DEF Inv, ClientOK
  <2> QED BY <1>1, <1>2, <2>1, <2>2, ViewFields DEF ApplyGraph
<1>6. CASE Server \/ Load \/ AnswerLoad \/ AskResync \/ AnswerGraph \/ Break \/ Reconnect
  BY <1>2, <1>6 DEF Server, SetScheduler, SetStatus, ChangeTopology, MarkStage, Write, Emit,
     PushEntry, EndRole, Load, AnswerLoad, AskResync, AnswerGraph, Break, Reconnect, client
<1>7. CASE UNCHANGED vars
  BY <1>2, <1>7 DEF vars, client
<1> QED BY <1>3, <1>4, <1>5, <1>6, <1>7 DEF Next, Page

(* A tree on the page is not replaced by none, but by a load() that was    *)
(* called when there was none.                                             *)
THEOREM TreeNeverBlank == Spec => GraphNeverBlank
<1>1. ASSUME Inv, [Next]_vars
      PROVE [(page # Null /\ page.graph # Blank /\ page'.graph = Blank) => LateLoad]_vars
  BY <1>1, TreeStays
<1> QED BY <1>1, InitInv, NextInv, PTL DEF Spec, GraphNeverBlank

-----------------------------------------------------------------------------
(* Transcripts.                                                            *)

(* What a cut keeps at the front of a transcript that is longer.           *)
HeadLen == Greater(Cap \div 4, HeadMin)

(* A transcript is what was pushed, or its opening, a marker and the rest  *)
(* from some entry on: a second cut drops the first one's marker.          *)
Whole(entries, last) ==
  /\ entries \in Seq(Nat) /\ Len(entries) = last
  /\ \A i \in 1 .. last : entries[i] = i

CutEntry(i, front, length, last) ==
  IF i <= front THEN i ELSE IF i = front + 1 THEN Marker ELSE last - length + i

Cut(entries, front, last) ==
  /\ entries \in Seq(Nat) /\ Len(entries) \in front + 2 .. last
  /\ \A i \in 1 .. Len(entries) : entries[i] = CutEntry(i, front, Len(entries), last)

TranscriptInv ==
  /\ pushed \in Nat
  /\ Whole(transcript, pushed) \/ Cut(transcript, HeadLen, pushed)

LEMMA HeadSize ==
  /\ HeadLen \in Nat /\ HeadLen >= HeadMin /\ HeadMin >= 1
  /\ Cap # 0 /\ HeadLen >= Cap => HeadLen = HeadMin
BY FeedAssumption DEF HeadLen, Greater

(* Pushing an entry keeps the shape. *)
LEMMA PushKeepsShape ==
  ASSUME NEW entries, NEW last \in Nat, NEW front \in Nat,
         Whole(entries, last) \/ Cut(entries, front, last)
  PROVE \/ Whole(Append(entries, last + 1), last + 1)
        \/ Cut(Append(entries, last + 1), front, last + 1)
<1> DEFINE longer == Append(entries, last + 1)
<1>1. entries \in Seq(Nat) /\ Len(entries) \in Nat
  BY LenProperties DEF Whole, Cut
<1>2. /\ longer \in Seq(Nat) /\ Len(longer) = Len(entries) + 1
      /\ \A i \in 1 .. Len(entries) : longer[i] = entries[i]
      /\ longer[Len(entries) + 1] = last + 1
  BY <1>1
<1> HIDE DEF longer
<1>3. CASE Whole(entries, last)
  BY <1>1, <1>2, <1>3 DEF Whole
<1>4. CASE Cut(entries, front, last)
  <2>1. PICK length \in Nat : length = Len(entries)
    BY <1>1
  <2>2. /\ length >= front + 2 /\ length <= last
        /\ \A i \in 1 .. length : entries[i] = CutEntry(i, front, length, last)
    BY <1>4, <2>1 DEF Cut
  <2>3. \A i \in 1 .. length :
          CutEntry(i, front, length, last) = CutEntry(i, front, length + 1, last + 1)
    BY <2>1, <2>2 DEF CutEntry
  <2>4. CutEntry(length + 1, front, length + 1, last + 1) = last + 1
    BY <2>1, <2>2 DEF CutEntry
  <2>5. ASSUME NEW i \in 1 .. length + 1
        PROVE longer[i] = CutEntry(i, front, length + 1, last + 1)
    <3>1. CASE i \in 1 .. length
      BY <1>2, <2>1, <2>2, <2>3, <3>1
    <3>2. CASE i = length + 1
      BY <1>2, <2>1, <2>4, <3>2
    <3> QED BY <2>1, <3>1, <3>2
  <2>6. length + 1 \in front + 2 .. last + 1
    BY <2>1, <2>2
  <2>7. longer \in Seq(Nat) /\ Len(longer) = length + 1
    BY <1>2, <2>1
  <2>8. Cut(longer, front, last + 1)
    BY <2>5, <2>6, <2>7 DEF Cut
  <2> QED BY <2>8 DEF longer
<1> QED BY <1>3, <1>4 DEF longer

(* The entries of a piece of a sequence. *)
LEMMA Piece ==
  ASSUME NEW s \in Seq(Nat), NEW from \in Nat, NEW to \in Nat, 1 <= from, from <= to,
         to <= Len(s), NEW size \in Nat, size = to - from + 1
  PROVE /\ SubSeq(s, from, to) \in Seq(Nat) /\ Len(SubSeq(s, from, to)) = size
        /\ \A i \in 1 .. size : SubSeq(s, from, to)[i] = s[from + i - 1]
<1>1. \A i \in from .. to : s[i] \in Nat
  <2>1. Len(s) \in Nat
    BY LenProperties
  <2> QED BY <2>1, ElementOfSeq
<1>2. from \in Int /\ to \in Int
  OBVIOUS
<1>3. /\ SubSeq(s, from, to) \in Seq(Nat)
      /\ Len(SubSeq(s, from, to)) = IF from <= to THEN to - from + 1 ELSE 0
      /\ \A i \in 1 .. to - from + 1 : SubSeq(s, from, to)[i] = s[from + i - 1]
  BY <1>1, <1>2, SubSeqProperties
<1> QED BY <1>3

(* The entries of two sequences put together. *)
LEMMA Joined ==
  ASSUME NEW s \in Seq(Nat), NEW t \in Seq(Nat), NEW m \in Nat, NEW n \in Nat,
         m = Len(s), n = Len(t)
  PROVE /\ s \o t \in Seq(Nat) /\ Len(s \o t) = m + n
        /\ \A i \in 1 .. m : (s \o t)[i] = s[i]
        /\ \A i \in 1 .. n : (s \o t)[m + i] = t[i]
<1>1. /\ s \o t \in Seq(Nat)
      /\ Len(s \o t) = Len(s) + Len(t)
      /\ \A i \in 1 .. Len(s) + Len(t) :
           (s \o t)[i] = IF i <= Len(s) THEN s[i] ELSE t[i - Len(s)]
  BY ConcatProperties
<1>2. \A i \in 1 .. m : i \in 1 .. m + n /\ i <= m
  OBVIOUS
<1>3. \A i \in 1 .. n : m + i \in 1 .. m + n /\ ~(m + i <= m) /\ m + i - m = i
  OBVIOUS
<1> QED BY <1>1, <1>2, <1>3

(* An opening of a sequence, the marker, and an ending.                    *)
EndsOf(entries, length, head, rest) ==
  SubSeq(entries, 1, head) \o <<Marker>> \o SubSeq(entries, length - rest + 1, length)

Fits(length, head, rest) == head >= 1 /\ rest >= 1 /\ head + rest < length

HasEnds(spliced, entries, length, head, rest) ==
  /\ spliced \in Seq(Nat) /\ Len(spliced) = head + 1 + rest
  /\ \A i \in 1 .. head : spliced[i] = entries[i]
  /\ spliced[head + 1] = Marker
  /\ \A i \in 1 .. rest : spliced[head + 1 + i] = entries[length - rest + i]

LEMMA Spliced ==
  ASSUME NEW entries \in Seq(Nat), NEW length \in Nat, length = Len(entries),
         NEW head \in Nat, NEW rest \in Nat, Fits(length, head, rest)
  PROVE HasEnds(EndsOf(entries, length, head, rest), entries, length, head, rest)
<1> PICK spliced : spliced = EndsOf(entries, length, head, rest)
  OBVIOUS
<1> USE DEF Fits
<1>1. PICK opening : opening = SubSeq(entries, 1, head)
  OBVIOUS
<1>2. PICK ending : ending = SubSeq(entries, length - rest + 1, length)
  OBVIOUS
<1>3. PICK front : front = opening \o <<Marker>>
  OBVIOUS
<1>4. /\ opening \in Seq(Nat) /\ Len(opening) = head
      /\ \A i \in 1 .. head : opening[i] = entries[i]
  <2>1. head = head - 1 + 1 /\ \A i \in 1 .. head : 1 + i - 1 = i
    OBVIOUS
  <2> QED BY <1>1, <2>1, Piece
<1>5. /\ ending \in Seq(Nat) /\ Len(ending) = rest
      /\ \A i \in 1 .. rest : ending[i] = entries[length - rest + i]
  <2>1. PICK from \in Nat : from = length - rest + 1
    <3>1. length - rest + 1 \in Nat
      OBVIOUS
    <3> QED BY <3>1
  <2>2. /\ 1 <= from /\ from <= length /\ rest = length - from + 1
        /\ \A i \in 1 .. rest : from + i - 1 = length - rest + i
    BY <2>1
  <2>3. ending = SubSeq(entries, from, length)
    BY <1>2, <2>1
  <2>4. length <= Len(entries)
    OBVIOUS
  <2>5. /\ SubSeq(entries, from, length) \in Seq(Nat) /\ Len(SubSeq(entries, from, length)) = rest
        /\ \A i \in 1 .. rest : SubSeq(entries, from, length)[i] = entries[from + i - 1]
    BY ONLY entries \in Seq(Nat), length \in Nat, rest \in Nat, from \in Nat, <2>2, <2>4, Piece
  <2> QED BY <2>2, <2>3, <2>5
<1>6. <<Marker>> \in Seq(Nat) /\ Len(<<Marker>>) = 1 /\ <<Marker>>[1] = Marker
  BY DEF Marker
<1>7. /\ front \in Seq(Nat) /\ Len(front) = head + 1
      /\ \A i \in 1 .. head : front[i] = entries[i]
      /\ front[head + 1] = Marker
  <2>1. PICK mark : mark = <<Marker>>
    OBVIOUS
  <2>2. PICK one \in Nat : one = 1
    OBVIOUS
  <2>3. mark \in Seq(Nat) /\ Len(mark) = one
    BY <1>6, <2>1, <2>2
  <2>4. /\ opening \o mark \in Seq(Nat) /\ Len(opening \o mark) = head + one
        /\ \A i \in 1 .. head : (opening \o mark)[i] = opening[i]
        /\ \A i \in 1 .. one : (opening \o mark)[head + i] = mark[i]
    <3>1. opening \in Seq(Nat) /\ mark \in Seq(Nat) /\ head = Len(opening) /\ one = Len(mark)
      BY <1>4, <2>3
    <3>2. opening \o mark \in Seq(Nat) /\ Len(opening \o mark) = head + one
      BY <3>1, Joined
    <3>3. \A i \in 1 .. head : (opening \o mark)[i] = opening[i]
      BY <3>1, Joined
    <3>4. \A i \in 1 .. one : (opening \o mark)[head + i] = mark[i]
      BY <3>1, Joined
    <3> QED BY <3>2, <3>3, <3>4
  <2>5. front = opening \o mark
    BY <1>3, <2>1
  <2>6. front[head + 1] = mark[1]
    BY <2>2, <2>4, <2>5, SMTT(20)
  <2> QED BY <1>4, <1>6, <2>1, <2>2, <2>4, <2>5, <2>6
<1>8. /\ spliced \in Seq(Nat) /\ Len(spliced) = head + 1 + rest
      /\ \A i \in 1 .. head + 1 : spliced[i] = front[i]
      /\ \A i \in 1 .. rest : spliced[head + 1 + i] = ending[i]
  <2>1. spliced = front \o ending
    BY <1>1, <1>2, <1>3 DEF EndsOf
  <2>2. PICK m \in Nat : m = head + 1
    OBVIOUS
  <2>3. front \in Seq(Nat) /\ Len(front) = m
    BY <1>7, <2>2
  <2>4. /\ front \o ending \in Seq(Nat) /\ Len(front \o ending) = m + rest
        /\ \A i \in 1 .. m : (front \o ending)[i] = front[i]
        /\ \A i \in 1 .. rest : (front \o ending)[m + i] = ending[i]
    <3>1. front \in Seq(Nat) /\ ending \in Seq(Nat) /\ m = Len(front) /\ rest = Len(ending)
      BY <1>5, <2>3
    <3>2. front \o ending \in Seq(Nat) /\ Len(front \o ending) = m + rest
      BY <3>1, Joined
    <3>3. \A i \in 1 .. m : (front \o ending)[i] = front[i]
      BY <3>1, Joined
    <3>4. \A i \in 1 .. rest : (front \o ending)[m + i] = ending[i]
      BY <3>1, Joined
    <3> QED BY <3>2, <3>3, <3>4
  <2> QED BY <2>1, <2>2, <2>4
<1> QED
  <2>1. head + 1 \in 1 .. head + 1 /\ \A i \in 1 .. head : i \in 1 .. head + 1
    OBVIOUS
  <2> QED BY <1>5, <1>7, <1>8, <2>1 DEF HasEnds

(* What a cut makes has the shape: the opening it keeps is the opening of  *)
(* all that was pushed, and the marker of an earlier cut is in the gap.    *)
LEMMA SplicedIsCut ==
  ASSUME NEW entries \in Seq(Nat), NEW last \in Nat, NEW front \in Nat,
         Whole(entries, last) \/ Cut(entries, front, last),
         NEW length \in Nat, length = Len(entries),
         NEW target \in Nat, Fits(length, front, target)
  PROVE LET after == EndsOf(entries, length, front, target)
        IN  Cut(after, front, last) /\ Len(after) = front + 1 + target
<1> PICK after : after = EndsOf(entries, length, front, target)
  OBVIOUS
<1>1. length <= last /\ front >= 1 /\ target >= 1 /\ front + target < length
  BY DEF Whole, Cut, Fits
<1>2. HasEnds(after, entries, length, front, target)
  BY Spliced
<1>3. /\ \A i \in 1 .. front : entries[i] = i
      /\ \A i \in 1 .. target : entries[length - target + i] = last - target + i
  <2>1. /\ \A i \in 1 .. front : i \in 1 .. length
        /\ \A i \in 1 .. target : /\ length - target + i \in 1 .. length
                                 /\ length - target + i > front + 1
                                 /\ last - length + (length - target + i) = last - target + i
    BY <1>1
  <2>2. CASE Whole(entries, last)
    BY <2>1, <2>2 DEF Whole
  <2>3. CASE Cut(entries, front, last)
    <3>1. \A i \in 1 .. length : entries[i] = CutEntry(i, front, length, last)
      BY <2>3 DEF Cut
    <3>2. \A i \in 1 .. front : CutEntry(i, front, length, last) = i
      BY DEF CutEntry
    <3>3. ASSUME NEW i \in 1 .. target
          PROVE CutEntry(length - target + i, front, length, last) = last - target + i
      BY <1>1, <2>1 DEF CutEntry
    <3> QED BY <2>1, <3>1, <3>2, <3>3
  <2> QED BY <2>2, <2>3
<1>4. PICK size \in Nat : size = front + 1 + target
  OBVIOUS
<1>5. ASSUME NEW i \in 1 .. size PROVE after[i] = CutEntry(i, front, size, last)
  <2>1. CASE i <= front
    BY <1>2, <1>3, <2>1, SMTT(20) DEF CutEntry, HasEnds
  <2>2. CASE i = front + 1
    BY <1>2, <2>2 DEF CutEntry, HasEnds
  <2>3. CASE i > front + 1
    <3>1. PICK j \in 1 .. target : i = front + 1 + j
      <4>1. i - (front + 1) \in 1 .. target /\ i = front + 1 + (i - (front + 1))
        BY <1>4, <2>3
      <4> QED BY <4>1
    <3>2. after[i] = last - target + j
      BY <1>2, <1>3, <3>1 DEF HasEnds
    <3>3. last - target + j = last - size + i
      BY <1>4, <3>1
    <3>4. ~(i <= front) /\ i # front + 1
      BY <2>3
    <3>5. CutEntry(i, front, size, last) = last - size + i
      BY <3>4, Zenon DEF CutEntry
    <3> QED BY <3>2, <3>3, <3>5, Zenon
  <2>4. i <= front \/ i = front + 1 \/ i > front + 1
    OBVIOUS
  <2> QED BY <2>1, <2>2, <2>3, <2>4
<1>6. size \in front + 2 .. last
  BY <1>1, <1>4
<1>7. after \in Seq(Nat) /\ Len(after) = size
  BY <1>2, <1>4 DEF HasEnds
<1> QED BY <1>4, <1>5, <1>6, <1>7 DEF Cut

(* Cutting keeps the shape, too, and leaves what fits. *)
LEMMA CutKeepsShape ==
  ASSUME NEW entries \in Seq(Nat), NEW last \in Nat,
         Whole(entries, last) \/ Cut(entries, HeadLen, last)
  PROVE /\ Whole(CapTranscript(entries), last) \/ Cut(CapTranscript(entries), HeadLen, last)
        /\ Cap # 0 => Len(CapTranscript(entries)) <= Greater(Cap, HeadMin + 1) + 1
<1>1. PICK length \in Nat : length = Len(entries)
  BY LenProperties DEF Whole, Cut
<1>2. PICK cap \in Nat, min \in Nat, front \in Nat :
           /\ cap = Cap /\ min = HeadMin /\ front = HeadLen
           /\ min >= 1 /\ front >= min /\ (cap # 0 /\ front >= cap => front = min)
  BY HeadSize, FeedAssumption
<1>3. PICK head \in Nat : /\ head = HeadKeep(entries)
                          /\ head = IF front < length THEN front ELSE length
  <2>1. HeadKeep(entries) = IF front < length THEN front ELSE length
    BY <1>1, <1>2 DEF HeadKeep, Lesser, HeadLen
  <2>2. HeadKeep(entries) \in Nat
    BY <2>1
  <2> QED BY <2>1, <2>2
<1>4. PICK target \in Nat : /\ target = TailTarget(entries)
                            /\ target = IF cap > head THEN cap - head ELSE 1
  <2>1. TailTarget(entries) = IF cap > head THEN cap - head ELSE 1
    BY <1>2, <1>3 DEF TailTarget
  <2>2. TailTarget(entries) \in Nat
    BY <2>1
  <2> QED BY <2>1, <2>2
<1>5. PICK start \in Nat : /\ start = Greater(length, target) - target
                           /\ start = IF length > target THEN length - target ELSE 0
  <2>1. Greater(length, target) - target = IF length > target THEN length - target ELSE 0
    BY DEF Greater
  <2>2. Greater(length, target) - target \in Nat
    BY <2>1
  <2> QED BY <2>1, <2>2
<1>6. PICK after : /\ after = CapTranscript(entries)
                   /\ after = IF cap = 0 \/ length <= cap \/ start <= head THEN entries
                              ELSE SubSeq(entries, 1, head) \o <<Marker>>
                                     \o SubSeq(entries, start + 1, length)
  BY <1>1, <1>2, <1>3, <1>4, <1>5 DEF CapTranscript
<1>7. PICK most \in Nat : /\ most = Greater(Cap, HeadMin + 1) + 1
                          /\ most = (IF cap > min + 1 THEN cap ELSE min + 1) + 1
  <2>1. Greater(Cap, HeadMin + 1) + 1 = (IF cap > min + 1 THEN cap ELSE min + 1) + 1
    BY <1>2 DEF Greater
  <2>2. Greater(Cap, HeadMin + 1) + 1 \in Nat
    BY <2>1
  <2> QED BY <2>1, <2>2
<1>8. CASE cap = 0 \/ length <= cap \/ start <= head
  <2>1. after = entries
    BY <1>6, <1>8
  <2>2. cap # 0 => length <= most
    BY <1>2, <1>3, <1>4, <1>5, <1>7, <1>8
  <2> QED BY <1>1, <1>2, <1>6, <1>7, <2>1, <2>2
<1>9. CASE ~(cap = 0 \/ length <= cap \/ start <= head)
  <2>1. head = front /\ front >= 1 /\ target >= 1 /\ start = length - target
    <3>1. front >= 1 /\ cap # 0 /\ length > cap /\ start > head
      BY <1>2, <1>9
    <3>2. target >= 1
      BY <1>4
    <3>3. start = length - target
      BY <1>5, <3>1
    <3>4. CASE front < length
      BY <1>3, <3>1, <3>2, <3>3, <3>4
    <3>5. CASE ~(front < length)
      <4>1. head = length
        BY <1>3, <3>5
      <4> QED BY <3>1, <3>2, <3>3, <4>1
    <3> QED BY <3>4, <3>5
  <2>2. front + target < length /\ front + 1 + target <= most
    <3>1. cap # 0 /\ start > head
      BY <1>9
    <3>2. front + target < length
      BY <2>1, <3>1
    <3>3. CASE cap > front
      <4>1. target = cap - front /\ most >= cap + 1
        BY <1>4, <1>7, <2>1, <3>3
      <4> QED BY <3>2, <4>1
    <3>4. CASE ~(cap > front)
      <4>1. target = 1 /\ front = min /\ most >= min + 2
        BY <1>2, <1>4, <1>7, <2>1, <3>1, <3>4
      <4> QED BY <3>2, <4>1
    <3> QED BY <3>3, <3>4
  <2>3. after = EndsOf(entries, length, front, target)
    BY <1>6, <1>9, <2>1 DEF EndsOf
  <2>4. Cut(after, front, last) /\ Len(after) = front + 1 + target
    <3>1. Fits(length, front, target)
      BY <2>1, <2>2 DEF Fits
    <3>2. Whole(entries, last) \/ Cut(entries, front, last)
      BY <1>2
    <3> QED BY <1>1, <2>3, <3>1, <3>2, SplicedIsCut
  <2> QED BY <1>2, <1>6, <1>7, <2>2, <2>4
<1> QED BY <1>8, <1>9

LEMMA TranscriptInit == Init => TranscriptInv
BY DEF Init, TranscriptInv, Whole

LEMMA TranscriptStep == TranscriptInv /\ [Next]_vars => TranscriptInv'
<1> SUFFICES ASSUME TranscriptInv, [Next]_vars PROVE TranscriptInv'
  OBVIOUS
<1>1. CASE PushEntry
  BY <1>1, HeadSize, PushKeepsShape DEF PushEntry, TranscriptInv
<1>2. CASE EndRole
  <2>1. /\ pushed' = pushed + 1 /\ pushed' \in Nat
        /\ transcript' = CapTranscript(Append(transcript, pushed'))
    BY <1>2 DEF EndRole, TranscriptInv
  <2>2. \/ Whole(Append(transcript, pushed'), pushed')
        \/ Cut(Append(transcript, pushed'), HeadLen, pushed')
    BY <2>1, HeadSize, PushKeepsShape DEF TranscriptInv
  <2>3. Append(transcript, pushed') \in Seq(Nat)
    BY <2>2 DEF Whole, Cut
  <2> QED BY <2>1, <2>2, <2>3, CutKeepsShape DEF TranscriptInv
<1>3. CASE UNCHANGED log
  BY <1>3 DEF log, TranscriptInv
<1>4. Next => PushEntry \/ EndRole \/ UNCHANGED log
  BY DEF Next, Server, Page, SetScheduler, SetStatus, ChangeTopology, MarkStage, Write, Emit,
     Load, AnswerLoad, AskResync, ApplyState, ApplyEvent, AnswerGraph, ApplyGraph, Break,
     Reconnect, log
<1> QED BY <1>1, <1>2, <1>3, <1>4 DEF vars

(* What the shape says. *)
LEMMA ShapeKeepsEnds == TranscriptInv => TranscriptKeepsEnds
<1> SUFFICES ASSUME TranscriptInv PROVE TranscriptKeepsEnds
  OBVIOUS
<1>1. Cap # 0 => Len(CapTranscript(transcript)) <= Greater(Cap, HeadMin + 1) + 1
  <2>1. transcript \in Seq(Nat) /\ pushed \in Nat
    BY DEF TranscriptInv, Whole, Cut
  <2> QED BY <2>1, CutKeepsShape DEF TranscriptInv
<1>2. /\ pushed \in Nat /\ HeadMin \in Nat /\ HeadLen \in Nat /\ HeadMin <= HeadLen
  BY HeadSize, FeedAssumption DEF TranscriptInv
<1>3. CASE Whole(transcript, pushed)
  <2>1. /\ DOMAIN transcript = 1 .. pushed /\ Len(transcript) = pushed
        /\ \A i \in 1 .. pushed : transcript[i] = i
    BY <1>2, <1>3 DEF Whole
  <2>2. pushed > 0 => transcript # <<>> /\ Last(transcript) = pushed
    BY <1>2, <2>1 DEF Last
  <2> QED BY <1>1, <1>2, <2>1, <2>2 DEF TranscriptKeepsEnds, Marker, Lesser
<1>4. CASE Cut(transcript, HeadLen, pushed)
  <2> DEFINE length == Len(transcript)
  <2>2. /\ length \in Nat /\ HeadLen + 2 <= length /\ length <= pushed
        /\ DOMAIN transcript = 1 .. length
    BY <1>2, <1>4, LenProperties DEF Cut
  <2>3. /\ \A i \in 1 .. HeadLen : transcript[i] = i
        /\ transcript[HeadLen + 1] = Marker
        /\ \A i \in HeadLen + 2 .. length : transcript[i] = pushed - length + i
    BY <1>2, <1>4, <2>2 DEF Cut, CutEntry
  <2>4. \A i \in 1 .. length : transcript[i] = Marker <=> i = HeadLen + 1
    BY <1>2, <2>2, <2>3 DEF Marker
  <2>5. \A i, j \in 1 .. length :
          i < j /\ i # HeadLen + 1 /\ j # HeadLen + 1 => transcript[i] < transcript[j]
    BY <1>2, <2>2, <2>3
  <2>6. transcript # <<>> /\ Last(transcript) = pushed
    BY <1>2, <2>2, <2>3 DEF Last
  <2>7. Lesser(HeadMin, pushed) \in 0 .. HeadLen
    BY <1>2 DEF Lesser
  <2> QED BY <1>1, <1>2, <2>2, <2>3, <2>4, <2>5, <2>6, <2>7 DEF TranscriptKeepsEnds
<1> QED BY <1>3, <1>4 DEF TranscriptInv

(* Through any number of pushes and cuts, of any cap, a transcript keeps   *)
(* its opening and its latest entries, in order, and one marker at most.   *)
THEOREM TranscriptsKeepEnds == Spec => []TranscriptKeepsEnds
BY TranscriptInit, TranscriptStep, ShapeKeepsEnds, PTL DEF Spec
=============================================================================
