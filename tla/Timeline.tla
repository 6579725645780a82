------------------------------ MODULE Timeline ------------------------------
(***************************************************************************)
(* A reader of a run's log: GET /runs/{id}, /events and /timeline and the  *)
(* commands status and timeline fetch the run, its events and the times of *)
(* its events in queries of their own while transactions append.           *)
(* Source: timeline.py, api.py, __main__.py, store.read_events.            *)
(***************************************************************************)
EXTENDS EventStore

VARIABLES
  rpc,   \* where the reader is
  view   \* the run and what has been fetched: count, events, times (by seq)

readerVars == <<rpc, view>>
NoView == [run |-> NULL, count |-> 0, shown |-> {}, times |-> {}]

Seqs(r) == {row.seq : row \in rows[r]}
TimelineInit == Init /\ rpc = "idle" /\ view = NoView

\* _run_or_404 and build_timeline's first query: the row and the count of events.
ReadRun(r) ==
  /\ rpc = "idle"
  /\ rpc' = IF r \in Existing THEN "events" ELSE "not found"
  /\ view' = [NoView EXCEPT !.run = r, !.count = Cardinality(rows[r])]
  /\ UNCHANGED vars

\* read_events: a statement sees what is committed when it begins.
ReadEvents ==
  /\ rpc = "events" /\ rpc' = "times"
  /\ view' = [view EXCEPT !.shown = Seqs(view.run)]
  /\ UNCHANGED vars

\* Mutant: the times of the events there were at the first query.
ReadTimesEarly ==
  /\ rpc = "times" /\ rpc' = "render"
  /\ view' = [view EXCEPT !.times = 1..view.count]
  /\ UNCHANGED vars

ReadTimes ==
  /\ rpc = "times" /\ rpc' = "render"
  /\ view' = [view EXCEPT !.times = Seqs(view.run)]
  /\ UNCHANGED vars

\* One line per event with its time: times[e.seq] raises KeyError if it has none.
Render ==
  /\ rpc = "render"
  /\ rpc' = IF view.shown \subseteq view.times THEN "rendered" ELSE "KeyError"
  /\ UNCHANGED <<vars, view>>

\* The next request.
Answered ==
  /\ rpc \in {"rendered", "not found"} /\ rpc' = "idle" /\ view' = NoView
  /\ UNCHANGED vars

TimelineNext ==
  \/ Next /\ UNCHANGED readerVars
  \/ \E r \in Runs : ReadRun(r)
  \/ ReadEvents \/ ReadTimes \/ Render \/ Answered

TimelineSpec == TimelineInit /\ [][TimelineNext]_<<vars, readerVars>>
-----------------------------------------------------------------------------
\* The separate queries do not tear: every event of a timeline has its time, the
\* events are the log from its beginning without a hole, at least as many as the
\* status said before, and none of them is ever taken back.
TimelineTrue ==
  /\ rpc # "KeyError"
  /\ rpc = "rendered" => /\ view.shown = 1..Cardinality(view.shown)
                         /\ Cardinality(view.shown) >= view.count
                         /\ view.shown \subseteq Seqs(view.run)
=============================================================================
