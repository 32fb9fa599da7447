-------------------------------- MODULE Jobs --------------------------------
(***************************************************************************)
(* Long jobs: the two threads that serve one (kam-agent/src/server.rs,     *)
(* run_request), the table of stop signals the connections share           *)
(* (kam-agent/src/dispatch.rs, Context::jobs), the progress channel and    *)
(* the client that reads the stream (kam-ipc/src/client.rs, read_reply).   *)
(*                                                                         *)
(* A connection carries one job.  Its worker thread registers the stop     *)
(* signal, surveys and reports, forgets the signal and returns; its        *)
(* handler thread forwards the reports to the pipe, joins the worker and   *)
(* writes the result.  A stop arrives on another connection.               *)
(***************************************************************************)
EXTENDS Integers, Sequences

CONSTANTS
    Conns,       \* connections, each with one job; no two jobs have one id
                 \* (ui/src/lib/jobs.ts), so the connection stands for it
    None,        \* no job is registered under the id
    Rechecks,    \* the jobs whose arm looks at the signal again (FindDuplicates)
    MaxReports,  \* bound: progress messages one job sends
    Room         \* bound: frames the pipe buffers before a write blocks

ASSUME JobsAssumption ==
    /\ None \notin Conns
    /\ Rechecks \subseteq Conns
    /\ MaxReports \in Nat
    /\ Room \in Nat \ {0}

VARIABLES
    worker,   \* connection -> where dispatch::handle is
    result,   \* connection -> what the survey, then the arm, came to
    table,    \* Context::jobs: id -> the job whose signal is kept there
    signal,   \* connection -> Reporter::cancel
    reports,  \* connection -> progress messages sent so far
    channel,  \* connection -> progress sent and not yet forwarded
    handler,  \* connection -> where run_request is
    wire,     \* connection -> frames written and not yet read
    client,   \* connection -> where the caller is
    answer,   \* connection -> the result the caller was given
    stops     \* the jobs somebody was told would be stopped

vars == <<worker, result, table, signal, reports, channel, handler, wire,
          client, answer, stops>>

Results == {"none", "finished", "stopped", "failed"}

Progress == [kind |-> "progress", result |-> "none"]

DoneFrame(r) == [kind |-> "done", result |-> r]

Frames == {Progress} \cup {DoneFrame(r) : r \in Results}

Init ==
    /\ worker = [c \in Conns |-> "unborn"]
    /\ result = [c \in Conns |-> "none"]
    /\ table = [c \in Conns |-> None]
    /\ signal = [c \in Conns |-> FALSE]
    /\ reports = [c \in Conns |-> 0]
    /\ channel = [c \in Conns |-> 0]
    /\ handler = [c \in Conns |-> "none"]
    /\ wire = [c \in Conns |-> <<>>]
    /\ client = [c \in Conns |-> "none"]
    /\ answer = [c \in Conns |-> "none"]
    /\ stops = {}

----------------------------------------------------------------------------
(* The worker thread: dispatch::handle.                                    *)

\* The request is read and the worker is spawned.
Start(c) ==
    /\ worker[c] = "unborn"
    /\ worker' = [worker EXCEPT ![c] = "starting"]
    /\ handler' = [handler EXCEPT ![c] = "draining"]
    /\ client' = [client EXCEPT ![c] = "waiting"]
    /\ UNCHANGED <<result, table, signal, reports, channel, wire, answer, stops>>

\* The worker could not be spawned: the answer is an error and no job ran.
StartFails(c) ==
    /\ worker[c] = "unborn"
    /\ worker' = [worker EXCEPT ![c] = "ended"]
    /\ result' = [result EXCEPT ![c] = "failed"]
    /\ handler' = [handler EXCEPT ![c] = "joining"]
    /\ client' = [client EXCEPT ![c] = "waiting"]
    /\ UNCHANGED <<table, signal, reports, channel, wire, answer, stops>>

\* Context::register_job
Register(c) ==
    /\ worker[c] = "starting"
    /\ table' = [table EXCEPT ![c] = c]
    /\ worker' = [worker EXCEPT ![c] = "working"]
    /\ UNCHANGED <<result, signal, reports, channel, handler, wire, client, answer, stops>>

\* A slip: a rendezvous channel, on which a send waits for the frame before it
\* to be read.
ReportWaits(c) ==
    /\ worker[c] = "working"
    /\ reports[c] < MaxReports
    /\ channel[c] = 0 /\ Len(wire[c]) < Room
    /\ reports' = [reports EXCEPT ![c] = @ + 1]
    /\ channel' = [channel EXCEPT ![c] = IF handler[c] = "draining" THEN @ + 1 ELSE @]
    /\ UNCHANGED <<worker, result, table, signal, handler, wire, client, answer, stops>>

\* Reporter::emit into an unbounded channel.  A send nobody will receive is
\* ignored.
Report(c) ==
    /\ worker[c] = "working"
    /\ reports[c] < MaxReports
    /\ reports' = [reports EXCEPT ![c] = @ + 1]
    /\ channel' = [channel EXCEPT ![c] = IF handler[c] = "draining" THEN @ + 1 ELSE @]
    /\ UNCHANGED <<worker, result, table, signal, handler, wire, client, answer, stops>>

\* The survey runs to its end, or stops at a Reporter::check that finds the
\* signal set.  A job past its last check finishes all the same.
SurveyEnds(c) ==
    /\ worker[c] = "working"
    /\ \/ reports[c] = MaxReports /\ result' = [result EXCEPT ![c] = "finished"]
       \/ signal[c] /\ result' = [result EXCEPT ![c] = "stopped"]
    /\ worker' = [worker EXCEPT ![c] = "leaving"]
    /\ UNCHANGED <<table, signal, reports, channel, handler, wire, client, answer, stops>>

\* The survey returns an error part-way.
SurveyFails(c) ==
    /\ worker[c] = "working"
    /\ result' = [result EXCEPT ![c] = "failed"]
    /\ worker' = [worker EXCEPT ![c] = "leaving"]
    /\ UNCHANGED <<table, signal, reports, channel, handler, wire, client, answer, stops>>

\* A slip: finishing one job forgets them all.
FinishForgetsAll(c) ==
    /\ worker[c] = "leaving"
    /\ table' = [d \in Conns |-> None]
    /\ result' = [result EXCEPT ![c] = IF c \in Rechecks /\ signal[c] THEN "stopped" ELSE @]
    /\ worker' = [worker EXCEPT ![c] = "ended"]
    /\ UNCHANGED <<signal, reports, channel, handler, wire, client, answer, stops>>

\* Context::finish_job and what the arm answers.  FindDuplicates answers
\* "stopped" whenever the signal is set, finished or not.
Finish(c) ==
    /\ worker[c] = "leaving"
    /\ table' = [table EXCEPT ![c] = None]
    /\ result' = [result EXCEPT ![c] = IF c \in Rechecks /\ signal[c] THEN "stopped" ELSE @]
    /\ worker' = [worker EXCEPT ![c] = "ended"]
    /\ UNCHANGED <<signal, reports, channel, handler, wire, client, answer, stops>>

\* The survey panics: the thread unwinds past finish_job.
Panic(c) ==
    /\ worker[c] = "working"
    /\ result' = [result EXCEPT ![c] = "failed"]
    /\ worker' = [worker EXCEPT ![c] = "ended"]
    /\ UNCHANGED <<table, signal, reports, channel, handler, wire, client, answer, stops>>

----------------------------------------------------------------------------
(* The handler thread: run_request and the write that follows it.          *)

\* The loop over the receiver writes one frame, once there is room for it.
Forward(c) ==
    /\ handler[c] = "draining"
    /\ channel[c] > 0
    /\ client[c] # "gone"
    /\ Len(wire[c]) < Room
    /\ channel' = [channel EXCEPT ![c] = @ - 1]
    /\ wire' = [wire EXCEPT ![c] = Append(@, Progress)]
    /\ UNCHANGED <<worker, result, table, signal, reports, handler, client, answer, stops>>

\* A slip: the handler leaves as soon as the client has.
ForwardFailsLeaves(c) ==
    /\ handler[c] = "draining"
    /\ channel[c] > 0
    /\ client[c] = "gone"
    /\ channel' = [channel EXCEPT ![c] = 0]
    /\ handler' = [handler EXCEPT ![c] = "over"]
    /\ UNCHANGED <<worker, result, table, signal, reports, wire, client, answer, stops>>

\* The write fails: the client is gone.  The receiver is dropped with whatever
\* it held and the worker is still waited for.
ForwardFails(c) ==
    /\ handler[c] = "draining"
    /\ channel[c] > 0
    /\ client[c] = "gone"
    /\ channel' = [channel EXCEPT ![c] = 0]
    /\ handler' = [handler EXCEPT ![c] = "joining"]
    /\ UNCHANGED <<worker, result, table, signal, reports, wire, client, answer, stops>>

\* A slip: the loop takes an empty channel for a closed one.
DrainedEarly(c) ==
    /\ handler[c] = "draining"
    /\ channel[c] = 0
    /\ handler' = [handler EXCEPT ![c] = "over"]
    /\ wire' = [wire EXCEPT ![c] = Append(@, DoneFrame(result[c]))]
    /\ UNCHANGED <<worker, result, table, signal, reports, channel, client, answer, stops>>

\* A slip: a clone of the sender outlives the job, so the channel stays open.
DrainedNever(c) ==
    /\ handler[c] = "draining"
    /\ channel[c] = 0
    /\ worker[c] = "unborn"
    /\ handler' = [handler EXCEPT ![c] = "joining"]
    /\ UNCHANGED <<worker, result, table, signal, reports, channel, wire, client, answer, stops>>

\* The channel closes when the last clone of the reporter is dropped, which is
\* when the job returns; what was sent before that is still delivered.
Drained(c) ==
    /\ handler[c] = "draining"
    /\ channel[c] = 0
    /\ worker[c] = "ended"
    /\ handler' = [handler EXCEPT ![c] = "joining"]
    /\ UNCHANGED <<worker, result, table, signal, reports, channel, wire, client, answer, stops>>

\* The join returns the result, and the result is the last frame.
Reply(c) ==
    /\ handler[c] = "joining"
    /\ worker[c] = "ended"
    /\ client[c] # "gone"
    /\ Len(wire[c]) < Room
    /\ wire' = [wire EXCEPT ![c] = Append(@, DoneFrame(result[c]))]
    /\ handler' = [handler EXCEPT ![c] = "over"]
    /\ UNCHANGED <<worker, result, table, signal, reports, channel, client, answer, stops>>

\* The result cannot be written: nobody is there, or it is over MAX_FRAME_BYTES.
\* Only a survey's findings can be that long.
ReplyFails(c) ==
    /\ handler[c] = "joining"
    /\ worker[c] = "ended"
    /\ client[c] = "gone" \/ result[c] = "finished"
    /\ handler' = [handler EXCEPT ![c] = "over"]
    /\ UNCHANGED <<worker, result, table, signal, reports, channel, wire, client, answer, stops>>

----------------------------------------------------------------------------
(* The caller, and whoever presses Stop.                                   *)

\* read_reply: progress is passed on, Done ends the exchange.
Read(c) ==
    /\ client[c] = "waiting"
    /\ wire[c] # <<>>
    /\ wire' = [wire EXCEPT ![c] = Tail(@)]
    /\ LET frame == Head(wire[c]) IN
         IF frame.kind = "done"
         THEN /\ client' = [client EXCEPT ![c] = "answered"]
              /\ answer' = [answer EXCEPT ![c] = frame.result]
         ELSE UNCHANGED <<client, answer>>
    /\ UNCHANGED <<worker, result, table, signal, reports, channel, handler, stops>>

\* The connection closed before Done: a read error, not an answer.
ReadFails(c) ==
    /\ client[c] = "waiting"
    /\ wire[c] = <<>>
    /\ handler[c] = "over"
    /\ client' = [client EXCEPT ![c] = "broken"]
    /\ UNCHANGED <<worker, result, table, signal, reports, channel, handler, wire, answer, stops>>

HangUp(c) ==
    /\ client[c] = "waiting"
    /\ client' = [client EXCEPT ![c] = "gone"]
    /\ wire' = [wire EXCEPT ![c] = <<>>]
    /\ UNCHANGED <<worker, result, table, signal, reports, channel, handler, answer, stops>>

\* A slip: every job is told to stop.
StopEveryone(c) ==
    /\ client[c] = "waiting"
    /\ c \notin stops
    /\ signal' = [d \in Conns |-> TRUE]
    /\ stops' = stops \cup {c}
    /\ UNCHANGED <<worker, result, table, reports, channel, handler, wire, client, answer>>

\* CancelJob: Context::stop_job, acknowledged whether or not it found the job.
Stop(c) ==
    /\ client[c] = "waiting"
    /\ c \notin stops
    /\ signal' = [d \in Conns |-> signal[d] \/ d = table[c]]
    /\ stops' = stops \cup {c}
    /\ UNCHANGED <<worker, result, table, reports, channel, handler, wire, client, answer>>

----------------------------------------------------------------------------

Worker(c) == Register(c) \/ Report(c) \/ SurveyEnds(c) \/ Finish(c)

Handler(c) == Forward(c) \/ ForwardFails(c) \/ Drained(c) \/ Reply(c) \/ ReplyFails(c)

Caller(c) == Read(c) \/ ReadFails(c)

Mishap(c) == StartFails(c) \/ SurveyFails(c) \/ Panic(c) \/ HangUp(c)

Next ==
    \E c \in Conns :
      Start(c) \/ Worker(c) \/ Handler(c) \/ Caller(c) \/ Stop(c) \/ Mishap(c)

\* A survey is finite and threads are scheduled.  Nothing is asked of a client,
\* and no mishap is counted on to end a job.
Spec ==
    /\ Init
    /\ [][Next]_vars
    /\ \A c \in Conns : WF_vars(Worker(c)) /\ WF_vars(Handler(c))

\* A client that waits for its answer reads what it is sent.
ClientsRead == \A c \in Conns : WF_vars(Caller(c))

----------------------------------------------------------------------------

JobsTypeOK ==
    /\ worker \in [Conns -> {"unborn", "starting", "working", "leaving", "ended"}]
    /\ result \in [Conns -> Results]
    /\ table \in [Conns -> Conns \cup {None}]
    /\ signal \in [Conns -> BOOLEAN]
    /\ reports \in [Conns -> 0..MaxReports]
    /\ channel \in [Conns -> 0..MaxReports]
    /\ handler \in [Conns -> {"none", "draining", "joining", "over"}]
    /\ wire \in [Conns -> Seq(Frames)] /\ \A c \in Conns : Len(wire[c]) <= Room
    /\ client \in [Conns -> {"none", "waiting", "answered", "broken", "gone"}]
    /\ answer \in [Conns -> Results]
    /\ stops \subseteq Conns

\* "Remember a job's stop signal for as long as it runs": a working job can be
\* stopped, whatever its neighbours do meanwhile.
Remembered ==
    \A c \in Conns : worker[c] \in {"working", "leaving"} => table[c] = c

\* A job answers "stopped" only if somebody asked for that very job to stop.
StoppedOnlyWhenAsked ==
    \A c \in Conns : result[c] = "stopped" => c \in stops

\* "let the job finish and be joined rather than leaving a thread running ...
\* with nobody waiting on it": a handler leaves only after its job has.
JoinedBeforeLeaving ==
    \A c \in Conns : handler[c] = "over" => worker[c] = "ended"

\* "zero or more progress frames, then exactly one result": a caller that is
\* answered was given its own job's result after every report that was sent.
AnsweredInFull ==
    \A c \in Conns :
      client[c] = "answered" =>
        /\ worker[c] = "ended"
        /\ answer[c] = result[c]
        /\ wire[c] = <<>> /\ channel[c] = 0

\* A job ends whatever its client does: one that stops reading, or hangs up,
\* blocks the handler at most.
JobsEnd == \A c \in Conns : worker[c] = "working" ~> worker[c] = "ended"

\* A client that goes on reading gets its answer or an error, never silence.
EveryCallerHears ==
    ClientsRead => \A c \in Conns : client[c] = "waiting" ~> client[c] # "waiting"

(***************************************************************************)
(* The table of stop signals holds the jobs that run and only those can be *)
(* stopped: a job ends as stopped only when somebody asked to stop that    *)
(* job.                                                                    *)
(***************************************************************************)
StopsTheRightJob ==
    JobsTypeOK /\ Remembered /\ StoppedOnlyWhenAsked

(***************************************************************************)
(* run_request leaves only after its worker has ended, and a caller that   *)
(* was answered got every report that was sent before the answer.          *)
(***************************************************************************)
LeavesInOrder ==
    JoinedBeforeLeaving /\ AnsweredInFull

(***************************************************************************)
(* A job that began ends, whatever its caller does; and a caller who reads *)
(* what is sent is not left waiting.                                       *)
(***************************************************************************)
JobsAreAnswered ==
    JobsEnd /\ EveryCallerHears
=============================================================================
