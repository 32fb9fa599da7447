-------------------------- MODULE BackgroundProofs --------------------------
(***************************************************************************)
(* Proofs about what the agent does beside answering a request: long jobs, *)
(* for any number of connections, any number of reports and any room in    *)
(* the pipe; the behaviour watcher, for any entries, any length of its log *)
(* and any timing of its waits; and the comparison of the machine with     *)
(* itself, for any things, any gaps in the reading, any number of sweeps   *)
(* in flight and any threshold of comings and goings.                      *)
(***************************************************************************)
EXTENDS Jobs, Watcher, Sweep, SequenceTheorems, TLAPS

-----------------------------------------------------------------------------
(* Jobs.                                                                   *)

\* A signal is kept only under its own job's id.
TableInv == \A c \in Conns : table[c] \in Conns => table[c] = c

\* Only the job somebody asked to stop has its signal set.
SignalInv == \A c \in Conns : signal[c] => c \in stops

\* The three threads of a connection start together, and once the handler has
\* left its loop the channel stays empty.
HandlerInv ==
    \A c \in Conns :
        /\ worker[c] = "unborn" => handler[c] = "none" /\ client[c] = "none"
        /\ handler[c] # "draining" => channel[c] = 0
        /\ channel[c] <= reports[c]

\* A result on the wire is the last frame there, written by a handler that has
\* left, and is the result the job came to.
WireInv ==
    \A c \in Conns : \A k \in 1 .. Len(wire[c]) :
        wire[c][k].kind = "done" =>
            /\ k = Len(wire[c])
            /\ handler[c] = "over"
            /\ wire[c][k] = DoneFrame(result[c])

\* A caller that was answered has nothing left to read, and nobody left to
\* write it more.
AnswerInv == \A c \in Conns : client[c] = "answered" => handler[c] = "over" /\ wire[c] = <<>>

IInv ==
    /\ JobsTypeOK /\ Remembered /\ StoppedOnlyWhenAsked /\ JoinedBeforeLeaving
    /\ AnsweredInFull
    /\ TableInv /\ SignalInv /\ HandlerInv /\ WireInv /\ AnswerInv

\* One step of one connection.
Step(c) ==
    \/ Start(c) \/ StartFails(c) \/ Register(c) \/ Report(c) \/ SurveyEnds(c)
    \/ Finish(c) \/ Forward(c) \/ ForwardFails(c) \/ Drained(c) \/ Reply(c)
    \/ ReplyFails(c) \/ Read(c) \/ ReadFails(c) \/ Stop(c) \/ SurveyFails(c)
    \/ Panic(c) \/ HangUp(c)

-----------------------------------------------------------------------------
(* Types.                                                                  *)

\* What is put on a wire is a frame.
LEMMA FrameType == Progress \in Frames /\ \A r \in Results : DoneFrame(r) \in Frames
  BY DEF Frames

\* Every step of one connection keeps the types.
LEMMA StepType ==
  ASSUME IInv, NEW c \in Conns, Step(c)
  PROVE  JobsTypeOK'
<1>1. CASE Start(c)
  BY <1>1, JobsAssumption DEF Start, IInv, JobsTypeOK, HandlerInv, Results
<1>2. CASE StartFails(c)
  BY <1>2, JobsAssumption DEF StartFails, IInv, JobsTypeOK, HandlerInv, Results
<1>3. CASE Register(c)
  BY <1>3, JobsAssumption DEF Register, IInv, JobsTypeOK, HandlerInv, Results
<1>4. CASE Report(c)
  BY <1>4, JobsAssumption DEF Report, IInv, JobsTypeOK, HandlerInv, Results
<1>5. CASE SurveyEnds(c)
  BY <1>5, JobsAssumption DEF SurveyEnds, IInv, JobsTypeOK, HandlerInv, Results
<1>6. CASE Finish(c)
  BY <1>6, JobsAssumption DEF Finish, IInv, JobsTypeOK, HandlerInv, Results
<1>7. CASE Forward(c)
  <2>1. Progress \in Frames
    BY FrameType DEF IInv, JobsTypeOK
  <2>2. /\ Append(wire[c], Progress) \in Seq(Frames)
        /\ Len(Append(wire[c], Progress)) = Len(wire[c]) + 1
    BY <2>1, AppendProperties DEF IInv, JobsTypeOK
  <2>3. wire' \in [Conns -> Seq(Frames)] /\ \A d \in Conns : Len(wire'[d]) <= Room
    BY <1>7, <2>2, JobsAssumption DEF Forward, IInv, JobsTypeOK
  <2>4. channel' \in [Conns -> 0 .. MaxReports]
    BY <1>7, JobsAssumption DEF Forward, IInv, JobsTypeOK
  <2> QED BY <1>7, <2>3, <2>4 DEF Forward, IInv, JobsTypeOK
<1>8. CASE ForwardFails(c)
  BY <1>8, JobsAssumption DEF ForwardFails, IInv, JobsTypeOK, HandlerInv, Results
<1>9. CASE Drained(c)
  BY <1>9, JobsAssumption DEF Drained, IInv, JobsTypeOK, HandlerInv, Results
<1>10. CASE Reply(c)
  <2>1. DoneFrame(result[c]) \in Frames
    BY FrameType DEF IInv, JobsTypeOK
  <2>2. /\ Append(wire[c], DoneFrame(result[c])) \in Seq(Frames)
        /\ Len(Append(wire[c], DoneFrame(result[c]))) = Len(wire[c]) + 1
    BY <2>1, AppendProperties DEF IInv, JobsTypeOK
  <2>3. wire' \in [Conns -> Seq(Frames)] /\ \A d \in Conns : Len(wire'[d]) <= Room
    BY <1>10, <2>2, JobsAssumption DEF Reply, IInv, JobsTypeOK
  <2> QED BY <1>10, <2>3 DEF Reply, IInv, JobsTypeOK
<1>11. CASE ReplyFails(c)
  BY <1>11, JobsAssumption DEF ReplyFails, IInv, JobsTypeOK, HandlerInv, Results
<1>12. CASE Read(c)
  <2>1. Tail(wire[c]) \in Seq(Frames) /\ Len(Tail(wire[c])) = Len(wire[c]) - 1
    BY <1>12, EmptySeq, HeadTailProperties DEF Read, IInv, JobsTypeOK
  <2>2. Head(wire[c]) \in Frames /\ Head(wire[c]).result \in Results
    <3>1. Head(wire[c]) \in Frames
      BY <1>12, HeadTailProperties DEF Read, IInv, JobsTypeOK
    <3>2. \A f \in Frames : f.result \in Results
      BY DEF Frames, Progress, DoneFrame, Results
    <3> QED BY <3>1, <3>2
  <2>3. wire' \in [Conns -> Seq(Frames)] /\ \A d \in Conns : Len(wire'[d]) <= Room
    BY <1>12, <2>1, JobsAssumption DEF Read, IInv, JobsTypeOK
  <2>4. /\ client' \in [Conns -> {"none", "waiting", "answered", "broken", "gone"}]
        /\ answer' \in [Conns -> Results]
    BY <1>12, <2>2 DEF Read, IInv, JobsTypeOK
  <2> QED BY <1>12, <2>3, <2>4 DEF Read, IInv, JobsTypeOK
<1>13. CASE ReadFails(c)
  BY <1>13, JobsAssumption DEF ReadFails, IInv, JobsTypeOK, HandlerInv, Results
<1>14. CASE Stop(c)
  BY <1>14, JobsAssumption DEF Stop, IInv, JobsTypeOK, HandlerInv, Results
<1>15. CASE SurveyFails(c)
  BY <1>15, JobsAssumption DEF SurveyFails, IInv, JobsTypeOK, HandlerInv, Results
<1>16. CASE Panic(c)
  BY <1>16, JobsAssumption DEF Panic, IInv, JobsTypeOK, HandlerInv, Results
<1>17. CASE HangUp(c)
  BY <1>17, JobsAssumption DEF HangUp, IInv, JobsTypeOK, HandlerInv, Results
<1> QED
  BY <1>1, <1>2, <1>3, <1>4, <1>5, <1>6, <1>7, <1>8, <1>9, <1>10, <1>11,
     <1>12, <1>13, <1>14, <1>15, <1>16, <1>17 DEF Step

-----------------------------------------------------------------------------
(* The table of stop signals.                                              *)

SignalsKept == Remembered /\ StoppedOnlyWhenAsked /\ TableInv /\ SignalInv

\* Every step of one connection leaves the other jobs' signals alone.
LEMMA StepTable ==
  ASSUME IInv, NEW c \in Conns, Step(c)
  PROVE  SignalsKept'
<1> USE DEF SignalsKept, IInv
<1>a. ASSUME UNCHANGED <<table, signal, stops>>,
             \A d \in Conns : /\ result'[d] = "stopped" => result[d] = "stopped" \/ signal[d]
                              /\ worker'[d] \in {"working", "leaving"} =>
                                     worker[d] \in {"working", "leaving"}
      PROVE  SignalsKept'
  BY <1>a DEF Remembered, StoppedOnlyWhenAsked, TableInv, SignalInv
<1>1. CASE Start(c)
  BY <1>1, <1>a DEF Start, JobsTypeOK
<1>2. CASE StartFails(c)
  BY <1>2, <1>a DEF StartFails, JobsTypeOK
<1>3. CASE Register(c)
  <2>2. Remembered'
    BY <1>3 DEF Register, Remembered, JobsTypeOK
  <2>3. TableInv' /\ SignalInv'
    BY <1>3, JobsAssumption DEF Register, TableInv, SignalInv, JobsTypeOK
  <2>4. StoppedOnlyWhenAsked'
    BY <1>3 DEF Register, StoppedOnlyWhenAsked, SignalInv, JobsTypeOK
  <2> QED BY <2>2, <2>3, <2>4
<1>4. CASE Report(c)
  BY <1>4, <1>a DEF Report, JobsTypeOK
<1>5. CASE SurveyEnds(c)
  BY <1>5, <1>a DEF SurveyEnds, JobsTypeOK
<1>6. CASE Finish(c)
  <2>2. Remembered'
    BY <1>6 DEF Finish, Remembered, JobsTypeOK
  <2>3. TableInv' /\ SignalInv'
    BY <1>6, JobsAssumption DEF Finish, TableInv, SignalInv, JobsTypeOK
  <2>4. StoppedOnlyWhenAsked'
    BY <1>6 DEF Finish, StoppedOnlyWhenAsked, SignalInv, JobsTypeOK
  <2> QED BY <2>2, <2>3, <2>4
<1>7. CASE Forward(c)
  BY <1>7, <1>a DEF Forward, JobsTypeOK
<1>8. CASE ForwardFails(c)
  BY <1>8, <1>a DEF ForwardFails, JobsTypeOK
<1>9. CASE Drained(c)
  BY <1>9, <1>a DEF Drained, JobsTypeOK
<1>10. CASE Reply(c)
  BY <1>10, <1>a DEF Reply, JobsTypeOK
<1>11. CASE ReplyFails(c)
  BY <1>11, <1>a DEF ReplyFails, JobsTypeOK
<1>12. CASE Read(c)
  BY <1>12, <1>a DEF Read, JobsTypeOK
<1>13. CASE ReadFails(c)
  BY <1>13, <1>a DEF ReadFails, JobsTypeOK
<1>14. CASE Stop(c)
  <2>1. \A d \in Conns : d = table[c] => d = c
    BY JobsAssumption DEF TableInv
  <2>2. SignalInv'
    BY <1>14, <2>1 DEF Stop, SignalInv, JobsTypeOK
  <2> QED BY <1>14, <2>2 DEF Stop, Remembered, StoppedOnlyWhenAsked, TableInv
<1>15. CASE SurveyFails(c)
  BY <1>15, <1>a DEF SurveyFails, JobsTypeOK
<1>16. CASE Panic(c)
  BY <1>16, <1>a DEF Panic, JobsTypeOK
<1>17. CASE HangUp(c)
  BY <1>17, <1>a DEF HangUp, JobsTypeOK
<1> QED
  BY <1>1, <1>2, <1>3, <1>4, <1>5, <1>6, <1>7, <1>8, <1>9, <1>10, <1>11,
     <1>12, <1>13, <1>14, <1>15, <1>16, <1>17 DEF Step

-----------------------------------------------------------------------------
(* The order in which the threads of a connection leave.                   *)

ThreadsInOrder == JoinedBeforeLeaving /\ AnsweredInFull /\ HandlerInv /\ WireInv /\ AnswerInv

\* Every step of one connection keeps its threads in order.
LEMMA StepOrder ==
  ASSUME IInv, NEW c \in Conns, Step(c), JobsTypeOK'
  PROVE  ThreadsInOrder'
<1> USE DEF ThreadsInOrder, IInv
<1> DEFINE At(d) ==
      /\ handler[d] = "over" => worker[d] = "ended"
      /\ client[d] = "answered" =>
           /\ worker[d] = "ended" /\ answer[d] = result[d]
           /\ wire[d] = <<>> /\ channel[d] = 0 /\ handler[d] = "over"
      /\ worker[d] = "unborn" => handler[d] = "none" /\ client[d] = "none"
      /\ handler[d] # "draining" => channel[d] = 0
      /\ channel[d] <= reports[d]
      /\ \A k \in 1 .. Len(wire[d]) :
            wire[d][k].kind = "done" =>
              k = Len(wire[d]) /\ handler[d] = "over" /\ wire[d][k] = DoneFrame(result[d])
<1>a. At(c)
  BY DEF JoinedBeforeLeaving, AnsweredInFull, HandlerInv, WireInv, AnswerInv
<1>b. ASSUME At(c)',
             \A d \in Conns \ {c} :
                /\ worker'[d] = worker[d] /\ result'[d] = result[d]
                /\ reports'[d] = reports[d] /\ channel'[d] = channel[d]
                /\ handler'[d] = handler[d] /\ wire'[d] = wire[d]
                /\ client'[d] = client[d] /\ answer'[d] = answer[d]
      PROVE  ThreadsInOrder'
  BY <1>b DEF JoinedBeforeLeaving, AnsweredInFull, HandlerInv, WireInv, AnswerInv
<1>d. ASSUME NEW d \in Conns \ {c}
      PROVE  /\ worker'[d] = worker[d] /\ result'[d] = result[d]
             /\ reports'[d] = reports[d] /\ channel'[d] = channel[d]
             /\ handler'[d] = handler[d] /\ wire'[d] = wire[d]
             /\ client'[d] = client[d] /\ answer'[d] = answer[d]
  <2>1. CASE Start(c)
    BY <2>1 DEF Start, JobsTypeOK
  <2>2. CASE StartFails(c)
    BY <2>2 DEF StartFails, JobsTypeOK
  <2>3. CASE Register(c)
    BY <2>3 DEF Register, JobsTypeOK
  <2>4. CASE Report(c)
    BY <2>4 DEF Report, JobsTypeOK
  <2>5. CASE SurveyEnds(c)
    BY <2>5 DEF SurveyEnds, JobsTypeOK
  <2>6. CASE Finish(c)
    BY <2>6 DEF Finish, JobsTypeOK
  <2>7. CASE Forward(c)
    BY <2>7 DEF Forward, JobsTypeOK
  <2>8. CASE ForwardFails(c)
    BY <2>8 DEF ForwardFails, JobsTypeOK
  <2>9. CASE Drained(c)
    BY <2>9 DEF Drained, JobsTypeOK
  <2>10. CASE Reply(c)
    BY <2>10 DEF Reply, JobsTypeOK
  <2>11. CASE ReplyFails(c)
    BY <2>11 DEF ReplyFails, JobsTypeOK
  <2>12. CASE Read(c)
    BY <2>12 DEF Read, JobsTypeOK
  <2>13. CASE ReadFails(c)
    BY <2>13 DEF ReadFails, JobsTypeOK
  <2>14. CASE Stop(c)
    BY <2>14 DEF Stop, JobsTypeOK
  <2>15. CASE SurveyFails(c)
    BY <2>15 DEF SurveyFails, JobsTypeOK
  <2>16. CASE Panic(c)
    BY <2>16 DEF Panic, JobsTypeOK
  <2>17. CASE HangUp(c)
    BY <2>17 DEF HangUp, JobsTypeOK
  <2> QED
    BY <2>1, <2>2, <2>3, <2>4, <2>5, <2>6, <2>7, <2>8, <2>9, <2>10, <2>11,
       <2>12, <2>13, <2>14, <2>15, <2>16, <2>17 DEF Step
<1>e. /\ reports[c] \in Nat /\ channel[c] \in Nat /\ wire[c] \in Seq(Frames)
      /\ Len(wire[c]) \in Nat /\ \A k \in 1 .. Len(wire[c]) : wire[c][k] \in Frames
  BY JobsAssumption, LenProperties, ElementOfSeq DEF JobsTypeOK
<1>1. CASE Start(c)
  <2>1. At(c)'
    BY <1>1, <1>a, <1>e DEF Start, JobsTypeOK
  <2> QED BY <1>b, <1>d, <2>1
<1>2. CASE StartFails(c)
  <2>1. At(c)'
    BY <1>2, <1>a, <1>e DEF StartFails, JobsTypeOK
  <2> QED BY <1>b, <1>d, <2>1
<1>3. CASE Register(c)
  <2>1. At(c)'
    BY <1>3, <1>a, <1>e DEF Register, JobsTypeOK
  <2> QED BY <1>b, <1>d, <2>1
<1>4. CASE Report(c)
  <2>1. At(c)'
    BY <1>4, <1>a, <1>e DEF Report, JobsTypeOK
  <2> QED BY <1>b, <1>d, <2>1
<1>5. CASE SurveyEnds(c)
  <2>1. At(c)'
    BY <1>5, <1>a, <1>e DEF SurveyEnds, JobsTypeOK
  <2> QED BY <1>b, <1>d, <2>1
<1>6. CASE Finish(c)
  <2>1. At(c)'
    BY <1>6, <1>a, <1>e DEF Finish, JobsTypeOK
  <2> QED BY <1>b, <1>d, <2>1
<1>7. CASE Forward(c)
  <2>1. wire'[c] = Append(wire[c], Progress) /\ channel'[c] = channel[c] - 1
    BY <1>7 DEF Forward, JobsTypeOK
  <2>2. /\ Len(wire'[c]) = Len(wire[c]) + 1
        /\ \A k \in 1 .. Len(wire'[c]) :
             \/ wire'[c][k] = wire[c][k] /\ k <= Len(wire[c])
             \/ wire'[c][k] = Progress
    BY <1>e, <2>1, FrameType, AppendProperties
  <2>3. \A k \in 1 .. Len(wire'[c]) : wire'[c][k].kind # "done"
    BY <1>7, <1>a, <1>e, <2>2 DEF Forward, Progress
  <2>4. At(c)'
    <3>1. channel'[c] <= reports'[c]
      BY <1>7, <1>a, <1>e, <2>1 DEF Forward
    <3>2. /\ handler'[c] = "draining" /\ client'[c] # "answered" /\ worker'[c] # "unborn"
      BY <1>7, <1>a DEF Forward
    <3> QED BY <2>3, <3>1, <3>2
  <2> QED BY <1>b, <1>d, <2>4
<1>8. CASE ForwardFails(c)
  <2>1. /\ handler[c] = "draining" /\ handler'[c] = "joining"
        /\ client[c] = "gone" /\ channel'[c] = 0
        /\ worker' = worker /\ result' = result /\ reports' = reports
        /\ wire' = wire /\ client' = client /\ answer' = answer
    BY <1>8 DEF ForwardFails, JobsTypeOK
  <2>2. worker[c] # "unborn" /\ \A k \in 1 .. Len(wire[c]) : wire[c][k].kind # "done"
    BY <1>a, <2>1
  <2>3. At(c)'
    BY <1>e, <2>1, <2>2
  <2> QED BY <1>b, <1>d, <2>3
<1>9. CASE Drained(c)
  <2>1. At(c)'
    BY <1>9, <1>a, <1>e DEF Drained, JobsTypeOK
  <2> QED BY <1>b, <1>d, <2>1
<1>10. CASE Reply(c)
  <2>1. wire'[c] = Append(wire[c], DoneFrame(result[c])) /\ handler'[c] = "over"
    BY <1>10 DEF Reply, JobsTypeOK
  <2>2. /\ Len(wire'[c]) = Len(wire[c]) + 1
        /\ wire'[c][Len(wire[c]) + 1] = DoneFrame(result[c])
        /\ \A k \in 1 .. Len(wire[c]) : wire'[c][k] = wire[c][k]
    BY <1>e, <2>1, FrameType, AppendProperties DEF JobsTypeOK
  <2>3. \A k \in 1 .. Len(wire[c]) : wire'[c][k].kind # "done"
    BY <1>10, <1>a, <2>2 DEF Reply
  <2>4. \A k \in 1 .. Len(wire'[c]) : wire'[c][k].kind = "done" =>
              k = Len(wire'[c]) /\ wire'[c][k] = DoneFrame(result'[c])
    BY <1>10, <1>e, <2>2, <2>3 DEF Reply
  <2>5. At(c)'
    BY <1>10, <1>a, <2>1, <2>4 DEF Reply
  <2> QED BY <1>b, <1>d, <2>5
<1>11. CASE ReplyFails(c)
  <2>1. At(c)'
    BY <1>11, <1>a, <1>e DEF ReplyFails, JobsTypeOK
  <2> QED BY <1>b, <1>d, <2>1
<1>12. CASE Read(c)
  <2>1. /\ wire[c] # <<>> /\ wire'[c] = Tail(wire[c])
        /\ IF Head(wire[c]).kind = "done"
           THEN client'[c] = "answered" /\ answer'[c] = Head(wire[c]).result
           ELSE client'[c] = client[c] /\ answer'[c] = answer[c]
    BY <1>12 DEF Read, JobsTypeOK
  <2>2. /\ Len(wire'[c]) = Len(wire[c]) - 1 /\ Head(wire[c]) = wire[c][1]
        /\ \A k \in 1 .. Len(wire'[c]) : wire'[c][k] = wire[c][k + 1]
        /\ Len(wire'[c]) = 0 => wire'[c] = <<>>
    BY <1>e, <2>1, HeadTailProperties, EmptySeq
  <2>3. \A k \in 1 .. Len(wire'[c]) : wire'[c][k].kind = "done" =>
              k = Len(wire'[c]) /\ handler[c] = "over" /\ wire'[c][k] = DoneFrame(result[c])
    BY <1>a, <1>e, <2>2
  <2>4. ASSUME Head(wire[c]).kind = "done"
        PROVE  /\ wire'[c] = <<>> /\ handler[c] = "over"
               /\ Head(wire[c]) = DoneFrame(result[c])
    <3>1. Len(wire[c]) >= 1
      BY <1>e, <2>1, EmptySeq
    <3> QED BY <1>a, <1>e, <2>2, <2>4, <3>1
  <2>5. At(c)'
    BY <1>12, <1>a, <2>1, <2>3, <2>4 DEF Read, DoneFrame
  <2> QED BY <1>b, <1>d, <2>5
<1>13. CASE ReadFails(c)
  <2>1. At(c)'
    BY <1>13, <1>a, <1>e DEF ReadFails, JobsTypeOK
  <2> QED BY <1>b, <1>d, <2>1
<1>14. CASE Stop(c)
  <2>1. At(c)'
    BY <1>14, <1>a, <1>e DEF Stop, JobsTypeOK
  <2> QED BY <1>b, <1>d, <2>1
<1>15. CASE SurveyFails(c)
  <2>1. At(c)'
    BY <1>15, <1>a, <1>e DEF SurveyFails, JobsTypeOK
  <2> QED BY <1>b, <1>d, <2>1
<1>16. CASE Panic(c)
  <2>1. At(c)'
    BY <1>16, <1>a, <1>e DEF Panic, JobsTypeOK
  <2> QED BY <1>b, <1>d, <2>1
<1>17. CASE HangUp(c)
  <2>1. wire'[c] = <<>> /\ client'[c] = "gone"
    BY <1>17 DEF HangUp, JobsTypeOK
  <2>2. At(c)'
    BY <1>17, <1>a, <2>1 DEF HangUp
  <2> QED BY <1>b, <1>d, <2>2
<1> QED
  BY <1>1, <1>2, <1>3, <1>4, <1>5, <1>6, <1>7, <1>8, <1>9, <1>10, <1>11,
     <1>12, <1>13, <1>14, <1>15, <1>16, <1>17 DEF Step

-----------------------------------------------------------------------------

\* The initial states satisfy the invariant.
LEMMA InitInv == Init => IInv
<1> SUFFICES ASSUME Init PROVE IInv
  OBVIOUS
<1>1. \A c \in Conns : wire[c] = <<>> /\ Len(wire[c]) = 0
  BY DEF Init
<1>2. wire \in [Conns -> Seq(Frames)] /\ \A c \in Conns : Len(wire[c]) <= Room
  BY <1>1, JobsAssumption DEF Init
<1>3. signal \in [Conns -> BOOLEAN]
  BY Zenon DEF Init
<1>4. JobsTypeOK
  BY <1>2, <1>3, JobsAssumption DEF Init, JobsTypeOK, Results
<1>5. Remembered /\ StoppedOnlyWhenAsked /\ TableInv /\ SignalInv
  BY JobsAssumption DEF Init, Remembered, StoppedOnlyWhenAsked, TableInv, SignalInv
<1>6. JoinedBeforeLeaving /\ AnsweredInFull /\ HandlerInv /\ AnswerInv
  BY DEF Init, JoinedBeforeLeaving, AnsweredInFull, HandlerInv, AnswerInv
<1>7. WireInv
  BY <1>1 DEF WireInv
<1> QED BY <1>4, <1>5, <1>6, <1>7 DEF IInv

\* Every step keeps the invariant.
LEMMA NextInv == IInv /\ [Next]_vars => IInv'
<1> SUFFICES ASSUME IInv, [Next]_vars PROVE IInv'
  OBVIOUS
<1>1. CASE UNCHANGED vars
  BY <1>1 DEF vars, IInv, JobsTypeOK, Remembered, StoppedOnlyWhenAsked,
     JoinedBeforeLeaving, AnsweredInFull, TableInv, SignalInv, HandlerInv, WireInv, AnswerInv
<1>2. ASSUME NEW c \in Conns, Step(c) PROVE IInv'
  BY <1>2, StepType, StepTable, StepOrder DEF IInv, SignalsKept, ThreadsInOrder
<1> QED BY <1>1, <1>2 DEF Next, Step, Worker, Handler, Caller, Mishap

\* The invariant holds in every reachable state.
LEMMA InvAlways == Spec => []IInv
  BY InitInv, NextInv, PTL DEF Spec

\* For any number of jobs, the table holds every job that runs, and a job ends
\* as stopped only when somebody asked to stop that job.
THEOREM StopsTheRightJobAlways == Spec => []StopsTheRightJob
<1>1. IInv => StopsTheRightJob
  BY DEF IInv, StopsTheRightJob
<1> QED BY <1>1, InvAlways, PTL

\* For any number of reports and any room in the pipe, run_request leaves after
\* its worker, and an answered caller had every report before its own result.
THEOREM LeavesInOrderAlways == Spec => []LeavesInOrder
<1>1. IInv => LeavesInOrder
  BY DEF IInv, LeavesInOrder
<1> QED BY <1>1, InvAlways, PTL

-----------------------------------------------------------------------------
(* The behaviour watcher.                                                   *)

\* There are observations to record only in the pass that made them, a pass is
\* made while watching, and whoever is not watching has nothing learned.
PassInv ==
    /\ pc # "record" => pending = {}
    /\ pc = "sweep" => watching
    /\ ~watching /\ pc # "stopped" => first

\* What was there when the watch began is still there, and once the first pass
\* is over all of it that this pass could see has been learned.
LearnedInv ==
    /\ old \subseteq present
    /\ ~first => old \ unseen \subseteq baseline

WatcherInv == WatcherTypeOK /\ OnlyArrivals /\ PassInv /\ LearnedInv

-----------------------------------------------------------------------------
(* Types.                                                                  *)

\* The log keeps its type and its bound.
LEMMA PushedType ==
  ASSUME WatcherTypeOK, NEW e \in Shady
  PROVE  Pushed(e) \in Seq(Shady) /\ Len(Pushed(e)) <= Keep
<1> DEFINE longer == <<e>> \o log
           n == IF Len(longer) > Keep THEN Keep ELSE Len(longer)
<1>a. <<e>> \in Seq(Shady)
  OBVIOUS
<1>1. <<e>> \in Seq(Shady) /\ log \in Seq(Shady)
  BY <1>a, Zenon DEF WatcherTypeOK
<1>2. longer \in Seq(Shady) /\ Len(longer) \in Nat
  BY <1>1, ConcatProperties, LenProperties
<1>3. n \in 0 .. Len(longer) /\ n <= Keep /\ Keep \in Nat
  BY <1>2, WatcherAssumption
<1>4. \A i \in 1 .. n : longer[i] \in Shady
  BY <1>2, <1>3, ElementOfSeq
<1> HIDE DEF longer, n
<1>5. SubSeq(longer, 1, n) \in Seq(Shady) /\ Len(SubSeq(longer, 1, n)) <= Keep
  BY <1>2, <1>3, <1>4, SubSeqProperties
<1> QED BY <1>5 DEF Pushed, longer, n

\* Every step keeps the types.
LEMMA NextType ==
  ASSUME WatcherInv, WatcherNext
  PROVE  WatcherTypeOK'
<1> USE DEF WatcherInv
<1> DEFINE Switches == {first, watching, store, protection, shutdown}
<1>0. /\ first \in BOOLEAN /\ watching \in BOOLEAN /\ store \in BOOLEAN
      /\ protection \in BOOLEAN /\ shutdown \in BOOLEAN
  BY Zenon DEF WatcherTypeOK
<1>t. /\ pc \in {"top", "sweep", "record", "wait on", "wait off", "stopped"}
      /\ elapsed \in 0 .. Interval /\ baseline \subseteq Entries
      /\ pending \subseteq Shady /\ present \subseteq Entries /\ dark \subseteq Hidable
      /\ audit \subseteq Shady /\ old \subseteq Entries /\ unseen \subseteq Entries
  BY Zenon DEF WatcherTypeOK
<1>i. Interval \in Nat /\ 0 \in 0 .. Interval
  BY WatcherAssumption
<1>a. ASSUME first' \in BOOLEAN, watching' \in BOOLEAN, store' \in BOOLEAN,
             protection' \in BOOLEAN, shutdown' \in BOOLEAN
      PROVE  Switches' \subseteq BOOLEAN
  BY <1>a, Zenon
<1> HIDE DEF Switches
<1>b. ASSUME Switches' \subseteq BOOLEAN, UNCHANGED <<log>>,
             pc' \in {"top", "sweep", "record", "wait on", "wait off", "stopped"},
             elapsed' \in 0 .. Interval, baseline' \subseteq Entries,
             pending' \subseteq Shady, present' \subseteq Entries, dark' \subseteq Hidable,
             audit' \subseteq Shady, old' \subseteq Entries, unseen' \subseteq Entries
      PROVE  WatcherTypeOK'
  BY <1>b DEF WatcherTypeOK, Switches
<1>1. CASE StandDown
  <2>1. /\ first' \in BOOLEAN /\ watching' \in BOOLEAN /\ store' \in BOOLEAN
        /\ protection' \in BOOLEAN /\ shutdown' \in BOOLEAN
    BY <1>0, <1>1, Zenon DEF StandDown, outside, Forget
  <2>2. Switches' \subseteq BOOLEAN
    BY <1>a, <2>1
  <2>3. elapsed' \in 0 .. Interval
    BY <1>i, <1>1, Zenon DEF StandDown
  <2> QED BY <1>b, <1>t, <1>1, <2>2, <2>3 DEF StandDown, outside, Forget
<1>2. CASE LookAgain
  <2>1. /\ first' \in BOOLEAN /\ watching' \in BOOLEAN /\ store' \in BOOLEAN
        /\ protection' \in BOOLEAN /\ shutdown' \in BOOLEAN
    BY <1>0, <1>2, Zenon DEF LookAgain, outside
  <2>2. Switches' \subseteq BOOLEAN
    BY <1>a, <2>1
  <2> QED BY <1>b, <1>t, <1>2, <2>2, WatcherAssumption DEF LookAgain, outside
<1>3. CASE Snapshot
  <2>1. /\ first' \in BOOLEAN /\ watching' \in BOOLEAN /\ store' \in BOOLEAN
        /\ protection' \in BOOLEAN /\ shutdown' \in BOOLEAN
    BY <1>0, <1>3, Zenon DEF Snapshot, outside
  <2>2. Switches' \subseteq BOOLEAN
    BY <1>a, <2>1
  <2> QED BY <1>b, <1>t, <1>3, <2>2, WatcherAssumption DEF Snapshot, outside
<1>4. CASE Recorded
  <2>1. /\ first' \in BOOLEAN /\ watching' \in BOOLEAN /\ store' \in BOOLEAN
        /\ protection' \in BOOLEAN /\ shutdown' \in BOOLEAN
    BY <1>0, <1>4, Zenon DEF Recorded, outside
  <2>2. Switches' \subseteq BOOLEAN
    BY <1>a, <2>1
  <2>3. elapsed' \in 0 .. Interval
    BY <1>i, <1>4, Zenon DEF Recorded
  <2> QED BY <1>b, <1>t, <1>4, <2>2, <2>3 DEF Recorded, outside
<1>5. CASE WaitStops
  <2>1. /\ first' \in BOOLEAN /\ watching' \in BOOLEAN /\ store' \in BOOLEAN
        /\ protection' \in BOOLEAN /\ shutdown' \in BOOLEAN
    BY <1>0, <1>5, Zenon DEF WaitStops, outside
  <2>2. Switches' \subseteq BOOLEAN
    BY <1>a, <2>1
  <2> QED BY <1>b, <1>t, <1>5, <2>2, WatcherAssumption DEF WaitStops, outside, Waiting
<1>6. CASE WaitSwitched
  <2>1. /\ first' \in BOOLEAN /\ watching' \in BOOLEAN /\ store' \in BOOLEAN
        /\ protection' \in BOOLEAN /\ shutdown' \in BOOLEAN
    BY <1>0, <1>6, Zenon DEF WaitSwitched, outside
  <2>2. Switches' \subseteq BOOLEAN
    BY <1>a, <2>1
  <2> QED BY <1>b, <1>t, <1>6, <2>2, WatcherAssumption DEF WaitSwitched, outside
<1>7. CASE WaitSleeps
  <2>1. /\ first' \in BOOLEAN /\ watching' \in BOOLEAN /\ store' \in BOOLEAN
        /\ protection' \in BOOLEAN /\ shutdown' \in BOOLEAN
    BY <1>0, <1>7, Zenon DEF WaitSleeps, outside
  <2>2. Switches' \subseteq BOOLEAN
    BY <1>a, <2>1
  <2>3. elapsed' \in 0 .. Interval
    <3>1. elapsed' = elapsed + 1 /\ elapsed < Interval
      BY <1>7, Zenon DEF WaitSleeps, Waiting
    <3>2. elapsed \in 0 .. Interval
      BY <1>t
    <3> QED BY <1>i, <3>1, <3>2
  <2> QED BY <1>b, <1>t, <1>7, <2>2, <2>3 DEF WaitSleeps, outside, Waiting
<1>8. CASE WaitOver
  <2>1. /\ first' \in BOOLEAN /\ watching' \in BOOLEAN /\ store' \in BOOLEAN
        /\ protection' \in BOOLEAN /\ shutdown' \in BOOLEAN
    BY <1>0, <1>8, Zenon DEF WaitOver, outside
  <2>2. Switches' \subseteq BOOLEAN
    BY <1>a, <2>1
  <2> QED BY <1>b, <1>t, <1>8, <2>2, WatcherAssumption DEF WaitOver, outside
<1>9. ASSUME NEW e \in Entries, Record(e) PROVE WatcherTypeOK'
  <2>1. e \in Shady
    BY <1>9 DEF Record, WatcherTypeOK
  <2>2. log' \in Seq(Shady) /\ Len(log') <= Keep
    BY <1>9, <2>1, PushedType DEF Record
  <2> QED BY <1>9, <2>1, <2>2 DEF Record, outside, WatcherTypeOK
<1>10. ASSUME NEW e \in Entries, Install(e) \/ Uninstall(e) \/ SignsInOrOut(e)
      PROVE  WatcherTypeOK'
  BY <1>10, WatcherAssumption DEF Install, Uninstall, SignsInOrOut, watcher, WatcherTypeOK
<1>11. CASE SetProtection \/ Signal
  <2>1. /\ first' \in BOOLEAN /\ watching' \in BOOLEAN /\ store' \in BOOLEAN
        /\ protection' \in BOOLEAN /\ shutdown' \in BOOLEAN
    BY <1>0, <1>11, Zenon DEF SetProtection, Signal, watcher
  <2>2. Switches' \subseteq BOOLEAN
    BY <1>a, <2>1
  <2> QED BY <1>b, <1>t, <1>11, <2>2 DEF SetProtection, Signal, watcher
<1> QED
  BY <1>1, <1>2, <1>3, <1>4, <1>5, <1>6, <1>7, <1>8, <1>9, <1>10, <1>11
  DEF WatcherNext, Watch

-----------------------------------------------------------------------------
(* Arrivals.                                                               *)

\* Every step keeps what has been learned ahead of what is reported.
LEMMA NextArrivals ==
  ASSUME WatcherInv, WatcherNext
  PROVE  OnlyArrivals' /\ PassInv' /\ LearnedInv'
<1> USE DEF WatcherInv
<1>1. CASE StandDown
  BY <1>1 DEF StandDown, outside, OnlyArrivals, PassInv, LearnedInv, Forget
<1>2. CASE LookAgain
  BY <1>2 DEF LookAgain, outside, OnlyArrivals, PassInv, LearnedInv
<1>3. CASE Snapshot
  <2>1. watching
    BY <1>3 DEF Snapshot, PassInv
  <2> PICK unread \in SUBSET Entries :
         /\ baseline' = baseline \cup ((present \ dark) \ unread)
         /\ pending' = IF first THEN {}
                       ELSE (((present \ dark) \ unread) \ baseline) \cap Shady
         /\ unseen' = IF first THEN present \ ((present \ dark) \ unread) ELSE unseen
    BY <1>3 DEF Snapshot
  <2>2. old' = old /\ present' = present
    BY <1>3 DEF Snapshot, outside
  <2>3. LearnedInv'
    BY <2>2 DEF LearnedInv
  <2>4. OnlyArrivals'
    BY <2>2 DEF OnlyArrivals, LearnedInv
  <2> QED BY <1>3, <2>1, <2>3, <2>4 DEF Snapshot, PassInv
<1>4. CASE Recorded
  BY <1>4 DEF Recorded, outside, OnlyArrivals, PassInv, LearnedInv
<1>5. CASE WaitStops
  BY <1>5 DEF WaitStops, outside, OnlyArrivals, PassInv, LearnedInv, Waiting
<1>6. CASE WaitSwitched
  BY <1>6 DEF WaitSwitched, outside, OnlyArrivals, PassInv, LearnedInv, Waiting
<1>7. CASE WaitSleeps
  BY <1>7 DEF WaitSleeps, outside, OnlyArrivals, PassInv, LearnedInv, Waiting
<1>8. CASE WaitOver
  BY <1>8 DEF WaitOver, outside, OnlyArrivals, PassInv, LearnedInv
<1>9. ASSUME NEW e \in Entries,
             Record(e) \/ Install(e) \/ Uninstall(e) \/ SignsInOrOut(e)
      PROVE  OnlyArrivals' /\ PassInv' /\ LearnedInv'
  BY <1>9 DEF Record, Install, Uninstall, SignsInOrOut, outside, watcher, OnlyArrivals,
     PassInv, LearnedInv
<1>10. CASE SetProtection \/ Signal
  BY <1>10 DEF SetProtection, Signal, watcher, OnlyArrivals, PassInv, LearnedInv
<1> QED
  BY <1>1, <1>2, <1>3, <1>4, <1>5, <1>6, <1>7, <1>8, <1>9, <1>10
  DEF WatcherNext, Watch

-----------------------------------------------------------------------------

\* The initial states satisfy the invariant.
LEMMA WatcherInitInv == WatcherInit => WatcherInv
<1> SUFFICES ASSUME WatcherInit PROVE WatcherInv
  OBVIOUS
<1>1. {first, watching, store, protection, shutdown} \subseteq BOOLEAN
  BY Zenon DEF WatcherInit
<1>2. log \in Seq(Shady) /\ Len(log) <= Keep /\ elapsed \in 0 .. Interval
  BY WatcherAssumption DEF WatcherInit
<1>3. WatcherTypeOK
  BY <1>1, <1>2 DEF WatcherInit, WatcherTypeOK
<1>4. OnlyArrivals /\ PassInv /\ LearnedInv
  BY DEF WatcherInit, OnlyArrivals, PassInv, LearnedInv
<1> QED BY <1>3, <1>4 DEF WatcherInv

\* Every step keeps the invariant.
LEMMA WatcherNextInv == WatcherInv /\ [WatcherNext]_watcherVars => WatcherInv'
<1> SUFFICES ASSUME WatcherInv, [WatcherNext]_watcherVars PROVE WatcherInv'
  OBVIOUS
<1>1. CASE UNCHANGED watcherVars
  BY <1>1 DEF watcherVars, WatcherInv, WatcherTypeOK, OnlyArrivals, PassInv, LearnedInv
<1> QED BY <1>1, NextType, NextArrivals DEF WatcherInv

\* For any entries, failed reads and length of the log, what the watcher reports
\* arrived while it watched or was hidden from its first pass, and its log stays
\* within its bound.
THEOREM OnlyWhatArrivedAlways == WatcherSpec => []OnlyWhatArrived
<1>1. WatcherInv => OnlyWhatArrived
  BY DEF WatcherInv, OnlyWhatArrived
<1> QED BY <1>1, WatcherInitInv, WatcherNextInv, PTL DEF WatcherSpec

-----------------------------------------------------------------------------
(* The comparison of the machine with itself.                               *)

AllLooks == Looks \cup OldLooks

Collections ==
    [held : BOOLEAN, seen : [Things -> Looks \cup {Absent}],
     blind : SUBSET Things, moved : SUBSET Things]

\* What a reader believes of a thing is what its row says, but for a trust
\* that was filled in without a word.
Match(r, b) ==
    /\ r = Unseen <=> b = Unseen
    /\ r # Unseen =>
         /\ r.present <=> b.present
         /\ b.look.detail = r.look.detail
         /\ b.look.trust \in {r.look.trust, Unrecorded}

\* A row says what the last committed sweep that read the thing saw of it.
Keeps(r, o) ==
    /\ o = Unseen => r = Unseen
    /\ o = Absent => r = Unseen \/ ~r.present
    /\ o \notin {Unseen, Absent} => r # Unseen /\ r.present /\ r.look = o

RowsInv == \A t \in Things : Match(rows[t], told[t]) /\ Keeps(rows[t], observed[t])

\* Before the first sweep the table is empty.
BaselineInv == ~swept => \A t \in Things : rows[t] = Unseen

SweepInv == SweepTypeOK /\ sweeper \in [Sweepers -> Collections] /\ RowsInv /\ BaselineInv

-----------------------------------------------------------------------------
(* Rows, beliefs and looks.                                                *)

\* A look is not a marker, and has a detail and a trust.
LEMMA LookType ==
  /\ \A l \in AllLooks : l \notin {Absent, Unseen}
  /\ \A l \in Looks : l.trust # Unrecorded
<1>1. \A l \in AllLooks : \E x \in Details, y \in Trusts \cup {Unrecorded} : l = Look(x, y)
  BY DEF AllLooks, Looks, OldLooks
<1>2. \A l \in Looks : \E x \in Details, y \in Trusts : l = Look(x, y)
  BY DEF Looks
<1> QED BY <1>1, <1>2, SweepAssumption DEF Look

\* The row of a thing that is there and of one that has gone.
LEMMA RowType ==
  /\ \A l \in AllLooks, f \in 0 .. FlapsBeforeRecurring :
        /\ Row(TRUE, l, f) \in Rows /\ Row(FALSE, l, f) \in Rows
        /\ Row(TRUE, l, f) # Unseen /\ Row(FALSE, l, f) # Unseen
  /\ \A l, f :
        /\ Row(TRUE, l, f).present /\ ~Row(FALSE, l, f).present
        /\ Row(TRUE, l, f).look = l /\ Row(FALSE, l, f).look = l
  /\ \A r \in Rows : r.look \in AllLooks /\ r.flaps \in 0 .. FlapsBeforeRecurring
<1>7. \A p \in BOOLEAN, l \in AllLooks, f \in 0 .. FlapsBeforeRecurring : Row(p, l, f) \in Rows
  BY DEF Rows, AllLooks
<1>1. \A l \in AllLooks, f \in 0 .. FlapsBeforeRecurring :
         Row(TRUE, l, f) \in Rows /\ Row(FALSE, l, f) \in Rows
  BY <1>7, Zenon
<1>2. \A r \in Rows : r # Unseen
  BY MarkerAssumption
<1>3. \A l, f : Row(TRUE, l, f).present
  BY DEF Row
<1>6. \A l, f : ~Row(FALSE, l, f).present
  BY DEF Row
<1>5. \A l, f : Row(TRUE, l, f).look = l /\ Row(FALSE, l, f).look = l
  BY DEF Row
<1>4. ASSUME NEW r \in Rows
      PROVE  r.look \in AllLooks /\ r.flaps \in 0 .. FlapsBeforeRecurring
  <2>1. PICK p \in BOOLEAN, l \in AllLooks, f \in 0 .. FlapsBeforeRecurring : r = Row(p, l, f)
    BY DEF Rows, AllLooks
  <2> QED BY <2>1 DEF Row
<1> QED BY <1>1, <1>2, <1>3, <1>4, <1>5, <1>6, Zenon

\* The belief in a thing that is there and in one that has gone.
LEMMA BeliefType ==
  /\ \A l \in AllLooks :
        /\ Belief(TRUE, l) \in Beliefs /\ Belief(FALSE, l) \in Beliefs
        /\ Belief(TRUE, l) # Unseen /\ Belief(FALSE, l) # Unseen
  /\ \A l :
        /\ Belief(TRUE, l).present /\ ~Belief(FALSE, l).present
        /\ Belief(TRUE, l).look = l /\ Belief(FALSE, l).look = l
  /\ \A b \in Beliefs : b.look \in AllLooks /\ b.present \in BOOLEAN
<1>7. \A p \in BOOLEAN, l \in AllLooks : Belief(p, l) \in Beliefs
  BY DEF Beliefs, AllLooks
<1>1. \A l \in AllLooks : Belief(TRUE, l) \in Beliefs /\ Belief(FALSE, l) \in Beliefs
  BY <1>7, Zenon
<1>2. \A b \in Beliefs : b # Unseen
  BY MarkerAssumption
<1>3. \A l : Belief(TRUE, l).present
  BY DEF Belief
<1>6. \A l : ~Belief(FALSE, l).present
  BY DEF Belief
<1>5. \A l : Belief(TRUE, l).look = l /\ Belief(FALSE, l).look = l
  BY DEF Belief
<1>4. ASSUME NEW b \in Beliefs
      PROVE  b.look \in AllLooks /\ b.present \in BOOLEAN
  <2>1. PICK p \in BOOLEAN, l \in AllLooks : b = Belief(p, l)
    BY DEF Beliefs, AllLooks
  <2> QED BY <2>1, Zenon DEF Belief
<1> QED BY <1>1, <1>2, <1>3, <1>4, <1>5, <1>6, Zenon

-----------------------------------------------------------------------------
(* One thing in one committed sweep.                                       *)

\* The new belief of a thing that is not in a baseline.
Told(c, t) ==
    IF swept THEN BeliefAfter(c, t)
    ELSE IF c.seen[t] # Absent THEN Belief(TRUE, c.seen[t])
    ELSE told[t]

WasRead(c, t) == c.seen[t] # Absent \/ t \notin c.blind

\* Of a thing a sweep did not read, nothing is recorded and nothing is said.
LEMMA UnreadUntold ==
  ASSUME NEW c \in Collections, NEW t \in Things, ~WasRead(c, t)
  PROVE  Told(c, t) = told[t] /\ RowAfter(c, t) = rows[t]
<1>1. ~Missing(c, t) /\ c.seen[t] = Absent
  BY DEF Missing, WasRead
<1>2. ChangeOf(c, t) = "none"
  BY <1>1 DEF ChangeOf
<1> QED BY <1>1, <1>2 DEF Told, RowAfter, BeliefAfter

\* Whatever a sweep finds of a thing, its row and what is believed of it go on
\* agreeing with each other and with what was read.
LEMMA ThingInv ==
  ASSUME SweepInv, NEW c \in Collections, NEW t \in Things
  PROVE  /\ RowAfter(c, t) \in Rows \cup {Unseen}
         /\ Told(c, t) \in Beliefs \cup {Unseen}
         /\ Match(RowAfter(c, t), Told(c, t))
         /\ Keeps(RowAfter(c, t), IF WasRead(c, t) THEN c.seen[t] ELSE observed[t])
<1> DEFINE r == rows[t]
           b == told[t]
           l == c.seen[t]
<1>0. /\ r \in Rows \cup {Unseen} /\ b \in Beliefs \cup {Unseen}
      /\ Match(r, b) /\ Keeps(r, observed[t])
      /\ l \in Looks \cup {Absent}
      /\ ~swept => r = Unseen
  BY DEF SweepInv, SweepTypeOK, RowsInv, BaselineInv, Collections
<1>f. 0 \in 0 .. FlapsBeforeRecurring /\ Looks \subseteq AllLooks
  BY SweepAssumption DEF AllLooks
<1>k. ASSUME Known(t)
      PROVE  FlapsAfter(t) \in 0 .. FlapsBeforeRecurring
  BY <1>0, <1>k, RowType, SweepAssumption DEF Known, FlapsAfter
<1>1. CASE l = Absent /\ ~Missing(c, t)
  <2>1. RowAfter(c, t) = r /\ Told(c, t) = b
    BY <1>1 DEF RowAfter, Told, BeliefAfter, ChangeOf
  <2>2. WasRead(c, t) => r = Unseen \/ ~r.present
    BY <1>1 DEF WasRead, Missing, Known
  <2>3. Keeps(r, IF WasRead(c, t) THEN l ELSE observed[t])
    BY <1>0, <1>1, <2>2, SweepAssumption DEF Keeps
  <2> QED BY <1>0, <2>1, <2>3
<1>2. CASE l = Absent /\ Missing(c, t)
  <2>1. r # Unseen /\ r \in Rows /\ r.present /\ t \notin c.blind /\ swept /\ b # Unseen /\ b \in Beliefs
    BY <1>0, <1>2 DEF Missing, Known, Match
  <2>2. RowAfter(c, t) = Row(FALSE, r.look, r.flaps)
    BY <1>2 DEF RowAfter
  <2>3. b.present /\ b.present \in BOOLEAN
    BY <1>0, <2>1, BeliefType DEF Match
  <2>4. b.present = TRUE
    BY <2>3, Zenon
  <2>5. Told(c, t) = Belief(FALSE, b.look)
    BY <1>2, <2>1, <2>4 DEF Told, BeliefAfter, ChangeOf
  <2>a. r.look \in AllLooks /\ r.flaps \in 0 .. FlapsBeforeRecurring
    BY <2>1, RowType, Zenon
  <2>b. b.look \in AllLooks
    BY <2>1, BeliefType, Zenon
  <2>6. /\ RowAfter(c, t) \in Rows /\ RowAfter(c, t) # Unseen /\ ~RowAfter(c, t).present
        /\ RowAfter(c, t).look = r.look
    <3>1. Row(FALSE, r.look, r.flaps) \in Rows /\ Row(FALSE, r.look, r.flaps) # Unseen
      BY <2>a, RowType
    <3>2. /\ ~Row(FALSE, r.look, r.flaps).present
          /\ Row(FALSE, r.look, r.flaps).look = r.look
      BY RowType, Zenon
    <3> QED BY <2>2, <3>1, <3>2, Zenon
  <2>7. /\ Told(c, t) \in Beliefs /\ Told(c, t) # Unseen /\ ~Told(c, t).present
        /\ Told(c, t).look = b.look
    BY <2>5, <2>b, BeliefType, Zenon
  <2> QED BY <1>0, <1>2, <2>1, <2>6, <2>7, SweepAssumption DEF Match, Keeps, WasRead
<1>3. ASSUME l # Absent
      PROVE  /\ RowAfter(c, t) \in Rows
             /\ RowAfter(c, t) # Unseen /\ RowAfter(c, t).present /\ RowAfter(c, t).look = l
             /\ Keeps(RowAfter(c, t), IF WasRead(c, t) THEN l ELSE observed[t])
             /\ l \in Looks /\ l \in AllLooks
             /\ Belief(TRUE, l) \in Beliefs /\ Belief(TRUE, l) # Unseen
             /\ Belief(TRUE, l).present /\ Belief(TRUE, l).look = l
  <2>1. l \in Looks /\ l \in AllLooks
    BY <1>0, <1>3, <1>f
  <2>2. PICK f \in 0 .. FlapsBeforeRecurring : RowAfter(c, t) = Row(TRUE, l, f)
    BY <1>3, <1>f, <1>k DEF RowAfter
  <2>3. /\ RowAfter(c, t) \in Rows
        /\ RowAfter(c, t) # Unseen /\ RowAfter(c, t).present /\ RowAfter(c, t).look = l
    <3>1. Row(TRUE, l, f) \in Rows /\ Row(TRUE, l, f) # Unseen
      BY <2>1, RowType, Zenon
    <3>2. Row(TRUE, l, f).present /\ Row(TRUE, l, f).look = l
      BY RowType, Zenon
    <3> QED BY <2>2, <3>1, <3>2, Zenon
  <2>4. l \notin {Absent, Unseen}
    BY <2>1, LookType
  <2> QED BY <1>3, <2>1, <2>3, <2>4, BeliefType DEF Keeps, WasRead
<1>4. CASE l # Absent /\ Told(c, t) = Belief(TRUE, l)
  BY <1>3, <1>4 DEF Match
<1>5. CASE l # Absent /\ Told(c, t) # Belief(TRUE, l)
  <2>1. swept /\ ChangeOf(c, t) = SeenChange(t, l) /\ ChangeOf(c, t) \notin {"appeared", "altered"}
    BY <1>5 DEF Told, BeliefAfter, ChangeOf
  <2>2. /\ Known(t) /\ ~Altered(t, l)
        /\ IF Returned(t) THEN ChangeOf(c, t) = "recurring" ELSE ChangeOf(c, t) = "none"
    BY <2>1 DEF SeenChange
  <2>3. r # Unseen /\ r \in Rows /\ b # Unseen /\ b \in Beliefs
    BY <1>0, <2>2 DEF Known, Match
  <2>4. b.look.detail = l.detail /\ b.look.trust \in {l.trust, Unrecorded}
    BY <1>0, <2>2, <2>3 DEF Altered, TrustMoved, Match
  <2>5. b.present \in BOOLEAN /\ (r.present <=> b.present)
    BY <1>0, <2>3, BeliefType DEF Match
  <2>6. CASE Returned(t)
    <3>1. ~b.present
      BY <2>5, <2>6 DEF Returned
    <3>2. (~b.present) = TRUE
      BY <3>1, Zenon
    <3>3. Told(c, t) = Belief(TRUE, b.look)
      BY <2>1, <2>2, <2>6, <3>2 DEF Told, BeliefAfter
    <3>4. /\ Told(c, t) \in Beliefs /\ Told(c, t) # Unseen
          /\ Told(c, t).present /\ Told(c, t).look = b.look
      BY <2>3, <3>3, BeliefType
    <3> QED BY <1>3, <1>5, <2>4, <3>4 DEF Match
  <2>7. CASE ~Returned(t)
    <3>1. b.present
      BY <2>2, <2>5, <2>7 DEF Returned
    <3>2. Told(c, t) = b
      BY <2>1, <2>2, <2>7 DEF Told, BeliefAfter
    <3> QED BY <1>3, <1>5, <2>3, <2>4, <3>1, <3>2 DEF Match
  <2> QED BY <2>6, <2>7
<1> QED BY <1>1, <1>2, <1>4, <1>5

-----------------------------------------------------------------------------
(* The inductive invariant.                                                *)

\* No collection is a collection that is not held.
LEMMA NoCollectionType == NoCollection \in Collections /\ ~NoCollection.held
  BY DEF NoCollection, Collections

\* The initial states satisfy the invariant.
LEMMA SweepInitInv == SweepInit => SweepInv
<1> SUFFICES ASSUME SweepInit PROVE SweepInv
  OBVIOUS
<1>1. PICK before \in [Things -> OldLooks \cup {Unseen}] :
         /\ ~swept => \A t \in Things : before[t] = Unseen
         /\ rows = [t \in Things |-> IF before[t] = Unseen THEN Unseen ELSE Row(TRUE, before[t], 0)]
         /\ told = [t \in Things |-> IF before[t] = Unseen THEN Unseen ELSE Belief(TRUE, before[t])]
         /\ observed = before
  BY DEF SweepInit
<1>2. 0 \in 0 .. FlapsBeforeRecurring /\ OldLooks \subseteq AllLooks
  BY SweepAssumption DEF AllLooks
<1>3. ASSUME NEW t \in Things
      PROVE  /\ rows[t] \in Rows \cup {Unseen} /\ told[t] \in Beliefs \cup {Unseen}
             /\ Match(rows[t], told[t]) /\ Keeps(rows[t], observed[t])
  <2>1. CASE before[t] = Unseen
    BY <1>1, <2>1, SweepAssumption DEF Match, Keeps
  <2>2. CASE before[t] # Unseen
    <3>1. before[t] \in AllLooks /\ before[t] \notin {Absent, Unseen}
      BY <1>1, <1>2, <2>2, LookType
    <3>2. rows[t] = Row(TRUE, before[t], 0) /\ told[t] = Belief(TRUE, before[t])
      BY <1>1, <2>2
    <3>3. /\ rows[t] \in Rows /\ rows[t] # Unseen /\ rows[t].present /\ rows[t].look = before[t]
          /\ told[t] \in Beliefs /\ told[t] # Unseen /\ told[t].present /\ told[t].look = before[t]
      <4>1. /\ rows[t] \in Rows /\ rows[t] # Unseen
            /\ told[t] \in Beliefs /\ told[t] # Unseen
        <5>1. Row(TRUE, before[t], 0) \in Rows /\ Row(TRUE, before[t], 0) # Unseen
          BY <1>2, <3>1, RowType, Zenon
        <5>2. Belief(TRUE, before[t]) \in Beliefs /\ Belief(TRUE, before[t]) # Unseen
          BY <3>1, BeliefType, Zenon
        <5> QED BY <3>2, <5>1, <5>2, Zenon
      <4>2. Row(TRUE, before[t], 0).present /\ Row(TRUE, before[t], 0).look = before[t]
        BY RowType, Zenon
      <4>3. Belief(TRUE, before[t]).present /\ Belief(TRUE, before[t]).look = before[t]
        BY BeliefType, Zenon
      <4> QED BY <3>2, <4>1, <4>2, <4>3, Zenon
    <3> QED BY <1>1, <3>1, <3>3 DEF Match, Keeps
  <2> QED BY <2>1, <2>2
<1>4. sweeper \in [Sweepers -> Collections]
  BY NoCollectionType DEF SweepInit
<1>5. /\ rows \in [Things -> Rows \cup {Unseen}] /\ told \in [Things -> Beliefs \cup {Unseen}]
      /\ observed \in [Things -> Looks \cup OldLooks \cup {Absent, Unseen}]
  BY <1>1, <1>3
<1>6. SweepTypeOK
  BY <1>4, <1>5 DEF SweepInit, SweepTypeOK, Collections
<1>7. BaselineInv
  BY <1>1 DEF BaselineInv
<1> QED BY <1>3, <1>4, <1>6, <1>7 DEF SweepInv, RowsInv

\* A committed sweep keeps the invariant.
LEMMA CommitInv ==
  ASSUME SweepInv, NEW w \in Sweepers, Commit(w)
  PROVE  SweepInv'
<1> DEFINE c == sweeper[w]
<1>0. c \in Collections
  BY DEF SweepInv
<1>1. /\ rows' = [t \in Things |-> RowAfter(c, t)]
      /\ told' = [t \in Things |-> Told(c, t)]
      /\ observed' = [t \in Things |-> IF WasRead(c, t) THEN c.seen[t] ELSE observed[t]]
      /\ swept' = TRUE /\ still' = Things \ c.moved /\ hidden' \subseteq Things
      /\ sweeper' = [sweeper EXCEPT ![w] = NoCollection] /\ world' = world
  BY DEF Commit, Told, WasRead
<1>2. \A t \in Things :
         /\ rows'[t] \in Rows \cup {Unseen} /\ told'[t] \in Beliefs \cup {Unseen}
         /\ Match(rows'[t], told'[t]) /\ Keeps(rows'[t], observed'[t])
  BY <1>0, <1>1, ThingInv
<1>3. sweeper' \in [Sweepers -> Collections]
  BY <1>1, NoCollectionType DEF SweepInv
<1>4. /\ rows' \in [Things -> Rows \cup {Unseen}] /\ told' \in [Things -> Beliefs \cup {Unseen}]
      /\ observed' \in [Things -> Looks \cup OldLooks \cup {Absent, Unseen}]
  BY <1>0, <1>1, <1>2 DEF SweepInv, SweepTypeOK, Collections
<1>5. SweepTypeOK'
  BY <1>1, <1>3, <1>4 DEF SweepInv, SweepTypeOK, Collections
<1> QED BY <1>1, <1>2, <1>3, <1>5 DEF SweepInv, RowsInv, BaselineInv

\* A step that leaves the store alone keeps the invariant.
LEMMA OtherInv ==
  ASSUME SweepInv, UNCHANGED <<rows, swept, told, observed>>,
         world' \in [Things -> Looks \cup {Absent}], still' \subseteq Things,
         hidden' \subseteq Things, sweeper' \in [Sweepers -> Collections]
  PROVE  SweepInv'
<1>1. SweepTypeOK'
  BY DEF SweepInv, SweepTypeOK, Collections
<1> QED BY <1>1 DEF SweepInv, RowsInv, BaselineInv

\* A change of the machine touches only the collections in hand.
LEMMA WorldSweepers ==
  ASSUME SweepInv, NEW t \in Things, WorldChanges(t)
  PROVE  /\ sweeper' \in [Sweepers -> Collections]
         /\ \A w \in Sweepers :
              sweeper'[w].held =>
                /\ sweeper[w].held /\ sweeper'[w].seen = sweeper[w].seen
                /\ sweeper'[w].blind = sweeper[w].blind
                /\ sweeper'[w].moved = sweeper[w].moved \cup {t}
<1>1. ASSUME NEW w \in Sweepers, sweeper[w].held
      PROVE  Collection(sweeper[w].seen, sweeper[w].blind, sweeper[w].moved \cup {t})
                \in Collections
  BY <1>1 DEF SweepInv, Collection, Collections
<1>2. sweeper' = [w \in Sweepers |->
         IF sweeper[w].held
         THEN Collection(sweeper[w].seen, sweeper[w].blind, sweeper[w].moved \cup {t})
         ELSE NoCollection]
  BY DEF WorldChanges
<1>3. sweeper' \in [Sweepers -> Collections]
  BY <1>1, <1>2, NoCollectionType
<1> QED BY <1>2, <1>3, NoCollectionType DEF Collection

\* A new collection holds what the machine shows, but for what is in the dark.
LEMMA CollectSweeper ==
  ASSUME SweepInv, NEW w \in Sweepers, Collect(w)
  PROVE  /\ sweeper' \in [Sweepers -> Collections]
         /\ \A v \in Sweepers \ {w} : sweeper'[v] = sweeper[v]
         /\ sweeper'[w].moved = {}
         /\ \A t \in Things : \/ sweeper'[w].seen[t] = world[t]
                              \/ sweeper'[w].seen[t] = Absent /\ t \in sweeper'[w].blind
<1>1. PICK unreadable \in SUBSET Sources, partial \in SUBSET Things :
         LET covered == {t \in Things : Covered(unreadable, t)}
             shaded == covered \ partial
         IN sweeper' = [sweeper EXCEPT ![w] =
              Collection([t \in Things |-> IF t \in shaded THEN Absent ELSE world[t]],
                         covered, {})]
  BY DEF Collect
<1> DEFINE covered == {t \in Things : Covered(unreadable, t)}
           shaded == covered \ partial
           seen == [t \in Things |-> IF t \in shaded THEN Absent ELSE world[t]]
<1>2. sweeper' = [sweeper EXCEPT ![w] = Collection(seen, covered, {})]
  BY <1>1
<1>3. /\ covered \subseteq Things /\ seen \in [Things -> Looks \cup {Absent}]
      /\ \A t \in Things : seen[t] = world[t] \/ (seen[t] = Absent /\ t \in covered)
  <2>1. world \in [Things -> Looks \cup {Absent}] /\ shaded \subseteq covered
    BY DEF SweepInv, SweepTypeOK
  <2> HIDE DEF covered, shaded
  <2>2. covered \subseteq Things
    BY DEF covered
  <2>3. \A t \in Things : seen[t] = IF t \in shaded THEN Absent ELSE world[t]
    OBVIOUS
  <2>4. \A t \in Things : seen[t] = world[t] \/ (seen[t] = Absent /\ t \in covered)
    BY <2>1, <2>3
  <2>5. \A t \in Things : (IF t \in shaded THEN Absent ELSE world[t]) \in Looks \cup {Absent}
    BY <2>1
  <2>6. seen \in [Things -> Looks \cup {Absent}]
    BY <2>5
  <2> QED BY <2>2, <2>4, <2>6
<1> HIDE DEF covered, shaded, seen
<1>4. Collection(seen, covered, {}) \in Collections
  BY <1>3 DEF Collection, Collections
<1>5. /\ sweeper' \in [Sweepers -> Collections]
      /\ \A v \in Sweepers \ {w} : sweeper'[v] = sweeper[v]
      /\ sweeper'[w] = Collection(seen, covered, {})
  BY <1>2, <1>4 DEF SweepInv
<1> QED BY <1>3, <1>5 DEF Collection

\* Every step keeps the invariant.
LEMMA SweepNextInv == SweepInv /\ [SweepNext]_sweepVars => SweepInv'
<1> SUFFICES ASSUME SweepInv, [SweepNext]_sweepVars PROVE SweepInv'
  OBVIOUS
<1>1. CASE UNCHANGED sweepVars
  <2>1. /\ world \in [Things -> Looks \cup {Absent}] /\ still \subseteq Things
        /\ hidden \subseteq Things /\ sweeper \in [Sweepers -> Collections]
    BY DEF SweepInv, SweepTypeOK
  <2> QED BY <1>1, <2>1, OtherInv DEF sweepVars
<1>2. ASSUME NEW t \in Things, WorldChanges(t) PROVE SweepInv'
  <2>1. world' \in [Things -> Looks \cup {Absent}]
    BY <1>2 DEF WorldChanges, SweepInv, SweepTypeOK
  <2> QED BY <1>2, <2>1, WorldSweepers, OtherInv DEF WorldChanges, SweepInv, SweepTypeOK
<1>3. ASSUME NEW w \in Sweepers, Collect(w) PROVE SweepInv'
  BY <1>3, CollectSweeper, OtherInv DEF Collect, SweepInv, SweepTypeOK
<1>4. ASSUME NEW w \in Sweepers, Abort(w) PROVE SweepInv'
  <2>1. sweeper' \in [Sweepers -> Collections]
    BY <1>4, NoCollectionType DEF Abort, SweepInv
  <2> QED BY <1>4, <2>1, OtherInv DEF Abort, SweepInv, SweepTypeOK
<1> QED BY <1>1, <1>2, <1>3, <1>4, CommitInv DEF SweepNext

\* The invariant holds in every reachable state.
LEMMA SweepInvAlways == SweepSpec => []SweepInv
  BY SweepInitInv, SweepNextInv, PTL DEF SweepSpec

\* For any threshold and any gaps in the reading, what was believed of a thing
\* is what the last committed sweep that read it saw.
THEOREM ChangesSurfaceAlways == SweepSpec => []ChangesSurface
<1>1. ASSUME SweepInv, NEW t \in Things
      PROVE  CASE observed[t] = Unseen -> told[t] = Unseen
               [] observed[t] = Absent -> told[t] = Unseen \/ ~told[t].present
               [] OTHER -> /\ told[t] # Unseen
                           /\ told[t].present
                           /\ told[t].look.detail = observed[t].detail
                           /\ told[t].look.trust \in {observed[t].trust, Unrecorded}
  <2>1. Match(rows[t], told[t]) /\ Keeps(rows[t], observed[t])
    BY <1>1 DEF SweepInv, RowsInv
  <2> QED BY <2>1, SweepAssumption DEF Match, Keeps
<1>2. SweepInv => ChangesSurface
  BY <1>1 DEF SweepInv, ChangesSurface, NothingAbsorbed
<1> QED BY <1>2, SweepInvAlways, PTL

\* For any gaps in the reading, a committed sweep moves no belief about a thing
\* it did not read.
THEOREM BlindnessAlways == SweepSpec => BlindnessProvesNothing
<1>1. ASSUME SweepInv, [SweepNext]_sweepVars
      PROVE  [\A t \in Things : told'[t] # told[t] => t \notin hidden']_sweepVars
  <2>1. ASSUME NEW w \in Sweepers, Commit(w), NEW t \in Things, told'[t] # told[t]
        PROVE  t \notin hidden'
    <3>1. sweeper[w] \in Collections
      BY <1>1 DEF SweepInv
    <3>2. told'[t] = Told(sweeper[w], t) /\ (WasRead(sweeper[w], t) => t \notin hidden')
      BY <2>1 DEF Commit, Told, WasRead
    <3> QED BY <2>1, <3>1, <3>2, UnreadUntold
  <2> QED BY <1>1, <2>1 DEF SweepNext, WorldChanges, Collect, Abort, sweepVars
<1> QED BY <1>1, SweepInvAlways, PTL DEF SweepSpec, BlindnessProvesNothing

-----------------------------------------------------------------------------
(* False alarms, when no two sweeps overlap.                               *)

\* No collection is made while another is in hand.
OneAtATime == \A v, w \in Sweepers : sweeper[v].held /\ sweeper[w].held => v = w

\* A collection in hand shows the machine as it is, but for what it could not
\* read and what has changed since, and nothing in it is older than the last
\* committed one.
FreshInv ==
    \A w \in Sweepers :
        sweeper[w].held =>
            /\ sweeper[w].moved \cap still = {}
            /\ \A t \in Things \ sweeper[w].moved :
                 \/ sweeper[w].seen[t] = world[t]
                 \/ sweeper[w].seen[t] = Absent /\ t \in sweeper[w].blind

\* What the last committed sweep read and has not changed since is on the
\* machine as it was read.
StillInv == swept => \A t \in still \ hidden : observed[t] = world[t]

AlarmInv == FreshInv /\ StillInv

\* The initial states satisfy it.
LEMMA InitAlarm == SweepInit => AlarmInv
  BY NoCollectionType DEF SweepInit, AlarmInv, FreshInv, StillInv

\* Every step keeps it while no two sweeps overlap.
LEMMA NextAlarm == SweepInv /\ AlarmInv /\ OneAtATime /\ [SweepNext]_sweepVars => AlarmInv'
<1> SUFFICES ASSUME SweepInv, AlarmInv, OneAtATime, [SweepNext]_sweepVars PROVE AlarmInv'
  OBVIOUS
<1>1. CASE UNCHANGED sweepVars
  BY <1>1 DEF sweepVars, AlarmInv, FreshInv, StillInv
<1>2. ASSUME NEW u \in Things, WorldChanges(u) PROVE AlarmInv'
  <2>1. /\ \A t \in Things \ {u} : world'[t] = world[t]
        /\ still' = still \ {u} /\ UNCHANGED <<swept, observed, hidden>>
    BY <1>2 DEF WorldChanges, SweepInv, SweepTypeOK
  <2>2. FreshInv'
    <3> SUFFICES ASSUME NEW w \in Sweepers, sweeper'[w].held
                 PROVE  /\ sweeper'[w].moved \cap still' = {}
                        /\ \A t \in Things \ sweeper'[w].moved :
                             \/ sweeper'[w].seen[t] = world'[t]
                             \/ sweeper'[w].seen[t] = Absent /\ t \in sweeper'[w].blind
      BY DEF FreshInv
    <3>1. /\ sweeper[w].held /\ sweeper'[w].seen = sweeper[w].seen
          /\ sweeper'[w].blind = sweeper[w].blind
          /\ sweeper'[w].moved = sweeper[w].moved \cup {u}
      BY <1>2, WorldSweepers
    <3> QED BY <2>1, <3>1 DEF AlarmInv, FreshInv
  <2>3. StillInv'
    BY <2>1 DEF AlarmInv, StillInv, SweepInv, SweepTypeOK
  <2> QED BY <2>2, <2>3 DEF AlarmInv
<1>3. ASSUME NEW w \in Sweepers, Collect(w) PROVE AlarmInv'
  <2>1. UNCHANGED <<world, swept, observed, still, hidden>>
    BY <1>3 DEF Collect
  <2>2. FreshInv'
    BY <1>3, <2>1, CollectSweeper DEF AlarmInv, FreshInv
  <2> QED BY <2>1, <2>2 DEF AlarmInv, StillInv
<1>4. ASSUME NEW w \in Sweepers, Abort(w) PROVE AlarmInv'
  <2>1. \A v \in Sweepers : sweeper'[v].held => sweeper'[v] = sweeper[v]
    BY <1>4, NoCollectionType DEF Abort, SweepInv
  <2> QED BY <1>4, <2>1 DEF Abort, AlarmInv, FreshInv, StillInv
<1>5. ASSUME NEW w \in Sweepers, Commit(w) PROVE AlarmInv'
  <2> DEFINE c == sweeper[w]
  <2>1. c.held
    BY <1>5 DEF Commit
  <2>2. sweeper' = [sweeper EXCEPT ![w] = NoCollection]
    BY <1>5 DEF Commit
  <2>3. \A v \in Sweepers : ~sweeper'[v].held
    <3>1. \A v \in Sweepers \ {w} : ~sweeper[v].held
      BY <2>1 DEF OneAtATime
    <3>2. \A v \in Sweepers : sweeper'[v] = IF v = w THEN NoCollection ELSE sweeper[v]
      BY <2>2 DEF SweepInv
    <3> QED BY <3>1, <3>2, NoCollectionType
  <2>4. ASSUME NEW t \in still' \ hidden'
        PROVE  observed'[t] = world'[t]
    <3>1. t \in Things \ c.moved /\ WasRead(c, t)
      BY <1>5, <2>4 DEF Commit, WasRead
    <3>2. observed'[t] = c.seen[t] /\ world' = world
      BY <1>5, <3>1 DEF Commit, WasRead
    <3>3. c.seen[t] = world[t]
      BY <2>1, <3>1 DEF AlarmInv, FreshInv, WasRead
    <3> QED BY <3>2, <3>3
  <2> QED BY <2>3, <2>4 DEF AlarmInv, FreshInv, StillInv
<1> QED BY <1>1, <1>2, <1>3, <1>4, <1>5 DEF SweepNext

\* A thing that is as it was when last read is not spoken of.
LEMMA AsReadUntold ==
  ASSUME SweepInv, NEW c \in Collections, NEW t \in Things, c.seen[t] = observed[t], swept
  PROVE  Told(c, t) = told[t]
<1>1. Keeps(rows[t], observed[t]) /\ c.seen[t] \in Looks \cup {Absent}
  BY DEF SweepInv, RowsInv, Collections
<1>2. CASE c.seen[t] = Absent
  <2>1. ~Missing(c, t)
    BY <1>1, <1>2 DEF Keeps, Missing, Known
  <2> QED BY <1>2, <2>1 DEF Told, BeliefAfter, ChangeOf
<1>3. CASE c.seen[t] # Absent
  <2>1. observed[t] \notin {Unseen, Absent}
    BY <1>1, <1>3, LookType DEF AllLooks
  <2>2. Known(t) /\ ~Returned(t) /\ ~Altered(t, c.seen[t])
    BY <1>1, <2>1 DEF Keeps, Known, Returned, Altered, TrustMoved
  <2>3. ChangeOf(c, t) = "none"
    BY <1>3, <2>2 DEF ChangeOf, SeenChange
  <2> QED BY <2>3 DEF Told, BeliefAfter
<1> QED BY <1>2, <1>3

\* For any things and any gaps, a committed sweep reports a difference only of
\* a thing that did differ between this collection and the last, or that the
\* last could not see, as long as no two sweeps overlap.
THEOREM NoFalseAlarmAlone == SweepSpec /\ []OneAtATime => NoFalseAlarm
<1>1. ASSUME SweepInv, AlarmInv, [SweepNext]_sweepVars
      PROVE  [\A t \in Things :
                 told'[t] # told[t] => ~swept \/ t \notin still \/ t \in hidden]_sweepVars
  <2>1. ASSUME NEW w \in Sweepers, Commit(w), NEW t \in Things,
               swept, t \in still, t \notin hidden
        PROVE  told'[t] = told[t]
    <3> DEFINE c == sweeper[w]
    <3>1. c \in Collections /\ c.held /\ told'[t] = Told(c, t)
      BY <1>1, <2>1 DEF Commit, Told, SweepInv
    <3>2. \/ c.seen[t] = world[t]
          \/ c.seen[t] = Absent /\ t \in c.blind
      BY <1>1, <2>1, <3>1 DEF AlarmInv, FreshInv
    <3>3. observed[t] = world[t]
      BY <1>1, <2>1 DEF AlarmInv, StillInv
    <3>4. CASE c.seen[t] = world[t]
      BY <1>1, <2>1, <3>1, <3>3, <3>4, AsReadUntold
    <3>5. CASE c.seen[t] = Absent /\ t \in c.blind
      BY <3>1, <3>5, UnreadUntold DEF WasRead
    <3> QED BY <3>2, <3>4, <3>5
  <2> QED BY <1>1, <2>1 DEF SweepNext, WorldChanges, Collect, Abort, sweepVars
<1> QED
  BY <1>1, SweepInvAlways, InitAlarm, NextAlarm, PTL DEF SweepSpec, NoFalseAlarm
=============================================================================
