----------------------------- MODULE AgentProofs -----------------------------
(***************************************************************************)
(* Theorems about Agent, for any number of runs, inputs, turns and calls,  *)
(* both kinds of queues and both ways to execute tools.  They hold when no *)
(* listener starts a run while another one ends; with such listeners two   *)
(* runs may overlap.                                                       *)
(***************************************************************************)
EXTENDS Agent, TranscriptProofs, FiniteSetTheorems, TLAPS

-----------------------------------------------------------------------------
(* Sequences, whatever their elements                                      *)

IsASeq(s) == \E S : s \in Seq(S)

\* Emitting messages leaves a sequence of messages.
LEMMA Concatenates == ASSUME NEW s, NEW t, IsASeq(s), IsASeq(t) PROVE IsASeq(s \o t) /\ s \o <<>> = s
<1>1. PICK S : s \in Seq(S)
  BY DEF IsASeq
<1>2. PICK T : t \in Seq(T)
  BY DEF IsASeq
<1>3. s \in Seq(S \cup T) /\ t \in Seq(S \cup T)
  BY <1>1, <1>2
<1>4. s \o t \in Seq(S \cup T) /\ s \o <<>> = s
  BY <1>3
<1> QED
  BY <1>4 DEF IsASeq

\* What was emitted in two parts was emitted at once.
LEMMA Associates ==
    ASSUME NEW s, NEW t, NEW u, IsASeq(s), IsASeq(t), IsASeq(u)
    PROVE  (s \o t) \o u = s \o (t \o u)
<1>1. PICK S : s \in Seq(S)
  BY DEF IsASeq
<1>2. PICK T : t \in Seq(T)
  BY DEF IsASeq
<1>3. PICK U : u \in Seq(U)
  BY DEF IsASeq
<1> DEFINE all == S \cup T \cup U
<1>4. s \in Seq(all) /\ t \in Seq(all) /\ u \in Seq(all)
  BY <1>1, <1>2, <1>3
<1> QED
  BY <1>4

\* Appending a message is emitting one.
LEMMA Appends == ASSUME NEW s, NEW x, IsASeq(s) PROVE Append(s, x) = s \o <<x>> /\ IsASeq(<<x>>) /\ IsASeq(Append(s, x))
<1>1. PICK S : s \in Seq(S)
  BY DEF IsASeq
<1>2. s \in Seq(S \cup {x}) /\ <<x>> \in Seq(S \cup {x}) /\ x \in S \cup {x}
  BY <1>1
<1>3. Append(s, x) = s \o <<x>> /\ Append(s, x) \in Seq(S \cup {x})
  BY <1>2
<1> QED
  BY <1>2, <1>3 DEF IsASeq

\* No message, one, or two: what a step of the loop emits.
LEMMA ShortSequences == IsASeq(<<>>) /\ \A x : IsASeq(<<x>>) /\ \A y : IsASeq(<<x, y>>)
<1>1. <<>> \in Seq({})
  OBVIOUS
<1>2. \A x : <<x>> \in Seq({x}) /\ \A y : <<x, y>> \in Seq({x, y})
  OBVIOUS
<1> QED
  BY <1>1, <1>2 DEF IsASeq

\* Taking the first or the last message away.
LEMMA Shortens == ASSUME NEW s, IsASeq(s), s # <<>> PROVE IsASeq(Tail(s)) /\ IsASeq(Front(s))
<1>1. PICK S : s \in Seq(S)
  BY DEF IsASeq
<1>2. Tail(s) \in Seq(S) /\ Front(s) \in Seq(S)
  BY <1>1 DEF Front
<1> QED
  BY <1>2 DEF IsASeq

\* dequeueSteeringMessages and dequeueFollowUpMessages split a queue in two.
LEMMA TakenSplits == ASSUME NEW queue, NEW mode, IsASeq(queue) PROVE IsASeq(Taken(queue, mode).got) /\ IsASeq(Taken(queue, mode).left)
<1>1. CASE mode = "all" \/ queue = <<>>
  BY <1>1, ShortSequences DEF Taken
<1>2. CASE ~(mode = "all" \/ queue = <<>>)
  BY <1>2, ShortSequences, Shortens DEF Taken
<1> QED
  BY <1>1, <1>2

-----------------------------------------------------------------------------
(* The runs                                                                *)

RunFields == {"phase", "context", "calls", "runnable", "results", "more", "skipPoll", "aborted"}
IsRun(run) == DOMAIN run = RunFields /\ IsASeq(run.context) /\ IsASeq(run.results)

\* What a run knows agrees with the state of the agent: its copy of the messages is the
\* conversation, but for the results of a turn, which join it when the turn ends.
Agrees(r, run, conversation, streaming, owned) ==
    /\ IsRun(run)
    /\ run.phase \notin {"none", "ended"} => streaming /\ owned = r
    /\ run.phase \in {"poll", "followUps", "request"} => run.context = conversation
    /\ run.phase = "tools" => conversation = run.context \o run.results

\* What makes LoopSeesState and StreamingWhileRunning inductive.
RunInv ==
    /\ IsASeq(messages) /\ IsASeq(steeringQueue) /\ IsASeq(followUpQueue)
    /\ DOMAIN runs = RunIds
    /\ \A r \in RunIds : Agrees(r, runs[r], messages, isStreaming, controller)
    /\ \A r, q \in Active : r = q

\* A run starts when no other is active, or goes on as the only one that is.
LEMMA OneRunGoesOn ==
    ASSUME RunInv, NEW r \in RunIds, Active \subseteq {r},
           DOMAIN runs' = RunIds, \A q \in RunIds \ {r} : runs'[q] = runs[q],
           Agrees(r, runs'[r], messages', isStreaming', controller'),
           IsASeq(messages'), IsASeq(steeringQueue'), IsASeq(followUpQueue')
    PROVE  RunInv'
<1>1. \A q \in RunIds \ {r} : runs'[q].phase = "none" /\ IsRun(runs'[q])
  BY DEF RunInv, Active, Agrees
<1>2. \A q \in RunIds : Agrees(q, runs'[q], messages', isStreaming', controller')
  BY <1>1 DEF Agrees
<1>3. \A q \in Active' : q = r
  BY <1>1 DEF Active
<1> QED
  BY <1>2, <1>3 DEF RunInv

\* _runLoop: a new run has the conversation with its prompts.
LEMMA NewRunAgrees ==
    ASSUME RunInv, NEW prompts, NEW skipPoll, IsASeq(prompts), Active = {}, StartRun(prompts, skipPoll),
           IsASeq(steeringQueue'), IsASeq(followUpQueue')
    PROVE  RunInv'
<1>1. PICK r \in RunIds :
        /\ runs' = [runs EXCEPT ![r] = [NoRun EXCEPT !.phase = "poll", !.more = TRUE,
                                           !.context = messages \o prompts, !.skipPoll = skipPoll]]
        /\ messages' = messages \o prompts /\ isStreaming' = TRUE /\ controller' = r
  BY DEF StartRun
<1>2. IsASeq(messages \o prompts)
  BY Concatenates DEF RunInv
<1>3. DOMAIN runs = RunIds
  BY DEF RunInv
<1> DEFINE all == messages \o prompts
           run == [NoRun EXCEPT !.phase = "poll", !.more = TRUE, !.context = all, !.skipPoll = skipPoll]
<1>4. runs'[r] = run /\ DOMAIN runs' = RunIds /\ \A q \in RunIds \ {r} : runs'[q] = runs[q]
  BY <1>1, <1>3
<1> HIDE DEF all
<1>5. DOMAIN run = RunFields /\ run.phase = "poll" /\ run.context = all /\ run.results = <<>>
  BY DEF NoRun, RunFields
<1>6. Agrees(r, run, all, TRUE, r)
  BY <1>2, <1>5, ShortSequences DEF Agrees, IsRun, all
<1> QED
  BY <1>1, <1>2, <1>4, <1>6, OneRunGoesOn DEF all

\* The methods of Agent and every step of a run keep the run's copy and the state equal.
LEMMA RunsAgree == ASSUME ~ListenersPrompt PROVE AgentSpec => []RunInv
<1>1. AgentInit => RunInv
  <2> SUFFICES ASSUME AgentInit PROVE RunInv
    OBVIOUS
  <2>1. \A r \in RunIds : Agrees(r, NoRun, messages, isStreaming, controller)
    BY ShortSequences DEF Agrees, IsRun, NoRun, RunFields
  <2>2. NoRun.phase = "none"
    BY DEF NoRun
  <2> QED
    BY <2>1, <2>2, ShortSequences DEF AgentInit, RunInv, Active
<1>2. RunInv /\ [AgentNext]_vars => RunInv'
  <2> SUFFICES ASSUME RunInv, [AgentNext]_vars PROVE RunInv'
    OBVIOUS
  <2>i. /\ IsASeq(messages) /\ IsASeq(steeringQueue) /\ IsASeq(followUpQueue) /\ DOMAIN runs = RunIds
        /\ \A r \in RunIds : Agrees(r, runs[r], messages, isStreaming, controller) /\ IsRun(runs[r])
        /\ \A r, q \in Active : r = q
    BY DEF RunInv, Agrees
  <2>s. MayStart => Active = {}
    BY DEF MayStart
  <2>1. CASE Prompt
    <3>1. Active = {} /\ StartRun(<<NextInput>>, FALSE) /\ UNCHANGED <<steeringQueue, followUpQueue>>
      BY <2>1, <2>s DEF Prompt, queues
    <3> QED
      BY <2>i, <3>1, NewRunAgrees, ShortSequences
  <2>2. CASE Continue
    <3> DEFINE steering == Taken(steeringQueue, SteeringMode)
               followUp == Taken(followUpQueue, FollowUpMode)
    <3>0. Active = {} /\ IsASeq(steering.got) /\ IsASeq(steering.left) /\ IsASeq(followUp.got) /\ IsASeq(followUp.left)
      BY <2>2, <2>s, <2>i, TakenSplits DEF Continue
    <3>1. \/ StartRun(<<>>, FALSE) /\ UNCHANGED <<steeringQueue, followUpQueue>>
          \/ StartRun(steering.got, TRUE) /\ steeringQueue' = steering.left /\ followUpQueue' = followUpQueue
          \/ StartRun(followUp.got, FALSE) /\ followUpQueue' = followUp.left /\ steeringQueue' = steeringQueue
      BY <2>2 DEF Continue, queues
    <3> HIDE DEF steering, followUp
    <3>2. CASE StartRun(<<>>, FALSE) /\ UNCHANGED <<steeringQueue, followUpQueue>>
      BY <2>i, <3>0, <3>2, NewRunAgrees, ShortSequences
    <3>3. CASE StartRun(steering.got, TRUE) /\ steeringQueue' = steering.left /\ followUpQueue' = followUpQueue
      BY <2>i, <3>0, <3>3, NewRunAgrees
    <3>4. CASE StartRun(followUp.got, FALSE) /\ followUpQueue' = followUp.left /\ steeringQueue' = steeringQueue
      BY <2>i, <3>0, <3>4, NewRunAgrees
    <3> QED
      BY <3>1, <3>2, <3>3, <3>4
  <2>3. CASE Steer \/ FollowUp \/ ClearAllQueues
    <3>1. /\ UNCHANGED <<messages, isStreaming, controller, runs>>
          /\ steeringQueue' \in {steeringQueue, <<>>, Append(steeringQueue, NextInput)}
          /\ followUpQueue' \in {followUpQueue, <<>>, Append(followUpQueue, NextInput)}
      BY <2>3 DEF Steer, FollowUp, ClearAllQueues
    <3>2. IsASeq(steeringQueue') /\ IsASeq(followUpQueue')
      BY <2>i, <3>1, ShortSequences, Appends
    <3> QED
      BY <3>1, <3>2 DEF RunInv, Active
  <2>4. CASE Abort
    <3>1. /\ UNCHANGED <<messages, isStreaming, controller, steeringQueue, followUpQueue>>
          /\ runs' = [runs EXCEPT ![controller].aborted = TRUE]
      BY <2>4 DEF Abort, queues
    <3>2. ASSUME NEW r \in RunIds
          PROVE  /\ DOMAIN runs'[r] = RunFields /\ runs'[r].phase = runs[r].phase
                 /\ runs'[r].context = runs[r].context /\ runs'[r].results = runs[r].results
      <4>1. DOMAIN runs[r] = RunFields
        BY <2>i DEF IsRun
      <4>2. runs'[r] = runs[r] \/ runs'[r] = [runs[r] EXCEPT !.aborted = TRUE]
        BY <2>i, <3>1
      <4> QED
        BY <4>1, <4>2 DEF RunFields
    <3>3. DOMAIN runs' = RunIds /\ Active' = Active
      BY <2>i, <3>1, <3>2 DEF Active
    <3>4. \A r \in RunIds : Agrees(r, runs'[r], messages, isStreaming, controller)
      BY <2>i, <3>2 DEF Agrees, IsRun
    <3> QED
      BY <2>i, <3>1, <3>3, <3>4 DEF RunInv
  <2>5. CASE Reset \/ DropFailed
    <3>1. /\ Active = {} /\ runs' = runs
          /\ messages' = <<>> \/ (messages # <<>> /\ messages' = Front(messages))
          /\ steeringQueue' \in {steeringQueue, <<>>} /\ followUpQueue' \in {followUpQueue, <<>>}
      BY <2>5 DEF Reset, DropFailed, queues
    <3>2. IsASeq(messages') /\ IsASeq(steeringQueue') /\ IsASeq(followUpQueue')
      BY <2>i, <3>1, ShortSequences, Shortens
    <3>3. \A r \in RunIds : runs[r].phase = "none"
      BY <3>1 DEF Active
    <3>4. \A r \in RunIds : Agrees(r, runs'[r], messages', isStreaming', controller')
      BY <2>i, <3>1, <3>3 DEF Agrees
    <3> QED
      BY <2>i, <3>1, <3>2, <3>4 DEF RunInv, Active
  <2>6. ASSUME NEW r \in RunIds, RunStep(r) PROVE RunInv'
    <3>a. runs[r].phase # "none" => r \in Active /\ Active \subseteq {r}
      BY <2>i DEF Active
    <3>r. /\ DOMAIN runs[r] = RunFields /\ IsASeq(runs[r].context) /\ IsASeq(runs[r].results)
          /\ runs[r].phase \notin {"none", "ended"} => isStreaming /\ controller = r
          /\ runs[r].phase \in {"poll", "followUps", "request"} => runs[r].context = messages
          /\ runs[r].phase = "tools" => messages = runs[r].context \o runs[r].results
      BY <2>i DEF Agrees, IsRun
    <3> DEFINE run == runs[r]
    <3>e. ASSUME NEW got, IsASeq(got)
          PROVE  IsASeq(messages \o got) /\ IsASeq(run.context \o got) /\ IsASeq(run.results \o got)
                 /\ (run.context \o run.results) \o got = run.context \o (run.results \o got)
      <4>1. IsASeq(messages \o got)
        BY <2>i, <3>e, Concatenates
      <4>2. IsASeq(run.context \o got) /\ IsASeq(run.results \o got)
        BY <3>r, <3>e, Concatenates
      <4> DEFINE c == run.context  s == run.results
      <4>a. IsASeq(c) /\ IsASeq(s) /\ IsASeq(got)
        BY <3>r, <3>e
      <4> HIDE DEF c, s
      <4>b. (c \o s) \o got = c \o (s \o got)
        BY <4>a, Associates
      <4>3. (run.context \o run.results) \o got = run.context \o (run.results \o got)
        BY <4>b DEF c, s
      <4> QED
        BY <4>1, <4>2, <4>3
    <3>1. CASE PollSteering(r)
      <4> DEFINE got == IF run.skipPoll THEN <<>> ELSE Taken(steeringQueue, SteeringMode).got
      <4>1. IsASeq(got) /\ IsASeq(steeringQueue') /\ IsASeq(followUpQueue')
        BY <2>i, <3>1, TakenSplits, ShortSequences DEF PollSteering
      <4>2. run.phase = "poll" /\ UNCHANGED <<isStreaming, controller>>
        BY <3>1 DEF PollSteering
      <4>3. CASE run.more \/ got # <<>>
        <5>1. /\ messages' = messages \o got
              /\ runs' = [runs EXCEPT ![r] = [[run EXCEPT !.skipPoll = FALSE] EXCEPT !.phase = "request", !.context = @ \o got]]
          BY <3>1, <4>3, <3>r DEF PollSteering, Inject, Emit, RunFields
        <5> HIDE DEF got
        <5>2. /\ DOMAIN runs' = RunIds /\ \A q \in RunIds \ {r} : runs'[q] = runs[q]
              /\ runs'[r] = [[run EXCEPT !.skipPoll = FALSE] EXCEPT !.phase = "request", !.context = @ \o got]
          BY <2>i, <5>1
        <5>3. /\ DOMAIN runs'[r] = RunFields /\ runs'[r].phase = "request"
              /\ runs'[r].context = run.context \o got /\ runs'[r].results = run.results
          BY <3>r, <5>2 DEF RunFields
        <5>4. Agrees(r, runs'[r], messages', isStreaming', controller')
          BY <3>r, <3>e, <4>1, <4>2, <5>1, <5>3 DEF Agrees, IsRun
        <5> QED
          BY <3>a, <3>e, <4>1, <4>2, <5>1, <5>2, <5>4, OneRunGoesOn
      <4>4. CASE ~(run.more \/ got # <<>>)
        <5>1. messages' = messages /\ runs' = [runs EXCEPT ![r] = [[run EXCEPT !.skipPoll = FALSE] EXCEPT !.phase = "followUps"]]
          BY <3>1, <4>4 DEF PollSteering
        <5>2. /\ DOMAIN runs' = RunIds /\ \A q \in RunIds \ {r} : runs'[q] = runs[q]
              /\ runs'[r] = [[run EXCEPT !.skipPoll = FALSE] EXCEPT !.phase = "followUps"]
          BY <2>i, <5>1
        <5>3. /\ DOMAIN runs'[r] = RunFields /\ runs'[r].phase = "followUps"
              /\ runs'[r].context = run.context /\ runs'[r].results = run.results
          BY <3>r, <5>2 DEF RunFields
        <5>4. Agrees(r, runs'[r], messages', isStreaming', controller')
          BY <3>r, <4>2, <5>1, <5>3 DEF Agrees, IsRun
        <5> QED
          BY <2>i, <3>a, <4>1, <4>2, <5>1, <5>2, <5>4, OneRunGoesOn
      <4> QED
        BY <4>3, <4>4
    <3>2. CASE PollFollowUps(r)
      <4> DEFINE got == Taken(followUpQueue, FollowUpMode).got
      <4>1. IsASeq(got) /\ IsASeq(steeringQueue') /\ IsASeq(followUpQueue')
        BY <2>i, <3>2, TakenSplits DEF PollFollowUps
      <4>2. run.phase = "followUps" /\ controller' = controller
        BY <3>2 DEF PollFollowUps
      <4>3. CASE got # <<>>
        <5>1. /\ messages' = messages \o got /\ isStreaming' = isStreaming
              /\ runs' = [runs EXCEPT ![r] = [run EXCEPT !.phase = "request", !.context = @ \o got]]
          BY <3>2, <4>3 DEF PollFollowUps, Inject, Emit
        <5> HIDE DEF got
        <5>2. /\ DOMAIN runs' = RunIds /\ \A q \in RunIds \ {r} : runs'[q] = runs[q]
              /\ runs'[r] = [run EXCEPT !.phase = "request", !.context = @ \o got]
          BY <2>i, <5>1
        <5>3. /\ DOMAIN runs'[r] = RunFields /\ runs'[r].phase = "request"
              /\ runs'[r].context = run.context \o got /\ runs'[r].results = run.results
          BY <3>r, <5>2 DEF RunFields
        <5>4. Agrees(r, runs'[r], messages', isStreaming', controller')
          BY <3>r, <3>e, <4>1, <4>2, <5>1, <5>3 DEF Agrees, IsRun
        <5> QED
          BY <3>a, <3>e, <4>1, <4>2, <5>1, <5>2, <5>4, OneRunGoesOn
      <4>4. CASE got = <<>>
        <5>1. messages' = messages /\ runs' = [runs EXCEPT ![r].phase = "ended"]
          BY <3>2, <4>4 DEF PollFollowUps
        <5>2. /\ DOMAIN runs' = RunIds /\ \A q \in RunIds \ {r} : runs'[q] = runs[q]
              /\ runs'[r] = [run EXCEPT !.phase = "ended"]
          BY <2>i, <5>1
        <5>3. Agrees(r, runs'[r], messages', isStreaming', controller')
          BY <3>r, <5>2 DEF Agrees, IsRun, RunFields
        <5> QED
          BY <2>i, <3>a, <4>1, <4>2, <5>1, <5>2, <5>3, OneRunGoesOn
      <4> QED
        BY <4>3, <4>4
    <3>3. ASSUME \/ RequestThrows(r) \/ FinalizeThrows(r) \/ \E n \in 0..MaxCalls : ReplyFailed(r, n) PROVE RunInv'
      <4>1. /\ \E x : \E y : messages' = messages \o <<x>> \/ messages' = messages \o <<x, y>>
            /\ runs' = [runs EXCEPT ![r].phase = "ended"] /\ run.phase # "none"
            /\ UNCHANGED <<steeringQueue, followUpQueue>>
        BY <3>3 DEF RequestThrows, FinalizeThrows, ReplyFailed, Emit, queues
      <4>2. IsASeq(messages')
        BY <2>i, <4>1, ShortSequences, Concatenates
      <4>3. /\ DOMAIN runs' = RunIds /\ \A q \in RunIds \ {r} : runs'[q] = runs[q]
            /\ runs'[r] = [run EXCEPT !.phase = "ended"]
        BY <2>i, <4>1
      <4>4. Agrees(r, runs'[r], messages', isStreaming', controller')
        BY <3>r, <4>3 DEF Agrees, IsRun, RunFields
      <4> QED
        BY <2>i, <3>a, <4>1, <4>2, <4>3, <4>4, OneRunGoesOn
    <3>4. ASSUME NEW n \in 0..MaxCalls, Reply(r, n) PROVE RunInv'
      <4> DEFINE answer == Assistant(FreshCalls(n))
      <4>1. /\ messages' = messages \o <<answer>> /\ run.phase = "request"
            /\ UNCHANGED <<isStreaming, controller, steeringQueue, followUpQueue>>
            /\ runs' = [runs EXCEPT ![r].context = Append(@, answer), ![r].more = n > 0,
                                ![r].calls = FreshCalls(n), ![r].results = <<>>,
                                ![r].phase = IF n > 0 THEN "tools" ELSE "poll"]
        BY <3>4 DEF Reply, Emit, queues
      <4> HIDE DEF answer
      <4>2. Append(run.context, answer) = run.context \o <<answer>> /\ IsASeq(<<answer>>) /\ IsASeq(run.context \o <<answer>>)
        BY <3>r, Appends
      <4>3. DOMAIN runs' = RunIds /\ \A q \in RunIds \ {r} : runs'[q] = runs[q]
        BY <2>i, <4>1
      <4>4. /\ DOMAIN runs'[r] = RunFields /\ runs'[r].phase \in {"tools", "poll"}
            /\ runs'[r].context = Append(run.context, answer) /\ runs'[r].results = <<>>
        BY <2>i, <3>r, <4>1 DEF RunFields
      <4>5. (run.context \o <<answer>>) \o <<>> = run.context \o <<answer>>
        BY <4>2, ShortSequences, Concatenates
      <4>6. Agrees(r, runs'[r], messages', isStreaming', controller')
        BY <3>r, <4>1, <4>2, <4>4, <4>5, ShortSequences DEF Agrees, IsRun
      <4> QED
        BY <2>i, <3>a, <3>e, <4>1, <4>2, <4>3, <4>6, OneRunGoesOn
    <3>5. ASSUME FinalizeCall(r) \/ \E prepared \in BOOLEAN : PrepareCall(r, prepared) PROVE RunInv'
      <4>1. run.phase = "tools" /\ UNCHANGED <<isStreaming, controller, steeringQueue, followUpQueue>>
        BY <3>5 DEF FinalizeCall, PrepareCall, queues
      <4>2. DOMAIN runs' = RunIds /\ \A q \in RunIds \ {r} : runs'[q] = runs[q]
        BY <2>i, <3>5 DEF FinalizeCall, PrepareCall
      <4>3. /\ DOMAIN runs'[r] = RunFields /\ runs'[r].phase = "tools" /\ runs'[r].context = run.context
            /\ \/ messages' = messages /\ runs'[r].results = run.results
               \/ \E x : messages' = messages \o <<x>> /\ runs'[r].results = Append(run.results, x)
        <5>1. CASE FinalizeCall(r)
          BY <2>i, <3>r, <5>1 DEF FinalizeCall, RunFields, Emit
        <5>2. CASE \E prepared \in BOOLEAN : PrepareCall(r, prepared)
          <6>1. PICK prepared \in BOOLEAN : PrepareCall(r, prepared)
            BY <5>2
          <6> DEFINE call == Head(run.calls)
          <6>2. CASE prepared /\ toolExecution = "parallel"
            BY <2>i, <3>r, <6>1, <6>2 DEF PrepareCall, RunFields
          <6>3. CASE ~(prepared /\ toolExecution = "parallel")
            <7>1. /\ runs' = [runs EXCEPT ![r].calls = Tail(@), ![r].results = Append(@, ToolResult(call))]
                  /\ messages' = messages \o <<ToolResult(call)>> /\ run.phase = "tools"
              BY <6>1, <6>3 DEF PrepareCall, Emit
            <7> HIDE DEF call
            <7> QED
              BY <2>i, <3>r, <7>1 DEF RunFields
          <6> QED
            BY <6>2, <6>3
        <5> QED
          BY <3>5, <5>1, <5>2
      <4>4. CASE messages' = messages /\ runs'[r].results = run.results
        <5>1. Agrees(r, runs'[r], messages', isStreaming', controller')
          BY <3>r, <4>1, <4>3, <4>4 DEF Agrees, IsRun
        <5> QED
          BY <2>i, <3>a, <4>1, <4>2, <4>4, <5>1, OneRunGoesOn
      <4>5. ASSUME NEW x, messages' = messages \o <<x>>, runs'[r].results = Append(run.results, x) PROVE RunInv'
        <5>1. runs'[r].results = run.results \o <<x>> /\ IsASeq(<<x>>)
          BY <3>r, <4>5, Appends
        <5>2. /\ messages' = run.context \o (run.results \o <<x>>) /\ IsASeq(messages')
              /\ IsASeq(run.results \o <<x>>)
          BY <3>r, <3>e, <4>1, <4>5, <5>1
        <5>3. Agrees(r, runs'[r], messages', isStreaming', controller')
          BY <3>r, <4>1, <4>3, <5>1, <5>2 DEF Agrees, IsRun
        <5> QED
          BY <2>i, <3>a, <4>1, <4>2, <5>2, <5>3, OneRunGoesOn
      <4> QED
        BY <4>3, <4>4, <4>5
    <3>6. CASE EndTools(r)
      <4>1. /\ run.phase = "tools" /\ UNCHANGED <<messages, isStreaming, controller, steeringQueue, followUpQueue>>
            /\ runs' = [runs EXCEPT ![r].context = @ \o run.results, ![r].phase = "poll"]
        BY <3>6 DEF EndTools, queues
      <4>2. DOMAIN runs' = RunIds /\ \A q \in RunIds \ {r} : runs'[q] = runs[q]
        BY <2>i, <4>1
      <4>3. /\ DOMAIN runs'[r] = RunFields /\ runs'[r].phase = "poll"
            /\ runs'[r].context = run.context \o run.results /\ runs'[r].results = run.results
        BY <2>i, <3>r, <4>1 DEF RunFields
      <4>4. Agrees(r, runs'[r], messages', isStreaming', controller')
        BY <2>i, <3>r, <4>1, <4>3 DEF Agrees, IsRun
      <4> QED
        BY <2>i, <3>a, <4>1, <4>2, <4>4, OneRunGoesOn
    <3>7. CASE Finally(r)
      <4>1. /\ run.phase = "ended" /\ runs' = [runs EXCEPT ![r] = NoRun]
            /\ UNCHANGED <<messages, steeringQueue, followUpQueue>>
        BY <3>7 DEF Finally, queues
      <4>2. DOMAIN runs' = RunIds /\ runs'[r] = NoRun /\ \A q \in RunIds \ {r} : runs'[q] = runs[q]
        BY <2>i, <4>1
      <4>3. Agrees(r, NoRun, messages', isStreaming', controller')
        BY ShortSequences DEF Agrees, IsRun, NoRun, RunFields
      <4> QED
        BY <2>i, <3>a, <4>1, <4>2, <4>3, OneRunGoesOn
    <3> QED
      BY <2>6, <3>1, <3>2, <3>3, <3>4, <3>5, <3>6, <3>7 DEF RunStep
  <2>7. CASE UNCHANGED vars
    <3>1. UNCHANGED <<messages, isStreaming, controller, runs, steeringQueue, followUpQueue>>
      BY <2>7 DEF vars
    <3> QED
      BY <3>1 DEF RunInv, Active
  <2> QED
    BY <2>1, <2>2, <2>3, <2>4, <2>5, <2>6, <2>7 DEF AgentNext, OwnerStep
<1> QED
  BY <1>1, <1>2, PTL DEF AgentSpec

\* streamAssistantResponse: the messages a run sends to the model are those of the
\* state, for any number of inputs, turns, calls and failures.
THEOREM LoopSees == ASSUME ~ListenersPrompt PROVE AgentSpec => []LoopSeesState
<1>1. RunInv => LoopSeesState
  BY DEF RunInv, Agrees, LoopSeesState
<1> QED
  BY <1>1, RunsAgree, PTL

\* isStreaming: as long as a run goes on the agent refuses another one, and its abort
\* controller is that of the run.
THEOREM StreamsWhileRunning == ASSUME ~ListenersPrompt PROVE AgentSpec => []StreamingWhileRunning
<1>1. RunInv => StreamingWhileRunning
  BY DEF RunInv, Agrees, StreamingWhileRunning
<1> QED
  BY <1>1, RunsAgree, PTL

-----------------------------------------------------------------------------
(* The conversation                                                        *)

\* What the agent keeps needs no conversion for a model.
Sent == {m \in AnyMessage : /\ m.role \in {"user", "assistant", "toolResult"}
                            /\ m.failed => m.role = "assistant"
                            /\ m.calls # <<>> => m.role = "assistant"}
Inputs == {m \in Sent : m.role = "user"}

UsedIn(t, positions) == UNION {Ids(t[i].calls) : i \in positions}
Used(t) == UsedIn(t, DOMAIN t)

\* Calls are numbered from 1 without a gap, in every part of the conversation.
Numbered(t) == \A i \in 0..Len(t) : \E n \in Nat : UsedIn(t, 1..i) = 1..n

\* A result answers a call made before it.
Known(t) == \A i \in Results(t) : t[i].id \in UsedIn(t, 1..(i - 1))

Sound(t) == t \in Seq(Sent) /\ Numbered(t) /\ Known(t)

Rising(s) == \A i, j \in DOMAIN s : i < j => s[i] < s[j]
ResultsRise(t) == \A i, j \in Results(t) : i < j => t[i].id < t[j].id
ResultsBefore(t, c) == \A i \in Results(t) : t[i].id < c

\* The calls a turn still has to answer, in the order of the answer.
Turn(run, used) ==
    /\ run.calls \in Seq(Nat) /\ run.runnable \in Seq(Nat)
    /\ Rising(run.calls) /\ Rising(run.runnable)
    /\ \A c \in Ids(run.runnable), d \in Ids(run.calls) : c < d
    /\ Ids(run.calls) \cup Ids(run.runnable) \subseteq used

Waiting(run) == Ids(run.calls) \cup Ids(run.runnable)

\* A turn under way waits for exactly the pending calls of the conversation t.
TurnFits(run, t, thrown, execution) ==
    /\ run.phase \in {"poll", "followUps", "request"} => run.runnable = <<>>
    /\ run.phase = "tools" =>
         /\ Turn(run, Used(t))
         /\ ~thrown => Pending(t) = Waiting(run)
         /\ execution = "sequential" =>
              run.runnable = <<>> /\ \A c \in Ids(run.calls) : ResultsBefore(t, c)

Settled(t, thrown, execution) ==
    /\ Sound(t)
    /\ ~thrown => Ok(t)
    /\ execution = "sequential" => ResultsRise(t)

Kinds == {"prompt", "steer", "followUp"}

\* What makes RequestsAreSendable and ResultsInCallOrder inductive: the calls that are
\* pending are those the run under way still works on.
ConversationInv ==
    /\ Settled(messages, threw, toolExecution)
    /\ steeringQueue \in Seq(Inputs) /\ followUpQueue \in Seq(Inputs) /\ inputs \in Seq(Kinds)
    /\ \A r \in RunIds : TurnFits(runs[r], messages, threw, toolExecution)
    /\ ~threw /\ (\A r \in RunIds : runs[r].phase # "tools") => Pending(messages) = {}

\* The calls used are those from 1 to a number.
LEMMA UsedIsInterval ==
    ASSUME NEW t \in Seq(Sent), Numbered(t)
    PROVE  \E n \in Nat : Used(t) = 1..n /\ Cardinality(Used(t)) = n
<1>1. Len(t) \in 0..Len(t) /\ DOMAIN t = 1..Len(t)
  OBVIOUS
<1>2. PICK n \in Nat : Used(t) = 1..n
  BY <1>1 DEF Numbered, Used
<1>3. Cardinality(1..n) = n
  <2>1. Cardinality(1..n) = IF 1 > n THEN 0 ELSE n - 1 + 1
    BY FS_Interval
  <2> QED
    BY <2>1
<1> QED
  BY <1>2, <1>3

\* The numbers an answer gives its calls.
LEMMA FreshIds ==
    ASSUME NEW used \in Nat, NEW n \in Nat
    PROVE  LET calls == [k \in 1..n |-> used + k]
           IN  calls \in Seq(Nat) /\ Rising(calls) /\ Ids(calls) = (used + 1)..(used + n)
               /\ (n = 0 => calls = <<>>)
<1> DEFINE calls == [k \in 1..n |-> used + k]
<1>1. calls \in Seq(Nat) /\ Rising(calls)
  BY DEF Rising
<1>2. Ids(calls) = (used + 1)..(used + n)
  <2>1. ASSUME NEW c \in (used + 1)..(used + n) PROVE c \in Ids(calls)
    <3>1. c - used \in 1..n /\ used + (c - used) = c
      OBVIOUS
    <3> QED
      BY <3>1 DEF Ids
  <2>2. ASSUME NEW c \in Ids(calls) PROVE c \in (used + 1)..(used + n)
    BY <2>2 DEF Ids
  <2> QED
    BY <2>1, <2>2
<1>3. n = 0 => calls = <<>>
  OBVIOUS
<1> QED
  BY <1>1, <1>2, <1>3

\* A message that brings no calls, or new ones, and answers only calls made before it.
LEMMA OneMoreIsSound ==
    ASSUME NEW t, Sound(t), NEW m \in Sent,
           m.role = "toolResult" => m.id \in Used(t),
           m.calls = <<>> \/ \E k \in Nat : m.calls = [j \in 1..k |-> Cardinality(Used(t)) + j]
    PROVE  Sound(Append(t, m)) /\ Used(Append(t, m)) = Used(t) \cup Ids(m.calls)
<1> DEFINE u == Append(t, m)
           n == Len(t)
<1>1. t \in Seq(Sent) /\ t \in Seq(AnyMessage) /\ m \in AnyMessage
  BY DEF Sound, Sent
<1>2. /\ Len(u) = n + 1 /\ n \in Nat /\ DOMAIN t = 1..n /\ u[n + 1] = m
      /\ \A i \in DOMAIN t : u[i] = t[i] /\ i <= n
      /\ Results(u) = Results(t) \cup (IF m.role = "toolResult" THEN {n + 1} ELSE {})
  BY <1>1, OneMore
<1>3. u \in Seq(Sent) /\ DOMAIN u = 1..(n + 1)
  BY <1>1
<1> HIDE DEF u
<1>4. \A i \in 0..n : UsedIn(u, 1..i) = UsedIn(t, 1..i)
  BY <1>2 DEF UsedIn
<1>5. UsedIn(u, 1..(n + 1)) = UsedIn(t, 1..n) \cup Ids(m.calls)
  <2>1. 1..(n + 1) = (1..n) \cup {n + 1}
    BY <1>2
  <2>2. UsedIn(u, 1..(n + 1)) = UsedIn(u, 1..n) \cup Ids(u[n + 1].calls)
    BY <2>1 DEF UsedIn
  <2> QED
    BY <1>2, <1>4, <2>2
<1>6. Used(u) = Used(t) \cup Ids(m.calls) /\ Used(t) = UsedIn(t, 1..n)
  BY <1>2, <1>3, <1>5 DEF Used
<1>7. Known(u)
  <2>1. \A i \in Results(t) : i \in 1..n /\ i - 1 \in 0..n
    BY <1>2 DEF Results
  <2>2. ASSUME NEW i \in Results(t) PROVE u[i].id \in UsedIn(u, 1..(i - 1))
    BY <1>2, <1>4, <2>1 DEF Sound, Known
  <2>3. m.role = "toolResult" => u[n + 1].id \in UsedIn(u, 1..(n + 1 - 1))
    BY <1>2, <1>4, <1>6
  <2> QED
    BY <1>2, <2>2, <2>3 DEF Known
<1>8. \E k \in Nat : UsedIn(u, 1..(n + 1)) = 1..k
  <2>1. PICK used \in Nat : Used(t) = 1..used /\ Cardinality(Used(t)) = used
    BY <1>1, UsedIsInterval DEF Sound
  <2>2. CASE m.calls = <<>>
    <3>1. Ids(m.calls) = {}
      BY <2>2 DEF Ids
    <3> QED
      BY <1>5, <1>6, <2>1, <3>1
  <2>3. ASSUME NEW k \in Nat, m.calls = [j \in 1..k |-> Cardinality(Used(t)) + j]
        PROVE  \E l \in Nat : UsedIn(u, 1..(n + 1)) = 1..l
    <3>1. Ids(m.calls) = (used + 1)..(used + k)
      BY <2>1, <2>3, FreshIds
    <3>2. used + k \in Nat /\ (1..used) \cup ((used + 1)..(used + k)) = 1..(used + k)
      OBVIOUS
    <3> QED
      BY <1>5, <1>6, <2>1, <3>1, <3>2
  <2> QED
    BY <2>2, <2>3
<1>9. Numbered(u)
  <2>1. \A i \in 0..(n + 1) : i \in 0..n \/ i = n + 1
    BY <1>2
  <2> QED
    BY <1>2, <1>4, <1>8, <2>1 DEF Sound, Numbered
<1> QED
  BY <1>3, <1>6, <1>7, <1>9 DEF Sound, u

\* The last message taken away from a conversation.
LEMMA FrontOf ==
    ASSUME NEW S, NEW t \in Seq(S), t # <<>>
    PROVE  /\ Front(t) \in Seq(S) /\ Last(t) \in S /\ t = Append(Front(t), Last(t))
           /\ Len(t) \in Nat \ {0} /\ Len(Front(t)) = Len(t) - 1 /\ DOMAIN t = 1..Len(t)
           /\ DOMAIN Front(t) = 1..(Len(t) - 1) /\ \A i \in 1..(Len(t) - 1) : Front(t)[i] = t[i]
<1>1. Len(t) \in Nat \ {0} /\ DOMAIN t = 1..Len(t) /\ Last(t) \in S
  BY DEF Last
<1>2. Front(t) \in Seq(S) /\ Len(Front(t)) = Len(t) - 1 /\ \A i \in 1..(Len(t) - 1) : Front(t)[i] = t[i]
  BY <1>1 DEF Front
<1>3. DOMAIN Front(t) = 1..(Len(t) - 1)
  BY <1>2
<1> DEFINE u == Append(Front(t), Last(t))
<1>4. u \in Seq(S) /\ Len(u) = Len(t) /\ \A i \in 1..Len(t) : u[i] = t[i]
  <2> DEFINE f == Front(t)
             x == Last(t)
  <2>1. x \in S /\ f \in Seq(S) /\ Len(f) = Len(t) - 1 /\ x = t[Len(t)]
        /\ \A i \in 1..(Len(t) - 1) : f[i] = t[i]
    BY <1>1, <1>2 DEF Last
  <2> HIDE DEF f, x
  <2>2. Append(f, x) \in Seq(S) /\ Len(Append(f, x)) = Len(f) + 1 /\ Append(f, x)[Len(f) + 1] = x
        /\ \A i \in 1..Len(f) : Append(f, x)[i] = f[i]
    BY <2>1
  <2>3. Len(f) + 1 = Len(t) /\ Len(f) \in Nat
    <3>1. Len(t) \in Nat \ {0} /\ Len(f) = Len(t) - 1
      BY <1>1, <2>1
    <3> QED
      BY <3>1
  <2>4. \A i \in 1..Len(t) : i \in 1..Len(f) \/ i = Len(f) + 1
    BY <2>3
  <2> QED
    BY <1>1, <2>1, <2>2, <2>3, <2>4 DEF f, x
<1>5. t = u
  BY <1>4
<1> QED
  BY <1>1, <1>2, <1>3, <1>5

\* AgentSession removes a failed answer: what is left is sound, and waits for the same calls.
LEMMA FrontIsSettled ==
    ASSUME NEW t, NEW thrown \in BOOLEAN, NEW execution, t # <<>>,
           Settled(t, thrown, execution), Last(t).failed
    PROVE  Settled(Front(t), thrown, execution) /\ (~thrown => Pending(Front(t)) = Pending(t))
<1> DEFINE f == Front(t)
           m == Last(t)
           n == Len(t)
<1>1. t \in Seq(Sent) /\ Numbered(t) /\ Known(t)
  BY DEF Settled, Sound
<1>2. /\ f \in Seq(Sent) /\ m \in Sent /\ t = Append(f, m) /\ n \in Nat \ {0} /\ Len(f) = n - 1
      /\ DOMAIN t = 1..n /\ DOMAIN f = 1..(n - 1) /\ \A i \in 1..(n - 1) : f[i] = t[i]
  BY <1>1, FrontOf
<1>3. f \in Seq(AnyMessage) /\ m \in AnyMessage /\ m.role = "assistant" /\ m.failed
  BY <1>2 DEF Sent
<1> HIDE DEF f, m
<1>4. Numbered(f)
  <2>1. \A i \in 0..(n - 1) : UsedIn(f, 1..i) = UsedIn(t, 1..i)
    BY <1>2 DEF UsedIn
  <2> QED
    BY <1>1, <1>2, <2>1 DEF Numbered
<1>5. \A i \in Results(f) : i \in Results(t) /\ f[i] = t[i] /\ i \in 1..(n - 1)
  BY <1>2 DEF Results
<1>6. Known(f)
  <2> SUFFICES ASSUME NEW i \in Results(f) PROVE f[i].id \in UsedIn(f, 1..(i - 1))
    BY DEF Known
  <2>1. t[i].id \in UsedIn(t, 1..(i - 1))
    BY <1>1, <1>5 DEF Known
  <2>2. \A j \in 1..(i - 1) : f[j] = t[j]
    BY <1>2, <1>5
  <2> QED
    BY <1>5, <2>1, <2>2 DEF UsedIn
<1>7. execution = "sequential" => ResultsRise(f)
  BY <1>5 DEF Settled, ResultsRise
<1>8. ~thrown => Ok(f)
  BY <1>2, <1>3, NothingHeals DEF Settled
<1>9. Pending(f) = Pending(t)
  BY <1>2, <1>3, OneMoreIds DEF Pending, Counts
<1> QED
  BY <1>2, <1>4, <1>6, <1>7, <1>8, <1>9 DEF Settled, Sound, f

\* What messages of users change: nothing about calls and results.
Grown(t, u) ==
    /\ Sound(u) /\ Used(u) = Used(t) /\ Results(u) = Results(t)
    /\ \A i \in Results(t) : u[i] = t[i]
    /\ Ok(t) /\ Pending(t) = {} => Ok(u) /\ Pending(u) = {}

\* Messages of users, prompted, steering or following up, can be added when no call is
\* pending.
LEMMA InputsAdded ==
    ASSUME NEW t, Sound(t), NEW got \in Seq(Inputs)
    PROVE  Grown(t, t \o got)
<1> DEFINE n == Len(got)
           P == {k \in Nat : k <= n => Grown(t, t \o SubSeq(got, 1, k))}
<1>1. /\ SubSeq(got, 1, 0) = <<>> /\ SubSeq(got, 1, n) = got /\ n \in Nat
      /\ \A k \in 1..n : /\ SubSeq(got, 1, k - 1) \in Seq(Inputs) /\ got[k] \in Inputs
                         /\ SubSeq(got, 1, k) = Append(SubSeq(got, 1, k - 1), got[k])
  BY FirstMessages
<1>2. t \in Seq(Sent) /\ t \o <<>> = t
  BY DEF Sound
<1> HIDE DEF n
<1>3. 0 \in P
  BY <1>1, <1>2 DEF Grown
<1>4. ASSUME NEW k \in P PROVE k + 1 \in P
  <2> SUFFICES ASSUME k + 1 <= n PROVE Grown(t, t \o SubSeq(got, 1, k + 1))
    OBVIOUS
  <2> DEFINE s == SubSeq(got, 1, k)
             u == t \o s
             m == got[k + 1]
             w == Append(u, m)
  <2>1. Grown(t, u) /\ k + 1 \in 1..n /\ k \in Nat /\ n \in Nat
    BY <1>1
  <2> HIDE DEF P
  <2>2. s \in Seq(Inputs) /\ m \in Inputs /\ SubSeq(got, 1, k + 1) = Append(s, m)
    <3> DEFINE j == k + 1
    <3>1. j \in 1..n /\ j - 1 = k
      BY <2>1
    <3> HIDE DEF j
    <3>2. SubSeq(got, 1, j - 1) \in Seq(Inputs) /\ got[j] \in Inputs /\ SubSeq(got, 1, j) = Append(SubSeq(got, 1, j - 1), got[j])
      BY <1>1, <3>1
    <3> QED
      BY <3>1, <3>2 DEF j
  <2>3. t \o Append(s, m) = w
    <3>1. s \in Seq(Sent) /\ m \in Sent
      BY <2>2 DEF Inputs
    <3> QED
      BY <1>2, <3>1
  <2> HIDE DEF s, u, m
  <2>4. /\ m \in Sent /\ m \in AnyMessage /\ m.role = "user" /\ m.calls = <<>> /\ Ids(m.calls) = {}
        /\ ~Counts(m)
    BY <2>2 DEF Inputs, Sent, Ids, Counts
  <2>5. Sound(u) /\ u \in Seq(AnyMessage)
    BY <2>1 DEF Grown, Sound, Sent
  <2>6. Sound(w) /\ Used(w) = Used(u)
    BY <2>4, <2>5, OneMoreIsSound
  <2>7. /\ Results(w) = Results(u) /\ \A i \in DOMAIN u : w[i] = u[i]
    <3>1. Results(w) = Results(u) \cup (IF m.role = "toolResult" THEN {Len(u) + 1} ELSE {})
      BY <2>4, <2>5, OneMore
    <3>2. \A i \in DOMAIN u : w[i] = u[i]
      BY <2>4, <2>5, OneMore
    <3> QED
      BY <2>4, <3>1, <3>2
  <2>8. \A i \in Results(u) : i \in DOMAIN u
    BY DEF Results
  <2>9. Ok(u) /\ Pending(u) = {} => Ok(w) /\ Pending(w) = {}
    BY <2>4, <2>5, OneMoreIsOk, OneMoreIds DEF Pending
  <2>10. Grown(t, w)
    <3> HIDE DEF w
    <3> QED
      BY <2>1, <2>6, <2>7, <2>8, <2>9 DEF Grown
  <2> QED
    BY <2>2, <2>3, <2>10 DEF s
<1>5. P = Nat
  <2>1. P \in SUBSET Nat
    OBVIOUS
  <2> HIDE DEF P
  <2> QED
    BY <1>3, <1>4, <2>1, Induction
<1>6. Grown(t, t \o SubSeq(got, 1, n))
  BY <1>1, <1>5
<1> QED
  BY <1>1, <1>6

\* The result of a pending call can be added, whatever other calls are pending.
LEMMA ResultAdded ==
    ASSUME NEW t, Sound(t), NEW c \in Used(t)
    PROVE  LET u == Append(t, ToolResult(c))
           IN  /\ Sound(u) /\ Used(u) = Used(t)
               /\ \A d : ResultsBefore(t, d) /\ c < d => ResultsBefore(u, d)
               /\ ResultsRise(t) /\ ResultsBefore(t, c) => ResultsRise(u)
               /\ Ok(t) /\ c \in Pending(t) => Ok(u) /\ Pending(u) = Pending(t) \ {c}
<1> DEFINE m == ToolResult(c)
           u == Append(t, m)
           n == Len(t)
<1>1. t \in Seq(Sent) /\ t \in Seq(AnyMessage) /\ Numbered(t)
  BY DEF Sound, Sent
<1>2. c \in Nat
  BY <1>1, UsedIsInterval
<1>3. /\ m \in Sent /\ m \in AnyMessage /\ m.role = "toolResult" /\ m.calls = <<>> /\ Ids(m.calls) = {}
      /\ ~Counts(m) /\ m.id = c
  BY <1>2 DEF ToolResult, Message, Sent, AnyMessage, Roles, Ids, Counts
<1>4. /\ n \in Nat /\ DOMAIN t = 1..n /\ u[n + 1] = m /\ Results(u) = Results(t) \cup {n + 1}
      /\ \A i \in DOMAIN t : u[i] = t[i] /\ i <= n
  BY <1>1, <1>3, OneMore
<1> HIDE DEF m, n
<1>5. Sound(u) /\ Used(u) = Used(t)
  BY <1>3, OneMoreIsSound
<1>6. \A i \in Results(t) : i \in DOMAIN t /\ i \in Nat
  BY <1>4 DEF Results
<1>7. Ok(t) /\ c \in Pending(t) => Ok(u) /\ Pending(u) = Pending(t) \ {c}
  BY <1>1, <1>3, OneMoreIsOk, OneMoreIds DEF Pending
<1> HIDE DEF u
<1>8. \A d : ResultsBefore(t, d) /\ c < d => ResultsBefore(u, d)
  BY <1>3, <1>4, <1>6 DEF ResultsBefore
<1>9. ASSUME ResultsRise(t), ResultsBefore(t, c) PROVE ResultsRise(u)
  <2> SUFFICES ASSUME NEW i \in Results(u), NEW j \in Results(u), i < j PROVE u[i].id < u[j].id
    BY DEF ResultsRise
  <2>1. i \in Results(t)
    BY <1>4, <1>6
  <2>2. CASE j \in Results(t)
    BY <1>4, <1>6, <1>9, <2>1, <2>2 DEF ResultsRise
  <2>3. CASE j = n + 1
    BY <1>3, <1>4, <1>6, <1>9, <2>1, <2>3 DEF ResultsBefore
  <2> QED
    BY <1>4, <2>2, <2>3
<1> QED
  BY <1>5, <1>7, <1>8, <1>9 DEF u, m

\* An answer of the model can be added when no call is pending: then its own calls are.
\* A failed answer changes nothing about calls.
LEMMA AnswerAdded ==
    ASSUME NEW t, Sound(t), NEW n \in Nat, NEW failed \in BOOLEAN
    PROVE  LET calls == [k \in 1..n |-> Cardinality(Used(t)) + k]
               u == Append(t, Message("assistant", calls, failed, Blank))
           IN  /\ Sound(u) /\ Used(u) = Used(t) \cup Ids(calls)
               /\ calls \in Seq(Nat) /\ Rising(calls) /\ (n = 0 => calls = <<>>)
               /\ ResultsRise(t) => ResultsRise(u)
               /\ \A c \in Ids(calls) : ResultsBefore(u, c)
               /\ Ok(t) /\ Pending(t) = {} =>
                     Ok(u) /\ Pending(u) = IF failed THEN {} ELSE Ids(calls)
<1> DEFINE calls == [k \in 1..n |-> Cardinality(Used(t)) + k]
           m == Message("assistant", calls, failed, Blank)
           u == Append(t, m)
<1>1. t \in Seq(Sent) /\ t \in Seq(AnyMessage) /\ Numbered(t) /\ Known(t)
  BY DEF Sound, Sent
<1>2. PICK used \in Nat : Used(t) = 1..used /\ Cardinality(Used(t)) = used
  BY <1>1, UsedIsInterval
<1>3. /\ calls \in Seq(Nat) /\ Rising(calls) /\ (n = 0 => calls = <<>>)
      /\ Ids(calls) = (used + 1)..(used + n)
  BY <1>2, FreshIds
<1>m. m.calls = calls /\ m.role = "assistant" /\ m.failed = failed
  BY DEF Message
<1>s. \E k \in Nat : m.calls = [j \in 1..k |-> Cardinality(Used(t)) + j]
  BY <1>m
<1> HIDE DEF calls
<1>4. /\ m \in Sent /\ m \in AnyMessage /\ (Counts(m) <=> ~failed)
  BY <1>3 DEF Message, Sent, AnyMessage, Roles, Counts, Blank
<1> HIDE DEF m
<1>5. Sound(u) /\ Used(u) = Used(t) \cup Ids(calls)
  BY <1>m, <1>s, <1>4, OneMoreIsSound
<1>6. Results(u) = Results(t) /\ \A i \in DOMAIN t : u[i] = t[i]
  <2>1. /\ Results(u) = Results(t) \cup (IF m.role = "toolResult" THEN {Len(t) + 1} ELSE {})
        /\ \A i \in DOMAIN t : u[i] = t[i]
    BY <1>1, <1>4, OneMore
  <2> QED
    BY <1>m, <2>1
<1>7. \A i \in Results(t) : i \in DOMAIN t
  BY DEF Results
<1>8. ASSUME NEW i \in Results(t) PROVE t[i].id \in 1..used
  <2>1. t[i].id \in UsedIn(t, 1..(i - 1))
    BY <1>1 DEF Known
  <2>2. DOMAIN t = 1..Len(t) /\ Len(t) \in Nat
    BY <1>1
  <2>3. 1..(i - 1) \subseteq DOMAIN t
    BY <1>7, <2>2
  <2> QED
    BY <1>2, <2>1, <2>3 DEF Used, UsedIn
<1>9. Called(t) \subseteq 1..used
  BY <1>2 DEF Called, Callers, Used, UsedIn
<1>10. Ok(t) => Answered(t) \subseteq Called(t)
  <2> SUFFICES ASSUME Ok(t), NEW r \in Results(t) PROVE t[r].id \in Called(t)
    BY DEF Answered
  <2>1. t[r].id \in Nat
    BY <1>8
  <2> QED
    BY <2>1 DEF Ok, ResultsAnswer, Answers, Called
<1>11. Repeated(calls, Called(t)) = {}
  <2> SUFFICES ASSUME NEW k \in DOMAIN calls,
                      calls[k] \in Called(t) \/ \E j \in DOMAIN calls : j < k /\ calls[j] = calls[k]
               PROVE  FALSE
    BY DEF Repeated
  <2>1. calls[k] \in (used + 1)..(used + n)
    BY <1>3 DEF Ids
  <2>2. calls[k] \notin Called(t)
    BY <1>9, <2>1
  <2>3. PICK j \in DOMAIN calls : j < k /\ calls[j] = calls[k]
    BY <2>2
  <2> QED
    BY <1>3, <2>1, <2>3 DEF Rising
<1>12. Blank \notin Ids(calls)
  BY <1>3 DEF Blank
<1>13. ASSUME Ok(t), Pending(t) = {} PROVE Ok(u) /\ Pending(u) = IF failed THEN {} ELSE Ids(calls)
  <2>1. Ok(u)
    BY <1>1, <1>m, <1>4, <1>11, <1>12, <1>13, OneMoreIsOk
  <2>2. Called(u) = Called(t) \cup (IF failed THEN {} ELSE Ids(calls)) /\ Answered(u) = Answered(t)
    BY <1>1, <1>m, <1>4, OneMoreIds
  <2>3. Ids(calls) \cap Called(t) = {}
    BY <1>3, <1>9
  <2>4. Called(t) = Answered(t)
    BY <1>10, <1>13 DEF Pending
  <2> QED
    BY <2>1, <2>2, <2>3, <2>4 DEF Pending
<1>14. ResultsRise(t) => ResultsRise(u)
  BY <1>6, <1>7 DEF ResultsRise
<1>15. \A c \in Ids(calls) : ResultsBefore(u, c)
  BY <1>3, <1>6, <1>7, <1>8 DEF ResultsBefore
<1> QED
  BY <1>3, <1>5, <1>13, <1>14, <1>15 DEF u, m, calls

\* The first of the calls that wait.
LEMMA FirstWaiting ==
    ASSUME NEW s \in Seq(Nat), s # <<>>, Rising(s)
    PROVE  /\ Head(s) \in Nat /\ Tail(s) \in Seq(Nat) /\ Rising(Tail(s))
           /\ Ids(s) = Ids(Tail(s)) \cup {Head(s)} /\ \A c \in Ids(Tail(s)) : Head(s) < c
<1>1. /\ Head(s) \in Nat /\ Tail(s) \in Seq(Nat) /\ Len(s) \in Nat \ {0} /\ Head(s) = s[1]
      /\ DOMAIN s = 1..Len(s) /\ DOMAIN Tail(s) = 1..(Len(s) - 1)
      /\ \A i \in 1..(Len(s) - 1) : Tail(s)[i] = s[i + 1]
  OBVIOUS
<1>2. Rising(Tail(s))
  BY <1>1 DEF Rising
<1>3. \A c \in Ids(Tail(s)) : Head(s) < c
  BY <1>1 DEF Ids, Rising
<1>4. Ids(s) = Ids(Tail(s)) \cup {Head(s)}
  <2>1. ASSUME NEW i \in 1..Len(s) PROVE s[i] \in Ids(Tail(s)) \cup {Head(s)}
    <3>1. CASE i = 1
      BY <1>1, <3>1
    <3>2. CASE i # 1
      <4>1. i - 1 \in 1..(Len(s) - 1) /\ i - 1 + 1 = i
        BY <1>1, <3>2
      <4> QED
        BY <1>1, <4>1 DEF Ids
    <3> QED
      BY <3>1, <3>2
  <2>2. ASSUME NEW i \in 1..(Len(s) - 1) PROVE Tail(s)[i] \in Ids(s)
    BY <1>1 DEF Ids
  <2>3. Head(s) \in Ids(s)
    BY <1>1 DEF Ids
  <2> QED
    BY <1>1, <2>1, <2>2, <2>3 DEF Ids
<1> QED
  BY <1>1, <1>2, <1>3, <1>4

\* A call that waits for the scheduler goes behind those that do already.
LEMMA OneMoreWaits ==
    ASSUME NEW s \in Seq(Nat), Rising(s), NEW c \in Nat, \A d \in Ids(s) : d < c
    PROVE  Append(s, c) \in Seq(Nat) /\ Rising(Append(s, c)) /\ Ids(Append(s, c)) = Ids(s) \cup {c}
<1> DEFINE u == Append(s, c)
<1>1. u \in Seq(Nat) /\ DOMAIN u = (1..Len(s)) \cup {Len(s) + 1} /\ DOMAIN s = 1..Len(s) /\ Len(s) \in Nat
      /\ u[Len(s) + 1] = c /\ \A i \in 1..Len(s) : u[i] = s[i] /\ s[i] \in Nat
  OBVIOUS
<1> HIDE DEF u
<1>2. Ids(u) = Ids(s) \cup {c}
  BY <1>1 DEF Ids
<1>3. Rising(u)
  BY <1>1 DEF Rising, Ids
<1> QED
  BY <1>1, <1>2, <1>3 DEF u

-----------------------------------------------------------------------------
(* Every conversation is well-formed                                       *)

\* A new conversation, and what the owner may queue.
LEMMA ConversationBegins ==
    /\ \A thrown, execution : Settled(<<>>, thrown, execution)
    /\ Pending(<<>>) = {}
    /\ \A k \in Nat : Input(k) \in Inputs
<1>1. Validated(<<>>, ValidatorStart)
  BY NothingRead
<1>2. Ok(<<>>) /\ Pending(<<>>) = {}
  BY <1>1 DEF Validated, NothingFound, ValidatorStart, NoSpan
<1>3. Results(<<>>) = {}
  BY DEF Results
<1>4. Sound(<<>>)
  <2>1. UsedIn(<<>>, 1..0) = 1..0
    BY DEF UsedIn
  <2>2. 0..Len(<<>>) = {0} /\ <<>> \in Seq(Sent)
    OBVIOUS
  <2> QED
    BY <1>3, <2>1, <2>2 DEF Sound, Numbered, Known
<1>5. \A k \in Nat : Input(k) \in Inputs
  BY DEF Input, Message, Inputs, Sent, AnyMessage, Roles
<1> QED
  BY <1>2, <1>3, <1>4, <1>5 DEF Settled, ResultsRise

\* What is taken from a queue, and what is left in it, are messages of users.
LEMMA TakenInputs ==
    ASSUME NEW queue \in Seq(Inputs), NEW mode
    PROVE  Taken(queue, mode).got \in Seq(Inputs) /\ Taken(queue, mode).left \in Seq(Inputs)
<1>1. CASE mode = "all" \/ queue = <<>>
  BY <1>1 DEF Taken
<1>2. CASE ~(mode = "all" \/ queue = <<>>)
  <2>1. Head(queue) \in Inputs /\ Tail(queue) \in Seq(Inputs)
    BY <1>2
  <2> QED
    BY <1>2, <2>1 DEF Taken
<1> QED
  BY <1>1, <1>2

\* Messages of users settle as they are, when no call is pending.
LEMMA InputsSettle ==
    ASSUME NEW t, NEW thrown \in BOOLEAN, NEW execution, Settled(t, thrown, execution),
           ~thrown => Pending(t) = {}, NEW got \in Seq(Inputs)
    PROVE  Settled(t \o got, thrown, execution) /\ (~thrown => Pending(t \o got) = {})
<1> DEFINE u == t \o got
<1>1. Grown(t, u)
  BY InputsAdded DEF Settled
<1> HIDE DEF u
<1>2. execution = "sequential" => ResultsRise(u)
  BY <1>1 DEF Settled, Grown, ResultsRise
<1> QED
  BY <1>1, <1>2 DEF Settled, Grown, u

\* The run that is under way goes on, and no other one does anything.
LEMMA TurnGoesOn ==
    ASSUME ConversationInv, NEW r \in RunIds, Active \subseteq {r},
           \A q \in RunIds \ {r} : runs'[q] = runs[q],
           Settled(messages', threw', toolExecution'),
           steeringQueue' \in Seq(Inputs), followUpQueue' \in Seq(Inputs), inputs' \in Seq(Kinds),
           TurnFits(runs'[r], messages', threw', toolExecution'),
           ~threw' /\ runs'[r].phase # "tools" => Pending(messages') = {}
    PROVE  ConversationInv'
<1>1. ASSUME NEW q \in RunIds \ {r} PROVE runs'[q].phase = "none"
  BY DEF Active
<1>2. \A q \in RunIds : TurnFits(runs'[q], messages', threw', toolExecution')
  BY <1>1 DEF TurnFits
<1> QED
  BY <1>2 DEF ConversationInv

\* prompt() and continue(): a run starts with messages of users.
LEMMA RunStarts ==
    ASSUME RunInv, ConversationInv, threw \in BOOLEAN, Active = {},
           NEW prompts \in Seq(Inputs), NEW skipPoll, StartRun(prompts, skipPoll),
           steeringQueue' \in Seq(Inputs), followUpQueue' \in Seq(Inputs), inputs' \in Seq(Kinds),
           UNCHANGED <<threw, toolExecution>>
    PROVE  ConversationInv'
<1>1. PICK r \in RunIds :
        /\ runs' = [runs EXCEPT ![r] = [NoRun EXCEPT !.phase = "poll", !.more = TRUE,
                                           !.context = messages \o prompts, !.skipPoll = skipPoll]]
        /\ messages' = messages \o prompts
  BY DEF StartRun
<1>2. runs'[r].phase = "poll" /\ runs'[r].runnable = <<>> /\ \A q \in RunIds \ {r} : runs'[q] = runs[q]
  BY <1>1 DEF RunInv, NoRun
<1>3. \A q \in RunIds : runs[q].phase # "tools"
  BY DEF Active
<1>4. ~threw => Pending(messages) = {}
  BY <1>3 DEF ConversationInv
<1>5. Settled(messages', threw, toolExecution) /\ (~threw => Pending(messages') = {})
  BY <1>1, <1>4, InputsSettle DEF ConversationInv
<1>6. TurnFits(runs'[r], messages', threw', toolExecution')
  BY <1>2 DEF TurnFits
<1> QED
  BY <1>2, <1>5, <1>6, TurnGoesOn

\* The conversation stays well-formed, call by call and result by result.
LEMMA ConversationsHold ==
    ASSUME ~ListenersPrompt PROVE AgentSpec => [](threw \in BOOLEAN /\ ConversationInv)
<1>1. AgentInit => threw \in BOOLEAN /\ ConversationInv
  <2> SUFFICES ASSUME AgentInit PROVE threw \in BOOLEAN /\ ConversationInv
    OBVIOUS
  <2>1. \A r \in RunIds : runs[r].phase = "none"
    BY DEF AgentInit, NoRun
  <2>2. \A r \in RunIds : TurnFits(runs[r], messages, threw, toolExecution)
    BY <2>1 DEF TurnFits
  <2>3. <<>> \in Seq(Inputs) /\ <<>> \in Seq(Kinds)
    OBVIOUS
  <2> QED
    BY <2>2, <2>3, ConversationBegins DEF AgentInit, ConversationInv
<1>2. RunInv /\ threw \in BOOLEAN /\ ConversationInv /\ [AgentNext]_vars => (threw \in BOOLEAN)' /\ ConversationInv'
  <2> SUFFICES ASSUME RunInv, threw \in BOOLEAN, ConversationInv, [AgentNext]_vars
               PROVE  threw' \in BOOLEAN /\ ConversationInv'
    OBVIOUS
  <2>i. /\ Settled(messages, threw, toolExecution)
        /\ steeringQueue \in Seq(Inputs) /\ followUpQueue \in Seq(Inputs) /\ inputs \in Seq(Kinds)
        /\ \A r \in RunIds : TurnFits(runs[r], messages, threw, toolExecution)
        /\ ~threw /\ (\A r \in RunIds : runs[r].phase # "tools") => Pending(messages) = {}
    BY DEF ConversationInv
  <2>r. DOMAIN runs = RunIds /\ (\A r, q \in Active : r = q) /\ \A r \in RunIds : IsRun(runs[r])
    BY DEF RunInv, Agrees
  <2>s. MayStart => Active = {}
    BY DEF MayStart
  <2>t. toolExecution' = toolExecution
    BY DEF AgentNext, OwnerStep, RunStep, vars
  <2>n. ASSUME NEW kind \in Kinds, NewInput(kind) PROVE inputs' \in Seq(Kinds) /\ NextInput \in Inputs
    <3>1. inputs' = Append(inputs, kind) /\ Len(inputs) + 1 \in Nat
      BY <2>i, <2>n DEF NewInput
    <3> QED
      BY <2>i, <3>1, ConversationBegins DEF NextInput
  <2>1. CASE Prompt
    <3>1. /\ Active = {} /\ StartRun(<<NextInput>>, FALSE) /\ NewInput("prompt")
          /\ UNCHANGED <<steeringQueue, followUpQueue, threw>>
      BY <2>1, <2>s DEF Prompt, queues
    <3>2. "prompt" \in Kinds
      BY DEF Kinds
    <3>3. inputs' \in Seq(Kinds) /\ NextInput \in Inputs
      BY <2>n, <3>1, <3>2
    <3>4. <<NextInput>> \in Seq(Inputs)
      BY <3>3
    <3> QED
      BY <2>i, <2>t, <3>1, <3>3, <3>4, RunStarts
  <2>2. CASE Continue
    <3> DEFINE steering == Taken(steeringQueue, SteeringMode)
               followUp == Taken(followUpQueue, FollowUpMode)
    <3>1. /\ steering.got \in Seq(Inputs) /\ steering.left \in Seq(Inputs)
          /\ followUp.got \in Seq(Inputs) /\ followUp.left \in Seq(Inputs) /\ <<>> \in Seq(Inputs)
      BY <2>i, TakenInputs
    <3>2. /\ Active = {} /\ UNCHANGED <<threw, inputs>>
          /\ \/ StartRun(<<>>, FALSE) /\ UNCHANGED <<steeringQueue, followUpQueue>>
             \/ StartRun(steering.got, TRUE) /\ steeringQueue' = steering.left /\ followUpQueue' = followUpQueue
             \/ StartRun(followUp.got, FALSE) /\ followUpQueue' = followUp.left /\ steeringQueue' = steeringQueue
      BY <2>2, <2>s DEF Continue, queues, owner
    <3> HIDE DEF steering, followUp
    <3>3. CASE StartRun(<<>>, FALSE) /\ UNCHANGED <<steeringQueue, followUpQueue>>
      BY <2>i, <2>t, <3>1, <3>2, <3>3, RunStarts
    <3>4. CASE StartRun(steering.got, TRUE) /\ steeringQueue' = steering.left /\ followUpQueue' = followUpQueue
      BY <2>i, <2>t, <3>1, <3>2, <3>4, RunStarts
    <3>5. CASE StartRun(followUp.got, FALSE) /\ followUpQueue' = followUp.left /\ steeringQueue' = steeringQueue
      BY <2>i, <2>t, <3>1, <3>2, <3>5, RunStarts
    <3> QED
      BY <3>2, <3>3, <3>4, <3>5
  <2>3. CASE Steer \/ FollowUp \/ ClearAllQueues
    <3>1. /\ UNCHANGED <<messages, runs, threw>>
          /\ steeringQueue' \in {steeringQueue, <<>>, Append(steeringQueue, NextInput)}
          /\ followUpQueue' \in {followUpQueue, <<>>, Append(followUpQueue, NextInput)}
          /\ inputs' = inputs \/ NewInput("steer") \/ NewInput("followUp")
      BY <2>3 DEF Steer, FollowUp, ClearAllQueues
    <3>2. "steer" \in Kinds /\ "followUp" \in Kinds
      BY DEF Kinds
    <3>3. inputs' \in Seq(Kinds)
      BY <2>i, <2>n, <3>1, <3>2
    <3>4. NextInput \in Inputs
      <4>1. Len(inputs) + 1 \in Nat
        BY <2>i
      <4> QED
        BY <4>1, ConversationBegins DEF NextInput
    <3>5. steeringQueue' \in Seq(Inputs) /\ followUpQueue' \in Seq(Inputs)
      <4>1. <<>> \in Seq(Inputs) /\ Append(steeringQueue, NextInput) \in Seq(Inputs)
            /\ Append(followUpQueue, NextInput) \in Seq(Inputs)
        BY <2>i, <3>4
      <4> QED
        BY <2>i, <3>1, <4>1
    <3> QED
      BY <2>i, <2>t, <3>1, <3>3, <3>5 DEF ConversationInv
  <2>4. CASE Abort
    <3>1. /\ UNCHANGED <<messages, steeringQueue, followUpQueue, inputs, threw>>
          /\ runs' = [runs EXCEPT ![controller].aborted = TRUE]
      BY <2>4 DEF Abort, queues, owner
    <3>2. ASSUME NEW r \in RunIds
          PROVE  /\ runs'[r].phase = runs[r].phase /\ runs'[r].calls = runs[r].calls
                 /\ runs'[r].runnable = runs[r].runnable
      <4>1. DOMAIN runs[r] = RunFields
        BY <2>r DEF IsRun
      <4>2. runs'[r] = runs[r] \/ runs'[r] = [runs[r] EXCEPT !.aborted = TRUE]
        BY <2>r, <3>1
      <4> QED
        BY <4>1, <4>2 DEF RunFields
    <3>3. \A r \in RunIds : TurnFits(runs'[r], messages, threw, toolExecution)
      BY <2>i, <3>2 DEF TurnFits, Turn, Waiting
    <3> QED
      BY <2>i, <2>t, <3>1, <3>2, <3>3 DEF ConversationInv
  <2>5. CASE Reset
    <3>1. /\ Active = {} /\ UNCHANGED <<runs, inputs>> /\ messages' = <<>> /\ threw' = FALSE
          /\ steeringQueue' = <<>> /\ followUpQueue' = <<>>
      BY <2>5 DEF Reset
    <3>2. \A r \in RunIds : runs'[r].phase = "none"
      BY <3>1 DEF Active
    <3>3. \A r \in RunIds : TurnFits(runs'[r], messages', threw', toolExecution')
      BY <3>2 DEF TurnFits
    <3>4. <<>> \in Seq(Inputs)
      OBVIOUS
    <3> QED
      BY <2>i, <3>1, <3>3, <3>4, ConversationBegins DEF ConversationInv
  <2>6. CASE DropFailed
    <3>1. /\ Active = {} /\ UNCHANGED <<runs, inputs, threw, steeringQueue, followUpQueue>>
          /\ messages # <<>> /\ Last(messages).failed /\ messages' = Front(messages)
      BY <2>6 DEF DropFailed, queues, owner
    <3>2. \A r \in RunIds : runs[r].phase = "none"
      BY <3>1 DEF Active
    <3>3. \A r \in RunIds : TurnFits(runs'[r], messages', threw', toolExecution')
      BY <3>1, <3>2 DEF TurnFits
    <3>4. Settled(messages', threw, toolExecution) /\ (~threw => Pending(messages') = Pending(messages))
      BY <2>i, <3>1, FrontIsSettled
    <3> QED
      BY <2>i, <2>t, <3>1, <3>2, <3>3, <3>4 DEF ConversationInv
  <2>7. ASSUME NEW r \in RunIds, RunStep(r) PROVE threw' \in BOOLEAN /\ ConversationInv'
    <3>a. runs[r].phase # "none" => Active \subseteq {r}
      BY <2>r DEF Active
    <3>b. runs[r].phase \notin {"none", "tools"} /\ ~threw => Pending(messages) = {}
      BY <2>i, <3>a DEF Active
    <3>c. TurnFits(runs[r], messages, threw, toolExecution) /\ DOMAIN runs[r] = RunFields
      BY <2>i, <2>r DEF IsRun
    <3>d. messages \in Seq(Sent) /\ Sound(messages) /\ IsASeq(messages)
      BY <2>i DEF Settled, Sound, RunInv
    <3> DEFINE run == runs[r]
    <3>1. CASE PollSteering(r) \/ PollFollowUps(r)
      <4>1. /\ run.phase \in {"poll", "followUps"} /\ UNCHANGED <<inputs, threw>>
            /\ \E got \in Seq(Inputs) : messages' = messages \o got
            /\ steeringQueue' \in Seq(Inputs) /\ followUpQueue' \in Seq(Inputs)
        <5>0. <<>> \in Seq(Inputs) /\ messages = messages \o <<>>
          BY <3>d
        <5>1. CASE PollSteering(r)
          <6> DEFINE taken == Taken(steeringQueue, SteeringMode)
                     got == IF runs[r].skipPoll THEN <<>> ELSE taken.got
          <6>1. taken.got \in Seq(Inputs) /\ taken.left \in Seq(Inputs)
            BY <2>i, TakenInputs
          <6>2. /\ run.phase = "poll" /\ UNCHANGED <<inputs, threw, followUpQueue>>
                /\ steeringQueue' = (IF runs[r].skipPoll THEN steeringQueue ELSE taken.left)
                /\ messages' = messages \o got \/ messages' = messages
            BY <5>1 DEF PollSteering, Inject, Emit, owner
          <6> HIDE DEF taken
          <6> QED
            BY <2>i, <5>0, <6>1, <6>2
        <5>2. CASE PollFollowUps(r)
          <6> DEFINE taken == Taken(followUpQueue, FollowUpMode)
          <6>1. taken.got \in Seq(Inputs) /\ taken.left \in Seq(Inputs)
            BY <2>i, TakenInputs
          <6>2. /\ run.phase = "followUps" /\ UNCHANGED <<inputs, threw, steeringQueue>>
                /\ followUpQueue' = taken.left
                /\ messages' = messages \o taken.got \/ messages' = messages
            BY <5>2 DEF PollFollowUps, Inject, Emit, owner
          <6> HIDE DEF taken
          <6> QED
            BY <2>i, <5>0, <6>1, <6>2
        <5> QED
          BY <3>1, <5>1, <5>2
      <4>2. /\ \A q \in RunIds \ {r} : runs'[q] = runs[q]
            /\ runs'[r].phase \in {"request", "followUps", "ended"} /\ runs'[r].runnable = run.runnable
        <5>1. CASE PollSteering(r)
          <6> DEFINE got == IF runs[r].skipPoll THEN <<>> ELSE Taken(steeringQueue, SteeringMode).got
          <6>1. \/ runs' = [runs EXCEPT ![r] = [[run EXCEPT !.skipPoll = FALSE] EXCEPT !.phase = "request", !.context = @ \o got]]
                \/ runs' = [runs EXCEPT ![r] = [[run EXCEPT !.skipPoll = FALSE] EXCEPT !.phase = "followUps"]]
            BY <5>1, <3>c DEF PollSteering, Inject, RunFields
          <6> HIDE DEF got
          <6> QED
            BY <2>r, <3>c, <6>1 DEF RunFields
        <5>2. CASE PollFollowUps(r)
          <6> DEFINE got == Taken(followUpQueue, FollowUpMode).got
          <6>1. \/ runs' = [runs EXCEPT ![r] = [run EXCEPT !.phase = "request", !.context = @ \o got]]
                \/ runs' = [runs EXCEPT ![r].phase = "ended"]
            BY <5>2 DEF PollFollowUps, Inject
          <6> HIDE DEF got
          <6> QED
            BY <2>r, <3>c, <6>1 DEF RunFields
        <5> QED
          BY <3>1, <5>1, <5>2
      <4>3. Settled(messages', threw, toolExecution) /\ (~threw => Pending(messages') = {})
        BY <2>i, <3>b, <4>1, InputsSettle
      <4>4. TurnFits(runs'[r], messages', threw', toolExecution')
        BY <3>c, <4>1, <4>2 DEF TurnFits
      <4> QED
        BY <2>i, <2>t, <3>a, <4>1, <4>2, <4>3, <4>4, TurnGoesOn
    <3>2. ASSUME NEW n \in 0..MaxCalls, Reply(r, n) PROVE threw' \in BOOLEAN /\ ConversationInv'
      <4> DEFINE calls == [k \in 1..n |-> Cardinality(Used(messages)) + k]
                 answer == Message("assistant", calls, FALSE, Blank)
      <4>1. FreshCalls(n) = calls /\ Assistant(calls) = answer /\ n \in Nat
        BY DEF FreshCalls, UsedCalls, Used, UsedIn, Assistant
      <4> HIDE DEF calls
      <4>2. /\ messages' = Append(messages, answer) /\ run.phase = "request"
            /\ UNCHANGED <<inputs, threw, steeringQueue, followUpQueue>>
            /\ runs' = [runs EXCEPT ![r].context = Append(@, answer), ![r].more = n > 0,
                                ![r].calls = calls, ![r].results = <<>>,
                                ![r].phase = IF n > 0 THEN "tools" ELSE "poll"]
        BY <3>2, <3>d, <4>1, Appends DEF Reply, Emit, queues, owner
      <4>3. /\ Sound(messages') /\ Used(messages') = Used(messages) \cup Ids(calls)
            /\ calls \in Seq(Nat) /\ Rising(calls) /\ (n = 0 => calls = <<>>)
            /\ ResultsRise(messages) => ResultsRise(messages')
            /\ \A c \in Ids(calls) : ResultsBefore(messages', c)
            /\ Ok(messages) /\ Pending(messages) = {} => Ok(messages') /\ Pending(messages') = Ids(calls)
        BY <3>d, <4>1, <4>2, AnswerAdded DEF calls
      <4> HIDE DEF answer
      <4>4. /\ \A q \in RunIds \ {r} : runs'[q] = runs[q]
            /\ runs'[r].phase = (IF n > 0 THEN "tools" ELSE "poll")
            /\ runs'[r].calls = calls /\ runs'[r].runnable = <<>>
        BY <2>r, <3>c, <4>2 DEF RunFields, TurnFits
      <4>5. Ids(<<>>) = {} /\ Rising(<<>>) /\ <<>> \in Seq(Nat)
        BY DEF Ids, Rising
      <4>6. Turn(runs'[r], Used(messages')) /\ Waiting(runs'[r]) = Ids(calls)
        BY <4>3, <4>4, <4>5 DEF Turn, Waiting
      <4>7. ~threw => Ok(messages') /\ Pending(messages') = Ids(calls)
        BY <2>i, <3>b, <4>2, <4>3 DEF Settled
      <4>8. Settled(messages', threw, toolExecution)
        BY <2>i, <4>3, <4>7 DEF Settled
      <4>9. TurnFits(runs'[r], messages', threw, toolExecution)
        BY <4>3, <4>4, <4>6, <4>7 DEF TurnFits
      <4>10. ~threw /\ runs'[r].phase # "tools" => Pending(messages') = {}
        BY <4>1, <4>3, <4>4, <4>5, <4>7
      <4> QED
        BY <2>i, <2>t, <3>a, <4>2, <4>4, <4>8, <4>9, <4>10, TurnGoesOn
    <3>3. ASSUME RequestThrows(r) \/ \E n \in 0..MaxCalls : ReplyFailed(r, n)
          PROVE  threw' \in BOOLEAN /\ ConversationInv'
      <4>1. PICK n \in Nat :
              /\ messages' = messages \o <<Message("assistant", [k \in 1..n |-> Cardinality(Used(messages)) + k], TRUE, Blank)>>
              /\ run.phase = "request" /\ UNCHANGED <<inputs, threw, steeringQueue, followUpQueue>>
              /\ runs' = [runs EXCEPT ![r].phase = "ended"]
        <5>1. CASE RequestThrows(r)
          <6>1. [k \in 1..0 |-> Cardinality(Used(messages)) + k] = <<>>
            OBVIOUS
          <6> QED
            BY <5>1, <6>1 DEF RequestThrows, Emit, queues, owner, FailedAssistant
        <5>2. ASSUME NEW n \in 0..MaxCalls, ReplyFailed(r, n)
              PROVE  /\ messages' = messages \o <<Message("assistant", [k \in 1..n |-> Cardinality(Used(messages)) + k], TRUE, Blank)>>
                     /\ run.phase = "request" /\ UNCHANGED <<inputs, threw, steeringQueue, followUpQueue>>
                     /\ runs' = [runs EXCEPT ![r].phase = "ended"] /\ n \in Nat
          BY <5>2 DEF ReplyFailed, Emit, queues, owner, FailedAssistant, FreshCalls, UsedCalls, Used, UsedIn
        <5> QED
          BY <3>3, <5>1, <5>2
      <4> DEFINE calls == [k \in 1..n |-> Cardinality(Used(messages)) + k]
                 m == Message("assistant", calls, TRUE, Blank)
      <4>2. messages' = Append(messages, m)
        BY <3>d, <4>1, Appends
      <4>3. /\ Sound(messages') /\ (ResultsRise(messages) => ResultsRise(messages'))
            /\ Ok(messages) /\ Pending(messages) = {} => Ok(messages') /\ Pending(messages') = {}
        BY <3>d, <4>2, AnswerAdded
      <4>4. runs'[r].phase = "ended" /\ \A q \in RunIds \ {r} : runs'[q] = runs[q]
        BY <2>r, <3>c, <4>1 DEF RunFields
      <4>5. Settled(messages', threw, toolExecution) /\ (~threw => Pending(messages') = {})
        BY <2>i, <3>b, <4>1, <4>3 DEF Settled
      <4>6. TurnFits(runs'[r], messages', threw, toolExecution)
        BY <4>4 DEF TurnFits
      <4> QED
        BY <2>i, <2>t, <3>a, <4>1, <4>4, <4>5, <4>6, TurnGoesOn
    <3>4. ASSUME NEW prepared \in BOOLEAN, PrepareCall(r, prepared) PROVE threw' \in BOOLEAN /\ ConversationInv'
      <4> DEFINE call == Head(run.calls)
      <4>1. /\ run.phase = "tools" /\ run.calls # <<>> /\ UNCHANGED <<inputs, threw, steeringQueue, followUpQueue>>
        BY <3>4 DEF PrepareCall, queues, owner
      <4>2. /\ Turn(run, Used(messages)) /\ (~threw => Pending(messages) = Waiting(run))
            /\ toolExecution = "sequential" =>
                 run.runnable = <<>> /\ \A c \in Ids(run.calls) : ResultsBefore(messages, c)
        BY <3>c, <4>1 DEF TurnFits
      <4>3. /\ call \in Nat /\ Tail(run.calls) \in Seq(Nat) /\ Rising(Tail(run.calls))
            /\ Ids(run.calls) = Ids(Tail(run.calls)) \cup {call} /\ \A c \in Ids(Tail(run.calls)) : call < c
        BY <4>1, <4>2, FirstWaiting DEF Turn
      <4>4. CASE prepared /\ toolExecution = "parallel"
        <5>1. /\ messages' = messages
              /\ runs' = [runs EXCEPT ![r].calls = Tail(@), ![r].runnable = Append(@, call)]
          BY <3>4, <4>4 DEF PrepareCall
        <5> HIDE DEF call
        <5>2. /\ \A q \in RunIds \ {r} : runs'[q] = runs[q]
              /\ runs'[r].phase = "tools"
              /\ runs'[r].calls = Tail(run.calls) /\ runs'[r].runnable = Append(run.runnable, call)
          BY <2>r, <3>c, <4>1, <5>1 DEF RunFields
        <5>3. /\ Append(run.runnable, call) \in Seq(Nat) /\ Rising(Append(run.runnable, call))
              /\ Ids(Append(run.runnable, call)) = Ids(run.runnable) \cup {call}
          <6>1. \A d \in Ids(run.runnable) : d < call
            BY <4>2, <4>3 DEF Turn
          <6> QED
            BY <4>2, <4>3, <6>1, OneMoreWaits DEF Turn
        <5>4. Turn(runs'[r], Used(messages)) /\ Waiting(runs'[r]) = Waiting(run)
          BY <4>2, <4>3, <5>2, <5>3 DEF Turn, Waiting
        <5>5. TurnFits(runs'[r], messages, threw, toolExecution)
          BY <4>2, <4>4, <5>2, <5>4 DEF TurnFits
        <5> QED
          BY <2>i, <2>t, <3>a, <4>1, <5>1, <5>2, <5>5, TurnGoesOn
      <4>5. CASE ~(prepared /\ toolExecution = "parallel")
        <5>1. /\ messages' = messages \o <<ToolResult(call)>>
              /\ runs' = [runs EXCEPT ![r].calls = Tail(@), ![r].results = Append(@, ToolResult(call))]
          BY <3>4, <4>5 DEF PrepareCall, Emit
        <5> HIDE DEF call
        <5>2. messages' = Append(messages, ToolResult(call))
          BY <3>d, <5>1, Appends
        <5>3. /\ \A q \in RunIds \ {r} : runs'[q] = runs[q]
              /\ runs'[r].phase = "tools"
              /\ runs'[r].calls = Tail(run.calls) /\ runs'[r].runnable = run.runnable
          BY <2>r, <3>c, <4>1, <5>1 DEF RunFields
        <5>4. call \in Used(messages) /\ call \notin Ids(Tail(run.calls)) /\ call \notin Ids(run.runnable)
          BY <4>2, <4>3 DEF Turn
        <5>5. /\ Sound(messages') /\ Used(messages') = Used(messages)
              /\ \A d : ResultsBefore(messages, d) /\ call < d => ResultsBefore(messages', d)
              /\ ResultsRise(messages) /\ ResultsBefore(messages, call) => ResultsRise(messages')
              /\ Ok(messages) /\ call \in Pending(messages) =>
                    Ok(messages') /\ Pending(messages') = Pending(messages) \ {call}
          BY <3>d, <5>2, <5>4, ResultAdded
        <5>6. ~threw => Ok(messages') /\ Pending(messages') = Waiting(runs'[r])
          BY <2>i, <4>2, <4>3, <5>3, <5>4, <5>5 DEF Settled, Waiting
        <5>7. Turn(runs'[r], Used(messages'))
          BY <4>2, <4>3, <5>3, <5>5 DEF Turn
        <5>8. TurnFits(runs'[r], messages', threw, toolExecution)
          BY <4>2, <4>3, <5>3, <5>5, <5>6, <5>7 DEF TurnFits
        <5>9. Settled(messages', threw, toolExecution)
          BY <2>i, <4>2, <4>3, <5>5, <5>6 DEF Settled
        <5> QED
          BY <2>i, <2>t, <3>a, <4>1, <5>3, <5>8, <5>9, TurnGoesOn
      <4> QED
        BY <4>4, <4>5
    <3>5. CASE FinalizeCall(r)
      <4> DEFINE call == Head(run.runnable)
      <4>1. /\ run.phase = "tools" /\ run.calls = <<>> /\ run.runnable # <<>>
            /\ UNCHANGED <<inputs, threw, steeringQueue, followUpQueue>>
            /\ messages' = messages \o <<ToolResult(call)>>
            /\ runs' = [runs EXCEPT ![r].runnable = Tail(@), ![r].results = Append(@, ToolResult(call))]
        BY <3>5 DEF FinalizeCall, Emit, queues, owner
      <4>2. /\ Turn(run, Used(messages)) /\ (~threw => Pending(messages) = Waiting(run))
            /\ toolExecution # "sequential"
        BY <3>c, <4>1 DEF TurnFits
      <4>3. /\ call \in Nat /\ Tail(run.runnable) \in Seq(Nat) /\ Rising(Tail(run.runnable))
            /\ Ids(run.runnable) = Ids(Tail(run.runnable)) \cup {call}
            /\ \A c \in Ids(Tail(run.runnable)) : call < c
        BY <4>1, <4>2, FirstWaiting DEF Turn
      <4> HIDE DEF call
      <4>4. messages' = Append(messages, ToolResult(call))
        BY <3>d, <4>1, Appends
      <4>5. /\ \A q \in RunIds \ {r} : runs'[q] = runs[q]
            /\ runs'[r].phase = "tools"
            /\ runs'[r].calls = <<>> /\ runs'[r].runnable = Tail(run.runnable)
        BY <2>r, <3>c, <4>1 DEF RunFields
      <4>6. call \in Used(messages) /\ call \notin Ids(Tail(run.runnable)) /\ Ids(<<>>) = {}
        <5>1. Ids(<<>>) = {}
          BY DEF Ids
        <5> QED
          BY <4>2, <4>3, <5>1 DEF Turn
      <4>7. /\ Sound(messages') /\ Used(messages') = Used(messages)
            /\ Ok(messages) /\ call \in Pending(messages) =>
                  Ok(messages') /\ Pending(messages') = Pending(messages) \ {call}
        BY <3>d, <4>4, <4>6, ResultAdded
      <4>8. ~threw => Ok(messages') /\ Pending(messages') = Waiting(runs'[r])
        BY <2>i, <4>1, <4>2, <4>3, <4>5, <4>6, <4>7 DEF Settled, Waiting
      <4>9. Turn(runs'[r], Used(messages'))
        BY <4>1, <4>2, <4>3, <4>5, <4>6, <4>7 DEF Turn
      <4>10. TurnFits(runs'[r], messages', threw, toolExecution)
        BY <4>2, <4>5, <4>8, <4>9 DEF TurnFits
      <4>11. Settled(messages', threw, toolExecution)
        BY <4>2, <4>7, <4>8 DEF Settled
      <4> QED
        BY <2>i, <2>t, <3>a, <4>1, <4>5, <4>10, <4>11, TurnGoesOn
    <3>6. CASE FinalizeThrows(r)
      <4> DEFINE waiting == IF toolExecution = "parallel" THEN run.runnable ELSE run.calls
                 call == Head(waiting)
                 failed == FailedAssistant(<<>>)
                 t == Append(messages, ToolResult(call))
      <4>1. /\ run.phase = "tools" /\ waiting # <<>> /\ threw' = TRUE
            /\ UNCHANGED <<inputs, steeringQueue, followUpQueue>>
            /\ messages' = messages \o <<ToolResult(call), failed>>
            /\ runs' = [runs EXCEPT ![r].phase = "ended"]
        BY <3>6 DEF FinalizeThrows, Emit, queues
      <4>2. /\ Turn(run, Used(messages))
            /\ toolExecution = "sequential" => \A c \in Ids(run.calls) : ResultsBefore(messages, c)
        BY <3>c, <4>1 DEF TurnFits
      <4>3. call \in Ids(waiting) /\ call \in Used(messages)
        <5>1. waiting \in Seq(Nat) /\ Rising(waiting) /\ Ids(waiting) \subseteq Used(messages)
          BY <4>2 DEF Turn
        <5> HIDE DEF waiting
        <5> QED
          BY <4>1, <5>1, FirstWaiting
      <4>4. toolExecution = "sequential" => ResultsBefore(messages, call)
        BY <4>2, <4>3
      <4> HIDE DEF call
      <4>5. /\ Sound(t) /\ (ResultsRise(messages) /\ ResultsBefore(messages, call) => ResultsRise(t))
        BY <3>d, <4>3, ResultAdded
      <4>6. failed = Message("assistant", [k \in 1..0 |-> Cardinality(Used(t)) + k], TRUE, Blank)
        BY DEF FailedAssistant
      <4>7. Sound(Append(t, failed)) /\ (ResultsRise(t) => ResultsRise(Append(t, failed)))
        BY <4>5, <4>6, AnswerAdded
      <4>8. messages' = Append(t, failed)
        <5>1. \A x, y : messages \o <<x, y>> = Append(Append(messages, x), y)
          <6> TAKE x, y
          <6>1. messages \in Seq(Sent \cup {x, y})
            BY <3>d
          <6> QED
            BY <6>1
        <5> QED
          BY <4>1, <5>1
      <4>9. Settled(messages', threw', toolExecution)
        BY <2>i, <4>1, <4>4, <4>5, <4>7, <4>8 DEF Settled
      <4>10. runs'[r].phase = "ended" /\ \A q \in RunIds \ {r} : runs'[q] = runs[q]
        BY <2>r, <3>c, <4>1 DEF RunFields
      <4>11. TurnFits(runs'[r], messages', threw', toolExecution)
        BY <4>10 DEF TurnFits
      <4> QED
        BY <2>i, <2>t, <3>a, <4>1, <4>9, <4>10, <4>11, TurnGoesOn
    <3>7. CASE EndTools(r)
      <4>1. /\ run.phase = "tools" /\ run.calls = <<>> /\ run.runnable = <<>>
            /\ UNCHANGED <<messages, inputs, threw, steeringQueue, followUpQueue>>
            /\ runs' = [runs EXCEPT ![r].context = @ \o run.results, ![r].phase = "poll"]
        BY <3>7 DEF EndTools, queues, owner
      <4>2. /\ \A q \in RunIds \ {r} : runs'[q] = runs[q]
            /\ runs'[r].phase = "poll" /\ runs'[r].runnable = <<>>
        BY <2>r, <3>c, <4>1 DEF RunFields
      <4>3. ~threw => Pending(messages) = {}
        BY <3>c, <4>1 DEF TurnFits, Waiting, Ids
      <4>4. TurnFits(runs'[r], messages, threw, toolExecution)
        BY <4>2 DEF TurnFits
      <4> QED
        BY <2>i, <2>t, <3>a, <4>1, <4>2, <4>3, <4>4, TurnGoesOn
    <3>8. CASE Finally(r)
      <4>1. /\ run.phase = "ended" /\ UNCHANGED <<messages, inputs, threw, steeringQueue, followUpQueue>>
            /\ runs' = [runs EXCEPT ![r] = NoRun]
        BY <3>8 DEF Finally, queues, owner
      <4>2. runs'[r].phase = "none" /\ \A q \in RunIds \ {r} : runs'[q] = runs[q]
        BY <2>r, <4>1 DEF NoRun
      <4>3. TurnFits(runs'[r], messages, threw, toolExecution)
        BY <4>2 DEF TurnFits
      <4> QED
        BY <2>i, <2>t, <3>a, <3>b, <4>1, <4>2, <4>3, TurnGoesOn
    <3> QED
      BY <2>7, <3>1, <3>2, <3>3, <3>4, <3>5, <3>6, <3>7, <3>8 DEF RunStep
  <2>8. CASE UNCHANGED vars
    <3>1. UNCHANGED <<messages, runs, steeringQueue, followUpQueue, inputs, threw>>
      BY <2>8 DEF vars, owner
    <3> QED
      BY <2>i, <2>t, <3>1 DEF ConversationInv
  <2>9. ASSUME Prompt \/ Continue \/ Steer \/ FollowUp \/ ClearAllQueues \/ Abort \/ Reset \/ DropFailed
        PROVE  threw' \in BOOLEAN
    BY <2>9 DEF Prompt, Continue, Steer, FollowUp, ClearAllQueues, Abort, Reset, DropFailed, owner
  <2> QED
    BY <2>1, <2>2, <2>3, <2>4, <2>5, <2>6, <2>7, <2>8, <2>9 DEF AgentNext, OwnerStep, vars, owner
<1>3. AgentSpec => []RunInv
  BY RunsAgree
<1> QED
  BY <1>1, <1>2, <1>3, PTL DEF AgentSpec

\* streamAssistantResponse and the transcript validation: no sequence of prompts,
\* steering, aborts, failures and continuations brings a run to a request that the
\* validation refuses, unless afterToolCall threw.
THEOREM RequestsPassValidation == ASSUME ~ListenersPrompt PROVE AgentSpec => []RequestsAreSendable
<1>1. RunInv /\ ConversationInv => RequestsAreSendable
  <2> SUFFICES ASSUME RunInv, ConversationInv, NEW r \in RunIds, runs[r].phase = "request", ~threw
               PROVE  Sendable(r)
    BY DEF RequestsAreSendable
  <2>1. runs[r].context = messages
    BY DEF RunInv, Agrees
  <2>2. \A q \in RunIds : runs[q].phase # "tools"
    BY DEF RunInv, Active
  <2>3. Ok(messages) /\ Pending(messages) = {}
    BY <2>2 DEF ConversationInv, Settled
  <2>4. messages \in Seq(AnyMessage) /\ \A i \in DOMAIN messages : messages[i].role \notin {"session", "hidden"}
    <3>1. messages \in Seq(Sent)
      BY DEF ConversationInv, Settled, Sound
    <3> QED
      BY <3>1 DEF Sent
  <2>5. WellFormed(messages)
    BY <2>3, <2>4, WellFormedMeans
  <2>6. ConvertToLlm(messages) = messages
    BY <2>4, ConvertsToItself
  <2> QED
    BY <2>1, <2>4, <2>5, <2>6, AcceptedMeansWellFormed DEF Sendable
<1> QED
  BY <1>1, ConversationsHold, RunsAgree, PTL

-----------------------------------------------------------------------------
(* Every input arrives once, and in order                                  *)

Count(s, x) == Cardinality({i \in DOMAIN s : s[i] = x})

\* How often a message is in a queue or a conversation.
LEMMA CountIsNumber ==
    ASSUME NEW S, NEW s \in Seq(S), NEW x
    PROVE  Count(s, x) \in Nat /\ (Count(s, x) = 0 <=> \A i \in DOMAIN s : s[i] # x)
<1> DEFINE at == {i \in DOMAIN s : s[i] = x}
<1>1. at \in SUBSET (1..Len(s)) /\ Len(s) \in Nat
  OBVIOUS
<1>2. IsFiniteSet(1..Len(s))
  BY <1>1, FS_Interval
<1>3. IsFiniteSet(at)
  BY <1>1, <1>2, FS_Subset
<1>4. Cardinality(at) \in Nat /\ (Cardinality(at) = 0 <=> at = {})
  BY <1>3, FS_CardinalityType, FS_EmptySet
<1> QED
  BY <1>4 DEF Count

\* One more message counts once.
LEMMA CountOneMore ==
    ASSUME NEW S, NEW s \in Seq(S), NEW y \in S, NEW x
    PROVE  Count(Append(s, y), x) = Count(s, x) + (IF y = x THEN 1 ELSE 0)
<1> DEFINE u == Append(s, y)
           n == Len(s)
           at == {i \in DOMAIN s : s[i] = x}
<1>1. /\ n \in Nat /\ DOMAIN s = 1..n /\ DOMAIN u = (1..n) \cup {n + 1} /\ u[n + 1] = y
      /\ \A i \in 1..n : u[i] = s[i]
  OBVIOUS
<1>2. IsFiniteSet(at)
  <2>1. IsFiniteSet(1..n)
    BY <1>1, FS_Interval
  <2> QED
    BY <1>1, <2>1, FS_Subset
<1>3. n + 1 \notin at /\ Cardinality(at) \in Nat
  BY <1>1, <1>2, FS_CardinalityType
<1> HIDE DEF u
<1>4. CASE y = x
  <2>1. {i \in DOMAIN u : u[i] = x} = at \cup {n + 1}
    BY <1>1, <1>4
  <2> HIDE DEF at, n
  <2>2. Cardinality(at \cup {n + 1}) = Cardinality(at) + 1
    BY <1>2, <1>3, FS_AddElement
  <2> QED
    BY <1>4, <2>1, <2>2 DEF Count, u, at
<1>5. CASE y # x
  <2>1. {i \in DOMAIN u : u[i] = x} = at
    BY <1>1, <1>5
  <2>2. Count(u, x) = Cardinality(at) /\ Count(s, x) = Cardinality(at)
    BY <2>1 DEF Count
  <2> HIDE DEF at
  <2> QED
    BY <1>3, <1>5, <2>2 DEF u
<1> QED
  BY <1>4, <1>5

\* Messages that move from one sequence behind another are counted there.
LEMMA CountMoves ==
    ASSUME NEW S, NEW t \in Seq(S), NEW s \in Seq(S), NEW x
    PROVE  Count(t \o s, x) = Count(t, x) + Count(s, x)
<1> DEFINE n == Len(s)
           P == {k \in Nat : k <= n =>
                   Count(t \o SubSeq(s, 1, k), x) = Count(t, x) + Count(SubSeq(s, 1, k), x)}
<1>1. /\ SubSeq(s, 1, 0) = <<>> /\ SubSeq(s, 1, n) = s /\ n \in Nat
      /\ \A k \in 1..n : /\ SubSeq(s, 1, k - 1) \in Seq(S) /\ s[k] \in S
                         /\ SubSeq(s, 1, k) = Append(SubSeq(s, 1, k - 1), s[k])
  BY FirstMessages
<1>2. t \o <<>> = t /\ Count(t, x) \in Nat
  BY CountIsNumber
<1> HIDE DEF n
<1>3. 0 \in P
  <2>1. <<>> \in Seq(S) /\ \A i \in DOMAIN <<>> : <<>>[i] # x
    OBVIOUS
  <2>2. Count(<<>>, x) = 0
    BY <2>1, CountIsNumber
  <2>3. Count(t \o SubSeq(s, 1, 0), x) = Count(t, x) /\ Count(SubSeq(s, 1, 0), x) = 0
    BY <1>1, <1>2, <2>2
  <2> QED
    BY <1>2, <2>3
<1>4. ASSUME NEW k \in P PROVE k + 1 \in P
  <2> SUFFICES ASSUME k + 1 <= n
               PROVE  Count(t \o SubSeq(s, 1, k + 1), x) = Count(t, x) + Count(SubSeq(s, 1, k + 1), x)
    OBVIOUS
  <2> DEFINE f == SubSeq(s, 1, k)
             y == s[k + 1]
  <2>1. k \in Nat /\ n \in Nat /\ Count(t \o f, x) = Count(t, x) + Count(f, x)
    BY <1>1
  <2> HIDE DEF P
  <2>2. f \in Seq(S) /\ y \in S /\ SubSeq(s, 1, k + 1) = Append(f, y)
    <3> DEFINE j == k + 1
    <3>1. j \in 1..n /\ j - 1 = k
      BY <2>1
    <3> HIDE DEF j
    <3>2. SubSeq(s, 1, j - 1) \in Seq(S) /\ s[j] \in S /\ SubSeq(s, 1, j) = Append(SubSeq(s, 1, j - 1), s[j])
      BY <1>1, <3>1
    <3> QED
      BY <3>1, <3>2 DEF j
  <2> HIDE DEF f, y
  <2>3. t \o Append(f, y) = Append(t \o f, y) /\ t \o f \in Seq(S)
    BY <2>2
  <2>4. /\ Count(Append(t \o f, y), x) = Count(t \o f, x) + (IF y = x THEN 1 ELSE 0)
        /\ Count(t \o f, x) \in Nat
    <3> DEFINE g == t \o f
    <3>1. g \in Seq(S) /\ y \in S
      BY <2>2, <2>3
    <3> HIDE DEF g
    <3>2. Count(Append(g, y), x) = Count(g, x) + (IF y = x THEN 1 ELSE 0) /\ Count(g, x) \in Nat
      BY <3>1, CountOneMore, CountIsNumber
    <3> QED
      BY <3>2 DEF g
  <2>5. Count(Append(f, y), x) = Count(f, x) + (IF y = x THEN 1 ELSE 0) /\ Count(f, x) \in Nat
    BY <2>2, CountOneMore, CountIsNumber
  <2>6. Count(t \o SubSeq(s, 1, k + 1), x) = Count(t \o f, x) + (IF y = x THEN 1 ELSE 0)
    BY <2>2, <2>3, <2>4
  <2>7. Count(SubSeq(s, 1, k + 1), x) = Count(f, x) + (IF y = x THEN 1 ELSE 0)
    BY <2>2, <2>5
  <2> QED
    BY <1>2, <2>1, <2>4, <2>5, <2>6, <2>7
<1>5. P = Nat
  <2>1. P \in SUBSET Nat
    OBVIOUS
  <2> HIDE DEF P
  <2> QED
    BY <1>3, <1>4, <2>1, Induction
<1>6. Count(t \o SubSeq(s, 1, n), x) = Count(t, x) + Count(SubSeq(s, 1, n), x)
  BY <1>1, <1>5
<1> QED
  BY <1>1, <1>6

\* The same for messages of any kind.
LEMMA Counting ==
    ASSUME NEW s, NEW t, IsASeq(s), IsASeq(t), NEW x
    PROVE  /\ Count(s, x) \in Nat /\ (Count(s, x) = 0 <=> \A i \in DOMAIN s : s[i] # x)
           /\ Count(s \o t, x) = Count(s, x) + Count(t, x)
<1>1. PICK S : s \in Seq(S)
  BY DEF IsASeq
<1>2. PICK T : t \in Seq(T)
  BY DEF IsASeq
<1>3. s \in Seq(S \cup T) /\ t \in Seq(S \cup T)
  BY <1>1, <1>2
<1>4. Count(s, x) \in Nat /\ (Count(s, x) = 0 <=> \A i \in DOMAIN s : s[i] # x)
  BY <1>3, CountIsNumber
<1>5. Count(s \o t, x) = Count(s, x) + Count(t, x)
  BY <1>3, CountMoves
<1> QED
  BY <1>4, <1>5

\* Where the messages of two sequences are when one follows the other.
LEMMA Follows ==
    ASSUME NEW s, NEW t, IsASeq(s), IsASeq(t)
    PROVE  /\ Len(s) \in Nat /\ DOMAIN s = 1..Len(s) /\ Len(t) \in Nat /\ DOMAIN t = 1..Len(t)
           /\ DOMAIN (s \o t) = 1..(Len(s) + Len(t))
           /\ \A i \in DOMAIN s : (s \o t)[i] = s[i]
           /\ \A i \in DOMAIN t : (s \o t)[Len(s) + i] = t[i] /\ Len(s) + i \in DOMAIN (s \o t)
           /\ \A i \in DOMAIN (s \o t) : i \in DOMAIN s \/ (i - Len(s) \in DOMAIN t /\ (s \o t)[i] = t[i - Len(s)])
<1>1. PICK S : s \in Seq(S)
  BY DEF IsASeq
<1>2. PICK T : t \in Seq(T)
  BY DEF IsASeq
<1>3. s \in Seq(S \cup T) /\ t \in Seq(S \cup T)
  BY <1>1, <1>2
<1> DEFINE u == s \o t
<1>4. /\ Len(s) \in Nat /\ DOMAIN s = 1..Len(s) /\ Len(t) \in Nat /\ DOMAIN t = 1..Len(t)
      /\ DOMAIN u = 1..(Len(s) + Len(t))
      /\ \A i \in 1..(Len(s) + Len(t)) : u[i] = IF i <= Len(s) THEN s[i] ELSE t[i - Len(s)]
  BY <1>3
<1> HIDE DEF u
<1>5. \A i \in DOMAIN s : u[i] = s[i]
  BY <1>4
<1>6. ASSUME NEW i \in DOMAIN t PROVE u[Len(s) + i] = t[i] /\ Len(s) + i \in DOMAIN u
  <2>1. Len(s) + i \in 1..(Len(s) + Len(t)) /\ ~(Len(s) + i <= Len(s)) /\ Len(s) + i - Len(s) = i
    BY <1>4
  <2> QED
    BY <1>4, <2>1
<1>7. \A i \in DOMAIN u : i \in DOMAIN s \/ (i - Len(s) \in DOMAIN t /\ u[i] = t[i - Len(s)])
  BY <1>4
<1> QED
  BY <1>4, <1>5, <1>6, <1>7 DEF u

\* The messages of the inputs given in one way.
Given(ins, kind) == {Input(k) : k \in {k \in DOMAIN ins : ins[k] = kind}}

\* A user says what was given as input.
Heard(t, ins) == \A i \in DOMAIN t : t[i].role = "user" => t[i].id \in DOMAIN ins /\ t[i] = Input(t[i].id)

\* An input is in exactly one place, once.
PlacedOnce(t, queue, second, ins, gone) ==
    \A k \in DOMAIN ins :
        Count(t, Input(k)) + Count(queue, Input(k)) + Count(second, Input(k))
          + (IF k \in gone THEN 1 ELSE 0) = 1

\* The inputs in a queue follow each other, and those of their kind that were delivered.
QueueInOrder(t, queue, ins, kind) ==
    /\ IsASeq(queue) /\ \A i \in DOMAIN queue : queue[i] \in Given(ins, kind)
    /\ \A i, j \in DOMAIN queue : i < j => queue[i].id < queue[j].id
    /\ \A i \in DOMAIN t : t[i].role = "user" /\ ins[t[i].id] = kind =>
         \A j \in DOMAIN queue : t[i].id < queue[j].id

InOrder(t, ins) ==
    \A i, j \in DOMAIN t :
        i < j /\ t[i].role = "user" /\ t[j].role = "user" /\ ins[t[i].id] = ins[t[j].id]
          => t[i].id < t[j].id

\* What makes InputsConserved and DeliveredInOrder inductive, for the two queues.
Delivered(t, queue, kind, second, other, ins, gone) ==
    /\ IsASeq(t) /\ ins \in Seq(Kinds) /\ gone \subseteq DOMAIN ins /\ Heard(t, ins)
    /\ PlacedOnce(t, queue, second, ins, gone)
    /\ QueueInOrder(t, queue, ins, kind) /\ QueueInOrder(t, second, ins, other)
    /\ InOrder(t, ins)

\* An input's message and its number.
LEMMA InputNames ==
    /\ \A k : Input(k).id = k /\ Input(k).role = "user"
    /\ \A ins, kind : \A m \in Given(ins, kind) :
          m.id \in DOMAIN ins /\ ins[m.id] = kind /\ m = Input(m.id) /\ m.role = "user"
<1>1. \A k : Input(k).id = k /\ Input(k).role = "user"
  BY DEF Input, Message
<1> QED
  BY <1>1 DEF Given

\* The two queues are alike.
LEMMA QueuesAlike ==
    ASSUME NEW t, NEW queue, NEW kind, NEW second, NEW other, NEW ins, NEW gone,
           Delivered(t, queue, kind, second, other, ins, gone)
    PROVE  Delivered(t, second, other, queue, kind, ins, gone)
<1>1. IsASeq(t) /\ IsASeq(queue) /\ IsASeq(second)
  BY DEF Delivered, QueueInOrder
<1>2. \A x : Count(queue, x) \in Nat /\ Count(second, x) \in Nat /\ Count(t, x) \in Nat
  BY <1>1, Counting
<1>3. PlacedOnce(t, second, queue, ins, gone)
  BY <1>2 DEF Delivered, PlacedOnce
<1> QED
  BY <1>3 DEF Delivered

\* Emitting what no user said delivers nothing.
LEMMA AnswersDeliverNothing ==
    ASSUME NEW t, NEW queue, NEW kind, NEW second, NEW other, NEW ins, NEW gone,
           Delivered(t, queue, kind, second, other, ins, gone),
           NEW ms, IsASeq(ms), \A i \in DOMAIN ms : ms[i].role # "user"
    PROVE  Delivered(t \o ms, queue, kind, second, other, ins, gone)
<1> DEFINE u == t \o ms
<1>1. IsASeq(t) /\ IsASeq(u)
  BY Concatenates DEF Delivered
<1>2. /\ DOMAIN t = 1..Len(t) /\ Len(t) \in Nat /\ DOMAIN ms = 1..Len(ms) /\ Len(ms) \in Nat
      /\ DOMAIN u = 1..(Len(t) + Len(ms))
      /\ \A i \in DOMAIN t : u[i] = t[i]
      /\ \A i \in DOMAIN u : i \in DOMAIN t \/ (i - Len(t) \in DOMAIN ms /\ u[i] = ms[i - Len(t)])
  BY <1>1, Follows
<1>3. \A k : Count(u, Input(k)) = Count(t, Input(k))
  <2> TAKE k
  <2>0. \A i \in DOMAIN ms : ms[i] # Input(k)
    BY InputNames
  <2>1. Count(ms, Input(k)) = 0 /\ Count(t, Input(k)) \in Nat
    BY <1>1, <2>0, Counting
  <2>2. Count(u, Input(k)) = Count(t, Input(k)) + Count(ms, Input(k))
    BY <1>1, Counting
  <2> QED
    BY <2>1, <2>2
<1> HIDE DEF u
<1>4. \A i \in DOMAIN u : u[i].role = "user" => i \in DOMAIN t /\ u[i] = t[i]
  BY <1>2
<1>5. PlacedOnce(u, queue, second, ins, gone)
  BY <1>3 DEF Delivered, PlacedOnce
<1>6. QueueInOrder(u, queue, ins, kind) /\ QueueInOrder(u, second, ins, other)
  BY <1>4 DEF Delivered, QueueInOrder
<1>7. InOrder(u, ins) /\ Heard(u, ins)
  BY <1>4 DEF Delivered, InOrder, Heard
<1> QED
  BY <1>1, <1>5, <1>6, <1>7 DEF Delivered, u

\* What is taken from a queue and what is left are the queue.
LEMMA TakenIsSplit ==
    ASSUME NEW queue, IsASeq(queue), NEW mode
    PROVE  LET taken == Taken(queue, mode)
           IN  IsASeq(taken.got) /\ IsASeq(taken.left) /\ queue = taken.got \o taken.left
<1>1. PICK S : queue \in Seq(S)
  BY DEF IsASeq
<1>2. CASE mode = "all" \/ queue = <<>>
  <2>1. Taken(queue, mode).got = queue /\ Taken(queue, mode).left = <<>>
    BY <1>2 DEF Taken
  <2>2. queue \o <<>> = queue
    BY <1>1
  <2> QED
    BY <2>1, <2>2, TakenSplits
<1>3. CASE ~(mode = "all" \/ queue = <<>>)
  <2>1. Taken(queue, mode).got = <<Head(queue)>> /\ Taken(queue, mode).left = Tail(queue)
    BY <1>3 DEF Taken
  <2>2. queue = <<Head(queue)>> \o Tail(queue)
    BY <1>1, <1>3
  <2> QED
    BY <2>1, <2>2, TakenSplits
<1> QED
  BY <1>2, <1>3

\* dequeueSteeringMessages, dequeueFollowUpMessages: what is taken is emitted.
LEMMA TakenIsDelivered ==
    ASSUME NEW t, NEW got, NEW left, NEW kind, NEW second, NEW other, NEW ins, NEW gone, kind # other,
           IsASeq(got), IsASeq(left), Delivered(t, got \o left, kind, second, other, ins, gone)
    PROVE  Delivered(t \o got, left, kind, second, other, ins, gone)
<1> DEFINE u == t \o got
           q == got \o left
           n == Len(t)
           g == Len(got)
<1>1. IsASeq(t) /\ IsASeq(u) /\ IsASeq(second) /\ Delivered(t, q, kind, second, other, ins, gone)
  BY Concatenates DEF Delivered, QueueInOrder
<1>2. /\ DOMAIN t = 1..n /\ n \in Nat /\ DOMAIN got = 1..g /\ g \in Nat
      /\ DOMAIN u = 1..(n + g)
      /\ \A i \in DOMAIN t : u[i] = t[i]
      /\ \A i \in DOMAIN u : i \in DOMAIN t \/ (i - n \in DOMAIN got /\ u[i] = got[i - n])
  BY <1>1, Follows
<1>3. /\ DOMAIN left = 1..Len(left) /\ Len(left) \in Nat
      /\ \A i \in DOMAIN got : q[i] = got[i] /\ i \in DOMAIN q
      /\ \A i \in DOMAIN left : q[g + i] = left[i] /\ g + i \in DOMAIN q
  <2>1. /\ DOMAIN left = 1..Len(left) /\ Len(left) \in Nat /\ DOMAIN got = 1..g /\ g \in Nat
        /\ DOMAIN q = 1..(g + Len(left)) /\ \A i \in DOMAIN got : q[i] = got[i]
        /\ \A i \in DOMAIN left : q[g + i] = left[i] /\ g + i \in DOMAIN q
    BY Follows
  <2> HIDE DEF q, g
  <2>2. \A i \in DOMAIN got : i \in DOMAIN q
    BY <2>1
  <2> QED
    BY <2>1, <2>2
<1>4. /\ \A i \in DOMAIN q : q[i] \in Given(ins, kind)
      /\ \A i, j \in DOMAIN q : i < j => q[i].id < q[j].id
      /\ \A i \in DOMAIN t : t[i].role = "user" /\ ins[t[i].id] = kind => \A j \in DOMAIN q : t[i].id < q[j].id
      /\ QueueInOrder(t, second, ins, other) /\ Heard(t, ins) /\ InOrder(t, ins)
      /\ PlacedOnce(t, q, second, ins, gone)
  BY <1>1 DEF Delivered, QueueInOrder
<1>5. PlacedOnce(u, left, second, ins, gone)
  <2>1. ASSUME NEW x PROVE Count(u, x) + Count(left, x) = Count(t, x) + Count(q, x)
    <3>1. /\ Count(t, x) \in Nat /\ Count(got, x) \in Nat /\ Count(left, x) \in Nat
          /\ Count(u, x) = Count(t, x) + Count(got, x) /\ Count(q, x) = Count(got, x) + Count(left, x)
      BY <1>1, Counting
    <3> QED
      BY <3>1
  <2> QED
    BY <1>4, <2>1 DEF PlacedOnce
<1> HIDE DEF u, q, n, g
<1>6. \A i \in DOMAIN got : got[i] \in Given(ins, kind)
  BY <1>3, <1>4
<1>7. \A i \in DOMAIN u : \/ i \in DOMAIN t /\ u[i] = t[i]
                          \/ i > n /\ i - n \in DOMAIN got /\ u[i] = got[i - n] /\ u[i] = q[i - n]
  <2> TAKE i \in DOMAIN u
  <2>1. CASE i \in DOMAIN t
    BY <1>2, <2>1
  <2>2. CASE i - n \in DOMAIN got /\ u[i] = got[i - n]
    <3>1. i > n
      BY <1>2, <2>2
    <3>2. q[i - n] = got[i - n]
      BY <1>3, <2>2
    <3> QED
      BY <2>2, <3>1, <3>2
  <2> QED
    BY <1>2, <2>1, <2>2
<1>8. Heard(u, ins)
  BY <1>4, <1>6, <1>7, InputNames DEF Heard
<1>9. QueueInOrder(u, left, ins, kind)
  <2>1. \A i \in DOMAIN left : left[i] \in Given(ins, kind)
    BY <1>3, <1>4
  <2>2. ASSUME NEW i \in DOMAIN left, NEW j \in DOMAIN left, i < j PROVE left[i].id < left[j].id
    <3>1. g + i < g + j
      BY <1>2, <1>3, <2>2
    <3> QED
      BY <1>3, <1>4, <3>1
  <2>3. ASSUME NEW i \in DOMAIN u, u[i].role = "user", ins[u[i].id] = kind, NEW j \in DOMAIN left
        PROVE  u[i].id < left[j].id
    <3>1. CASE i \in DOMAIN t /\ u[i] = t[i]
      BY <1>3, <1>4, <2>3, <3>1
    <3>2. CASE i > n /\ i - n \in DOMAIN got /\ u[i] = q[i - n]
      <4>1. i - n < g + j
        BY <1>2, <1>3, <3>2
      <4> QED
        BY <1>3, <1>4, <3>2, <4>1
    <3> QED
      BY <1>7, <3>1, <3>2
  <2> QED
    BY <2>1, <2>2, <2>3 DEF QueueInOrder
<1>10. QueueInOrder(u, second, ins, other)
  <2>1. \A i \in DOMAIN got : ins[got[i].id] # other
    BY <1>6, InputNames
  <2> QED
    BY <1>4, <1>7, <2>1 DEF QueueInOrder
<1>11. InOrder(u, ins)
  <2> SUFFICES ASSUME NEW i \in DOMAIN u, NEW j \in DOMAIN u, i < j, u[i].role = "user", u[j].role = "user",
                      ins[u[i].id] = ins[u[j].id]
               PROVE  u[i].id < u[j].id
    BY DEF InOrder
  <2>1. CASE i \in DOMAIN t /\ j \in DOMAIN t
    BY <1>2, <1>4, <2>1 DEF InOrder
  <2>2. CASE i \in DOMAIN t /\ j \notin DOMAIN t
    <3>1. j - n \in DOMAIN got /\ u[j] = q[j - n] /\ u[j] \in Given(ins, kind)
      BY <1>6, <1>7, <2>2
    <3>2. ins[t[i].id] = kind /\ t[i].role = "user" /\ u[i] = t[i]
      BY <1>2, <2>2, <3>1, InputNames
    <3> QED
      BY <1>3, <1>4, <2>2, <3>1, <3>2
  <2>3. CASE i \notin DOMAIN t
    <3>1. i - n \in DOMAIN got /\ u[i] = q[i - n] /\ i > n
      BY <1>7, <2>3
    <3>2. j \notin DOMAIN t
      BY <1>2, <2>3, <3>1
    <3>3. j - n \in DOMAIN got /\ u[j] = q[j - n] /\ i - n < j - n
      BY <1>2, <1>7, <3>2
    <3> QED
      BY <1>3, <1>4, <3>1, <3>3
  <2> QED
    BY <2>1, <2>2, <2>3
<1> QED
  BY <1>1, <1>5, <1>8, <1>9, <1>10, <1>11 DEF Delivered, u

\* What one more input leaves as it was.
LEMMA OneMoreInput ==
    ASSUME NEW t, NEW queue, NEW kind, NEW second, NEW other, NEW ins, NEW gone,
           Delivered(t, queue, kind, second, other, ins, gone), NEW given \in Kinds
    PROVE  LET more == Append(ins, given)
               k == Len(ins) + 1
           IN  /\ more \in Seq(Kinds) /\ DOMAIN more = DOMAIN ins \cup {k} /\ k \notin DOMAIN ins /\ k \in Nat
               /\ more[k] = given /\ \A j \in DOMAIN ins : more[j] = ins[j] /\ j \in Nat /\ j < k
               /\ gone \subseteq DOMAIN more /\ k \notin gone
               /\ Heard(t, more) /\ InOrder(t, more)
               /\ QueueInOrder(t, queue, more, kind) /\ QueueInOrder(t, second, more, other)
               /\ Count(t, Input(k)) = 0 /\ Count(queue, Input(k)) = 0 /\ Count(second, Input(k)) = 0
               /\ \A i \in DOMAIN t : t[i].role = "user" => t[i].id < k
               /\ \A i \in DOMAIN queue : queue[i].id < k
<1> DEFINE more == Append(ins, given)
           k == Len(ins) + 1
<1>1. ins \in Seq(Kinds) /\ gone \subseteq DOMAIN ins /\ Heard(t, ins) /\ InOrder(t, ins) /\ IsASeq(t)
      /\ QueueInOrder(t, queue, ins, kind) /\ QueueInOrder(t, second, ins, other)
  BY DEF Delivered
<1>2. /\ more \in Seq(Kinds) /\ DOMAIN more = DOMAIN ins \cup {k} /\ k \notin DOMAIN ins /\ k \in Nat
      /\ more[k] = given /\ \A j \in DOMAIN ins : more[j] = ins[j] /\ j \in Nat /\ j < k
  BY <1>1
<1> HIDE DEF more, k
<1>3. gone \subseteq DOMAIN more /\ k \notin gone
  BY <1>1, <1>2
<1>4. \A i \in DOMAIN t : t[i].role = "user" => t[i].id \in DOMAIN ins /\ more[t[i].id] = ins[t[i].id]
  BY <1>1, <1>2 DEF Heard
<1>5. Heard(t, more) /\ InOrder(t, more)
  BY <1>1, <1>2, <1>4 DEF Heard, InOrder
<1>6. \A way : Given(ins, way) \subseteq Given(more, way)
  BY <1>2 DEF Given
<1>7. QueueInOrder(t, queue, more, kind) /\ QueueInOrder(t, second, more, other)
  BY <1>1, <1>4, <1>6 DEF QueueInOrder
<1>8. /\ IsASeq(queue) /\ IsASeq(second)
      /\ \A i \in DOMAIN queue : queue[i].id \in DOMAIN ins
      /\ \A i \in DOMAIN second : second[i].id \in DOMAIN ins
  BY <1>1, InputNames DEF QueueInOrder
<1>9. Count(queue, Input(k)) = 0 /\ Count(second, Input(k)) = 0
  <2>1. /\ \A i \in DOMAIN queue : queue[i] # Input(k)
        /\ \A i \in DOMAIN second : second[i] # Input(k)
    BY <1>2, <1>8, InputNames
  <2> QED
    BY <1>8, <2>1, Counting
<1>10. Count(t, Input(k)) = 0
  <2>1. \A i \in DOMAIN t : t[i] # Input(k)
    BY <1>2, <1>4, InputNames
  <2> QED
    BY <1>1, <2>1, Counting
<1>11. \A i \in DOMAIN t : t[i].role = "user" => t[i].id < k
  BY <1>2, <1>4
<1>12. \A i \in DOMAIN queue : queue[i].id < k
  BY <1>2, <1>8
<1> QED
  BY <1>2, <1>3, <1>5, <1>7, <1>9, <1>10, <1>11, <1>12 DEF more, k

\* steer(), followUp(): the message goes behind those of its queue.
LEMMA QueuedIsDelivered ==
    ASSUME NEW t, NEW queue, NEW kind \in Kinds, NEW second, NEW other, NEW ins, NEW gone,
           Delivered(t, queue, kind, second, other, ins, gone)
    PROVE  Delivered(t, Append(queue, Input(Len(ins) + 1)), kind, second, other, Append(ins, kind), gone)
<1> DEFINE more == Append(ins, kind)
           k == Len(ins) + 1
           q == Append(queue, Input(k))
<1>1. /\ more \in Seq(Kinds) /\ DOMAIN more = DOMAIN ins \cup {k} /\ k \notin DOMAIN ins /\ k \in Nat
      /\ more[k] = kind /\ \A j \in DOMAIN ins : more[j] = ins[j] /\ j \in Nat /\ j < k
      /\ gone \subseteq DOMAIN more /\ k \notin gone
      /\ Heard(t, more) /\ InOrder(t, more)
      /\ QueueInOrder(t, queue, more, kind) /\ QueueInOrder(t, second, more, other)
      /\ Count(t, Input(k)) = 0 /\ Count(queue, Input(k)) = 0 /\ Count(second, Input(k)) = 0
      /\ \A i \in DOMAIN t : t[i].role = "user" => t[i].id < k
      /\ \A i \in DOMAIN queue : queue[i].id < k
  BY OneMoreInput
<1> HIDE DEF more, k
<1>2. IsASeq(t) /\ IsASeq(queue) /\ PlacedOnce(t, queue, second, ins, gone)
  BY DEF Delivered, QueueInOrder
<1> DEFINE x == Input(k)
           n == Len(queue)
<1>3. IsASeq(q) /\ IsASeq(<<x>>) /\ q = queue \o <<x>> /\ Input(k).id = k /\ x \in Given(more, kind)
  BY <1>1, <1>2, Appends, InputNames DEF Given
<1>4. \A y : Count(<<x>>, y) = IF y = x THEN 1 ELSE 0
  <2> TAKE y
  <2>1. <<>> \in Seq({x}) /\ Append(<<>>, x) = <<x>> /\ DOMAIN <<>> = {}
    OBVIOUS
  <2>2. Count(<<>>, y) = 0
    BY <2>1, CountIsNumber
  <2> DEFINE e == <<>>
  <2> HIDE DEF e
  <2>a. e \in Seq({x}) /\ x \in {x}
    BY <2>1 DEF e
  <2>b. Count(Append(e, x), y) = Count(e, y) + (IF x = y THEN 1 ELSE 0)
    BY <2>a, CountOneMore
  <2>3. Count(Append(<<>>, x), y) = Count(<<>>, y) + (IF x = y THEN 1 ELSE 0)
    BY <2>b DEF e
  <2>4. Count(<<x>>, y) = 0 + (IF x = y THEN 1 ELSE 0)
    BY <2>1, <2>2, <2>3
  <2> QED
    BY <2>4
<1>5. \A y : Count(queue, y) \in Nat /\ Count(q, y) = Count(queue, y) + Count(<<x>>, y)
  BY <1>2, <1>3, Counting
<1> HIDE DEF q, x
<1>6. PlacedOnce(t, q, second, more, gone)
  <2> SUFFICES ASSUME NEW j \in DOMAIN more
               PROVE  Count(t, Input(j)) + Count(q, Input(j)) + Count(second, Input(j))
                        + (IF j \in gone THEN 1 ELSE 0) = 1
    BY DEF PlacedOnce
  <2>1. CASE j = k
    <3>1. Count(q, Input(j)) = 0 + 1
      BY <1>1, <1>4, <1>5, <2>1 DEF x
    <3> QED
      BY <1>1, <2>1, <3>1
  <2>2. CASE j # k
    <3>1. Input(j) # x
      BY <2>2, InputNames DEF x
    <3>2. Count(q, Input(j)) = Count(queue, Input(j)) + 0 /\ Count(queue, Input(j)) \in Nat
      BY <1>4, <1>5, <3>1
    <3>3. Count(q, Input(j)) = Count(queue, Input(j)) /\ j \in DOMAIN ins
      BY <1>1, <2>2, <3>2
    <3> QED
      BY <1>2, <3>3 DEF PlacedOnce
  <2> QED
    BY <2>1, <2>2
<1>7. /\ n \in Nat /\ DOMAIN queue = 1..n /\ DOMAIN q = 1..(n + 1) /\ q[n + 1] = x /\ x.id = k
      /\ \A i \in DOMAIN queue : q[i] = queue[i]
  <2>1. PICK S : queue \in Seq(S)
    BY <1>2 DEF IsASeq
  <2>2. queue \in Seq(S \cup {x})
    BY <2>1
  <2>3. n \in Nat /\ DOMAIN queue = 1..n /\ DOMAIN Append(queue, x) = 1..(n + 1) /\ Append(queue, x)[n + 1] = x
        /\ \A i \in DOMAIN queue : Append(queue, x)[i] = queue[i]
    BY <2>2
  <2> QED
    BY <1>3, <2>3 DEF q, x
<1> HIDE DEF n
<1>8. \A i \in DOMAIN q : i \in DOMAIN queue \/ (i = n + 1 /\ q[i] = x)
  BY <1>7
<1>9. QueueInOrder(t, q, more, kind)
  <2>1. \A i \in DOMAIN q : q[i] \in Given(more, kind)
    BY <1>1, <1>3, <1>7, <1>8 DEF QueueInOrder
  <2>2. ASSUME NEW i \in DOMAIN q, NEW j \in DOMAIN q, i < j PROVE q[i].id < q[j].id
    <3>1. i \in DOMAIN queue
      BY <1>7, <2>2
    <3> QED
      BY <1>1, <1>7, <1>8, <2>2, <3>1 DEF QueueInOrder
  <2>3. ASSUME NEW i \in DOMAIN t, t[i].role = "user", more[t[i].id] = kind, NEW j \in DOMAIN q
        PROVE  t[i].id < q[j].id
    BY <1>1, <1>7, <1>8, <2>3 DEF QueueInOrder
  <2> QED
    BY <1>3, <2>1, <2>2, <2>3 DEF QueueInOrder
<1> QED
  BY <1>1, <1>2, <1>6, <1>9 DEF Delivered, q, x, more, k
\* prompt(): the message becomes part of the conversation at once.
LEMMA PromptIsDelivered ==
    ASSUME NEW t, NEW queue, NEW kind, NEW second, NEW other, NEW ins, NEW gone, NEW given \in Kinds,
           Delivered(t, queue, kind, second, other, ins, gone), given # kind, given # other
    PROVE  Delivered(t \o <<Input(Len(ins) + 1)>>, queue, kind, second, other, Append(ins, given), gone)
<1> DEFINE more == Append(ins, given)
           k == Len(ins) + 1
           x == Input(k)
           u == t \o <<x>>
           n == Len(t)
<1>1. /\ more \in Seq(Kinds) /\ DOMAIN more = DOMAIN ins \cup {k} /\ k \notin DOMAIN ins /\ k \in Nat
      /\ more[k] = given /\ \A j \in DOMAIN ins : more[j] = ins[j] /\ j \in Nat /\ j < k
      /\ gone \subseteq DOMAIN more /\ k \notin gone
      /\ Heard(t, more) /\ InOrder(t, more)
      /\ QueueInOrder(t, queue, more, kind) /\ QueueInOrder(t, second, more, other)
      /\ Count(t, Input(k)) = 0 /\ Count(queue, Input(k)) = 0 /\ Count(second, Input(k)) = 0
      /\ \A i \in DOMAIN t : t[i].role = "user" => t[i].id < k
  BY OneMoreInput
<1> HIDE DEF more, k
<1>2. IsASeq(t) /\ IsASeq(queue) /\ PlacedOnce(t, queue, second, ins, gone)
  BY DEF Delivered, QueueInOrder
<1>3. IsASeq(u) /\ IsASeq(<<x>>) /\ x.id = k /\ x.role = "user"
  BY <1>2, ShortSequences, Concatenates, InputNames
<1>4. /\ n \in Nat /\ DOMAIN t = 1..n /\ DOMAIN u = 1..(n + 1) /\ u[n + 1] = x
      /\ \A i \in DOMAIN t : u[i] = t[i]
  <2>1. PICK S : t \in Seq(S)
    BY <1>2 DEF IsASeq
  <2>2. t \in Seq(S \cup {x}) /\ x \in S \cup {x}
    BY <2>1
  <2> HIDE DEF x
  <2> QED
    BY <2>2
<1>5. \A y : Count(u, y) = Count(t, y) + (IF y = x THEN 1 ELSE 0)
  <2> TAKE y
  <2>1. PICK S : t \in Seq(S)
    BY <1>2 DEF IsASeq
  <2> DEFINE all == S \cup {x}
  <2>2. t \in Seq(all) /\ x \in all
    BY <2>1
  <2> HIDE DEF x, all
  <2>3. Count(Append(t, x), y) = Count(t, y) + (IF x = y THEN 1 ELSE 0) /\ Append(t, x) = u
    BY <2>2, CountOneMore
  <2> QED
    BY <2>3
<1> HIDE DEF u, x, n
<1>6. PlacedOnce(u, queue, second, more, gone)
  <2> SUFFICES ASSUME NEW j \in DOMAIN more
               PROVE  Count(u, Input(j)) + Count(queue, Input(j)) + Count(second, Input(j))
                        + (IF j \in gone THEN 1 ELSE 0) = 1
    BY DEF PlacedOnce
  <2>1. CASE j = k
    <3>1. Count(u, Input(j)) = 0 + 1
      BY <1>1, <1>5, <2>1 DEF x
    <3> QED
      BY <1>1, <2>1, <3>1
  <2>2. CASE j # k
    <3>1. Input(j) # x
      BY <2>2, InputNames DEF x
    <3>2. Count(u, Input(j)) = Count(t, Input(j)) + 0 /\ Count(t, Input(j)) \in Nat
      BY <1>2, <1>5, <3>1, Counting
    <3>3. Count(u, Input(j)) = Count(t, Input(j)) /\ j \in DOMAIN ins
      BY <1>1, <2>2, <3>2
    <3> QED
      BY <1>2, <3>3 DEF PlacedOnce
  <2> QED
    BY <2>1, <2>2
<1>7. \A i \in DOMAIN u : (i \in DOMAIN t /\ u[i] = t[i]) \/ (i = n + 1 /\ u[i] = x)
  BY <1>4
<1>8. more[x.id] = given
  BY <1>1, <1>3
<1>9. QueueInOrder(u, queue, more, kind) /\ QueueInOrder(u, second, more, other)
  BY <1>1, <1>7, <1>8 DEF QueueInOrder
<1>10. Heard(u, more)
  <2>1. x.id \in DOMAIN more /\ x = Input(x.id)
    BY <1>1, <1>3 DEF x
  <2> QED
    BY <1>1, <1>7, <2>1 DEF Heard
<1>11. InOrder(u, more)
  <2> SUFFICES ASSUME NEW i \in DOMAIN u, NEW j \in DOMAIN u, i < j, u[i].role = "user", u[j].role = "user",
                      more[u[i].id] = more[u[j].id]
               PROVE  u[i].id < u[j].id
    BY DEF InOrder
  <2>1. i \in DOMAIN t /\ u[i] = t[i]
    BY <1>4
  <2> QED
    BY <1>1, <1>3, <1>7, <2>1 DEF InOrder
<1> QED
  BY <1>1, <1>3, <1>6, <1>9, <1>10, <1>11 DEF Delivered, u, x, more, k

\* The inputs that clearing a queue, or the conversation, drops are those that are in it.
LEMMA InputsAreCounted ==
    ASSUME NEW s, IsASeq(s), NEW ins, Heard(s, ins), NEW k
    PROVE  Count(s, Input(k)) # 0 <=> k \in InputsOf(s)
<1>1. Count(s, Input(k)) = 0 <=> \A i \in DOMAIN s : s[i] # Input(k)
  BY Counting
<1>2. (\E i \in DOMAIN s : s[i] = Input(k)) <=> k \in InputsOf(s)
  BY InputNames DEF Heard, InputsOf
<1> QED
  BY <1>1, <1>2

\* What is given in one way is heard.
LEMMA QueuesAreHeard ==
    ASSUME NEW t, NEW queue, NEW ins, NEW kind, QueueInOrder(t, queue, ins, kind)
    PROVE  IsASeq(queue) /\ Heard(queue, ins) /\ InputsOf(queue) \subseteq DOMAIN ins
  BY InputNames DEF QueueInOrder, Heard, InputsOf

\* Nothing is out of order where there is nothing.
LEMMA EmptyInOrder ==
    ASSUME NEW ins
    PROVE  /\ Heard(<<>>, ins) /\ InOrder(<<>>, ins) /\ IsASeq(<<>>)
           /\ \A t, kind : QueueInOrder(t, <<>>, ins, kind)
           /\ \A queue, t, kind : QueueInOrder(t, queue, ins, kind) => QueueInOrder(<<>>, queue, ins, kind)
           /\ \A x : Count(<<>>, x) = 0
<1>1. IsASeq(<<>>) /\ DOMAIN <<>> = {} /\ <<>> \in Seq({})
  BY ShortSequences
<1>2. \A x : Count(<<>>, x) = 0
  <2>1. \A x : {i \in DOMAIN <<>> : <<>>[i] = x} = {}
    BY <1>1
  <2> QED
    BY <2>1, FS_EmptySet DEF Count
<1> QED
  BY <1>1, <1>2 DEF Heard, InOrder, QueueInOrder

\* clearAllQueues(): what waited is dropped.
LEMMA ClearedIsDropped ==
    ASSUME NEW t, NEW queue, NEW kind, NEW second, NEW other, NEW ins, NEW gone,
           Delivered(t, queue, kind, second, other, ins, gone)
    PROVE  Delivered(t, <<>>, kind, <<>>, other, ins, gone \cup InputsOf(queue) \cup InputsOf(second))
<1> DEFINE lost == gone \cup InputsOf(queue) \cup InputsOf(second)
<1>1. /\ IsASeq(queue) /\ Heard(queue, ins) /\ InputsOf(queue) \subseteq DOMAIN ins
      /\ IsASeq(second) /\ Heard(second, ins) /\ InputsOf(second) \subseteq DOMAIN ins
      /\ IsASeq(t) /\ PlacedOnce(t, queue, second, ins, gone) /\ gone \subseteq DOMAIN ins
  BY QueuesAreHeard DEF Delivered
<1>2. PlacedOnce(t, <<>>, <<>>, ins, lost)
  <2> SUFFICES ASSUME NEW k \in DOMAIN ins
               PROVE  Count(t, Input(k)) + Count(<<>>, Input(k)) + Count(<<>>, Input(k))
                        + (IF k \in lost THEN 1 ELSE 0) = 1
    BY DEF PlacedOnce
  <2>1. Count(t, Input(k)) + Count(queue, Input(k)) + Count(second, Input(k)) + (IF k \in gone THEN 1 ELSE 0) = 1
    BY <1>1 DEF PlacedOnce
  <2>2. Count(t, Input(k)) \in Nat /\ Count(queue, Input(k)) \in Nat /\ Count(second, Input(k)) \in Nat
    BY <1>1, Counting
  <2>3. /\ Count(queue, Input(k)) # 0 <=> k \in InputsOf(queue)
        /\ Count(second, Input(k)) # 0 <=> k \in InputsOf(second)
    BY <1>1, InputsAreCounted
  <2>4. Count(<<>>, Input(k)) = 0
    BY EmptyInOrder
  <2> QED
    BY <2>1, <2>2, <2>3, <2>4
<1>3. lost \subseteq DOMAIN ins
  BY <1>1
<1> HIDE DEF lost
<1> QED
  BY <1>2, <1>3, EmptyInOrder DEF Delivered, lost

\* reset(): what was said is dropped, too.
LEMMA ResetIsDropped ==
    ASSUME NEW t, NEW queue, NEW kind, NEW second, NEW other, NEW ins, NEW gone,
           Delivered(t, queue, kind, second, other, ins, gone)
    PROVE  Delivered(<<>>, <<>>, kind, <<>>, other, ins, gone \cup InputsOf(t \o queue \o second))
<1> DEFINE waited == gone \cup InputsOf(queue) \cup InputsOf(second)
           lost == waited \cup InputsOf(t)
<1>1. Delivered(t, <<>>, kind, <<>>, other, ins, waited)
  BY ClearedIsDropped
<1>2. IsASeq(t) /\ IsASeq(queue) /\ IsASeq(second) /\ Heard(t, ins)
  BY QueuesAreHeard DEF Delivered
<1>3. \A s, r : IsASeq(s) /\ IsASeq(r) => InputsOf(s \o r) = InputsOf(s) \cup InputsOf(r)
  <2> SUFFICES ASSUME NEW s, NEW r, IsASeq(s), IsASeq(r) PROVE InputsOf(s \o r) = InputsOf(s) \cup InputsOf(r)
    OBVIOUS
  <2> DEFINE u == s \o r
  <2>1. /\ DOMAIN s = 1..Len(s) /\ Len(s) \in Nat /\ DOMAIN r = 1..Len(r) /\ Len(r) \in Nat
        /\ DOMAIN u = 1..(Len(s) + Len(r))
        /\ \A i \in DOMAIN s : u[i] = s[i]
        /\ \A i \in DOMAIN r : u[Len(s) + i] = r[i] /\ Len(s) + i \in DOMAIN u
        /\ \A i \in DOMAIN u : i \in DOMAIN s \/ (i - Len(s) \in DOMAIN r /\ u[i] = r[i - Len(s)])
    BY Follows
  <2> HIDE DEF u
  <2>2. ASSUME NEW k \in InputsOf(u) PROVE k \in InputsOf(s) \cup InputsOf(r)
    BY <2>1, <2>2 DEF InputsOf
  <2>3. \A i \in DOMAIN s : i \in DOMAIN u
    BY <2>1
  <2>4. ASSUME NEW k \in InputsOf(s) PROVE k \in InputsOf(u)
    BY <2>1, <2>3, <2>4 DEF InputsOf
  <2>5. ASSUME NEW k \in InputsOf(r) PROVE k \in InputsOf(u)
    BY <2>1, <2>5 DEF InputsOf
  <2> QED
    BY <2>2, <2>4, <2>5 DEF u
<1>4. InputsOf(t \o queue \o second) = InputsOf(t) \cup InputsOf(queue) \cup InputsOf(second)
  <2> DEFINE u == t \o queue
  <2>1. IsASeq(u) /\ InputsOf(u) = InputsOf(t) \cup InputsOf(queue)
    BY <1>2, <1>3, Concatenates
  <2> HIDE DEF u
  <2>2. InputsOf(u \o second) = InputsOf(u) \cup InputsOf(second)
    BY <1>2, <1>3, <2>1
  <2> QED
    BY <2>1, <2>2 DEF u
<1>5. lost = gone \cup InputsOf(t \o queue \o second)
  BY <1>4
<1> HIDE DEF waited
<1>6. PlacedOnce(t, <<>>, <<>>, ins, waited) /\ waited \subseteq DOMAIN ins /\ ins \in Seq(Kinds)
  BY <1>1 DEF Delivered
<1>7. PlacedOnce(<<>>, <<>>, <<>>, ins, lost)
  <2> SUFFICES ASSUME NEW k \in DOMAIN ins
               PROVE  Count(<<>>, Input(k)) + Count(<<>>, Input(k)) + Count(<<>>, Input(k))
                        + (IF k \in lost THEN 1 ELSE 0) = 1
    BY DEF PlacedOnce
  <2>1. Count(t, Input(k)) + Count(<<>>, Input(k)) + Count(<<>>, Input(k)) + (IF k \in waited THEN 1 ELSE 0) = 1
    BY <1>6 DEF PlacedOnce
  <2>2. Count(t, Input(k)) \in Nat
    BY <1>2, Counting
  <2>3. Count(t, Input(k)) # 0 <=> k \in InputsOf(t)
    BY <1>2, InputsAreCounted
  <2>4. Count(<<>>, Input(k)) = 0
    BY EmptyInOrder
  <2> QED
    BY <2>1, <2>2, <2>3, <2>4
<1>8. lost \subseteq DOMAIN ins
  BY <1>2, <1>6 DEF Heard, InputsOf
<1> HIDE DEF lost
<1>9. Delivered(<<>>, <<>>, kind, <<>>, other, ins, lost)
  BY <1>6, <1>7, <1>8, EmptyInOrder DEF Delivered
<1> QED
  BY <1>5, <1>9

\* AgentSession removes a failed answer, which is not an input.
LEMMA FrontIsDelivered ==
    ASSUME NEW t, NEW queue, NEW kind, NEW second, NEW other, NEW ins, NEW gone,
           Delivered(t, queue, kind, second, other, ins, gone), t # <<>>, Last(t).role # "user"
    PROVE  Delivered(Front(t), queue, kind, second, other, ins, gone)
<1>1. PICK S : t \in Seq(S)
  BY DEF Delivered, IsASeq
<1> DEFINE f == Front(t)
           x == Last(t)
<1>2. /\ f \in Seq(S) /\ x \in S /\ t = Append(f, x) /\ Len(t) \in Nat \ {0}
      /\ DOMAIN t = 1..Len(t) /\ DOMAIN f = 1..(Len(t) - 1) /\ \A i \in 1..(Len(t) - 1) : f[i] = t[i]
  BY <1>1, FrontOf
<1> HIDE DEF f, x
<1>3. \A k : Count(f, Input(k)) = Count(t, Input(k))
  <2> TAKE k
  <2>1. x # Input(k)
    BY InputNames DEF x
  <2>2. Count(Append(f, x), Input(k)) = Count(f, Input(k)) + (IF x = Input(k) THEN 1 ELSE 0)
        /\ Count(f, Input(k)) \in Nat
    BY <1>2, CountOneMore, CountIsNumber
  <2> QED
    BY <1>2, <2>1, <2>2
<1>4. \A i \in DOMAIN f : i \in DOMAIN t /\ f[i] = t[i]
  BY <1>2
<1>5. IsASeq(f)
  BY <1>2 DEF IsASeq
<1>6. PlacedOnce(f, queue, second, ins, gone)
  BY <1>3 DEF Delivered, PlacedOnce
<1>7. /\ QueueInOrder(f, queue, ins, kind) /\ QueueInOrder(f, second, ins, other)
      /\ Heard(f, ins) /\ InOrder(f, ins)
  BY <1>4 DEF Delivered, QueueInOrder, Heard, InOrder
<1> QED
  BY <1>5, <1>6, <1>7 DEF Delivered, f

\* Where the inputs of the agent are.
InputsDelivered == Delivered(messages, steeringQueue, "steer", followUpQueue, "followUp", inputs, dropped)

\* Every method of Agent and every step of a run leaves each input in one place, in order.
LEMMA InputsAreDelivered == ASSUME ~ListenersPrompt PROVE AgentSpec => []InputsDelivered
<1>1. AgentInit => InputsDelivered
  <2> SUFFICES ASSUME AgentInit PROVE InputsDelivered
    OBVIOUS
  <2>1. inputs = <<>> /\ <<>> \in Seq(Kinds) /\ DOMAIN <<>> = {} /\ messages = <<>> /\ dropped = {}
        /\ steeringQueue = <<>> /\ followUpQueue = <<>>
    BY DEF AgentInit
  <2>2. PlacedOnce(<<>>, <<>>, <<>>, <<>>, {})
    BY <2>1 DEF PlacedOnce
  <2> QED
    BY <2>1, <2>2, EmptyInOrder DEF InputsDelivered, Delivered
<1>2. ConversationInv /\ InputsDelivered /\ [AgentNext]_vars => InputsDelivered'
  <2> SUFFICES ASSUME ConversationInv, InputsDelivered, [AgentNext]_vars PROVE InputsDelivered'
    OBVIOUS
  <2>i. /\ Delivered(messages, steeringQueue, "steer", followUpQueue, "followUp", inputs, dropped)
        /\ Delivered(messages, followUpQueue, "followUp", steeringQueue, "steer", inputs, dropped)
        /\ IsASeq(messages) /\ IsASeq(steeringQueue) /\ IsASeq(followUpQueue) /\ messages \o <<>> = messages
    <3>1. Delivered(messages, steeringQueue, "steer", followUpQueue, "followUp", inputs, dropped)
      BY DEF InputsDelivered
    <3>2. IsASeq(messages) /\ IsASeq(steeringQueue) /\ IsASeq(followUpQueue)
      BY <3>1 DEF Delivered, QueueInOrder
    <3> QED
      BY <3>1, <3>2, QueuesAlike, ShortSequences, Concatenates
  <2>k. "prompt" \in Kinds /\ "steer" \in Kinds /\ "followUp" \in Kinds /\ "steer" # "followUp"
    BY DEF Kinds
  <2>s. LET taken == Taken(steeringQueue, SteeringMode)
        IN  Delivered(messages \o taken.got, taken.left, "steer", followUpQueue, "followUp", inputs, dropped)
    <3> DEFINE taken == Taken(steeringQueue, SteeringMode)
    <3>1. IsASeq(taken.got) /\ IsASeq(taken.left) /\ steeringQueue = taken.got \o taken.left
      BY <2>i, TakenIsSplit
    <3> HIDE DEF taken
    <3>2. Delivered(messages, taken.got \o taken.left, "steer", followUpQueue, "followUp", inputs, dropped)
      BY <2>i, <3>1
    <3>3. Delivered(messages \o taken.got, taken.left, "steer", followUpQueue, "followUp", inputs, dropped)
      BY <2>k, <3>1, <3>2, TakenIsDelivered
    <3> QED
      BY <3>3 DEF taken
  <2>f. LET taken == Taken(followUpQueue, FollowUpMode)
        IN  Delivered(messages \o taken.got, steeringQueue, "steer", taken.left, "followUp", inputs, dropped)
    <3> DEFINE taken == Taken(followUpQueue, FollowUpMode)
    <3>1. IsASeq(taken.got) /\ IsASeq(taken.left) /\ followUpQueue = taken.got \o taken.left
      BY <2>i, TakenIsSplit
    <3> HIDE DEF taken
    <3>2. Delivered(messages, taken.got \o taken.left, "followUp", steeringQueue, "steer", inputs, dropped)
      BY <2>i, <3>1
    <3>3. Delivered(messages \o taken.got, taken.left, "followUp", steeringQueue, "steer", inputs, dropped)
      BY <2>k, <3>1, <3>2, TakenIsDelivered
    <3>4. Delivered(messages \o taken.got, steeringQueue, "steer", taken.left, "followUp", inputs, dropped)
      BY <3>3, QueuesAlike
    <3> QED
      BY <3>4 DEF taken
  <2>1. CASE Prompt
    <3>1. /\ messages' = messages \o <<Input(Len(inputs) + 1)>> /\ inputs' = Append(inputs, "prompt")
          /\ UNCHANGED <<steeringQueue, followUpQueue, dropped>>
      BY <2>1 DEF Prompt, StartRun, NewInput, NextInput, queues
    <3>2. Delivered(messages \o <<Input(Len(inputs) + 1)>>, steeringQueue, "steer", followUpQueue, "followUp",
                    Append(inputs, "prompt"), dropped)
      BY <2>i, <2>k, PromptIsDelivered
    <3> QED
      BY <3>1, <3>2 DEF InputsDelivered
  <2>2. CASE Continue
    <3> DEFINE steering == Taken(steeringQueue, SteeringMode)
               followUp == Taken(followUpQueue, FollowUpMode)
    <3>1. /\ UNCHANGED <<inputs, dropped>>
          /\ \/ messages' = messages \o <<>> /\ UNCHANGED <<steeringQueue, followUpQueue>>
             \/ messages' = messages \o steering.got /\ steeringQueue' = steering.left /\ followUpQueue' = followUpQueue
             \/ messages' = messages \o followUp.got /\ followUpQueue' = followUp.left /\ steeringQueue' = steeringQueue
      BY <2>2 DEF Continue, StartRun, queues, owner
    <3> QED
      BY <2>i, <2>s, <2>f, <3>1 DEF InputsDelivered
  <2>3. CASE Steer
    <3>1. /\ steeringQueue' = Append(steeringQueue, Input(Len(inputs) + 1)) /\ inputs' = Append(inputs, "steer")
          /\ UNCHANGED <<messages, followUpQueue, dropped>>
      BY <2>3 DEF Steer, NewInput, NextInput
    <3>2. Delivered(messages, Append(steeringQueue, Input(Len(inputs) + 1)), "steer", followUpQueue, "followUp",
                    Append(inputs, "steer"), dropped)
      BY <2>i, <2>k, QueuedIsDelivered
    <3> QED
      BY <3>1, <3>2 DEF InputsDelivered
  <2>4. CASE FollowUp
    <3>1. /\ followUpQueue' = Append(followUpQueue, Input(Len(inputs) + 1)) /\ inputs' = Append(inputs, "followUp")
          /\ UNCHANGED <<messages, steeringQueue, dropped>>
      BY <2>4 DEF FollowUp, NewInput, NextInput
    <3>2. Delivered(messages, Append(followUpQueue, Input(Len(inputs) + 1)), "followUp", steeringQueue, "steer",
                    Append(inputs, "followUp"), dropped)
      BY <2>i, <2>k, QueuedIsDelivered
    <3>3. Delivered(messages, steeringQueue, "steer", Append(followUpQueue, Input(Len(inputs) + 1)), "followUp",
                    Append(inputs, "followUp"), dropped)
      BY <3>2, QueuesAlike
    <3> QED
      BY <3>1, <3>3 DEF InputsDelivered
  <2>5. CASE ClearAllQueues
    <3>1. /\ steeringQueue' = <<>> /\ followUpQueue' = <<>> /\ UNCHANGED <<messages, inputs>>
          /\ dropped' = dropped \cup InputsOf(steeringQueue) \cup InputsOf(followUpQueue)
      BY <2>5 DEF ClearAllQueues
    <3>2. Delivered(messages, <<>>, "steer", <<>>, "followUp", inputs,
                    dropped \cup InputsOf(steeringQueue) \cup InputsOf(followUpQueue))
      BY <2>i, ClearedIsDropped
    <3> QED
      BY <3>1, <3>2 DEF InputsDelivered
  <2>6. CASE Reset
    <3>1. /\ messages' = <<>> /\ steeringQueue' = <<>> /\ followUpQueue' = <<>> /\ inputs' = inputs
          /\ dropped' = dropped \cup InputsOf(messages \o steeringQueue \o followUpQueue)
      BY <2>6 DEF Reset
    <3>2. Delivered(<<>>, <<>>, "steer", <<>>, "followUp", inputs,
                    dropped \cup InputsOf(messages \o steeringQueue \o followUpQueue))
      BY <2>i, ResetIsDropped
    <3> QED
      BY <3>1, <3>2 DEF InputsDelivered
  <2>7. CASE DropFailed
    <3>1. /\ messages' = Front(messages) /\ messages # <<>> /\ Last(messages).failed
          /\ UNCHANGED <<steeringQueue, followUpQueue, inputs, dropped>>
      BY <2>7 DEF DropFailed, queues, owner
    <3>2. Last(messages).role # "user"
      <4>1. messages \in Seq(Sent)
        BY DEF ConversationInv, Settled, Sound
      <4>2. Last(messages) \in Sent
        BY <3>1, <4>1, FrontOf
      <4> QED
        BY <3>1, <4>2 DEF Sent
    <3>3. Delivered(Front(messages), steeringQueue, "steer", followUpQueue, "followUp", inputs, dropped)
      BY <2>i, <3>1, <3>2, FrontIsDelivered
    <3> QED
      BY <3>1, <3>3 DEF InputsDelivered
  <2>8. ASSUME UNCHANGED <<messages, steeringQueue, followUpQueue, inputs, dropped>> PROVE InputsDelivered'
    BY <2>8 DEF InputsDelivered
  <2>9. ASSUME NEW ms, IsASeq(ms), \A i \in DOMAIN ms : ms[i].role # "user", Emit(ms),
               UNCHANGED <<steeringQueue, followUpQueue, inputs, dropped>>
        PROVE  InputsDelivered'
    <3>1. Delivered(messages \o ms, steeringQueue, "steer", followUpQueue, "followUp", inputs, dropped)
      BY <2>i, <2>9, AnswersDeliverNothing
    <3> QED
      BY <2>9, <3>1 DEF InputsDelivered, Emit
  <2>m. ASSUME NEW x, x.role # "user"
        PROVE  /\ IsASeq(<<x>>) /\ \A i \in DOMAIN <<x>> : <<x>>[i].role # "user"
               /\ \A y : y.role # "user" => IsASeq(<<x, y>>) /\ \A i \in DOMAIN <<x, y>> : <<x, y>>[i].role # "user"
    BY <2>m, ShortSequences
  <2>o. /\ \A calls : Assistant(calls).role # "user" /\ FailedAssistant(calls).role # "user"
        /\ \A c : ToolResult(c).role # "user"
    BY DEF Assistant, FailedAssistant, ToolResult, Message
  <2>10. ASSUME NEW r \in RunIds, RunStep(r) PROVE InputsDelivered'
    <3>1. CASE PollSteering(r)
      <4> DEFINE steering == Taken(steeringQueue, SteeringMode)
                 got == IF runs[r].skipPoll THEN <<>> ELSE steering.got
      <4>1. /\ UNCHANGED <<followUpQueue, inputs, dropped>>
            /\ steeringQueue' = IF runs[r].skipPoll THEN steeringQueue ELSE steering.left
            /\ messages' = messages \o got \/ (got = <<>> /\ messages' = messages)
        BY <3>1 DEF PollSteering, Inject, Emit, owner
      <4> HIDE DEF steering
      <4>2. messages' = messages \o got
        BY <2>i, <4>1
      <4>3. CASE runs[r].skipPoll
        BY <2>8, <2>i, <4>1, <4>2, <4>3
      <4>4. CASE ~runs[r].skipPoll
        <5>1. messages' = messages \o steering.got /\ steeringQueue' = steering.left
          BY <4>1, <4>2, <4>4
        <5> QED
          BY <2>s, <4>1, <5>1 DEF InputsDelivered, steering
      <4> QED
        BY <4>3, <4>4
    <3>2. CASE PollFollowUps(r)
      <4> DEFINE taken == Taken(followUpQueue, FollowUpMode)
      <4>1. /\ UNCHANGED <<steeringQueue, inputs, dropped>> /\ followUpQueue' = taken.left
            /\ messages' = messages \o taken.got \/ (taken.got = <<>> /\ messages' = messages)
        BY <3>2 DEF PollFollowUps, Inject, Emit, owner
      <4> HIDE DEF taken
      <4>2. messages' = messages \o taken.got
        BY <2>i, <4>1
      <4> QED
        BY <2>f, <4>1, <4>2 DEF InputsDelivered, taken
    <3>3. CASE RequestThrows(r)
      <4>1. Emit(<<FailedAssistant(<<>>)>>) /\ UNCHANGED <<steeringQueue, followUpQueue, inputs, dropped>>
        BY <3>3 DEF RequestThrows, queues, owner
      <4> QED
        BY <2>9, <2>m, <2>o, <4>1
    <3>4. ASSUME NEW n \in 0..MaxCalls, Reply(r, n) \/ ReplyFailed(r, n) PROVE InputsDelivered'
      <4>1. /\ Emit(<<Assistant(FreshCalls(n))>>) \/ Emit(<<FailedAssistant(FreshCalls(n))>>)
            /\ UNCHANGED <<steeringQueue, followUpQueue, inputs, dropped>>
        BY <3>4 DEF Reply, ReplyFailed, queues, owner
      <4> QED
        BY <2>9, <2>m, <2>o, <4>1
    <3>5. ASSUME NEW prepared \in BOOLEAN, PrepareCall(r, prepared) PROVE InputsDelivered'
      <4>1. /\ messages' = messages \/ Emit(<<ToolResult(Head(runs[r].calls))>>)
            /\ UNCHANGED <<steeringQueue, followUpQueue, inputs, dropped>>
        BY <3>5 DEF PrepareCall, queues, owner
      <4> QED
        BY <2>8, <2>9, <2>m, <2>o, <4>1
    <3>6. CASE FinalizeCall(r)
      <4>1. Emit(<<ToolResult(Head(runs[r].runnable))>>) /\ UNCHANGED <<steeringQueue, followUpQueue, inputs, dropped>>
        BY <3>6 DEF FinalizeCall, queues, owner
      <4> QED
        BY <2>9, <2>m, <2>o, <4>1
    <3>7. CASE FinalizeThrows(r)
      <4>1. /\ \E waiting : Emit(<<ToolResult(Head(waiting)), FailedAssistant(<<>>)>>)
            /\ UNCHANGED <<steeringQueue, followUpQueue, inputs, dropped>>
        BY <3>7 DEF FinalizeThrows, queues
      <4> QED
        BY <2>9, <2>m, <2>o, <4>1
    <3>8. CASE EndTools(r) \/ Finally(r)
      BY <2>8, <3>8 DEF EndTools, Finally, queues, owner
    <3> QED
      BY <2>10, <3>1, <3>2, <3>3, <3>4, <3>5, <3>6, <3>7, <3>8 DEF RunStep
  <2>11. CASE Abort \/ UNCHANGED vars
    BY <2>8, <2>11 DEF Abort, vars, queues, owner
  <2> QED
    BY <2>1, <2>2, <2>3, <2>4, <2>5, <2>6, <2>7, <2>10, <2>11 DEF AgentNext, OwnerStep
<1>3. AgentSpec => [](threw \in BOOLEAN /\ ConversationInv)
  BY ConversationsHold
<1> QED
  BY <1>1, <1>2, <1>3, PTL DEF AgentSpec

\* The abort controller is that of a run that has not been cleaned up.
ControllerInv ==
    /\ isStreaming \in BOOLEAN /\ controller \in Active \cup {0}
    /\ \A r \in RunIds : runs[r].phase \in {"none", "poll", "followUps", "request", "tools", "ended"}

\* prompt() and continue() set it, the finally block clears it.
LEMMA ControllersLive == ASSUME ~ListenersPrompt PROVE AgentSpec => []ControllerInv
<1> DEFINE Phases == {"none", "poll", "followUps", "request", "tools", "ended"}
<1>1. AgentInit => ControllerInv
  <2> SUFFICES ASSUME AgentInit PROVE ControllerInv
    OBVIOUS
  <2>1. NoRun.phase = "none"
    BY DEF NoRun
  <2>2. \A r \in RunIds : runs[r].phase = "none"
    BY <2>1 DEF AgentInit
  <2> QED
    BY <2>2 DEF AgentInit, ControllerInv
<1>2. RunInv /\ ControllerInv /\ [AgentNext]_vars => ControllerInv'
  <2> SUFFICES ASSUME RunInv, ControllerInv, [AgentNext]_vars PROVE ControllerInv'
    OBVIOUS
  <2>i. /\ DOMAIN runs = RunIds /\ \A r \in RunIds : DOMAIN runs[r] = RunFields /\ runs[r].phase \in Phases
        /\ isStreaming \in BOOLEAN /\ controller \in Active \cup {0}
    BY DEF RunInv, Agrees, IsRun, ControllerInv
  <2>1. ASSUME isStreaming' \in BOOLEAN, controller' = controller,
               \A r \in RunIds : /\ runs'[r].phase \in Phases
                                 /\ runs[r].phase # "none" => runs'[r].phase # "none"
        PROVE  ControllerInv'
    BY <2>i, <2>1 DEF ControllerInv, Active
  <2>2. ASSUME NEW prompts, NEW skip, StartRun(prompts, skip) PROVE ControllerInv'
    <3>1. PICK r \in RunIds : /\ runs' = [runs EXCEPT ![r] = [NoRun EXCEPT !.phase = "poll", !.more = TRUE,
                                           !.context = messages \o prompts, !.skipPoll = skip]]
                              /\ isStreaming' = TRUE /\ controller' = r
      BY <2>2 DEF StartRun
    <3>2. runs'[r].phase = "poll" /\ \A q \in RunIds \ {r} : runs'[q] = runs[q]
      BY <2>i, <3>1 DEF NoRun
    <3> QED
      BY <2>i, <3>1, <3>2 DEF ControllerInv, Active
  <2>3. ASSUME NEW r \in RunIds, runs[r].phase # "none", \A q \in RunIds \ {r} : runs'[q] = runs[q],
               runs'[r].phase \in Phases \ {"none"}, isStreaming' \in BOOLEAN, controller' = controller
        PROVE  ControllerInv'
    BY <2>1, <2>3, <2>i
  <2>4. CASE Prompt \/ Continue
    BY <2>2, <2>4 DEF Prompt, Continue
  <2>5. CASE Steer \/ FollowUp \/ ClearAllQueues \/ Reset \/ DropFailed
    BY <2>1, <2>i, <2>5 DEF Steer, FollowUp, ClearAllQueues, Reset, DropFailed
  <2>6. CASE Abort
    <3>1. runs' = [runs EXCEPT ![controller].aborted = TRUE] /\ UNCHANGED <<isStreaming, controller>>
      BY <2>6 DEF Abort
    <3>2. ASSUME NEW r \in RunIds PROVE runs'[r].phase = runs[r].phase
      <4>1. runs'[r] = runs[r] \/ runs'[r] = [runs[r] EXCEPT !.aborted = TRUE]
        BY <2>i, <3>1
      <4> QED
        BY <2>i, <4>1 DEF RunFields
    <3> QED
      BY <2>1, <2>i, <3>1, <3>2
  <2>7. ASSUME NEW r \in RunIds, RunStep(r) PROVE ControllerInv'
    <3>r. DOMAIN runs[r] = RunFields
      BY <2>i
    <3>1. CASE PollSteering(r)
      <4>1. /\ runs[r].phase = "poll" /\ UNCHANGED <<isStreaming, controller>>
            /\ \E run, got : /\ run = [runs[r] EXCEPT !.skipPoll = FALSE]
                             /\ \/ runs' = [runs EXCEPT ![r] = [run EXCEPT !.phase = "request", !.context = @ \o got]]
                                \/ runs' = [runs EXCEPT ![r] = [run EXCEPT !.phase = "followUps"]]
        BY <3>1 DEF PollSteering, Inject
      <4>r. PICK run, got : /\ run = [runs[r] EXCEPT !.skipPoll = FALSE]
                            /\ \/ runs' = [runs EXCEPT ![r] = [run EXCEPT !.phase = "request", !.context = @ \o got]]
                               \/ runs' = [runs EXCEPT ![r] = [run EXCEPT !.phase = "followUps"]]
        BY <4>1
      <4>d. DOMAIN run = RunFields
        BY <3>r, <4>r DEF RunFields
      <4>2. runs'[r].phase \in {"request", "followUps"} /\ \A q \in RunIds \ {r} : runs'[q] = runs[q]
        BY <2>i, <4>d, <4>r DEF RunFields
      <4> QED
        BY <2>3, <2>i, <4>1, <4>2
    <3>2. CASE PollFollowUps(r)
      <4>1. /\ runs[r].phase = "followUps" /\ controller' = controller /\ isStreaming' \in BOOLEAN
            /\ \/ \E got : runs' = [runs EXCEPT ![r] = [runs[r] EXCEPT !.phase = "request", !.context = @ \o got]]
               \/ runs' = [runs EXCEPT ![r].phase = "ended"]
        BY <2>i, <3>2 DEF PollFollowUps, Inject
      <4>2. runs'[r].phase \in {"request", "ended"} /\ \A q \in RunIds \ {r} : runs'[q] = runs[q]
        BY <2>i, <3>r, <4>1 DEF RunFields
      <4> QED
        BY <2>3, <2>i, <4>1, <4>2
    <3>3. ASSUME RequestThrows(r) \/ FinalizeThrows(r) \/ \E n \in 0..MaxCalls : ReplyFailed(r, n)
          PROVE  ControllerInv'
      <4>1. /\ runs[r].phase \in {"request", "tools"} /\ controller' = controller /\ isStreaming' \in BOOLEAN
            /\ runs' = [runs EXCEPT ![r].phase = "ended"]
        BY <2>i, <3>3 DEF RequestThrows, FinalizeThrows, ReplyFailed
      <4>2. runs'[r].phase = "ended" /\ \A q \in RunIds \ {r} : runs'[q] = runs[q]
        BY <2>i, <3>r, <4>1 DEF RunFields
      <4> QED
        BY <2>3, <4>1, <4>2
    <3>4. ASSUME NEW n \in 0..MaxCalls, Reply(r, n) PROVE ControllerInv'
      <4>1. /\ runs[r].phase = "request" /\ UNCHANGED <<isStreaming, controller>>
            /\ runs' = [runs EXCEPT ![r].context = Append(@, Assistant(FreshCalls(n))), ![r].more = n > 0,
                                ![r].calls = FreshCalls(n), ![r].results = <<>>,
                                ![r].phase = IF n > 0 THEN "tools" ELSE "poll"]
        BY <3>4 DEF Reply
      <4>2. runs'[r].phase \in {"tools", "poll"} /\ \A q \in RunIds \ {r} : runs'[q] = runs[q]
        BY <2>i, <3>r, <4>1 DEF RunFields
      <4> QED
        BY <2>3, <2>i, <4>1, <4>2
    <3>5. ASSUME \/ \E prepared \in BOOLEAN : PrepareCall(r, prepared)
                 \/ FinalizeCall(r)
          PROVE  ControllerInv'
      <4>1. /\ runs[r].phase = "tools" /\ UNCHANGED <<isStreaming, controller>>
            /\ \E call : \/ runs' = [runs EXCEPT ![r].calls = Tail(@), ![r].runnable = Append(@, call)]
                         \/ runs' = [runs EXCEPT ![r].calls = Tail(@), ![r].results = Append(@, ToolResult(call))]
                         \/ runs' = [runs EXCEPT ![r].runnable = Tail(@), ![r].results = Append(@, ToolResult(call))]
        BY <3>5 DEF PrepareCall, FinalizeCall
      <4>2. runs'[r].phase = "tools" /\ \A q \in RunIds \ {r} : runs'[q] = runs[q]
        BY <2>i, <3>r, <4>1 DEF RunFields
      <4> QED
        BY <2>3, <2>i, <4>1, <4>2
    <3>6. CASE EndTools(r)
      <4>1. /\ runs[r].phase = "tools" /\ UNCHANGED <<isStreaming, controller>>
            /\ runs' = [runs EXCEPT ![r].context = @ \o runs[r].results, ![r].phase = "poll"]
        BY <3>6 DEF EndTools
      <4>2. runs'[r].phase = "poll" /\ \A q \in RunIds \ {r} : runs'[q] = runs[q]
        BY <2>i, <3>r, <4>1 DEF RunFields
      <4> QED
        BY <2>3, <2>i, <4>1, <4>2
    <3>7. CASE Finally(r)
      <4>1. isStreaming' = FALSE /\ controller' = 0 /\ runs' = [runs EXCEPT ![r] = NoRun]
        BY <3>7 DEF Finally
      <4>2. \A q \in RunIds : runs'[q] = runs[q] \/ runs'[q].phase = "none"
        BY <2>i, <4>1 DEF NoRun
      <4> QED
        BY <2>i, <4>1, <4>2 DEF ControllerInv
    <3> QED
      BY <2>7, <3>1, <3>2, <3>3, <3>4, <3>5, <3>6, <3>7 DEF RunStep
  <2>8. CASE UNCHANGED vars
    BY <2>1, <2>i, <2>8 DEF vars
  <2> QED
    BY <2>4, <2>5, <2>6, <2>7, <2>8 DEF AgentNext, OwnerStep
<1>3. AgentSpec => []RunInv
  BY RunsAgree
<1> QED
  BY <1>1, <1>2, <1>3, PTL DEF AgentSpec

\* Whatever the owner prompts, steers, queues, clears or aborts, every input is in one
\* place, inputs given the same way reach the conversation in order, and so do the results
\* of a turn when tools are executed one after the other.
THEOREM InputsArriveInOrder == ASSUME ~ListenersPrompt PROVE AgentSpec => []ConversationInOrder
<1>1. ControllerInv /\ InputsDelivered /\ (threw \in BOOLEAN /\ ConversationInv) => ConversationInOrder
  <2> SUFFICES ASSUME ControllerInv, InputsDelivered, ConversationInv PROVE ConversationInOrder
    OBVIOUS
  <2>i. /\ PlacedOnce(messages, steeringQueue, followUpQueue, inputs, dropped)
        /\ QueueInOrder(messages, steeringQueue, inputs, "steer")
        /\ QueueInOrder(messages, followUpQueue, inputs, "followUp") /\ InOrder(messages, inputs)
    BY DEF InputsDelivered, Delivered
  <2>1. TypeOK
    <3>1. /\ \A i \in DOMAIN steeringQueue : steeringQueue[i] \in {Input(k) : k \in DOMAIN inputs}
          /\ \A i \in DOMAIN followUpQueue : followUpQueue[i] \in {Input(k) : k \in DOMAIN inputs}
      BY <2>i, InputNames DEF QueueInOrder, Given
    <3> QED
      BY <3>1 DEF TypeOK, ControllerInv
  <2>2. InputsConserved
    BY <2>i DEF InputsConserved, Occurrences, PlacedOnce, Count
  <2>3. DeliveredInOrder
    BY <2>i DEF DeliveredInOrder, InOrder
  <2>4. ResultsInCallOrder
    BY DEF ResultsInCallOrder, ConversationInv, Settled, ResultsRise, Results
  <2> QED
    BY <2>1, <2>2, <2>3, <2>4 DEF ConversationInOrder
<1>2. AgentSpec => []ControllerInv
  BY ControllersLive
<1>3. AgentSpec => []InputsDelivered
  BY InputsAreDelivered
<1>4. AgentSpec => [](threw \in BOOLEAN /\ ConversationInv)
  BY ConversationsHold
<1> QED
  BY <1>1, <1>2, <1>3, <1>4, PTL
=============================================================================
