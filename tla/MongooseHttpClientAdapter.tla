--------------------- MODULE MongooseHttpClientAdapter ---------------------
(***************************************************************************)
(* core/infrastructure/transport/http/MongooseHttpClientAdapter.{h,cpp}:   *)
(* a caller thread (the event loop, through HttpClientModule) hands over   *)
(* requests with a success and a failure callback; a worker thread runs    *)
(* them on a mongoose manager; a controller thread stops it all.           *)
(*                                                                         *)
(* Of mongoose, the order of events of one mg_mgr_poll() is kept: each     *)
(* connection gets MG_EV_POLL, then I/O unless it is closing, then, if it  *)
(* is closing, what is left of its data and MG_EV_CLOSE.                   *)
(***************************************************************************)
EXTENDS Integers, Sequences, SequencesExt

CONSTANTS
  Requests,  \* requests the program issues, each at most once
  NoRequest  \* no call of async_request() in progress

ASSUME RequestsAssumption == NoRequest \notin Requests

Urls == {"empty", "http", "https"}
Answers == {"response", "failure"}

VARIABLES
  url,       \* what each request's url is, as far as it matters; never changes
  running,   \* running_
  mgr,       \* mgr_ is not null
  pending,   \* pending_requests_
  batch,     \* the worker's local queue: ready_requests, or `pending' in
             \* fail_pending_requests
  place,     \* where each request is
  ctx,       \* its RequestContext and the state of its connection
  stage,     \* how far the present mg_mgr_poll() is with each connection
  wpc,       \* where the worker is
  calling,   \* the request async_request() is called with
  step,      \* where that call is
  cpc,       \* where the controller is in stop()
  answers,   \* history: the callbacks run for each request
  accepted   \* history: the requests queued while running_ was still true

caller == <<calling, step>>
vars == <<url, running, mgr, pending, batch, place, ctx, stage, wpc, calling,
          step, cpc, answers, accepted>>

NewContext == [up |-> FALSE, sent |-> FALSE, completed |-> FALSE,
               closing |-> FALSE, expired |-> FALSE]

Init ==
  /\ url \in [Requests -> Urls]
  /\ running = TRUE
  /\ mgr = TRUE
  /\ pending = << >>
  /\ batch = << >>
  /\ place = [r \in Requests |-> "new"]
  /\ ctx = [r \in Requests |-> NewContext]
  /\ stage = [r \in Requests |-> "done"]
  /\ wpc = "loop"
  /\ calling = NoRequest
  /\ step = "idle"
  /\ cpc = "idle"
  /\ answers = [r \in Requests |-> << >>]
  /\ accepted = {}

Answer(r, how) == answers' = [answers EXCEPT ![r] = Append(@, how)]
Move(r, where) == place' = [place EXCEPT ![r] = where]

-----------------------------------------------------------------------------
(* Slips: wrong variants of definitions below, each a mistake the code could *)
(* plausibly have made.  No specification uses them; put in the place of the *)
(* right definition, each makes the property named with it fail.             *)

\* The request is queued after it was moved from (TypeOK).
CallPushMoved ==
  /\ step = "push"
  /\ pending' = Append(pending, NoRequest)
  /\ accepted' = IF running THEN accepted \cup {calling} ELSE accepted
  /\ calling' = NoRequest
  /\ step' = "idle"
  /\ UNCHANGED <<url, running, mgr, batch, place, ctx, stage, wpc, cpc, answers>>

\* No test of `completed' before the failure callback (AtMostOneAnswer).
FailAgain(r) == Answer(r, "failure")

\* The answer is not recorded in the context (HeldUntilAnswered).
StillUnfinished(r) == [ctx EXCEPT ![r].closing = TRUE]

\* The worker ends without a last look at the queue (StopSettlesAccepted).
FailNothing ==
  /\ wpc = "drain"
  /\ wpc' = "fail"
  /\ UNCHANGED <<url, running, mgr, pending, batch, place, ctx, stage, caller,
                 cpc, answers, accepted>>

\* A connection that is closing, its request answered, is sent over all the
\* same (NoSendAfterAnswer).
ConnectAnyway(r) ==
  /\ wpc \in {"poll", "free"}
  /\ stage[r] = "io"
  /\ ctx' = [ctx EXCEPT ![r].up = TRUE, ![r].sent = (url[r] = "http")]
  /\ stage' = [stage EXCEPT ![r] = "end"]
  /\ UNCHANGED <<url, running, mgr, pending, batch, place, wpc, caller, cpc,
                 answers, accepted>>

\* The deadline is not looked at (AcceptedIsAnswered).
PollIgnoresDeadline(r) ==
  /\ wpc \in {"poll", "free"}
  /\ stage[r] = "poll"
  /\ \A q \in Requests \ {r} : stage[q] \in {"poll", "done"}
  /\ stage' = [stage EXCEPT ![r] = "io"]
  /\ UNCHANGED <<url, running, mgr, pending, batch, place, ctx, wpc, caller,
                 cpc, answers, accepted>>

\* The worker does not look at running_ (StopReturns).
LoopForever ==
  /\ wpc = "loop"
  /\ wpc' = "process"
  /\ UNCHANGED <<url, running, mgr, pending, batch, place, ctx, stage, caller,
                 cpc, answers, accepted>>

-----------------------------------------------------------------------------
(* async_request(): two tests without the lock, then the push under it     *)

Return == calling' = NoRequest /\ step' = "idle"

Refuse(r) ==
  /\ Answer(r, "failure")
  /\ Move(r, "gone")
  /\ Return

CallTestRunning(r) ==
  /\ step = "idle"
  /\ place[r] = "new"
  /\ IF running
       THEN /\ calling' = r
            /\ step' = "test_mgr"
            /\ UNCHANGED <<place, answers>>
       ELSE Refuse(r)
  /\ UNCHANGED <<url, running, mgr, pending, batch, ctx, stage, wpc, cpc,
                 accepted>>

CallTestMgr ==
  /\ step = "test_mgr"
  /\ IF mgr
       THEN step' = "push" /\ UNCHANGED <<calling, place, answers>>
       ELSE Refuse(calling)
  /\ UNCHANGED <<url, running, mgr, pending, batch, ctx, stage, wpc, cpc,
                 accepted>>

CallPush ==
  /\ step = "push"
  /\ pending' = Append(pending, calling)
  /\ Move(calling, "pending")
  /\ accepted' = IF running THEN accepted \cup {calling} ELSE accepted
  /\ Return
  /\ UNCHANGED <<url, running, mgr, batch, ctx, stage, wpc, cpc, answers>>

-----------------------------------------------------------------------------
(* stop(); on a stopped adapter it changes nothing                         *)

Stop ==
  /\ cpc = "idle"
  /\ running
  /\ running' = FALSE
  /\ cpc' = "join"
  /\ UNCHANGED <<url, mgr, pending, batch, place, ctx, stage, wpc, caller,
                 answers, accepted>>

StopJoin ==
  /\ cpc = "join"
  /\ wpc = "stopped"
  /\ cpc' = "stopped"
  /\ UNCHANGED <<url, running, mgr, pending, batch, place, ctx, stage, wpc,
                 caller, answers, accepted>>

-----------------------------------------------------------------------------
(* worker_loop() and the functions it calls                                *)

LoopTest ==
  /\ wpc = "loop"
  /\ wpc' = IF running THEN "process" ELSE "drain"
  /\ UNCHANGED <<url, running, mgr, pending, batch, place, ctx, stage, caller,
                 cpc, answers, accepted>>

\* Empty pending_requests_ into the worker's local queue, under the lock.
Grab(from, to) ==
  /\ wpc = from
  /\ batch' = pending
  /\ pending' = << >>
  /\ place' = [r \in Requests |->
                 IF place[r] = "pending" THEN "batch" ELSE place[r]]
  /\ wpc' = to
  /\ UNCHANGED <<url, running, mgr, ctx, stage, caller, cpc, answers,
                 accepted>>

ProcessPending == Grab("process", "start")
FailPending == Grab("drain", "fail")

FailHead(r) ==
  /\ Answer(r, "failure")
  /\ Move(r, "gone")
  /\ UNCHANGED ctx

\* start_request(): an empty url or a failed mg_http_connect ends the request;
\* mg_http_connect may also report MG_EV_ERROR before it returns.
StartRequest ==
  /\ wpc = "start"
  /\ batch # << >>
  /\ LET r == Head(batch) IN
       \/ FailHead(r)
       \/ /\ url[r] # "empty"
          /\ Move(r, "open")
          /\ \/ UNCHANGED <<ctx, answers>>
             \/ /\ ctx' = [ctx EXCEPT ![r].completed = TRUE,
                                      ![r].closing = TRUE]
                /\ Answer(r, "failure")
  /\ batch' = Tail(batch)
  /\ UNCHANGED <<url, running, mgr, pending, stage, wpc, caller, cpc, accepted>>

FailRequest ==
  /\ wpc = "fail"
  /\ batch # << >>
  /\ FailHead(Head(batch))
  /\ batch' = Tail(batch)
  /\ UNCHANGED <<url, running, mgr, pending, stage, wpc, caller, cpc, accepted>>

BeginPoll(from, to) ==
  /\ wpc = from
  /\ batch = << >>
  /\ stage' = [r \in Requests |-> IF place[r] = "open" THEN "poll" ELSE "done"]
  /\ wpc' = to
  /\ UNCHANGED <<url, running, mgr, pending, batch, place, caller, cpc,
                 answers, accepted>>

PollBegin ==
  /\ BeginPoll("start", "poll")
  /\ UNCHANGED ctx

\* mg_mgr_free(): mark every connection closing and poll once.
FreeBegin ==
  /\ BeginPoll("fail", "free")
  /\ ctx' = [r \in Requests |-> IF place[r] = "open"
                                  THEN [ctx[r] EXCEPT !.closing = TRUE]
                                  ELSE ctx[r]]

EndPoll(from, to) ==
  /\ wpc = from
  /\ \A r \in Requests : stage[r] = "done"
  /\ wpc' = to
  /\ UNCHANGED <<url, running, pending, batch, place, ctx, stage, caller, cpc,
                 answers, accepted>>

PollEnd == EndPoll("poll", "loop") /\ UNCHANGED mgr
FreeEnd == EndPoll("free", "stopped") /\ mgr' = FALSE

-----------------------------------------------------------------------------
(* One mg_mgr_poll(): on_mg_event() for each connection                    *)

\* The poll is at connection r, in the given stage of its visit.
Visiting(r, at) ==
  /\ wpc \in {"poll", "free"}
  /\ stage[r] = at
  /\ \A q \in Requests \ {r} : stage[q] \in {"poll", "done"}

Advance(r, to) == stage' = [stage EXCEPT ![r] = to]

CompleteWithFailure(r) ==
  IF ctx[r].completed
    THEN UNCHANGED answers
    ELSE Answer(r, "failure")

Finished(r) == [ctx EXCEPT ![r].completed = TRUE, ![r].closing = TRUE]

elsewhere == <<url, running, mgr, pending, batch, wpc, caller, cpc, accepted>>

\* MG_EV_POLL: the deadline.
OnPoll(r) ==
  /\ Visiting(r, "poll")
  /\ Advance(r, "io")
  /\ IF ~ctx[r].completed /\ ctx[r].expired
       THEN CompleteWithFailure(r) /\ ctx' = Finished(r)
       ELSE UNCHANGED <<ctx, answers>>
  /\ UNCHANGED <<place, elsewhere>>

\* MG_EV_CONNECT: a plain request is sent.  One over TLS would be sent at
\* MG_EV_TLS_HS, which never comes: the code never initialises TLS.
OnConnect(r) ==
  /\ Visiting(r, "io")
  /\ ~ctx[r].closing
  /\ ~ctx[r].up
  /\ ctx' = [ctx EXCEPT ![r].up = TRUE,
                        ![r].sent = @ \/ (url[r] = "http" /\ ~ctx[r].completed)]
  /\ Advance(r, "end")
  /\ UNCHANGED <<place, answers, elsewhere>>

OnRead(r) ==
  /\ Visiting(r, "io")
  /\ ~ctx[r].closing
  /\ ctx[r].up
  /\ Advance(r, "read")
  /\ UNCHANGED <<place, ctx, answers, elsewhere>>

\* MG_EV_HTTP_MSG: one read may hold several messages, and what is buffered is
\* delivered once more when the connection closes.
OnHttpMessage(r) ==
  /\ \/ Visiting(r, "read")
     \/ Visiting(r, "end") /\ ctx[r].closing /\ ctx[r].up
  /\ IF ctx[r].completed THEN UNCHANGED answers ELSE Answer(r, "response")
  /\ ctx' = Finished(r)
  /\ UNCHANGED <<place, stage, elsewhere>>

\* MG_EV_ERROR: from its own socket, or from the resolver's connection while
\* the poll is elsewhere.
OnError(r) ==
  /\ wpc \in {"poll", "free"}
  /\ place[r] = "open"
  /\ CompleteWithFailure(r)
  /\ ctx' = Finished(r)
  /\ UNCHANGED <<place, stage, elsewhere>>

\* Nothing more happens on the socket, or the peer closes it.
IoDone(r) ==
  /\ Visiting(r, "io") \/ Visiting(r, "read")
  /\ \E peerCloses \in BOOLEAN :
       ctx' = [ctx EXCEPT ![r].closing = @ \/ peerCloses]
  /\ Advance(r, "end")
  /\ UNCHANGED <<place, answers, elsewhere>>

\* MG_EV_CLOSE deletes the context.
OnClose(r) ==
  /\ Visiting(r, "end")
  /\ ctx[r].closing
  /\ CompleteWithFailure(r)
  /\ Move(r, "gone")
  /\ ctx' = [ctx EXCEPT ![r] = NewContext]
  /\ Advance(r, "done")
  /\ UNCHANGED elsewhere

StayOpen(r) ==
  /\ Visiting(r, "end")
  /\ ~ctx[r].closing
  /\ Advance(r, "done")
  /\ UNCHANGED <<place, ctx, answers, elsewhere>>

\* steady_clock::now() reaches the deadline.
DeadlinePasses(r) ==
  /\ place[r] = "open"
  /\ ~ctx[r].expired
  /\ ctx' = [ctx EXCEPT ![r].expired = TRUE]
  /\ UNCHANGED <<place, stage, answers, elsewhere>>

-----------------------------------------------------------------------------

Call == (\E r \in Requests : CallTestRunning(r)) \/ CallTestMgr \/ CallPush

\* The steps that take the worker through its loop ...
Worker ==
  \/ LoopTest \/ ProcessPending \/ StartRequest \/ PollBegin \/ PollEnd
  \/ FailPending \/ FailRequest \/ FreeBegin \/ FreeEnd
  \/ \E r \in Requests : OnPoll(r) \/ IoDone(r) \/ OnClose(r) \/ StayOpen(r)

\* ... and what the network does to it on the way.
Network ==
  \E r \in Requests :
    OnConnect(r) \/ OnRead(r) \/ OnHttpMessage(r) \/ OnError(r)

Next ==
  \/ Call
  \/ Stop \/ StopJoin
  \/ Worker
  \/ Network
  \/ \E r \in Requests : DeadlinePasses(r)

Spec == Init /\ [][Next]_vars

\* The worker runs, calls that were begun end, time passes.  Nothing is assumed
\* of the network, and nobody has to issue a request or to stop the adapter.
Fairness ==
  /\ WF_vars(Worker)
  /\ WF_vars(CallTestMgr \/ CallPush)
  /\ WF_vars(StopJoin)
  /\ \A r \in Requests : WF_vars(DeadlinePasses(r))

FairSpec == Spec /\ Fairness

-----------------------------------------------------------------------------

TypeOK ==
  /\ url \in [Requests -> Urls]
  /\ running \in BOOLEAN /\ mgr \in BOOLEAN
  /\ pending \in Seq(Requests)
  /\ batch \in Seq(Requests)
  /\ place \in [Requests -> {"new", "pending", "batch", "open", "gone"}]
  /\ ctx \in [Requests -> [up : BOOLEAN, sent : BOOLEAN, completed : BOOLEAN,
                           closing : BOOLEAN, expired : BOOLEAN]]
  /\ stage \in [Requests -> {"poll", "io", "read", "end", "done"}]
  /\ wpc \in {"loop", "process", "start", "poll", "drain", "fail", "free",
              "stopped"}
  /\ calling \in Requests \cup {NoRequest}
  /\ step \in {"idle", "test_mgr", "push"}
  /\ cpc \in {"idle", "join", "stopped"}
  /\ answers \in [Requests -> Seq(Answers)]
  /\ accepted \subseteq Requests

\* A request's callbacks run at most once in all, whatever timeout, error,
\* response, second response, close and stop() race for it (the `completed'
\* guards of lines 107, 115, 265 and 292).
AtMostOneAnswer == \A r \in Requests : Len(answers[r]) <= 1

\* A request without an answer is still held somewhere that leads to one, and
\* one with an answer is held nowhere except by a connection about to close:
\* no context leaks and none is freed with its callbacks unused.
HeldUntilAnswered ==
  \A r \in Requests :
    /\ place[r] = "gone" => answers[r] # << >>
    /\ place[r] = "pending" <=> Contains(pending, r)
    /\ place[r] = "batch" <=> Contains(batch, r)
    /\ place[r] \in {"new", "pending", "batch"} => answers[r] = << >>
    /\ place[r] = "open" => /\ ctx[r].completed <=> answers[r] # << >>
                            /\ ctx[r].completed => ctx[r].closing

\* When stop() has returned, every request accepted while the adapter ran is
\* answered, no connection is left, and the manager is freed (lines 138-145).
StopSettlesAccepted ==
  cpc = "stopped" =>
    /\ ~mgr /\ batch = << >>
    /\ \A r \in Requests : place[r] # "open"
    /\ \A r \in accepted : answers[r] # << >>

\* A request that was answered, by its deadline say, is not sent afterwards.
NoSendAfterAnswer ==
  [][\A r \in Requests : ~ctx[r].sent /\ ctx'[r].sent => answers[r] = << >>]_vars

\* An accepted request is answered even if the network never reacts: by its
\* deadline, or by stop().
AcceptedIsAnswered ==
  \A r \in Requests : r \in accepted ~> answers[r] # << >>

\* stop() comes back from the join, whatever requests are on their way.
StopReturns == cpc = "join" ~> cpc = "stopped"

\* HttpClientModule.h, line 3: a request event is handed to the adapter, "and
\* then the response or failure event is sent back".  Not so when stop() and
\* the worker's last look at the queue fall between the tests of line 34 and
\* the push of line 47: the request stays in the queue of a dead adapter.
EveryCallIsAnswered ==
  cpc = "stopped" /\ step = "idle" =>
    \A r \in Requests : place[r] # "new" => answers[r] # << >>
=============================================================================
