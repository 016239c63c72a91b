------------------ MODULE MongooseHttpClientAdapterProofs ------------------
(***************************************************************************)
(* Proofs about MongooseHttpClientAdapter.tla, for any set of requests:    *)
(* the types, that a request is answered at most once and is held until it *)
(* is, that stop() leaves no accepted request behind, and that nothing is  *)
(* sent for a request that was already answered.                           *)
(***************************************************************************)
EXTENDS MongooseHttpClientAdapter, SequenceTheorems, TLAPS

USE DEF caller, elsewhere

-----------------------------------------------------------------------------
(* The inductive invariant                                                 *)

\* The two queues hold the requests that are said to be in them, once each;
\* the worker's own is empty whenever it goes around its loop.
QueueInv ==
  /\ IsInjective(pending) /\ IsInjective(batch)
  /\ \A r \in Requests : /\ place[r] = "pending" <=> Contains(pending, r)
                         /\ place[r] = "batch" <=> Contains(batch, r)
  /\ batch # << >> => wpc \in {"start", "fail"}

\* The request a caller has in hand is in no queue yet.
CallInv == step # "idle" => calling \in Requests /\ place[calling] = "new"

\* `completed' tells, for an open connection, whether the callback has run.
AnswerInv ==
  \A r \in Requests :
    /\ Len(answers[r]) <= 1
    /\ place[r] \in {"new", "pending", "batch"} => answers[r] = << >>
    /\ place[r] = "gone" => answers[r] # << >>
    /\ place[r] = "open" => (ctx[r].completed <=> answers[r] # << >>)
    /\ ctx[r].completed => place[r] = "open" /\ ctx[r].closing

PollInv ==
  \A r \in Requests :
    stage[r] # "done" => wpc \in {"poll", "free"} /\ place[r] = "open"

\* What the worker has done by each of its last steps.
StopInv ==
  /\ wpc \in {"drain", "fail", "free", "stopped"} => ~running
  /\ mgr <=> wpc # "stopped"
  /\ cpc = "stopped" => wpc = "stopped"
  /\ \A r \in accepted :
       /\ place[r] # "new"
       /\ wpc \in {"fail", "free", "stopped"} => place[r] # "pending"
  /\ \A r \in Requests :
       /\ wpc = "free" /\ place[r] = "open" => ctx[r].closing /\ stage[r] # "done"
       /\ wpc = "stopped" => place[r] # "open"

Inv == TypeOK /\ QueueInv /\ CallInv /\ AnswerInv /\ PollInv /\ StopInv

-----------------------------------------------------------------------------
(* Queues without repetitions                                              *)

LEMMA EmptyQueue ==
  /\ IsInjective(<< >>)
  /\ \A x : ~Contains(<< >>, x)
<1>1. Len(<< >>) = 0 /\ DOMAIN << >> = {}
  BY EmptySeq
<1>2. QED
  BY <1>1 DEF IsInjective, Contains

\* At the end of a queue a new member is added to those it had.
LEMMA Enqueued ==
  ASSUME NEW S, NEW q \in Seq(S), NEW e \in S, IsInjective(q), ~Contains(q, e)
  PROVE  /\ Append(q, e) \in Seq(S)
         /\ IsInjective(Append(q, e))
         /\ \A x : Contains(Append(q, e), x) <=> Contains(q, x) \/ x = e
<1> DEFINE p == Append(q, e)
<1>1. /\ p \in Seq(S) /\ Len(q) \in Nat /\ Len(p) = Len(q) + 1
      /\ \A i \in 1 .. Len(q) : p[i] = q[i]
      /\ p[Len(q) + 1] = e
      /\ DOMAIN p = 1 .. Len(q) + 1 /\ DOMAIN q = 1 .. Len(q)
  BY AppendProperties, LenProperties
<1> HIDE DEF p
<1>2. ASSUME NEW i \in 1 .. Len(q)
      PROVE  q[i] # e
  BY <1>2 DEF Contains
<1>3. IsInjective(p)
  <2> SUFFICES ASSUME NEW i \in 1 .. Len(q) + 1, NEW j \in 1 .. Len(q) + 1,
                      p[i] = p[j]
               PROVE  i = j
    BY <1>1 DEF IsInjective
  <2>1. CASE i \in 1 .. Len(q) /\ j \in 1 .. Len(q)
    BY <1>1, <2>1 DEF IsInjective
  <2>2. CASE i = Len(q) + 1 \/ j = Len(q) + 1
    BY <1>1, <1>2, <2>2
  <2>3. QED
    BY <1>1, <2>1, <2>2
<1>4. ASSUME NEW x
      PROVE  Contains(p, x) <=> Contains(q, x) \/ x = e
  <2>1. ASSUME Contains(p, x), x # e
        PROVE  Contains(q, x)
    <3>1. PICK i \in 1 .. Len(q) + 1 : p[i] = x
      BY <1>1, <2>1 DEF Contains
    <3>2. i \in 1 .. Len(q)
      BY <1>1, <2>1, <3>1
    <3>3. QED
      BY <1>1, <3>1, <3>2 DEF Contains
  <2>2. ASSUME Contains(q, x)
        PROVE  Contains(p, x)
    <3>1. PICK i \in 1 .. Len(q) : q[i] = x
      BY <2>2 DEF Contains
    <3>2. i \in 1 .. Len(p) /\ p[i] = x
      BY <1>1, <3>1
    <3>3. QED
      BY <3>2 DEF Contains
  <2>3. Contains(p, e)
    BY <1>1 DEF Contains
  <2>4. QED
    BY <2>1, <2>2, <2>3
<1>5. QED
  BY <1>1, <1>3, <1>4 DEF p

\* Without its head a queue has all the others left.
LEMMA Dequeued ==
  ASSUME NEW S, NEW q \in Seq(S), q # << >>, IsInjective(q)
  PROVE  /\ Head(q) \in S /\ Tail(q) \in Seq(S)
         /\ Contains(q, Head(q))
         /\ IsInjective(Tail(q))
         /\ \A x : Contains(Tail(q), x) <=> Contains(q, x) /\ x # Head(q)
<1> DEFINE h == Head(q)
           p == Tail(q)
<1>1. /\ h \in S /\ p \in Seq(S) /\ h = q[1]
      /\ Len(q) \in Nat \ {0} /\ Len(p) = Len(q) - 1
      /\ \A i \in 1 .. Len(p) : p[i] = q[i + 1]
      /\ DOMAIN p = 1 .. Len(p) /\ DOMAIN q = 1 .. Len(q)
  BY HeadTailProperties, LenProperties, EmptySeq
<1> HIDE DEF h, p
<1>2. IsInjective(p)
  <2> SUFFICES ASSUME NEW i \in 1 .. Len(p), NEW j \in 1 .. Len(p), p[i] = p[j]
               PROVE  i = j
    BY <1>1 DEF IsInjective
  <2>1. i + 1 \in 1 .. Len(q) /\ j + 1 \in 1 .. Len(q) /\ q[i + 1] = q[j + 1]
    BY <1>1
  <2>2. i + 1 = j + 1
    BY <1>1, <2>1 DEF IsInjective
  <2>3. QED
    BY <2>2
<1>3. ASSUME NEW x
      PROVE  Contains(p, x) <=> Contains(q, x) /\ x # h
  <2>1. ASSUME Contains(p, x)
        PROVE  Contains(q, x) /\ x # h
    <3>1. PICK i \in 1 .. Len(p) : p[i] = x
      BY <2>1 DEF Contains
    <3>2. i + 1 \in 1 .. Len(q) /\ i + 1 # 1 /\ 1 \in 1 .. Len(q) /\ q[i + 1] = x
      BY <1>1, <3>1
    <3>3. q[i + 1] # q[1]
      BY <1>1, <3>2 DEF IsInjective
    <3>4. QED
      BY <1>1, <3>2, <3>3 DEF Contains
  <2>2. ASSUME Contains(q, x), x # h
        PROVE  Contains(p, x)
    <3>1. PICK i \in 1 .. Len(q) : q[i] = x
      BY <2>2 DEF Contains
    <3>2. i # 1
      BY <1>1, <2>2, <3>1
    <3>3. i - 1 \in 1 .. Len(p) /\ p[i - 1] = x
      BY <1>1, <3>1, <3>2
    <3>4. QED
      BY <3>3 DEF Contains
  <2>3. QED
    BY <2>1, <2>2
<1>4. Contains(q, h)
  BY <1>1 DEF Contains
<1>5. QED
  BY <1>1, <1>2, <1>3, <1>4 DEF h, p

-----------------------------------------------------------------------------
(* Callbacks                                                               *)

Contexts == [up : BOOLEAN, sent : BOOLEAN, completed : BOOLEAN,
             closing : BOOLEAN, expired : BOOLEAN]

\* The first callback of a request is its only one.
LEMMA FirstAnswer ==
  ASSUME answers \in [Requests -> Seq(Answers)],
         NEW r \in Requests, NEW how \in Answers,
         answers[r] = << >>, Answer(r, how)
  PROVE  /\ answers' \in [Requests -> Seq(Answers)]
         /\ Len(answers'[r]) <= 1 /\ answers'[r] # << >>
         /\ \A q \in Requests \ {r} : answers'[q] = answers[q]
<1> DEFINE one == Append(answers[r], how)
<1>1. one \in Seq(Answers) /\ Len(one) = 1 /\ one # << >>
  BY AppendProperties, EmptySeq
<1>2. answers' = [answers EXCEPT ![r] = one]
  BY DEF Answer
<1> HIDE DEF one
<1>3. /\ answers' \in [Requests -> Seq(Answers)]
      /\ answers'[r] = one
      /\ \A q \in Requests \ {r} : answers'[q] = answers[q]
  BY <1>1, <1>2
<1>4. Len(answers'[r]) = 1
  BY <1>1, <1>3, Zenon
<1>5. answers'[r] # << >>
  BY <1>1, <1>3, Zenon
<1>6. QED
  BY <1>3, <1>4, <1>5

\* What the code does at every end of a request: a callback, unless there has
\* been one.
LEMMA Settled ==
  ASSUME Inv, NEW r \in Requests, place[r] = "open", NEW how \in Answers,
         IF ctx[r].completed THEN UNCHANGED answers ELSE Answer(r, how)
  PROVE  /\ answers' \in [Requests -> Seq(Answers)]
         /\ Len(answers'[r]) <= 1 /\ answers'[r] # << >>
         /\ \A q \in Requests \ {r} : answers'[q] = answers[q]
<1>1. /\ answers \in [Requests -> Seq(Answers)]
      /\ ctx[r].completed <=> answers[r] # << >>
      /\ Len(answers[r]) <= 1
  BY DEF Inv, TypeOK, AnswerInv
<1>2. CASE ctx[r].completed
  BY <1>1, <1>2
<1>3. CASE ~ctx[r].completed
  BY <1>1, <1>3, FirstAnswer
<1>4. QED
  BY <1>2, <1>3

\* A step of a poll at an open connection that stays open.
LEMMA VisitKeepsInv ==
  ASSUME Inv, NEW r \in Requests, place[r] = "open",
         UNCHANGED <<place, elsewhere>>,
         ctx' \in [Requests -> Contexts],
         stage' \in [Requests -> {"poll", "io", "read", "end", "done"}],
         answers' \in [Requests -> Seq(Answers)],
         \A q \in Requests \ {r} : /\ ctx'[q] = ctx[q] /\ stage'[q] = stage[q]
                                   /\ answers'[q] = answers[q],
         ctx'[r].completed <=> answers'[r] # << >>,
         Len(answers'[r]) <= 1,
         ctx'[r].completed => ctx'[r].closing,
         ctx[r].closing => ctx'[r].closing,
         stage'[r] # stage[r] => wpc \in {"poll", "free"},
         stage'[r] = "done" => stage[r] = "done" \/ ~ctx[r].closing
  PROVE  Inv'
<1>1. TypeOK'
  BY DEF Inv, TypeOK, Contexts
<1>2. QueueInv' /\ CallInv'
  BY DEF Inv, QueueInv, CallInv
<1>3. AnswerInv'
  BY DEF Inv, AnswerInv
<1>4. PollInv'
  BY DEF Inv, PollInv
<1>5. StopInv'
  BY DEF Inv, StopInv
<1>6. QED
  BY <1>1, <1>2, <1>3, <1>4, <1>5 DEF Inv

\* Where the poll is at a connection, the connection is open.
LEMMA VisitingOpen ==
  ASSUME Inv, NEW r \in Requests, NEW at, at # "done", Visiting(r, at)
  PROVE  place[r] = "open" /\ wpc \in {"poll", "free"}
BY DEF Inv, PollInv, Visiting

-----------------------------------------------------------------------------
(* The poll                                                                *)

\* The types of what a visit changes.
LEMMA VisitTypes ==
  ASSUME Inv
  PROVE  /\ ctx \in [Requests -> Contexts]
         /\ stage \in [Requests -> {"poll", "io", "read", "end", "done"}]
         /\ answers \in [Requests -> Seq(Answers)]
BY DEF Inv, TypeOK, Contexts

\* The answers and the context of a request that is settled by a callback.
LEMMA SettledContext ==
  ASSUME Inv, NEW r \in Requests, place[r] = "open", ctx' = Finished(r)
  PROVE  /\ ctx' \in [Requests -> Contexts]
         /\ ctx'[r].completed /\ ctx'[r].closing
         /\ \A q \in Requests \ {r} : ctx'[q] = ctx[q]
<1>1. ctx \in [Requests -> Contexts]
  BY VisitTypes
<1>2. QED
  BY <1>1 DEF Finished, Contexts

LEMMA OpenAnswer ==
  ASSUME Inv, NEW r \in Requests, place[r] = "open"
  PROVE  /\ ctx[r].completed <=> answers[r] # << >>
         /\ Len(answers[r]) <= 1
         /\ ctx[r].completed => ctx[r].closing
BY DEF Inv, AnswerInv

LEMMA OnPollKeepsInv ==
  ASSUME Inv, NEW r \in Requests, OnPoll(r)
  PROVE  Inv'
<1>1. place[r] = "open" /\ wpc \in {"poll", "free"}
  BY VisitingOpen DEF OnPoll
<1>2. /\ stage' \in [Requests -> {"poll", "io", "read", "end", "done"}]
      /\ stage'[r] = "io"
      /\ \A q \in Requests \ {r} : stage'[q] = stage[q]
      /\ UNCHANGED <<place, elsewhere>>
  BY VisitTypes DEF OnPoll, Advance
<1>3. CASE ~ctx[r].completed /\ ctx[r].expired
  <2>1. ctx' = Finished(r) /\ CompleteWithFailure(r)
    BY <1>3 DEF OnPoll
  <2>2. "failure" \in Answers
    BY DEF Answers
  <2>3. /\ answers' \in [Requests -> Seq(Answers)]
        /\ Len(answers'[r]) <= 1 /\ answers'[r] # << >>
        /\ \A q \in Requests \ {r} : answers'[q] = answers[q]
    BY <1>1, <2>1, <2>2, Settled DEF CompleteWithFailure
  <2>4. /\ ctx' \in [Requests -> Contexts]
        /\ ctx'[r].completed /\ ctx'[r].closing
        /\ \A q \in Requests \ {r} : ctx'[q] = ctx[q]
    BY <1>1, <2>1, SettledContext
  <2>5. QED
    BY <1>1, <1>2, <2>3, <2>4, VisitKeepsInv
<1>4. CASE ~(~ctx[r].completed /\ ctx[r].expired)
  <2>1. UNCHANGED <<ctx, answers>>
    BY <1>4 DEF OnPoll
  <2>2. QED
    BY <1>1, <1>2, <2>1, VisitTypes, OpenAnswer, VisitKeepsInv
<1>5. QED
  BY <1>3, <1>4

LEMMA OnConnectKeepsInv ==
  ASSUME Inv, NEW r \in Requests, OnConnect(r)
  PROVE  Inv'
<1>1. place[r] = "open" /\ wpc \in {"poll", "free"}
  BY VisitingOpen DEF OnConnect
<1>2. /\ stage' \in [Requests -> {"poll", "io", "read", "end", "done"}]
      /\ stage'[r] = "end"
      /\ \A q \in Requests \ {r} : stage'[q] = stage[q]
      /\ UNCHANGED <<place, answers, elsewhere>>
  BY VisitTypes DEF OnConnect, Advance
<1>3. /\ ctx' \in [Requests -> Contexts]
      /\ ctx'[r].completed = ctx[r].completed
      /\ ctx'[r].closing = ctx[r].closing
      /\ \A q \in Requests \ {r} : ctx'[q] = ctx[q]
  BY VisitTypes DEF OnConnect, Contexts
<1>4. QED
  BY <1>1, <1>2, <1>3, VisitTypes, OpenAnswer, VisitKeepsInv

LEMMA OnReadKeepsInv ==
  ASSUME Inv, NEW r \in Requests, OnRead(r)
  PROVE  Inv'
<1>1. place[r] = "open" /\ wpc \in {"poll", "free"}
  BY VisitingOpen DEF OnRead
<1>2. /\ stage' \in [Requests -> {"poll", "io", "read", "end", "done"}]
      /\ stage'[r] = "read"
      /\ \A q \in Requests \ {r} : stage'[q] = stage[q]
      /\ UNCHANGED <<place, ctx, answers, elsewhere>>
  BY VisitTypes DEF OnRead, Advance
<1>3. QED
  BY <1>1, <1>2, VisitTypes, OpenAnswer, VisitKeepsInv

LEMMA OnHttpMessageKeepsInv ==
  ASSUME Inv, NEW r \in Requests, OnHttpMessage(r)
  PROVE  Inv'
<1>1. place[r] = "open" /\ wpc \in {"poll", "free"}
  BY VisitingOpen DEF OnHttpMessage
<1>2. "response" \in Answers
  BY DEF Answers
<1>3. /\ answers' \in [Requests -> Seq(Answers)]
      /\ Len(answers'[r]) <= 1 /\ answers'[r] # << >>
      /\ \A q \in Requests \ {r} : answers'[q] = answers[q]
  BY <1>1, <1>2, Settled DEF OnHttpMessage
<1>4. /\ ctx' \in [Requests -> Contexts]
      /\ ctx'[r].completed /\ ctx'[r].closing
      /\ \A q \in Requests \ {r} : ctx'[q] = ctx[q]
  BY <1>1, SettledContext DEF OnHttpMessage
<1>5. UNCHANGED <<place, stage, elsewhere>>
  BY DEF OnHttpMessage
<1>6. QED
  BY <1>1, <1>3, <1>4, <1>5, VisitTypes, VisitKeepsInv

LEMMA OnErrorKeepsInv ==
  ASSUME Inv, NEW r \in Requests, OnError(r)
  PROVE  Inv'
<1>1. place[r] = "open" /\ UNCHANGED <<place, stage, elsewhere>>
  BY DEF OnError
<1>2. "failure" \in Answers
  BY DEF Answers
<1>3. /\ answers' \in [Requests -> Seq(Answers)]
      /\ Len(answers'[r]) <= 1 /\ answers'[r] # << >>
      /\ \A q \in Requests \ {r} : answers'[q] = answers[q]
  BY <1>1, <1>2, Settled DEF OnError, CompleteWithFailure
<1>4. /\ ctx' \in [Requests -> Contexts]
      /\ ctx'[r].completed /\ ctx'[r].closing
      /\ \A q \in Requests \ {r} : ctx'[q] = ctx[q]
  BY <1>1, SettledContext DEF OnError
<1>5. QED
  BY <1>1, <1>3, <1>4, VisitTypes, VisitKeepsInv

LEMMA IoDoneKeepsInv ==
  ASSUME Inv, NEW r \in Requests, IoDone(r)
  PROVE  Inv'
<1>1. place[r] = "open" /\ wpc \in {"poll", "free"}
  BY VisitingOpen DEF IoDone
<1>2. /\ stage' \in [Requests -> {"poll", "io", "read", "end", "done"}]
      /\ stage'[r] = "end"
      /\ \A q \in Requests \ {r} : stage'[q] = stage[q]
      /\ UNCHANGED <<place, answers, elsewhere>>
  BY VisitTypes DEF IoDone, Advance
<1>3. PICK peerCloses \in BOOLEAN :
        ctx' = [ctx EXCEPT ![r].closing = @ \/ peerCloses]
  BY DEF IoDone
<1>4. /\ ctx' \in [Requests -> Contexts]
      /\ ctx'[r].completed = ctx[r].completed
      /\ ctx[r].closing => ctx'[r].closing
      /\ \A q \in Requests \ {r} : ctx'[q] = ctx[q]
  BY <1>3, VisitTypes DEF Contexts
<1>5. QED
  BY <1>1, <1>2, <1>4, VisitTypes, OpenAnswer, VisitKeepsInv

LEMMA StayOpenKeepsInv ==
  ASSUME Inv, NEW r \in Requests, StayOpen(r)
  PROVE  Inv'
<1>1. place[r] = "open" /\ wpc \in {"poll", "free"}
  BY VisitingOpen DEF StayOpen
<1>2. /\ stage' \in [Requests -> {"poll", "io", "read", "end", "done"}]
      /\ stage'[r] = "done" /\ ~ctx[r].closing
      /\ \A q \in Requests \ {r} : stage'[q] = stage[q]
      /\ UNCHANGED <<place, ctx, answers, elsewhere>>
  BY VisitTypes DEF StayOpen, Advance
<1>3. QED
  BY <1>1, <1>2, VisitTypes, OpenAnswer, VisitKeepsInv

LEMMA DeadlinePassesKeepsInv ==
  ASSUME Inv, NEW r \in Requests, DeadlinePasses(r)
  PROVE  Inv'
<1>1. place[r] = "open" /\ UNCHANGED <<place, stage, answers, elsewhere>>
  BY DEF DeadlinePasses
<1>2. /\ ctx' \in [Requests -> Contexts]
      /\ ctx'[r].completed = ctx[r].completed
      /\ ctx'[r].closing = ctx[r].closing
      /\ \A q \in Requests \ {r} : ctx'[q] = ctx[q]
  BY VisitTypes DEF DeadlinePasses, Contexts
<1>3. QED
  BY <1>1, <1>2, VisitTypes, OpenAnswer, VisitKeepsInv

LEMMA OnCloseKeepsInv ==
  ASSUME Inv, NEW r \in Requests, OnClose(r)
  PROVE  Inv'
<1>1. place[r] = "open" /\ wpc \in {"poll", "free"}
  BY VisitingOpen DEF OnClose
<1>2. "failure" \in Answers
  BY DEF Answers
<1>3. /\ answers' \in [Requests -> Seq(Answers)]
      /\ Len(answers'[r]) <= 1 /\ answers'[r] # << >>
      /\ \A q \in Requests \ {r} : answers'[q] = answers[q]
  BY <1>1, <1>2, Settled DEF OnClose, CompleteWithFailure
<1>4. /\ ctx' \in [Requests -> Contexts]
      /\ ~ctx'[r].completed
      /\ \A q \in Requests \ {r} : ctx'[q] = ctx[q]
  BY VisitTypes DEF OnClose, NewContext, Contexts
<1>5. /\ stage' \in [Requests -> {"poll", "io", "read", "end", "done"}]
      /\ stage'[r] = "done"
      /\ \A q \in Requests \ {r} : stage'[q] = stage[q]
  BY VisitTypes DEF OnClose, Advance
<1>6. /\ place' = [place EXCEPT ![r] = "gone"]
      /\ UNCHANGED elsewhere
  BY DEF OnClose, Move
<1>7. TypeOK'
  BY <1>3, <1>4, <1>5, <1>6 DEF Inv, TypeOK, Contexts
<1>8. /\ place'[r] = "gone"
      /\ \A q \in Requests \ {r} : place'[q] = place[q]
  BY <1>6 DEF Inv, TypeOK
<1>9. QueueInv' /\ CallInv'
  BY <1>1, <1>6, <1>8 DEF Inv, QueueInv, CallInv
<1>10. AnswerInv'
  BY <1>3, <1>4, <1>8 DEF Inv, AnswerInv
<1>11. PollInv'
  BY <1>5, <1>6, <1>8 DEF Inv, PollInv
<1>12. StopInv'
  BY <1>1, <1>4, <1>5, <1>6, <1>8 DEF Inv, StopInv, TypeOK
<1>13. QED
  BY <1>7, <1>9, <1>10, <1>11, <1>12 DEF Inv

-----------------------------------------------------------------------------
(* async_request() and stop()                                              *)

\* A call refused because the adapter is stopped.
LEMMA RefuseKeepsInv ==
  ASSUME Inv, NEW r \in Requests, place[r] = "new", Refuse(r),
         step = "idle" \/ calling = r,
         UNCHANGED <<url, running, mgr, pending, batch, ctx, stage, wpc, cpc,
                     accepted>>
  PROVE  Inv'
<1>1. answers \in [Requests -> Seq(Answers)] /\ answers[r] = << >>
  BY DEF Inv, TypeOK, AnswerInv
<1>2. "failure" \in Answers /\ Answer(r, "failure")
  BY DEF Answers, Refuse
<1>3. /\ answers' \in [Requests -> Seq(Answers)]
      /\ Len(answers'[r]) <= 1 /\ answers'[r] # << >>
      /\ \A q \in Requests \ {r} : answers'[q] = answers[q]
  BY <1>1, <1>2, FirstAnswer
<1>4. /\ place' = [place EXCEPT ![r] = "gone"]
      /\ calling' = NoRequest /\ step' = "idle"
  BY DEF Refuse, Move, Return
<1>5. /\ place'[r] = "gone"
      /\ \A q \in Requests \ {r} : place'[q] = place[q]
  BY <1>4 DEF Inv, TypeOK
<1>6. TypeOK'
  BY <1>3, <1>4 DEF Inv, TypeOK
<1>7. QueueInv' /\ CallInv'
  BY <1>4, <1>5 DEF Inv, QueueInv, CallInv
<1>8. AnswerInv'
  BY <1>3, <1>5 DEF Inv, AnswerInv
<1>9. PollInv' /\ StopInv'
  BY <1>5 DEF Inv, PollInv, StopInv, TypeOK
<1>10. QED
  BY <1>6, <1>7, <1>8, <1>9 DEF Inv

LEMMA CallTestRunningKeepsInv ==
  ASSUME Inv, NEW r \in Requests, CallTestRunning(r)
  PROVE  Inv'
<1>1. CASE running
  <2>1. /\ calling' = r /\ step' = "test_mgr" /\ place[r] = "new"
        /\ UNCHANGED <<url, running, mgr, pending, batch, place, ctx, stage,
                       wpc, cpc, answers, accepted>>
    BY <1>1 DEF CallTestRunning
  <2>2. TypeOK'
    BY <2>1 DEF Inv, TypeOK
  <2>3. QueueInv' /\ CallInv' /\ AnswerInv' /\ PollInv' /\ StopInv'
    BY <2>1 DEF Inv, QueueInv, CallInv, AnswerInv, PollInv, StopInv
  <2>4. QED
    BY <2>2, <2>3 DEF Inv
<1>2. CASE ~running
  BY <1>2, RefuseKeepsInv DEF CallTestRunning
<1>3. QED
  BY <1>1, <1>2

LEMMA CallTestMgrKeepsInv ==
  ASSUME Inv, CallTestMgr
  PROVE  Inv'
<1>1. calling \in Requests /\ place[calling] = "new"
  BY DEF Inv, CallInv, CallTestMgr
<1>2. CASE mgr
  <2>1. /\ step' = "push"
        /\ UNCHANGED <<url, running, mgr, pending, batch, place, ctx, stage,
                       wpc, calling, cpc, answers, accepted>>
    BY <1>2 DEF CallTestMgr
  <2>2. TypeOK'
    BY <2>1 DEF Inv, TypeOK
  <2>3. QueueInv' /\ CallInv' /\ AnswerInv' /\ PollInv' /\ StopInv'
    BY <1>1, <2>1 DEF Inv, QueueInv, CallInv, AnswerInv, PollInv, StopInv
  <2>4. QED
    BY <2>2, <2>3 DEF Inv
<1>3. CASE ~mgr
  BY <1>1, <1>3, RefuseKeepsInv DEF CallTestMgr
<1>4. QED
  BY <1>2, <1>3

LEMMA CallPushKeepsInv ==
  ASSUME Inv, CallPush
  PROVE  Inv'
<1> DEFINE r == calling
<1>1. r \in Requests /\ place[r] = "new" /\ pending \in Seq(Requests)
  BY DEF Inv, CallInv, CallPush, TypeOK
<1>2. IsInjective(pending) /\ ~Contains(pending, r) /\ ~Contains(batch, r)
  BY <1>1 DEF Inv, QueueInv
<1>3. pending' = Append(pending, r)
  BY DEF CallPush
<1>4. /\ pending' \in Seq(Requests)
      /\ IsInjective(pending')
      /\ \A x : Contains(pending', x) <=> Contains(pending, x) \/ x = r
  BY <1>1, <1>2, <1>3, Enqueued
<1>5. /\ place' = [place EXCEPT ![r] = "pending"]
      /\ accepted' = IF running THEN accepted \cup {r} ELSE accepted
      /\ calling' = NoRequest /\ step' = "idle"
      /\ UNCHANGED <<url, running, mgr, batch, ctx, stage, wpc, cpc, answers>>
  BY DEF CallPush, Move, Return
<1> HIDE DEF r
<1>6. /\ place' \in [Requests -> {"new", "pending", "batch", "open", "gone"}]
      /\ place'[r] = "pending"
      /\ \A q \in Requests \ {r} : place'[q] = place[q]
  BY <1>1, <1>5 DEF Inv, TypeOK
<1>7. TypeOK'
  BY <1>1, <1>4, <1>5, <1>6 DEF Inv, TypeOK
<1>8. QueueInv'
  BY <1>1, <1>2, <1>4, <1>5, <1>6 DEF Inv, QueueInv
<1>9. CallInv'
  BY <1>5 DEF CallInv
<1>10. AnswerInv' /\ PollInv'
  BY <1>1, <1>5, <1>6 DEF Inv, AnswerInv, PollInv
<1>11. StopInv'
  <2>1. ASSUME NEW q \in accepted'
        PROVE  /\ place'[q] # "new"
               /\ wpc \in {"fail", "free", "stopped"} => place'[q] # "pending"
    <3>1. q \in Requests
      BY <1>7, <2>1 DEF TypeOK
    <3>2. CASE q = r
      <4>1. r \notin accepted
        BY <1>1 DEF Inv, StopInv
      <4>2. running
        BY <1>5, <2>1, <3>2, <4>1
      <4>3. QED
        BY <1>6, <3>2, <4>2 DEF Inv, StopInv
    <3>3. CASE q # r
      BY <1>5, <1>6, <2>1, <3>1, <3>3 DEF Inv, StopInv
    <3>4. QED
      BY <3>2, <3>3
  <2>2. QED
    BY <1>1, <1>5, <1>6, <2>1 DEF Inv, StopInv
<1>12. QED
  BY <1>7, <1>8, <1>9, <1>10, <1>11 DEF Inv

LEMMA StopKeepsInv ==
  ASSUME Inv, Stop \/ StopJoin
  PROVE  Inv'
<1>0. running \in BOOLEAN
  BY DEF Inv, TypeOK
<1>1. /\ running' \in BOOLEAN /\ (~running => ~running')
      /\ cpc' \in {"join", "stopped"}
      /\ cpc' = "stopped" => wpc = "stopped"
      /\ UNCHANGED <<url, mgr, pending, batch, place, ctx, stage, wpc, calling,
                     step, answers, accepted>>
  <2>1. CASE Stop
    BY <2>1 DEF Stop
  <2>2. CASE StopJoin
    BY <1>0, <2>2, Zenon DEF StopJoin
  <2>3. QED
    BY <2>1, <2>2
<1>2. TypeOK'
  BY <1>1 DEF Inv, TypeOK
<1>3. QueueInv' /\ CallInv' /\ AnswerInv' /\ PollInv' /\ StopInv'
  BY <1>1 DEF Inv, QueueInv, CallInv, AnswerInv, PollInv, StopInv
<1>4. QED
  BY <1>2, <1>3 DEF Inv

-----------------------------------------------------------------------------
(* The worker's loop                                                       *)

LEMMA LoopTestKeepsInv ==
  ASSUME Inv, LoopTest
  PROVE  Inv'
<1>1. /\ wpc = "loop"
      /\ wpc' \in {"process", "drain"}
      /\ wpc' = "drain" => ~running
      /\ UNCHANGED <<url, running, mgr, pending, batch, place, ctx, stage,
                     calling, step, cpc, answers, accepted>>
  BY DEF LoopTest
<1>2. TypeOK'
  BY <1>1 DEF Inv, TypeOK
<1>3. QueueInv' /\ CallInv' /\ AnswerInv' /\ PollInv' /\ StopInv'
  BY <1>1 DEF Inv, QueueInv, CallInv, AnswerInv, PollInv, StopInv
<1>4. QED
  BY <1>2, <1>3 DEF Inv

LEMMA GrabKeepsInv ==
  ASSUME Inv, ProcessPending \/ FailPending
  PROVE  Inv'
<1>1. /\ wpc \in {"process", "drain"}
      /\ wpc' \in {"start", "fail"}
      /\ wpc' = "fail" => wpc = "drain"
      /\ batch' = pending /\ pending' = << >>
      /\ place' = [r \in Requests |->
                     IF place[r] = "pending" THEN "batch" ELSE place[r]]
      /\ UNCHANGED <<url, running, mgr, ctx, stage, calling, step, cpc, answers,
                     accepted>>
  BY DEF ProcessPending, FailPending, Grab
<1>2. batch = << >> /\ << >> \in Seq(Requests)
  BY <1>1, EmptySeq DEF Inv, QueueInv
<1>3. \A r \in Requests : place[r] # "batch"
  BY <1>2, EmptyQueue DEF Inv, QueueInv
<1>4. /\ place' \in [Requests -> {"new", "pending", "batch", "open", "gone"}]
      /\ \A r \in Requests : /\ place'[r] # "pending"
                             /\ place'[r] = "batch" <=> place[r] = "pending"
                             /\ place'[r] = "new" <=> place[r] = "new"
                             /\ place'[r] = "open" <=> place[r] = "open"
                             /\ place'[r] = "gone" <=> place[r] = "gone"
  BY <1>1, <1>3 DEF Inv, TypeOK
<1>5. TypeOK'
  BY <1>1, <1>2, <1>4 DEF Inv, TypeOK
<1>6. QueueInv'
  <2>1. IsInjective(pending') /\ \A x : ~Contains(pending', x)
    BY <1>1, EmptyQueue
  <2>2. IsInjective(batch')
    BY <1>1 DEF Inv, QueueInv
  <2>3. \A r \in Requests : place'[r] = "batch" <=> Contains(batch', r)
    BY <1>1, <1>4 DEF Inv, QueueInv
  <2>4. QED
    BY <1>1, <1>4, <2>1, <2>2, <2>3 DEF QueueInv
<1>7. CallInv'
  BY <1>1, <1>4 DEF Inv, CallInv
<1>8. AnswerInv'
  BY <1>1, <1>4 DEF Inv, AnswerInv
<1>9. PollInv'
  BY <1>1, <1>4 DEF Inv, PollInv
<1>10. StopInv'
  <2>1. accepted \subseteq Requests
    BY DEF Inv, TypeOK
  <2>2. QED
    BY <1>1, <1>4, <2>1 DEF Inv, StopInv
<1>11. QED
  BY <1>5, <1>6, <1>7, <1>8, <1>9, <1>10 DEF Inv

\* The head of the worker's queue leaves it.
LEMMA HeadLeaves ==
  ASSUME Inv, batch # << >>, batch' = Tail(batch)
  PROVE  /\ Head(batch) \in Requests /\ place[Head(batch)] = "batch"
         /\ answers[Head(batch)] = << >>
         /\ ~ctx[Head(batch)].completed
         /\ wpc \in {"start", "fail"}
         /\ batch' \in Seq(Requests)
         /\ IsInjective(batch')
         /\ \A x : Contains(batch', x) <=> Contains(batch, x) /\ x # Head(batch)
<1>1. batch \in Seq(Requests) /\ IsInjective(batch) /\ wpc \in {"start", "fail"}
  BY DEF Inv, TypeOK, QueueInv
<1>2. /\ Head(batch) \in Requests /\ batch' \in Seq(Requests)
      /\ Contains(batch, Head(batch))
      /\ IsInjective(batch')
      /\ \A x : Contains(batch', x) <=> Contains(batch, x) /\ x # Head(batch)
  BY <1>1, Dequeued
<1>3. place[Head(batch)] = "batch"
  BY <1>2 DEF Inv, QueueInv
<1>4. answers[Head(batch)] = << >> /\ ~ctx[Head(batch)].completed
  BY <1>2, <1>3 DEF Inv, AnswerInv
<1>5. QED
  BY <1>1, <1>2, <1>3, <1>4

\* It is opened or ends, whichever way.
LEMMA HeadKeepsInv ==
  ASSUME Inv, batch # << >>, batch' = Tail(batch),
         UNCHANGED <<url, running, mgr, pending, stage, wpc, calling, step, cpc,
                     accepted>>,
         NEW where \in {"gone", "open"}, where = "open" => wpc = "start",
         Move(Head(batch), where),
         ctx' \in [Requests -> Contexts],
         answers' \in [Requests -> Seq(Answers)],
         \A q \in Requests \ {Head(batch)} : /\ ctx'[q] = ctx[q]
                                             /\ answers'[q] = answers[q],
         Len(answers'[Head(batch)]) <= 1,
         where = "gone" => /\ answers'[Head(batch)] # << >>
                           /\ ~ctx'[Head(batch)].completed,
         where = "open" =>
           /\ ctx'[Head(batch)].completed <=> answers'[Head(batch)] # << >>
           /\ ctx'[Head(batch)].completed => ctx'[Head(batch)].closing
  PROVE  Inv'
<1> DEFINE r == Head(batch)
<1>1. /\ r \in Requests /\ place[r] = "batch"
      /\ wpc \in {"start", "fail"}
      /\ batch' \in Seq(Requests)
      /\ IsInjective(batch')
      /\ \A x : Contains(batch', x) <=> Contains(batch, x) /\ x # r
  BY HeadLeaves
<1>2. place' = [place EXCEPT ![r] = where]
  BY DEF Move
<1> HIDE DEF r
<1>3. /\ place' \in [Requests -> {"new", "pending", "batch", "open", "gone"}]
      /\ place'[r] = where
      /\ \A q \in Requests \ {r} : place'[q] = place[q]
  BY <1>1, <1>2 DEF Inv, TypeOK
<1>4. TypeOK'
  BY <1>1, <1>3 DEF Inv, TypeOK, Contexts
<1>5. QueueInv'
  BY <1>1, <1>3 DEF Inv, QueueInv
<1>6. CallInv'
  BY <1>1, <1>3 DEF Inv, CallInv
<1>7. AnswerInv'
  BY <1>1, <1>3 DEF Inv, AnswerInv, r
<1>8. PollInv'
  BY <1>1, <1>3 DEF Inv, PollInv
<1>9. StopInv'
  BY <1>1, <1>3 DEF Inv, StopInv, TypeOK
<1>10. QED
  BY <1>4, <1>5, <1>6, <1>7, <1>8, <1>9 DEF Inv

\* It ends with its failure callback.
LEMMA FailHeadKeepsInv ==
  ASSUME Inv, batch # << >>, batch' = Tail(batch),
         UNCHANGED <<url, running, mgr, pending, stage, wpc, calling, step, cpc,
                     accepted>>,
         FailHead(Head(batch))
  PROVE  Inv'
<1>1. /\ Head(batch) \in Requests /\ answers[Head(batch)] = << >>
      /\ ~ctx[Head(batch)].completed
  BY HeadLeaves
<1>2. /\ "failure" \in Answers /\ "gone" \in {"gone", "open"}
      /\ Answer(Head(batch), "failure") /\ Move(Head(batch), "gone")
      /\ ctx' = ctx
  BY DEF Answers, FailHead
<1>3. /\ answers' \in [Requests -> Seq(Answers)]
      /\ Len(answers'[Head(batch)]) <= 1 /\ answers'[Head(batch)] # << >>
      /\ \A q \in Requests \ {Head(batch)} : answers'[q] = answers[q]
  BY <1>1, <1>2, VisitTypes, FirstAnswer
<1>4. ctx' \in [Requests -> Contexts]
  BY <1>2, VisitTypes
<1>5. QED
  BY <1>1, <1>2, <1>3, <1>4, HeadKeepsInv

LEMMA StartRequestKeepsInv ==
  ASSUME Inv, StartRequest
  PROVE  Inv'
<1> DEFINE r == Head(batch)
<1>1. /\ wpc = "start" /\ batch # << >> /\ batch' = Tail(batch)
      /\ UNCHANGED <<url, running, mgr, pending, stage, wpc, calling, step, cpc,
                     accepted>>
  BY DEF StartRequest
<1>2. CASE FailHead(r)
  BY <1>1, <1>2, FailHeadKeepsInv
<1>3. CASE Move(r, "open") /\ UNCHANGED <<ctx, answers>>
  <2>1. answers[r] = << >> /\ ~ctx[r].completed
    BY <1>1, HeadLeaves
  <2>2. Len(answers'[r]) <= 1 /\ answers'[r] = << >> /\ ~ctx'[r].completed
    BY <1>3, <2>1, EmptySeq
  <2>3. QED
    BY <1>1, <1>3, <2>2, VisitTypes, HeadKeepsInv
<1>4. CASE /\ Move(r, "open") /\ Answer(r, "failure")
           /\ ctx' = [ctx EXCEPT ![r].completed = TRUE, ![r].closing = TRUE]
  <2>1. r \in Requests /\ answers[r] = << >>
    BY <1>1, HeadLeaves
  <2>2. /\ answers' \in [Requests -> Seq(Answers)]
        /\ Len(answers'[r]) <= 1 /\ answers'[r] # << >>
        /\ \A q \in Requests \ {r} : answers'[q] = answers[q]
    <3>1. "failure" \in Answers
      BY DEF Answers
    <3>2. QED
      BY <1>4, <2>1, <3>1, VisitTypes, FirstAnswer
  <2> HIDE DEF r
  <2>3. /\ ctx' \in [Requests -> Contexts]
        /\ ctx'[r].completed /\ ctx'[r].closing
        /\ \A q \in Requests \ {r} : ctx'[q] = ctx[q]
    BY <1>4, <2>1, VisitTypes DEF Contexts
  <2>4. QED
    BY <1>1, <1>4, <2>2, <2>3, HeadKeepsInv DEF r
<1>5. QED
  BY <1>2, <1>3, <1>4 DEF StartRequest

LEMMA FailRequestKeepsInv ==
  ASSUME Inv, FailRequest
  PROVE  Inv'
BY FailHeadKeepsInv DEF FailRequest

LEMMA BeginKeepsInv ==
  ASSUME Inv, PollBegin \/ FreeBegin
  PROVE  Inv'
<1>1. /\ wpc \in {"start", "fail"} /\ batch = << >>
      /\ wpc' \in {"poll", "free"}
      /\ wpc' = "free" => wpc = "fail"
      /\ stage' = [r \in Requests |->
                     IF place[r] = "open" THEN "poll" ELSE "done"]
      /\ UNCHANGED <<url, running, mgr, pending, batch, place, calling, step,
                     cpc, answers, accepted>>
  BY DEF PollBegin, FreeBegin, BeginPoll
<1>2. /\ ctx' \in [Requests -> Contexts]
      /\ \A r \in Requests : /\ ctx'[r].completed = ctx[r].completed
                             /\ ctx[r].closing => ctx'[r].closing
      /\ wpc' = "free" =>
           \A r \in Requests : place[r] = "open" => ctx'[r].closing
  <2>1. CASE PollBegin
    BY <2>1, VisitTypes DEF PollBegin, BeginPoll
  <2>2. CASE FreeBegin
    <3>1. ctx' = [r \in Requests |-> IF place[r] = "open"
                                       THEN [ctx[r] EXCEPT !.closing = TRUE]
                                       ELSE ctx[r]]
      BY <2>2 DEF FreeBegin
    <3>2. QED
      BY <3>1, VisitTypes DEF Contexts
  <2>3. QED
    BY <2>1, <2>2
<1>3. /\ stage' \in [Requests -> {"poll", "io", "read", "end", "done"}]
      /\ \A r \in Requests : stage'[r] # "done" <=> place[r] = "open"
  BY <1>1
<1>4. TypeOK'
  BY <1>1, <1>2, <1>3 DEF Inv, TypeOK, Contexts
<1>5. QueueInv' /\ CallInv'
  BY <1>1 DEF Inv, QueueInv, CallInv
<1>6. AnswerInv'
  BY <1>1, <1>2 DEF Inv, AnswerInv
<1>7. PollInv'
  BY <1>1, <1>3 DEF PollInv
<1>8. StopInv'
  BY <1>1, <1>2, <1>3 DEF Inv, StopInv
<1>9. QED
  BY <1>4, <1>5, <1>6, <1>7, <1>8 DEF Inv

LEMMA EndKeepsInv ==
  ASSUME Inv, PollEnd \/ FreeEnd
  PROVE  Inv'
<1>1. /\ \/ wpc = "poll" /\ wpc' = "loop" /\ mgr' = mgr
         \/ wpc = "free" /\ wpc' = "stopped" /\ mgr' = FALSE
      /\ \A r \in Requests : stage[r] = "done"
      /\ UNCHANGED <<url, running, pending, batch, place, ctx, stage, calling,
                     step, cpc, answers, accepted>>
  BY DEF PollEnd, FreeEnd, EndPoll
<1>2. TypeOK'
  BY <1>1 DEF Inv, TypeOK
<1>3. QueueInv' /\ CallInv' /\ AnswerInv' /\ PollInv'
  BY <1>1 DEF Inv, QueueInv, CallInv, AnswerInv, PollInv
<1>4. StopInv'
  BY <1>1 DEF Inv, StopInv
<1>5. QED
  BY <1>2, <1>3, <1>4 DEF Inv

-----------------------------------------------------------------------------
(* The theorems                                                            *)

LEMMA InitInv == Init => Inv
<1> SUFFICES ASSUME Init
             PROVE  Inv
  OBVIOUS
<1>1. << >> \in Seq(Requests) /\ << >> \in Seq(Answers) /\ Len(<< >>) = 0
  BY EmptySeq
<1>2. TypeOK
  BY <1>1 DEF Init, TypeOK, NewContext
<1>3. QueueInv
  BY EmptyQueue DEF Init, QueueInv
<1>4. CallInv /\ AnswerInv /\ PollInv /\ StopInv
  BY <1>1 DEF Init, CallInv, AnswerInv, PollInv, StopInv, NewContext
<1>5. QED
  BY <1>2, <1>3, <1>4 DEF Inv

LEMMA StepInv == Inv /\ [Next]_vars => Inv'
<1> SUFFICES ASSUME Inv, [Next]_vars
             PROVE  Inv'
  OBVIOUS
<1>1. CASE Call
  BY <1>1, CallTestRunningKeepsInv, CallTestMgrKeepsInv, CallPushKeepsInv DEF Call
<1>2. CASE Stop \/ StopJoin
  BY <1>2, StopKeepsInv
<1>3. CASE Worker
  BY <1>3, LoopTestKeepsInv, GrabKeepsInv, StartRequestKeepsInv, BeginKeepsInv,
     EndKeepsInv, FailRequestKeepsInv, OnPollKeepsInv, IoDoneKeepsInv,
     OnCloseKeepsInv, StayOpenKeepsInv DEF Worker
<1>4. CASE Network
  BY <1>4, OnConnectKeepsInv, OnReadKeepsInv, OnHttpMessageKeepsInv,
     OnErrorKeepsInv DEF Network
<1>5. CASE \E r \in Requests : DeadlinePasses(r)
  BY <1>5, DeadlinePassesKeepsInv
<1>6. CASE UNCHANGED vars
  BY <1>6 DEF vars, Inv, TypeOK, QueueInv, CallInv, AnswerInv, PollInv, StopInv
<1>7. QED
  BY <1>1, <1>2, <1>3, <1>4, <1>5, <1>6 DEF Next

LEMMA Invariant == Spec => []Inv
BY InitInv, StepInv, PTL DEF Spec

\* The variables keep their types.
THEOREM TypeCorrect == Spec => []TypeOK
<1>1. Inv => TypeOK
  BY DEF Inv
<1>2. QED
  BY <1>1, Invariant, PTL

\* No request's callbacks run twice, whichever of response, error, deadline,
\* close and stop() come for it and in what order.
THEOREM AnsweredAtMostOnce == Spec => []AtMostOneAnswer
<1>1. Inv => AtMostOneAnswer
  BY DEF Inv, AnswerInv, AtMostOneAnswer
<1>2. QED
  BY <1>1, Invariant, PTL

\* A request is in the queue, in the worker's hands or on a connection until
\* its callback has run, and gone only afterwards.
THEOREM NoneIsDropped == Spec => []HeldUntilAnswered
<1>1. Inv => HeldUntilAnswered
  BY DEF Inv, QueueInv, AnswerInv, HeldUntilAnswered
<1>2. QED
  BY <1>1, Invariant, PTL

\* What was accepted before stop() is answered when stop() has returned.
THEOREM StopLeavesNothing == Spec => []StopSettlesAccepted
<1>1. ASSUME Inv, cpc = "stopped"
      PROVE  /\ ~mgr /\ batch = << >>
             /\ \A r \in Requests : place[r] # "open"
             /\ \A r \in accepted : answers[r] # << >>
  <2>1. wpc = "stopped"
    BY <1>1 DEF Inv, StopInv
  <2>2. ~mgr /\ batch = << >> /\ \A r \in Requests : place[r] # "open"
    BY <1>1, <2>1 DEF Inv, StopInv, QueueInv
  <2>3. ASSUME NEW r \in accepted
        PROVE  answers[r] # << >>
    <3>1. r \in Requests
      BY <1>1, <2>3 DEF Inv, TypeOK
    <3>2. place[r] # "new" /\ place[r] # "pending"
      BY <1>1, <2>1, <2>3 DEF Inv, StopInv
    <3>3. place[r] # "batch"
      BY <1>1, <2>2, <3>1, EmptyQueue DEF Inv, QueueInv
    <3>4. place[r] = "gone"
      BY <1>1, <2>2, <3>1, <3>2, <3>3 DEF Inv, TypeOK
    <3>5. QED
      BY <1>1, <3>1, <3>4 DEF Inv, AnswerInv
  <2>4. QED
    BY <2>2, <2>3
<1>2. Inv => StopSettlesAccepted
  BY <1>1 DEF StopSettlesAccepted
<1>3. QED
  BY <1>2, Invariant, PTL

\* Nothing is sent over a connection whose request has been answered.
THEOREM OnlyUnansweredIsSent == Spec => NoSendAfterAnswer
<1>1. ASSUME Inv, [Next]_vars, NEW r \in Requests, ~ctx[r].sent, ctx'[r].sent
      PROVE  answers[r] = << >>
  <2>1. ctx \in [Requests -> Contexts]
    BY <1>1, VisitTypes
  <2>2. PICK q \in Requests : OnConnect(q)
    <3>1. ASSUME NEW q \in Requests, ctx' = Finished(q)
          PROVE  FALSE
      BY <1>1, <2>1, <3>1 DEF Finished, Contexts
    <3>2. UNCHANGED ctx => FALSE
      BY <1>1
    <3>3. ~(Call \/ Stop \/ StopJoin)
      BY <3>2 DEF Call, CallTestRunning, CallTestMgr, CallPush, Stop, StopJoin
    <3>4. ~StartRequest
      BY <1>1, <2>1, <3>2 DEF StartRequest, FailHead, Contexts
    <3>5. ~FreeBegin
      BY <1>1, <2>1 DEF FreeBegin, Contexts
    <3>6. ~(LoopTest \/ ProcessPending \/ PollBegin \/ PollEnd \/ FailPending
            \/ FailRequest \/ FreeEnd)
      BY <3>2 DEF LoopTest, ProcessPending, Grab, PollBegin, PollEnd, EndPoll,
         FailPending, FailRequest, FailHead, FreeEnd
    <3>7. ASSUME NEW q \in Requests
          PROVE  ~(OnPoll(q) \/ StayOpen(q) \/ OnRead(q) \/ OnHttpMessage(q)
                   \/ OnError(q))
      BY <3>1, <3>2 DEF OnPoll, StayOpen, OnRead, OnHttpMessage, OnError
    <3>8. ASSUME NEW q \in Requests
          PROVE  ~(IoDone(q) \/ DeadlinePasses(q))
      BY <1>1, <2>1 DEF IoDone, DeadlinePasses, Contexts
    <3>9. ASSUME NEW q \in Requests
          PROVE  ~OnClose(q)
      BY <1>1, <2>1 DEF OnClose, NewContext, Contexts
    <3>10. UNCHANGED vars => FALSE
      BY <3>2 DEF vars
    <3>11. QED
      BY <1>1, <3>3, <3>4, <3>5, <3>6, <3>7, <3>8, <3>9, <3>10
         DEF Next, Worker, Network
  <2>3. q = r /\ ~ctx[r].completed
    BY <1>1, <2>1, <2>2 DEF OnConnect, Contexts
  <2>4. place[r] = "open"
    BY <1>1, <2>2, <2>3, VisitingOpen DEF OnConnect
  <2>5. QED
    BY <1>1, <2>3, <2>4, OpenAnswer
<1>2. Inv /\ [Next]_vars =>
        [\A r \in Requests : ~ctx[r].sent /\ ctx'[r].sent => answers[r] = << >>]_vars
  BY <1>1
<1>3. QED
  BY <1>2, Invariant, PTL DEF Spec, NoSendAfterAnswer
=============================================================================
