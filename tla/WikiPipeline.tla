---------------------------- MODULE WikiPipeline ----------------------------
(***************************************************************************)
(* The concurrent page pipeline of wikipedia2geojson and of                *)
(* wikipedia2doc2vec: one reader (the goroutine that runs process), a pool *)
(* of pageHandler goroutines, one result writer and one error handler,     *)
(* joined by the buffered channels tasks, results, errorPages and          *)
(* resultSlots.  The two programs differ only in Kinds, Strict and Limit.  *)
(*                                                                         *)
(* A page is the outcome its parse will have.  Its sequence number is its  *)
(* position in the input, from 0, so input[n + 1] is page n; tasks,        *)
(* results and errorPages carry sequence numbers.                          *)
(*                                                                         *)
(* A definition whose name has an underscore is a fault: a mistaken form   *)
(* of the definition it stands before, which the properties must detect.   *)
(***************************************************************************)
EXTENDS Integers, FiniteSets, SequencesExt

CONSTANTS
    Workers,     \* the pageHandler goroutines, numWorkers of them
    ErrorQueue,  \* capacity of errorPages (10 in the code)
    Window,      \* capacity of resultSlots (1000 in the code)
    Limit,       \* doc2vec's -limit, or NoLimit
    Strict,      \* TRUE: a FeatureCollection; FALSE: one record a line
    Kinds,       \* the outcomes a page's parse may have
    MaxPages     \* bound of the model: pages in the input

NoLimit == -1

ASSUME PipelineAssumption ==
    /\ IsFiniteSet(Workers) /\ Workers # {}
    /\ ErrorQueue \in Nat \ {0} /\ Window \in Nat \ {0}
    /\ Limit \in Nat \cup {NoLimit}
    /\ Strict \in BOOLEAN
    /\ Kinds \subseteq {"found", "absent", "broken"}
    /\ MaxPages \in Nat

QueueSize == 2 * Cardinality(Workers)

VARIABLES
    reader,      \* where process is
    input,       \* the pages parser.Next has returned
    pages,       \* the number of tasks sent
    parserErr,   \* what ended the loop over the parser
    result,      \* what process returned
    tasks, results, errorPages,
    slots,       \* tokens in resultSlots
    worker,      \* each pageHandler: where it is and the task it holds
    writer,      \* where writeWikiResultsWithSlots is
    pending, next, written, framing, writeErr,
    handler,     \* where errorHandler is
    file, saved, saveErr

readerVars  == <<reader, input, pages, parserErr, result>>
writerVars  == <<writer, pending, next, written, framing, writeErr>>
handlerVars == <<handler, file, saved, saveErr>>
vars == <<readerVars, tasks, results, errorPages, slots, worker,
          writerVars, handlerVars>>

Kind(n) == input[n + 1]

(* process closes tasks on leaving its loop, results once every worker has *)
(* stopped, and errorPages once the writer has answered.                   *)
TasksClosed   == reader \in {"join", "writer", "errors", "done"}
ResultsClosed == reader \in {"writer", "errors", "done"}
ErrorsClosed  == reader \in {"errors", "done"}

Idle == [at |-> "idle", seq |-> 0]

Init ==
    /\ reader = "next" /\ input = <<>> /\ pages = 0
    /\ parserErr = "nil" /\ result = "running"
    /\ tasks = <<>> /\ results = <<>> /\ errorPages = <<>> /\ slots = 0
    /\ worker = [w \in Workers |-> Idle]
    /\ writer = IF Strict THEN "open" ELSE "receive"
    /\ pending = {} /\ next = 0 /\ written = <<>>
    /\ framing = "none" /\ writeErr = "nil"
    /\ handler = "receive" /\ file = "none" /\ saved = <<>> /\ saveErr = "nil"

-----------------------------------------------------------------------------
(* process: the reader. *)

BelowLimit_OffByOne == Limit = NoLimit \/ pages <= Limit

BelowLimit == Limit = NoLimit \/ pages < Limit

ReadPage ==
    /\ reader = "next" /\ BelowLimit
    /\ Len(input) < MaxPages
    /\ \E kind \in Kinds : input' = Append(input, kind)
    /\ reader' = "slot"
    /\ UNCHANGED <<pages, parserErr, result, tasks, results, errorPages,
                   slots, worker, writerVars, handlerVars>>

ReachLimit ==
    /\ reader = "next" /\ ~BelowLimit
    /\ reader' = "join"
    /\ UNCHANGED <<input, pages, parserErr, result, tasks, results,
                   errorPages, slots, worker, writerVars, handlerVars>>

EndOfInput ==
    /\ reader = "next" /\ BelowLimit
    /\ parserErr' \in {"eof", "failed"}
    /\ reader' = "join"
    /\ UNCHANGED <<input, pages, result, tasks, results, errorPages, slots,
                   worker, writerVars, handlerVars>>

TakeSlot_Unbounded ==
    /\ reader = "slot"
    /\ slots' = slots + 1
    /\ reader' = "send"
    /\ UNCHANGED <<input, pages, parserErr, result, tasks, results,
                   errorPages, worker, writerVars, handlerVars>>

TakeSlot ==
    /\ reader = "slot" /\ slots < Window
    /\ slots' = slots + 1
    /\ reader' = "send"
    /\ UNCHANGED <<input, pages, parserErr, result, tasks, results,
                   errorPages, worker, writerVars, handlerVars>>

SendTask_SameSequence ==
    /\ reader = "send" /\ Len(tasks) < QueueSize
    /\ tasks' = Append(tasks, IF pages > 0 THEN pages - 1 ELSE 0)
    /\ pages' = pages + 1
    /\ reader' = "next"
    /\ UNCHANGED <<input, parserErr, result, results, errorPages, slots,
                   worker, writerVars, handlerVars>>

SendTask ==
    /\ reader = "send" /\ Len(tasks) < QueueSize
    /\ tasks' = Append(tasks, pages)
    /\ pages' = pages + 1
    /\ reader' = "next"
    /\ UNCHANGED <<input, parserErr, result, results, errorPages, slots,
                   worker, writerVars, handlerVars>>

CloseResults_NoWait ==
    /\ reader = "join"
    /\ reader' = "writer"
    /\ UNCHANGED <<input, pages, parserErr, result, tasks, results,
                   errorPages, slots, worker, writerVars, handlerVars>>

CloseResults ==
    /\ reader = "join"
    /\ \A w \in Workers : worker[w].at = "stopped"
    /\ reader' = "writer"
    /\ UNCHANGED <<input, pages, parserErr, result, tasks, results,
                   errorPages, slots, worker, writerVars, handlerVars>>

AwaitWriter ==
    /\ reader = "writer" /\ writer = "done"
    /\ reader' = "errors"
    /\ UNCHANGED <<input, pages, parserErr, result, tasks, results,
                   errorPages, slots, worker, writerVars, handlerVars>>

Outcome_NoErrorFile ==
    IF writeErr # "nil" THEN "writer failed"
    ELSE IF parserErr = "failed" THEN "parser failed" ELSE "ok"

Outcome ==
    IF writeErr # "nil" THEN "writer failed"
    ELSE IF saveErr # "nil" THEN "error file failed"
    ELSE IF parserErr = "failed" THEN "parser failed" ELSE "ok"

AwaitErrors ==
    /\ reader = "errors" /\ handler = "done"
    /\ result' = Outcome
    /\ reader' = "done"
    /\ UNCHANGED <<input, pages, parserErr, tasks, results, errorPages,
                   slots, worker, writerVars, handlerVars>>

Reader == \/ ReadPage \/ ReachLimit \/ EndOfInput \/ TakeSlot \/ SendTask
          \/ CloseResults \/ AwaitWriter \/ AwaitErrors

-----------------------------------------------------------------------------
(* pageHandler: a worker. *)

ReceiveTask(w) ==
    /\ worker[w].at = "idle" /\ tasks # <<>>
    /\ tasks' = Tail(tasks)
    /\ worker' = [worker EXCEPT ![w] =
                    [at  |-> IF Kind(Head(tasks)) = "broken"
                             THEN "report" ELSE "deliver",
                     seq |-> Head(tasks)]]
    /\ UNCHANGED <<readerVars, results, errorPages, slots, writerVars,
                   handlerVars>>

ReportPage_NonBlocking(w) ==
    /\ worker[w].at = "report"
    /\ errorPages' = IF Len(errorPages) < ErrorQueue
                     THEN Append(errorPages, worker[w].seq) ELSE errorPages
    /\ worker' = [worker EXCEPT ![w].at = "deliver"]
    /\ UNCHANGED <<readerVars, tasks, results, slots, writerVars, handlerVars>>

ReportPage(w) ==
    /\ worker[w].at = "report" /\ Len(errorPages) < ErrorQueue
    /\ errorPages' = Append(errorPages, worker[w].seq)
    /\ worker' = [worker EXCEPT ![w].at = "deliver"]
    /\ UNCHANGED <<readerVars, tasks, results, slots, writerVars, handlerVars>>

DeliverResult(w) ==
    /\ worker[w].at = "deliver" /\ Len(results) < QueueSize
    /\ results' = Append(results, worker[w].seq)
    /\ worker' = [worker EXCEPT ![w] = Idle]
    /\ UNCHANGED <<readerVars, tasks, errorPages, slots, writerVars,
                   handlerVars>>

StopWorker(w) ==
    /\ worker[w].at = "idle" /\ tasks = <<>> /\ TasksClosed
    /\ worker' = [worker EXCEPT ![w].at = "stopped"]
    /\ UNCHANGED <<readerVars, tasks, results, errorPages, slots, writerVars,
                   handlerVars>>

Worker(w) == \/ ReceiveTask(w) \/ ReportPage(w)
             \/ DeliverResult(w) \/ StopWorker(w)

-----------------------------------------------------------------------------
(* writeWikiResultsWithSlots and writeDocvecResultsWithSlots: the writer.   *)
(* A write may fail at any time; framing (of a FeatureCollection) and       *)
(* written are what the output has accepted.                               *)

OpenCollection ==
    /\ writer = "open"
    /\ \/ framing' = "opened" /\ UNCHANGED writeErr
       \/ writeErr' = "failed" /\ UNCHANGED framing
    /\ writer' = "receive"
    /\ UNCHANGED <<readerVars, tasks, results, errorPages, slots, worker,
                   pending, next, written, handlerVars>>

ReceiveResult ==
    /\ writer = "receive" /\ results # <<>>
    /\ results' = Tail(results)
    /\ pending' = pending \cup {Head(results)}
    /\ writer' = "drain"
    /\ UNCHANGED <<readerVars, tasks, errorPages, slots, worker, next,
                   written, framing, writeErr, handlerVars>>

Separator_BySequence == IF Strict /\ next > 0 THEN "," ELSE ""

Separator == IF Strict /\ written # <<>> THEN "," ELSE ""

WriteFeature_AfterError(n) ==
    IF Kind(n) = "found"
    THEN \/ /\ written' = Append(written, [seq |-> n, before |-> Separator])
            /\ UNCHANGED writeErr
         \/ /\ writeErr' = "failed"
            /\ UNCHANGED written
    ELSE UNCHANGED <<written, writeErr>>

WriteFeature(n) ==
    IF Kind(n) = "found" /\ writeErr = "nil"
    THEN \/ /\ written' = Append(written, [seq |-> n, before |-> Separator])
            /\ UNCHANGED writeErr
         \/ /\ writeErr' = "failed"
            /\ UNCHANGED written
    ELSE UNCHANGED <<written, writeErr>>

DrainNext_AnyOrder ==
    /\ writer = "drain"
    /\ \E n \in pending : WriteFeature(n) /\ pending' = pending \ {n}
    /\ next' = next + 1
    /\ slots' = slots - 1
    /\ UNCHANGED <<readerVars, tasks, results, errorPages, worker, writer,
                   framing, handlerVars>>

DrainNext ==
    /\ writer = "drain" /\ next \in pending
    /\ slots > 0
    /\ pending' = pending \ {next}
    /\ WriteFeature(next)
    /\ next' = next + 1
    /\ slots' = slots - 1
    /\ UNCHANGED <<readerVars, tasks, results, errorPages, worker, writer,
                   framing, handlerVars>>

DrainStop ==
    /\ writer = "drain" /\ next \notin pending
    /\ writer' = "receive"
    /\ UNCHANGED <<readerVars, tasks, results, errorPages, slots, worker,
                   pending, next, written, framing, writeErr, handlerVars>>

CloseCollection ==
    /\ writer = "receive" /\ results = <<>> /\ ResultsClosed
    /\ writeErr' \in {"failed", IF pending # {} THEN "failed" ELSE writeErr}
    /\ framing' = IF Strict /\ writeErr' = "nil" THEN "closed" ELSE framing
    /\ writer' = "done"
    /\ UNCHANGED <<readerVars, tasks, results, errorPages, slots, worker,
                   pending, next, written, handlerVars>>

Writer == \/ OpenCollection \/ ReceiveResult \/ DrainNext \/ DrainStop
          \/ CloseCollection

-----------------------------------------------------------------------------
(* errorHandler: keeps the pages that failed, and drains after a failure.   *)

SavePage ==
    /\ handler = "receive" /\ errorPages # <<>> /\ saveErr = "nil"
    /\ errorPages' = Tail(errorPages)
    /\ \/ /\ file = "none"                       \* os.Create fails
          /\ saveErr' = "failed"
          /\ UNCHANGED <<file, saved>>
       \/ /\ file' = "open"
          /\ \/ /\ saved' = Append(saved, Head(errorPages))
                /\ UNCHANGED saveErr
             \/ /\ saveErr' = "failed"             \* Encode fails
                /\ UNCHANGED saved
    /\ UNCHANGED <<readerVars, tasks, results, slots, worker, writerVars,
                   handler>>

DropPage_Retry ==
    /\ handler = "receive" /\ errorPages # <<>> /\ saveErr # "nil"
    /\ UNCHANGED vars

DropPage ==
    /\ handler = "receive" /\ errorPages # <<>> /\ saveErr # "nil"
    /\ errorPages' = Tail(errorPages)
    /\ UNCHANGED <<readerVars, tasks, results, slots, worker, writerVars,
                   handlerVars>>

CloseErrorFile ==
    /\ handler = "receive" /\ errorPages = <<>> /\ ErrorsClosed
    /\ saveErr' \in {saveErr, IF file = "open" THEN "failed" ELSE saveErr}
    /\ handler' = "done"
    /\ UNCHANGED <<readerVars, tasks, results, errorPages, slots, worker,
                   writerVars, file, saved>>

Handler == SavePage \/ DropPage \/ CloseErrorFile

-----------------------------------------------------------------------------
Returned == reader = "done" /\ UNCHANGED vars

Next == \/ Reader \/ Writer \/ Handler \/ Returned
        \/ \E w \in Workers : Worker(w)

(* Every goroutine that can move eventually moves: Go's scheduler is       *)
(* preemptive, and the parser answers every Next, since the input ends.    *)
Fairness == /\ WF_vars(Reader) /\ WF_vars(Writer) /\ WF_vars(Handler)
            /\ \A w \in Workers : WF_vars(Worker(w))

Spec == Init /\ [][Next]_vars
FairSpec == Spec /\ Fairness

-----------------------------------------------------------------------------
(* Properties. *)

Active(w) == worker[w].at \in {"report", "deliver"}
Held == {worker[w].seq : w \in {v \in Workers : Active(v)}}
InFlight == ToSet(tasks) \cup Held \cup ToSet(results) \cup pending

ReaderType ==
    /\ reader \in {"next", "slot", "send", "join", "writer", "errors", "done"}
    /\ input \in Seq(Kinds) /\ pages \in Nat
    /\ parserErr \in {"nil", "eof", "failed"}
    /\ result \in {"running", "writer failed", "error file failed",
                   "parser failed", "ok"}

ChannelType ==
    /\ tasks \in Seq(Nat) /\ results \in Seq(Nat) /\ errorPages \in Seq(Nat)
    /\ slots \in 0..Window
    /\ worker \in [Workers -> [at : {"idle", "report", "deliver", "stopped"},
                               seq : Nat]]

WriterType ==
    /\ writer \in {"open", "receive", "drain", "done"}
    /\ pending \in SUBSET Nat /\ next \in Nat
    /\ written \in Seq([seq : Nat, before : {"", ","}])
    /\ framing \in {"none", "opened", "closed"}
    /\ writeErr \in {"nil", "failed"}

HandlerType ==
    /\ handler \in {"receive", "done"} /\ file \in {"none", "open"}
    /\ saved \in Seq(Nat) /\ saveErr \in {"nil", "failed"}

(* The values the variables may take. *)
TypeOK == ReaderType /\ ChannelType /\ WriterType /\ HandlerType

(* However the workers race, the output is in source order and without      *)
(* repetition, it holds only pages that have coordinates, and as long as no *)
(* write failed it holds every such page the writer has passed              *)
(* (README.md: "output remains in source order").                          *)
SourceOrder ==
    /\ \A i, j \in 1..Len(written) : i < j => written[i].seq < written[j].seq
    /\ \A i \in 1..Len(written) : /\ written[i].seq < next
                                  /\ Kind(written[i].seq) = "found"
    /\ writeErr = "nil" => \A n \in 0..next-1 :
                       Kind(n) = "found" =>
                         \E i \in 1..Len(written) : written[i].seq = n

(* Every page sent is in exactly one place: a channel, a worker, the        *)
(* writer's pending map, or behind the writer.  No worker drops a page,     *)
(* none answers twice.                                                      *)
EveryPageInOnePlace ==
    /\ InFlight = next..pages-1
    /\ IsInjective(tasks) /\ IsInjective(results)
    /\ \A v, w \in Workers :
          Active(v) /\ Active(w) /\ worker[v].seq = worker[w].seq => v = w
    /\ ToSet(tasks) \cap Held = {}
    /\ (ToSet(tasks) \cup Held) \cap ToSet(results) = {}
    /\ (ToSet(tasks) \cup Held \cup ToSet(results)) \cap pending = {}

(* One slow page cannot make the writer hold the rest of the dump: what is  *)
(* in flight spans at most Window pages from the one the writer waits for,  *)
(* and the window is released exactly as pages leave the writer.            *)
WindowBounds ==
    /\ \A n \in InFlight : next <= n /\ n < next + Window
    /\ slots = pages - next + (IF reader = "send" THEN 1 ELSE 0)

(* Nobody sends on a channel process has closed, which would panic.         *)
NoSendOnClosedChannel ==
    \A w \in Workers :
        /\ worker[w].at = "deliver" => ~ResultsClosed
        /\ worker[w].at = "report" => ~ErrorsClosed /\ ~ResultsClosed

(* When process returns nil nothing was lost: every page with coordinates   *)
(* was written, every page that failed is in errors.gob exactly once, and   *)
(* no goroutine failed.                                                    *)
SuccessIsComplete ==
    result = "ok" =>
        /\ \A n \in 0..Len(input)-1 :
              /\ Kind(n) = "found" =>
                   \E i \in 1..Len(written) : written[i].seq = n
              /\ Kind(n) = "broken" => n \in ToSet(saved)
        /\ IsInjective(saved)
        /\ Strict => framing = "closed"
        /\ writeErr = "nil" /\ saveErr = "nil" /\ parserErr # "failed"

(* A collection that was closed is well formed, also when the parser or     *)
(* the error file failed: it is closed only in strict mode, and there is a  *)
(* comma before every feature but the first.                               *)
ClosedCollectionIsWellFormed ==
    framing = "closed" =>
        /\ Strict
        /\ \A i \in 1..Len(written) : written[i].before = "," <=> i > 1

(* The goroutines together do what a sequential conversion would: see       *)
(* SequentialConverter.  Pages read beyond the limit, written out of order, *)
(* twice or after process has returned, and a success short of the limit    *)
(* when the input has not ended, would be steps it does not have            *)
(* (wikipedia2doc2vec's -limit: "Stop after exactly N pages").              *)
Sequential == INSTANCE SequentialConverter WITH
                  ended  <- parserErr = "eof",
                  output <- [i \in 1..Len(written) |-> written[i].seq]
ImplementsSequential == Sequential!Spec

(* process returns, whatever fails and however small the queues are.        *)
Terminates == <>(reader = "done")

(* A page that failed reaches errors.gob, unless the file itself failed.    *)
BrokenPagesReachFile ==
    \A n \in 0..MaxPages-1 :
        (pages > n /\ Kind(n) = "broken")
            ~> (saveErr # "nil" \/ n \in ToSet(saved))
=============================================================================
