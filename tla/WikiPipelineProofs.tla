------------------------- MODULE WikiPipelineProofs -------------------------
(***************************************************************************)
(* Theorems about WikiPipeline, for every number of workers, every queue   *)
(* size and window, every limit and either output format.                  *)
(***************************************************************************)
EXTENDS WikiPipeline, SequenceTheorems, FiniteSetTheorems, TLAPS

-----------------------------------------------------------------------------
(* Channels: what a send and a receive do to the elements of a sequence.    *)

(* A send adds one element. *)
LEMMA SendElements ==
  ASSUME NEW S, NEW s \in Seq(S), NEW e \in S
  PROVE  ToSet(Append(s, e)) = ToSet(s) \cup {e}
  BY AppendProperties DEF ToSet

(* A receive takes the head, and leaves every other element. *)
LEMMA ReceiveElements ==
  ASSUME NEW S, NEW s \in Seq(S), s # <<>>
  PROVE  /\ ToSet(s) = {Head(s)} \cup ToSet(Tail(s))
         /\ Head(s) \in ToSet(s)
  <1>1. /\ Len(s) \in Nat \ {0} /\ DOMAIN s = 1..Len(s)
        /\ Tail(s) \in Seq(S) /\ Len(Tail(s)) = Len(s) - 1
        /\ \A i \in 1..Len(Tail(s)) : Tail(s)[i] = s[i + 1]
        /\ DOMAIN Tail(s) = 1..Len(Tail(s))
        /\ Head(s) = s[1]
    BY HeadTailProperties, LenProperties, EmptySeq
  <1>2. ASSUME NEW e \in ToSet(s)  PROVE  e = Head(s) \/ e \in ToSet(Tail(s))
    <2>1. PICK i \in 1..Len(s) : e = s[i]
      BY <1>1 DEF ToSet
    <2>2. CASE i = 1
      BY <1>1, <2>1, <2>2
    <2>3. CASE i # 1
      <3>1. i - 1 \in 1..Len(Tail(s)) /\ Tail(s)[i - 1] = s[(i - 1) + 1]
        BY <1>1, <2>3
      <3>2. Tail(s)[i - 1] = e
        BY <2>1, <3>1
      <3> QED
        BY <1>1, <3>1, <3>2 DEF ToSet
    <2> QED
      BY <2>2, <2>3
  <1>3. ASSUME NEW e \in ToSet(Tail(s))  PROVE  e \in ToSet(s)
    <2>1. PICK i \in 1..Len(Tail(s)) : e = Tail(s)[i]
      BY <1>1 DEF ToSet
    <2>2. i + 1 \in 1..Len(s) /\ e = s[i + 1]
      BY <1>1, <2>1
    <2> QED
      BY <1>1, <2>2 DEF ToSet
  <1>4. Head(s) \in ToSet(s)
    BY <1>1 DEF ToSet
  <1> QED
    BY <1>2, <1>3, <1>4

(* Sending an element the channel does not hold keeps its elements distinct. *)
LEMMA SendInjective ==
  ASSUME NEW S, NEW s \in Seq(S), NEW e \in S,
         IsInjective(s), e \notin ToSet(s)
  PROVE  IsInjective(Append(s, e))
  <1>1. /\ Len(s) \in Nat /\ DOMAIN s = 1..Len(s)
        /\ DOMAIN Append(s, e) = 1..Len(s)+1
        /\ \A i \in 1..Len(s) : Append(s, e)[i] = s[i]
        /\ Append(s, e)[Len(s) + 1] = e
    BY AppendProperties, LenProperties
  <1>2. \A i \in 1..Len(s) : s[i] # e
    BY <1>1 DEF ToSet
  <1> QED
    BY <1>1, <1>2 DEF IsInjective

(* Of distinct elements, the one received is gone from the channel. *)
LEMMA ReceiveInjective ==
  ASSUME NEW S, NEW s \in Seq(S), s # <<>>, IsInjective(s)
  PROVE  IsInjective(Tail(s)) /\ Head(s) \notin ToSet(Tail(s))
  <1>1. /\ Len(s) \in Nat \ {0} /\ DOMAIN s = 1..Len(s)
        /\ Len(Tail(s)) = Len(s) - 1
        /\ \A i \in 1..Len(Tail(s)) : Tail(s)[i] = s[i + 1]
        /\ DOMAIN Tail(s) = 1..Len(Tail(s))
        /\ Head(s) = s[1]
    BY HeadTailProperties, LenProperties, EmptySeq
  <1>2. ASSUME NEW a \in 1..Len(Tail(s)), NEW b \in 1..Len(Tail(s)),
               Tail(s)[a] = Tail(s)[b]
        PROVE  a = b
    <2>1. a + 1 \in DOMAIN s /\ b + 1 \in DOMAIN s /\ s[a + 1] = s[b + 1]
      BY <1>1, <1>2
    <2>2. a + 1 = b + 1
      BY <2>1 DEF IsInjective
    <2> QED
      BY <2>2
  <1>3. ASSUME NEW a \in 1..Len(Tail(s))  PROVE  Tail(s)[a] # Head(s)
    <2>1. a + 1 \in DOMAIN s /\ 1 \in DOMAIN s /\ a + 1 # 1
      BY <1>1
    <2> QED
      BY <1>1, <2>1 DEF IsInjective
  <1> QED
    BY <1>1, <1>2, <1>3 DEF IsInjective, ToSet

(* An empty channel. *)
LEMMA EmptyChannel == ToSet(<<>>) = {} /\ IsInjective(<<>>)
  BY DEF ToSet, IsInjective

-----------------------------------------------------------------------------
(* Type correctness. *)

(* The capacity of tasks and of results is a number. *)
LEMMA QueueSizeType == QueueSize \in Nat
  BY PipelineAssumption, FS_CardinalityType DEF QueueSize

(* The initial values have their types. *)
LEMMA TypeInit == Init => TypeOK
  <1> SUFFICES ASSUME Init  PROVE TypeOK
    OBVIOUS
  <1> USE PipelineAssumption, EmptySeq DEF Init
  <1>1. ReaderType
    BY DEF ReaderType
  <1>2. ChannelType
    BY DEF ChannelType, Idle
  <1>3. WriterType
    BY DEF WriterType
  <1>4. HandlerType
    BY DEF HandlerType
  <1> QED
    BY <1>1, <1>2, <1>3, <1>4 DEF TypeOK

(* A step changes the variables of one process, and channels. *)
LEMMA TypeUnchanged ==
  ASSUME TypeOK
  PROVE  /\ UNCHANGED readerVars => ReaderType'
         /\ UNCHANGED <<tasks, results, errorPages, slots, worker>> => ChannelType'
         /\ UNCHANGED writerVars => WriterType'
         /\ UNCHANGED handlerVars => HandlerType'
  <1>1. UNCHANGED readerVars => ReaderType'
    BY DEF TypeOK, ReaderType, readerVars
  <1>2. UNCHANGED <<tasks, results, errorPages, slots, worker>> => ChannelType'
    BY DEF TypeOK, ChannelType
  <1>3. UNCHANGED writerVars => WriterType'
    BY DEF TypeOK, WriterType, writerVars
  <1>4. UNCHANGED handlerVars => HandlerType'
    BY DEF TypeOK, HandlerType, handlerVars
  <1> QED
    BY <1>1, <1>2, <1>3, <1>4

(* Every step of every goroutine keeps the types. *)
LEMMA TypeStep == TypeOK /\ [Next]_vars => TypeOK'
  <1> SUFFICES ASSUME TypeOK, [Next]_vars  PROVE TypeOK'
    OBVIOUS
  <1>1. CASE Reader
    <2>1. ReaderType'
      <3>1. CASE ReadPage
        <4>1. PICK kind \in Kinds : input' = Append(input, kind)
          BY <3>1 DEF ReadPage
        <4>2. input' \in Seq(Kinds)
          BY <4>1, AppendProperties DEF TypeOK, ReaderType
        <4> QED
          BY <3>1, <4>2 DEF TypeOK, ReaderType, ReadPage
      <3>2. CASE ReachLimit \/ TakeSlot \/ CloseResults \/ AwaitWriter
        BY <3>2 DEF TypeOK, ReaderType, ReachLimit, TakeSlot, CloseResults,
           AwaitWriter
      <3>3. CASE EndOfInput
        BY <3>3 DEF TypeOK, ReaderType, EndOfInput
      <3>4. CASE SendTask
        <4>1. /\ reader' = "next" /\ pages' = pages + 1
              /\ UNCHANGED <<input, parserErr, result>>
          BY <3>4 DEF SendTask
        <4>2. pages \in Nat
          BY DEF TypeOK, ReaderType
        <4>3. pages' \in Nat
          BY <4>1, <4>2
        <4> QED
          BY <4>1, <4>3 DEF TypeOK, ReaderType
      <3>5. CASE AwaitErrors
        BY <3>5 DEF TypeOK, ReaderType, AwaitErrors, Outcome
      <3> QED
        BY <1>1, <3>1, <3>2, <3>3, <3>4, <3>5 DEF Reader
    <2>2. ChannelType'
      <3>1. CASE TakeSlot
        BY <3>1, PipelineAssumption DEF TypeOK, ChannelType, TakeSlot
      <3>2. CASE SendTask
        BY <3>2, AppendProperties DEF TypeOK, ReaderType, ChannelType, SendTask
      <3>3. CASE ~TakeSlot /\ ~SendTask
        BY <1>1, <3>3, TypeUnchanged DEF Reader, ReadPage, ReachLimit, EndOfInput,
           CloseResults, AwaitWriter, AwaitErrors
      <3> QED
        BY <3>1, <3>2, <3>3
    <2>3. UNCHANGED <<writerVars, handlerVars>>
      BY <1>1 DEF Reader, ReadPage, ReachLimit, EndOfInput, TakeSlot, SendTask,
         CloseResults, AwaitWriter, AwaitErrors
    <2> QED
      BY <2>1, <2>2, <2>3, TypeUnchanged DEF TypeOK
  <1>2. ASSUME NEW w \in Workers, Worker(w)  PROVE TypeOK'
    <2>1. UNCHANGED <<readerVars, writerVars, handlerVars>>
      BY <1>2 DEF Worker, ReceiveTask, ReportPage, DeliverResult, StopWorker
    <2>2. ChannelType'
      <3>1. CASE ReceiveTask(w)
        <4>1. Head(tasks) \in Nat /\ Tail(tasks) \in Seq(Nat)
          BY <3>1, HeadTailProperties DEF TypeOK, ChannelType, ReceiveTask
        <4> QED
          BY <3>1, <4>1 DEF TypeOK, ChannelType, ReceiveTask
      <3>2. CASE ReportPage(w)
        BY <3>2, AppendProperties DEF TypeOK, ChannelType, ReportPage
      <3>3. CASE DeliverResult(w)
        <4>1. worker[w].seq \in Nat
          BY DEF TypeOK, ChannelType
        <4>2. results' \in Seq(Nat)
          BY <3>3, <4>1, AppendProperties DEF TypeOK, ChannelType, DeliverResult
        <4>3. worker' \in [Workers ->
                             [at : {"idle", "report", "deliver", "stopped"},
                              seq : Nat]]
          BY <3>3 DEF TypeOK, ChannelType, DeliverResult, Idle
        <4> QED
          BY <3>3, <4>2, <4>3 DEF TypeOK, ChannelType, DeliverResult
      <3>4. CASE StopWorker(w)
        BY <3>4 DEF TypeOK, ChannelType, StopWorker
      <3> QED
        BY <1>2, <3>1, <3>2, <3>3, <3>4 DEF Worker
    <2> QED
      BY <2>1, <2>2, TypeUnchanged DEF TypeOK
  <1>3. CASE Writer
    <2>1. UNCHANGED <<readerVars, handlerVars>>
      BY <1>3 DEF Writer, OpenCollection, ReceiveResult, DrainNext, DrainStop,
         CloseCollection
    <2>2. results # <<>> => Head(results) \in Nat /\ Tail(results) \in Seq(Nat)
      BY HeadTailProperties DEF TypeOK, ChannelType
    <2>3. ChannelType'
      <3>1. CASE ReceiveResult
        BY <2>2, <3>1 DEF TypeOK, ChannelType, ReceiveResult
      <3>2. CASE DrainNext
        BY <3>2, PipelineAssumption DEF TypeOK, ChannelType, DrainNext
      <3>3. CASE OpenCollection \/ DrainStop \/ CloseCollection
        BY <3>3, TypeUnchanged DEF OpenCollection, DrainStop, CloseCollection
      <3> QED
        BY <1>3, <3>1, <3>2, <3>3 DEF Writer
    <2>4. WriterType'
      <3>1. CASE OpenCollection
        BY <3>1 DEF TypeOK, WriterType, OpenCollection
      <3>2. CASE ReceiveResult
        BY <2>2, <3>2 DEF TypeOK, WriterType, ReceiveResult
      <3>3. CASE DrainNext
        <4>1. [seq |-> next, before |-> Separator]
                \in [seq : Nat, before : {"", ","}]
          BY DEF TypeOK, WriterType, Separator
        <4>2. Append(written, [seq |-> next, before |-> Separator])
                \in Seq([seq : Nat, before : {"", ","}])
          BY <4>1, AppendProperties DEF TypeOK, WriterType
        <4>3. written' \in Seq([seq : Nat, before : {"", ","}])
          BY <3>3, <4>2 DEF TypeOK, WriterType, DrainNext, WriteFeature
        <4>4. writeErr' \in {"nil", "failed"}
          BY <3>3 DEF TypeOK, WriterType, DrainNext, WriteFeature
        <4>5. /\ next' = next + 1 /\ pending' = pending \ {next}
              /\ UNCHANGED <<writer, framing>>
          BY <3>3 DEF DrainNext
        <4>6. next \in Nat /\ next' \in Nat
          <5>1. next \in Nat
            BY DEF TypeOK, WriterType
          <5> QED
            BY <4>5, <5>1
        <4>7. pending' \in SUBSET Nat
          BY <4>5 DEF TypeOK, WriterType
        <4> QED
          BY <4>3, <4>4, <4>5, <4>6, <4>7 DEF TypeOK, WriterType
      <3>4. CASE DrainStop
        BY <3>4 DEF TypeOK, WriterType, DrainStop
      <3>5. CASE CloseCollection
        BY <3>5 DEF TypeOK, WriterType, CloseCollection
      <3> QED
        BY <1>3, <3>1, <3>2, <3>3, <3>4, <3>5 DEF Writer
    <2> QED
      BY <2>1, <2>3, <2>4, TypeUnchanged DEF TypeOK
  <1>4. CASE Handler
    <2>1. UNCHANGED <<readerVars, writerVars>>
      BY <1>4 DEF Handler, SavePage, DropPage, CloseErrorFile
    <2>2. errorPages # <<>> => /\ Head(errorPages) \in Nat
                               /\ Tail(errorPages) \in Seq(Nat)
      BY HeadTailProperties DEF TypeOK, ChannelType
    <2>3. ChannelType'
      BY <1>4, <2>2 DEF TypeOK, ChannelType, Handler, SavePage, DropPage,
         CloseErrorFile
    <2>4. HandlerType'
      <3>1. CASE SavePage
        <4>1. Append(saved, Head(errorPages)) \in Seq(Nat)
          BY <2>2, <3>1, AppendProperties DEF TypeOK, HandlerType, SavePage
        <4> QED
          BY <3>1, <4>1 DEF TypeOK, HandlerType, SavePage
      <3>2. CASE DropPage
        BY <3>2, TypeUnchanged DEF DropPage
      <3>3. CASE CloseErrorFile
        BY <3>3 DEF TypeOK, HandlerType, CloseErrorFile
      <3> QED
        BY <1>4, <3>1, <3>2, <3>3 DEF Handler
    <2> QED
      BY <2>1, <2>3, <2>4, TypeUnchanged DEF TypeOK
  <1>5. CASE UNCHANGED vars
    BY <1>5, TypeUnchanged DEF TypeOK, vars
  <1> QED
    BY <1>1, <1>2, <1>3, <1>4, <1>5 DEF Next, Returned

(* Every variable keeps its type. *)
THEOREM TypeCorrect == Spec => []TypeOK
  BY TypeInit, TypeStep, PTL DEF Spec

-----------------------------------------------------------------------------
(* The inductive invariant.  Beside the properties that are inductive as    *)
(* they stand, it counts the pages and the slots, says in which order the   *)
(* goroutines shut down, and where a page that failed is.                   *)

Counting ==
    /\ Len(input) = pages + (IF reader \in {"slot", "send"} THEN 1 ELSE 0)
    /\ slots = pages - next + (IF reader = "send" THEN 1 ELSE 0)
    /\ next <= pages

Shutdown ==
    /\ ResultsClosed => \A w \in Workers : worker[w].at = "stopped"
    /\ \A w \in Workers :
          worker[w].at = "stopped" => TasksClosed /\ tasks = <<>>
    /\ ErrorsClosed => writer = "done"
    /\ writer = "done" => /\ ResultsClosed /\ results = <<>>
                          /\ pending # {} => writeErr = "failed"
    /\ handler = "done" => ErrorsClosed /\ errorPages = <<>>
    /\ reader # "done" => result = "running"
    /\ reader = "done" => handler = "done" /\ result = Outcome

Unreported == ToSet(tasks)
    \cup {worker[w].seq : w \in {v \in Workers : worker[v].at = "report"}}

ErrorPages ==
    /\ IsInjective(errorPages) /\ IsInjective(saved)
    /\ ToSet(errorPages) \cap ToSet(saved) = {}
    /\ Unreported \cap (ToSet(errorPages) \cup ToSet(saved)) = {}
    /\ \A n \in ToSet(errorPages) \cup ToSet(saved) :
          n \in 0..pages-1 /\ Kind(n) = "broken"
    /\ \A w \in Workers :
          worker[w].at = "report" => Kind(worker[w].seq) = "broken"
    /\ saveErr = "nil" =>
          \A n \in 0..pages-1 :
             Kind(n) = "broken" =>
                n \in Unreported \cup ToSet(errorPages) \cup ToSet(saved)

Framing ==
    /\ \A i \in 1..Len(written) :
          written[i].before = IF Strict /\ i > 1 THEN "," ELSE ""
    /\ framing = "closed" => Strict
    /\ writer = "done" /\ writeErr = "nil" /\ Strict => framing = "closed"

Limited ==
    /\ reader \in {"next", "slot", "send"} => parserErr = "nil"
    /\ TasksClosed => parserErr # "nil" \/ (Limit # NoLimit /\ pages = Limit)
    /\ Limit # NoLimit => /\ pages <= Limit
                          /\ reader \in {"slot", "send"} => pages < Limit

IInv == /\ TypeOK /\ EveryPageInOnePlace /\ Counting /\ SourceOrder
        /\ Shutdown /\ ErrorPages /\ Framing /\ Limited

-----------------------------------------------------------------------------
(* Which variables an action leaves alone. *)

(* What each step leaves alone of the counters the window is made of. *)
LEMMA Frame ==
  ASSUME [Next]_vars
  PROVE  /\ (~SendTask => UNCHANGED pages)
         /\ (~ReadPage => UNCHANGED input)
         /\ (~DrainNext => UNCHANGED <<next, written>>)
         /\ (~Reader => UNCHANGED reader)
         /\ (~TakeSlot /\ ~DrainNext => UNCHANGED slots)
  <1>1. CASE Reader
    BY <1>1 DEF Reader, ReadPage, ReachLimit, EndOfInput, TakeSlot, SendTask,
       CloseResults, AwaitWriter, AwaitErrors, writerVars
  <1>2. CASE Writer
    BY <1>2 DEF Writer, OpenCollection, ReceiveResult, DrainNext, DrainStop,
       CloseCollection, readerVars
  <1>3. CASE Handler
    BY <1>3 DEF Handler, SavePage, DropPage, CloseErrorFile, readerVars,
       writerVars
  <1>4. ASSUME NEW w \in Workers, Worker(w)
        PROVE  UNCHANGED <<pages, input, next, written, reader, slots>>
    BY <1>4 DEF Worker, ReceiveTask, ReportPage, DeliverResult, StopWorker,
       readerVars, writerVars
  <1>5. CASE UNCHANGED vars
    BY <1>5 DEF vars, readerVars, writerVars
  <1> QED
    BY <1>1, <1>2, <1>3, <1>4, <1>5 DEF Next, Returned

(* A page in flight has been sent and has not left the writer. *)
LEMMA InFlightRange ==
  ASSUME TypeOK, EveryPageInOnePlace
  PROVE  \A n \in InFlight : n \in Nat /\ next <= n /\ n < pages
  <1>1. InFlight = next..pages-1
    BY DEF EveryPageInOnePlace
  <1>2. next \in Nat /\ pages \in Nat
    BY DEF TypeOK, ReaderType, WriterType
  <1> QED
    BY <1>1, <1>2

(* At first nothing is in flight. *)
LEMMA CountingInit == Init => Counting
  BY DEF Init, Counting

(* A step keeps the slots equal to the pages in flight. *)
LEMMA CountingStep ==
  ASSUME TypeOK, EveryPageInOnePlace, Counting, [Next]_vars
  PROVE  Counting'
  <1>1. next \in Nat /\ pages \in Nat /\ slots \in Nat
    <2>1. slots \in 0..Window /\ Window \in Nat
      BY PipelineAssumption DEF TypeOK, ChannelType
    <2>2. slots \in Nat
      BY <2>1
    <2> QED
      BY <2>2 DEF TypeOK, ReaderType, WriterType
  <1>2. CASE ReadPage
    <2>1. PICK kind \in Kinds : input' = Append(input, kind)
      BY <1>2 DEF ReadPage
    <2>2. Len(input') = Len(input) + 1
      BY <2>1, AppendProperties DEF TypeOK, ReaderType
    <2>3. /\ reader = "next" /\ reader' = "slot"
          /\ UNCHANGED <<pages, slots, next>>
      BY <1>2 DEF ReadPage, writerVars
    <2> QED
      BY <1>1, <2>2, <2>3 DEF Counting
  <1>3. CASE TakeSlot
    <2>1. /\ reader = "slot" /\ reader' = "send" /\ slots' = slots + 1
          /\ UNCHANGED <<input, pages, next>>
      BY <1>3 DEF TakeSlot, writerVars
    <2> QED
      BY <1>1, <2>1 DEF Counting
  <1>4. CASE SendTask
    <2>1. /\ reader = "send" /\ reader' = "next" /\ pages' = pages + 1
          /\ UNCHANGED <<input, slots, next>>
      BY <1>4 DEF SendTask, writerVars
    <2> QED
      BY <1>1, <2>1 DEF Counting
  <1>5. CASE DrainNext
    <2>1. next \in InFlight
      BY <1>5 DEF DrainNext, InFlight
    <2>2. next < pages
      BY <2>1, InFlightRange
    <2>3. /\ next' = next + 1 /\ slots' = slots - 1
          /\ UNCHANGED <<input, pages, reader>>
      BY <1>5 DEF DrainNext, readerVars
    <2> QED
      BY <1>1, <2>2, <2>3 DEF Counting
  <1>6. CASE ~ReadPage /\ ~TakeSlot /\ ~SendTask /\ ~DrainNext
    <2>1. UNCHANGED <<input, pages, slots, next>>
      BY <1>6, Frame
    <2>2. \/ UNCHANGED reader
          \/ reader = "next" /\ reader' = "join"
          \/ reader \notin {"slot", "send"} /\ reader' \notin {"slot", "send"}
      BY <1>6, Frame DEF Reader, ReachLimit, EndOfInput, CloseResults,
         AwaitWriter, AwaitErrors
    <2> QED
      BY <2>1, <2>2 DEF Counting
  <1> QED
    BY <1>2, <1>3, <1>4, <1>5, <1>6

-----------------------------------------------------------------------------
(* Every page is in one place. *)

(* What a worker's move does to the pages the workers hold. *)
LEMMA HeldBy ==
  ASSUME TypeOK, NEW w \in Workers
  PROVE  /\ Active(w) => worker[w].seq \in Held
         /\ \A n \in Held : \E v \in Workers : Active(v) /\ worker[v].seq = n
  BY DEF Held

(* At first no page is anywhere. *)
LEMMA OnePlaceInit == Init => EveryPageInOnePlace
  <1> SUFFICES ASSUME Init  PROVE EveryPageInOnePlace
    OBVIOUS
  <1>1. /\ tasks = <<>> /\ results = <<>> /\ pending = {}
        /\ next = 0 /\ pages = 0
        /\ \A w \in Workers : ~Active(w)
    BY DEF Init, Idle, Active
  <1>2. /\ ToSet(tasks) = {} /\ ToSet(results) = {}
        /\ IsInjective(tasks) /\ IsInjective(results)
    BY <1>1, EmptyChannel
  <1>3. Held = {}
    BY <1>1 DEF Held
  <1>4. next..pages-1 = {}
    BY <1>1
  <1> QED
    BY <1>1, <1>2, <1>3, <1>4 DEF EveryPageInOnePlace, InFlight

(* A step that moves no page keeps every page where it is. *)
LEMMA OnePlaceUnchanged ==
  ASSUME EveryPageInOnePlace,
         UNCHANGED <<tasks, worker, results, pending, next, pages>>
  PROVE  EveryPageInOnePlace'
  BY DEF EveryPageInOnePlace, InFlight, Held, Active

(* A page handler moves one page from one place to the next. *)
LEMMA OnePlaceWorker ==
  ASSUME TypeOK, EveryPageInOnePlace, NEW w \in Workers, Worker(w)
  PROVE  EveryPageInOnePlace'
  <1> DEFINE h == Head(tasks)
             n == worker[w].seq
  <1>1. UNCHANGED <<pending, next, pages>>
    BY DEF Worker, ReceiveTask, ReportPage, DeliverResult, StopWorker,
       readerVars, writerVars
  <1>2. \A v \in Workers \ {w} : worker'[v] = worker[v]
    BY DEF Worker, ReceiveTask, ReportPage, DeliverResult, StopWorker,
       TypeOK, ChannelType
  <1>3. CASE ReceiveTask(w)
    <2>1. /\ tasks # <<>> /\ tasks' = Tail(tasks) /\ UNCHANGED results
          /\ ~Active(w) /\ Active(w)' /\ worker'[w].seq = h
      BY <1>3 DEF ReceiveTask, Active, TypeOK, ChannelType
    <2>2. /\ ToSet(tasks) = {h} \cup ToSet(tasks') /\ h \notin ToSet(tasks')
          /\ IsInjective(tasks')
      BY <2>1, ReceiveElements, ReceiveInjective
         DEF TypeOK, ChannelType, EveryPageInOnePlace
    <2>3. Held' = Held \cup {h}
      BY <1>2, <2>1 DEF Held, Active
    <2>4. h \notin Held /\ h \in ToSet(tasks)
      BY <2>2 DEF EveryPageInOnePlace
    <2>5. \A v, u \in Workers :
            (Active(v) /\ Active(u) /\ worker[v].seq = worker[u].seq)' => v = u
      BY <1>2, <2>1, <2>4 DEF EveryPageInOnePlace, Held, Active
    <2> QED
      BY <1>1, <2>1, <2>2, <2>3, <2>4, <2>5 DEF EveryPageInOnePlace, InFlight
  <1>4. CASE ReportPage(w)
    <2>1. /\ UNCHANGED <<tasks, results>> /\ Active(w) /\ Active(w)'
          /\ worker'[w].seq = n
      BY <1>4 DEF ReportPage, Active, TypeOK, ChannelType
    <2>2. \A v \in Workers : /\ Active(v)' <=> Active(v)
                             /\ worker'[v].seq = worker[v].seq
      BY <1>2, <2>1 DEF Active
    <2>3. Held' = Held
      BY <2>2 DEF Held
    <2> QED
      BY <1>1, <2>1, <2>2, <2>3 DEF EveryPageInOnePlace, InFlight
  <1>5. CASE DeliverResult(w)
    <2>1. /\ UNCHANGED tasks /\ Active(w) /\ ~Active(w)'
          /\ results' = Append(results, n)
      BY <1>5 DEF DeliverResult, Active, Idle, TypeOK, ChannelType
    <2>2. n \in Held /\ n \notin ToSet(results) /\ n \notin pending /\ n \notin ToSet(tasks)
      BY <2>1, HeldBy DEF EveryPageInOnePlace
    <2>3. n \in Nat
      BY DEF TypeOK, ChannelType
    <2>4. ToSet(results') = ToSet(results) \cup {n} /\ IsInjective(results')
      BY <2>1, <2>2, <2>3, SendElements, SendInjective
         DEF TypeOK, ChannelType, EveryPageInOnePlace
    <2>5. Held' = Held \ {n}
      <3>1. \A v \in Workers \ {w} : Active(v) => worker[v].seq # n
        BY <2>1 DEF EveryPageInOnePlace
      <3> QED
        BY <1>2, <2>1, <3>1 DEF Held, Active
    <2>6. \A v, u \in Workers :
            (Active(v) /\ Active(u) /\ worker[v].seq = worker[u].seq)' => v = u
      BY <1>2, <2>1 DEF EveryPageInOnePlace, Active
    <2> QED
      BY <1>1, <2>1, <2>2, <2>4, <2>5, <2>6 DEF EveryPageInOnePlace, InFlight
  <1>6. CASE StopWorker(w)
    <2>1. /\ UNCHANGED <<tasks, results>> /\ ~Active(w) /\ ~Active(w)'
      BY <1>6 DEF StopWorker, Active, TypeOK, ChannelType
    <2>2. Held' = Held
      BY <1>2, <2>1 DEF Held, Active
    <2>3. \A v, u \in Workers :
            (Active(v) /\ Active(u) /\ worker[v].seq = worker[u].seq)' => v = u
      BY <1>2, <2>1 DEF EveryPageInOnePlace, Active
    <2> QED
      BY <1>1, <2>1, <2>2, <2>3 DEF EveryPageInOnePlace, InFlight
  <1> QED
    BY <1>3, <1>4, <1>5, <1>6 DEF Worker

(* No step loses a page or puts it in two places. *)
LEMMA OnePlaceStep ==
  ASSUME TypeOK, EveryPageInOnePlace, Counting, [Next]_vars
  PROVE  EveryPageInOnePlace'
  <1>1. next \in Nat /\ pages \in Nat /\ next <= pages
    BY DEF TypeOK, ReaderType, WriterType, Counting
  <1>2. CASE SendTask
    <2>1. /\ tasks' = Append(tasks, pages) /\ pages' = pages + 1
          /\ UNCHANGED <<results, worker, pending, next>>
      BY <1>2 DEF SendTask, writerVars
    <2>2. pages \notin InFlight
      BY <1>1, InFlightRange
    <2>3. ToSet(tasks') = ToSet(tasks) \cup {pages} /\ IsInjective(tasks')
      BY <1>1, <2>1, <2>2, SendElements, SendInjective
         DEF TypeOK, ChannelType, EveryPageInOnePlace, InFlight
    <2>4. next'..pages'-1 = (next..pages-1) \cup {pages}
      BY <1>1, <2>1
    <2>5. Held' = Held /\ \A v \in Workers : Active(v)' <=> Active(v)
      BY <2>1 DEF Held, Active
    <2> QED
      BY <2>1, <2>2, <2>3, <2>4, <2>5 DEF EveryPageInOnePlace, InFlight
  <1>3. ASSUME NEW w \in Workers, Worker(w)  PROVE EveryPageInOnePlace'
    BY <1>3, OnePlaceWorker
  <1>4. CASE ReceiveResult
    <2>1. /\ results # <<>> /\ results' = Tail(results)
          /\ pending' = pending \cup {Head(results)}
          /\ UNCHANGED <<tasks, worker, next, pages>>
      BY <1>4 DEF ReceiveResult, readerVars
    <2>2. /\ ToSet(results) = {Head(results)} \cup ToSet(results')
          /\ Head(results) \notin ToSet(results') /\ IsInjective(results')
      BY <2>1, ReceiveElements, ReceiveInjective
         DEF TypeOK, ChannelType, EveryPageInOnePlace
    <2>3. Held' = Held /\ \A v \in Workers : Active(v)' <=> Active(v)
      BY <2>1 DEF Held, Active
    <2> QED
      BY <2>1, <2>2, <2>3 DEF EveryPageInOnePlace, InFlight
  <1>5. CASE DrainNext
    <2>1. /\ next \in pending /\ pending' = pending \ {next} /\ next' = next + 1
          /\ UNCHANGED <<tasks, worker, results, pages>>
      BY <1>5 DEF DrainNext, readerVars
    <2>2. next'..pages'-1 = (next..pages-1) \ {next}
      BY <1>1, <2>1
    <2>3. Held' = Held /\ \A v \in Workers : Active(v)' <=> Active(v)
      BY <2>1 DEF Held, Active
    <2> QED
      BY <2>1, <2>2, <2>3 DEF EveryPageInOnePlace, InFlight
  <1>6. CASE Reader /\ ~SendTask
    <2>1. UNCHANGED <<tasks, worker, results, pending, next, pages>>
      BY <1>6 DEF Reader, ReadPage, ReachLimit, EndOfInput, TakeSlot,
         CloseResults, AwaitWriter, AwaitErrors, writerVars
    <2> QED
      BY <2>1, OnePlaceUnchanged
  <1>7. CASE OpenCollection \/ DrainStop \/ CloseCollection
    <2>1. UNCHANGED <<tasks, worker, results, pending, next, pages>>
      BY <1>7 DEF OpenCollection, DrainStop, CloseCollection, readerVars
    <2> QED
      BY <2>1, OnePlaceUnchanged
  <1>8. CASE Handler \/ UNCHANGED vars
    <2>1. UNCHANGED <<tasks, worker, results, pending, next, pages>>
      BY <1>8 DEF Handler, SavePage, DropPage, CloseErrorFile, vars,
         readerVars, writerVars
    <2> QED
      BY <2>1, OnePlaceUnchanged
  <1> QED
    BY <1>2, <1>3, <1>4, <1>5, <1>6, <1>7, <1>8 DEF Next, Returned, Writer

-----------------------------------------------------------------------------
(* The output is in source order. *)

(* A page already sent keeps its outcome. *)
LEMMA KindUnchanged ==
  ASSUME TypeOK, Counting, [Next]_vars
  PROVE  \A n \in 0..pages-1 : Kind(n)' = Kind(n)
  <1>1. CASE ReadPage
    <2>1. PICK kind \in Kinds : input' = Append(input, kind)
      BY <1>1 DEF ReadPage
    <2>2. input \in Seq(Kinds) /\ pages \in Nat /\ pages <= Len(input)
      <3>1. pages \in Nat /\ input \in Seq(Kinds)
        BY DEF TypeOK, ReaderType
      <3> QED
        BY <3>1 DEF Counting
    <2>3. \A i \in 1..Len(input) : input'[i] = input[i]
      BY <2>1, <2>2, AppendProperties
    <2>4. \A n \in 0..pages-1 : n + 1 \in 1..Len(input)
      BY <2>2, LenProperties
    <2> QED
      BY <2>3, <2>4 DEF Kind
  <1>2. CASE ~ReadPage
    BY <1>2, Frame DEF Kind
  <1> QED
    BY <1>1, <1>2

(* An empty output is in source order. *)
LEMMA SourceOrderInit == Init => SourceOrder
  <1> SUFFICES ASSUME Init  PROVE SourceOrder
    OBVIOUS
  <1>1. written = <<>> /\ next = 0
    BY DEF Init
  <1> QED
    BY <1>1 DEF SourceOrder

(* The writer appends only the page it waits for. *)
LEMMA SourceOrderStep ==
  ASSUME TypeOK, EveryPageInOnePlace, Counting, SourceOrder, [Next]_vars
  PROVE  SourceOrder'
  <1> DEFINE Entry == [seq : Nat, before : {"", ","}]
             entry == [seq |-> next, before |-> Separator]
  <1>0. written \in Seq(Entry) /\ entry \in Entry /\ entry.seq = next
    BY DEF TypeOK, WriterType, Separator
  <1>1. next \in Nat /\ pages \in Nat /\ next <= pages
    BY DEF TypeOK, ReaderType, WriterType, Counting
  <1>2. Len(written) \in Nat /\ \A i \in 1..Len(written) : written[i].seq \in Nat
    <2>1. \A e \in Entry : e.seq \in Nat
      OBVIOUS
    <2> HIDE DEF Entry
    <2> QED
      BY <1>0, <2>1, LenProperties, ElementOfSeq
  <1>a. ASSUME written' = Append(written, entry)
        PROVE  /\ Len(written') = Len(written) + 1
               /\ \A i \in 1..Len(written) : written'[i] = written[i]
               /\ written'[Len(written) + 1].seq = next
    <2> HIDE DEF Entry, entry
    <2> QED
      BY <1>0, <1>a, AppendProperties
  <1> HIDE DEF Entry, entry
  <1>3. CASE DrainNext
    <2>1. next \in InFlight /\ next' = next + 1
      BY <1>3 DEF DrainNext, InFlight
    <2>2. next < pages
      BY <2>1, InFlightRange
    <2>3. \A n \in 0..next : Kind(n)' = Kind(n)
      <3>1. \A n \in 0..next : n \in 0..pages-1
        BY <1>1, <2>2
      <3> QED
        BY <3>1, KindUnchanged
    <2>4. CASE written' = written
      <3>1. Kind(next) = "found" => writeErr' = "failed"
        <4>1. Kind(next) = "found" =>
                 writeErr' = "failed" \/ written' = Append(written, entry)
          BY <1>3 DEF DrainNext, WriteFeature, entry, TypeOK, WriterType
        <4>2. written' # Append(written, entry)
          BY <1>a, <1>2, <2>4
        <4> QED
          BY <4>1, <4>2
      <3>2. writeErr' = "nil" => writeErr = "nil"
        BY <1>3 DEF DrainNext, WriteFeature
      <3>3. ASSUME NEW i \in 1..Len(written')
            PROVE  /\ written'[i].seq < next'
                   /\ input'[written'[i].seq + 1] = "found"
        <4>1. i \in 1..Len(written)
          BY <2>4
        <4>2. written[i].seq < next /\ Kind(written[i].seq) = "found"
          BY <4>1 DEF SourceOrder
        <4>3. written[i].seq \in 0..next
          BY <1>1, <1>2, <4>1, <4>2
        <4>4. written[i].seq < next'
          BY <1>1, <2>1, <4>2, <4>3
        <4> QED
          BY <2>3, <2>4, <4>2, <4>3, <4>4 DEF Kind
      <3>4. ASSUME writeErr' = "nil", NEW n \in 0..next'-1, Kind(n)' = "found"
            PROVE  \E i \in 1..Len(written') : written'[i].seq = n
        <4>1. n \in 0..next /\ Kind(n) = "found"
          BY <1>1, <2>1, <2>3, <3>4
        <4>2. n # next
          BY <3>1, <3>4, <4>1
        <4>3. n \in 0..next-1
          BY <1>1, <4>1, <4>2
        <4> QED
          BY <2>4, <3>2, <3>4, <4>1, <4>3 DEF SourceOrder
      <3>5. \A i, j \in 1..Len(written') :
               i < j => written'[i].seq < written'[j].seq
        BY <2>4 DEF SourceOrder
      <3> QED
        BY <3>3, <3>4, <3>5 DEF SourceOrder, Kind
    <2>5. CASE written' # written
      <3>1. /\ written' = Append(written, entry) /\ Kind(next) = "found"
            /\ writeErr = "nil"
        BY <1>3, <2>5 DEF DrainNext, WriteFeature, entry
      <3>2. /\ Len(written') = Len(written) + 1
            /\ \A i \in 1..Len(written) : written'[i] = written[i]
            /\ written'[Len(written) + 1].seq = next
        BY <1>a, <3>1
      <3>3. \A i \in 1..Len(written') : \/ i \in 1..Len(written)
                                        \/ i = Len(written) + 1
        BY <1>2, <3>2
      <3>4. \A i \in 1..Len(written) : written[i].seq < next
        BY DEF SourceOrder
      <3>5. \A i \in 1..Len(written') : written'[i].seq < next'
                                        /\ written'[i].seq \in 0..next
        BY <1>1, <1>2, <2>1, <3>2, <3>3, <3>4
      <3>6. ASSUME NEW i \in 1..Len(written')
            PROVE  input'[written'[i].seq + 1] = "found"
        <4>1. Kind(written'[i].seq) = "found"
          BY <3>1, <3>2, <3>3 DEF SourceOrder
        <4> QED
          BY <2>3, <3>5, <4>1 DEF Kind
      <3>7. ASSUME NEW i \in 1..Len(written'), NEW j \in 1..Len(written'), i < j
            PROVE  written'[i].seq < written'[j].seq
        <4>1. i \in 1..Len(written)
          BY <1>2, <3>2, <3>3, <3>7
        <4>2. CASE j \in 1..Len(written)
          BY <3>2, <3>7, <4>1, <4>2 DEF SourceOrder
        <4>3. CASE j = Len(written) + 1
          BY <3>2, <3>4, <4>1, <4>3
        <4> QED
          BY <3>3, <4>2, <4>3
      <3>8. ASSUME NEW n \in 0..next'-1, Kind(n)' = "found"
            PROVE  \E i \in 1..Len(written') : written'[i].seq = n
        <4>1. n \in 0..next /\ Kind(n) = "found"
          BY <1>1, <2>1, <2>3, <3>8
        <4>2. CASE n = next
          BY <1>2, <3>2, <4>2
        <4>3. CASE n # next
          <5>1. n \in 0..next-1
            BY <1>1, <4>1, <4>3
          <5>2. PICK i \in 1..Len(written) : written[i].seq = n
            BY <3>1, <4>1, <5>1 DEF SourceOrder
          <5> QED
            BY <1>2, <3>2, <5>2
        <4> QED
          BY <4>2, <4>3
      <3> QED
        BY <3>5, <3>6, <3>7, <3>8 DEF SourceOrder, Kind
    <2> QED
      BY <2>4, <2>5
  <1>4. CASE ~DrainNext
    <2>1. UNCHANGED <<next, written>>
      BY <1>4, Frame
    <2>2. writeErr' = "nil" => writeErr = "nil"
      BY <1>4 DEF Next, Reader, ReadPage, ReachLimit, EndOfInput, TakeSlot,
         SendTask, CloseResults, AwaitWriter, AwaitErrors, Writer,
         OpenCollection, ReceiveResult, DrainStop, CloseCollection, Handler,
         SavePage, DropPage, CloseErrorFile, Worker, ReceiveTask, ReportPage,
         DeliverResult, StopWorker, Returned, vars, writerVars,
         TypeOK, WriterType
    <2>3. \A n \in 0..next-1 : Kind(n)' = Kind(n)
      <3>1. \A n \in 0..next-1 : n \in 0..pages-1
        BY <1>1
      <3> QED
        BY <3>1, KindUnchanged
    <2>4. \A i \in 1..Len(written) : written[i].seq \in 0..next-1
      BY <1>1, <1>2 DEF SourceOrder
    <2> QED
      BY <2>1, <2>2, <2>3, <2>4 DEF SourceOrder
  <1> QED
    BY <1>3, <1>4

-----------------------------------------------------------------------------
(* The goroutines shut down in order. *)

(* At first no channel is closed. *)
LEMMA ShutdownInit == Init => Shutdown
  BY DEF Init, Shutdown, Idle, ResultsClosed, ErrorsClosed, TasksClosed

(* A step keeps the order in which the channels are closed. *)
LEMMA ShutdownStep ==
  ASSUME TypeOK, Shutdown, [Next]_vars
  PROVE  Shutdown'
  <1> USE DEF ResultsClosed, ErrorsClosed, TasksClosed
  <1>1. CASE ReadPage \/ ReachLimit \/ EndOfInput \/ TakeSlot \/ SendTask
    <2>1. /\ reader \in {"next", "slot", "send"}
          /\ reader' \in {"next", "slot", "send", "join"}
          /\ UNCHANGED <<result, worker, errorPages, results, writer, pending,
                         writeErr, handler, saveErr>>
      BY <1>1 DEF ReadPage, ReachLimit, EndOfInput, TakeSlot, SendTask,
         writerVars, handlerVars
    <2> QED
      BY <2>1 DEF Shutdown
  <1>2. CASE CloseResults \/ AwaitWriter
    <2>1. /\ \/ /\ reader = "join" /\ reader' = "writer"
                /\ \A w \in Workers : worker[w].at = "stopped"
             \/ reader = "writer" /\ reader' = "errors" /\ writer = "done"
          /\ UNCHANGED <<result, worker, tasks, errorPages, results, writer,
                         pending, writeErr, handler, saveErr, parserErr>>
      BY <1>2 DEF CloseResults, AwaitWriter, writerVars, handlerVars
    <2> QED
      BY <2>1 DEF Shutdown
  <1>3. CASE AwaitErrors
    <2>1. /\ reader = "errors" /\ reader' = "done" /\ handler = "done"
          /\ result' = Outcome
          /\ UNCHANGED <<worker, tasks, errorPages, results, writer, pending,
                         writeErr, handler, saveErr, parserErr>>
      BY <1>3 DEF AwaitErrors, writerVars, handlerVars
    <2>2. Outcome' = Outcome
      BY <2>1 DEF Outcome
    <2> QED
      BY <2>1, <2>2 DEF Shutdown
  <1>4. ASSUME NEW w \in Workers, Worker(w)  PROVE Shutdown'
    <2>1. /\ worker[w].at # "stopped"
          /\ worker'[w].at = "stopped" => TasksClosed /\ tasks = <<>>
      BY <1>4 DEF Worker, ReceiveTask, ReportPage, DeliverResult, StopWorker,
         Idle, TypeOK, ChannelType
    <2>2. /\ \A v \in Workers \ {w} : worker'[v] = worker[v]
          /\ tasks = <<>> => tasks' = <<>>
          /\ UNCHANGED <<reader, result, writer, pending, writeErr, handler,
                         saveErr, parserErr>>
      BY <1>4 DEF Worker, ReceiveTask, ReportPage, DeliverResult, StopWorker,
         readerVars, writerVars, handlerVars, TypeOK, ChannelType
    <2>3. ~ResultsClosed
      BY <2>1 DEF Shutdown
    <2>4. Outcome' = Outcome
      BY <2>2 DEF Outcome
    <2> QED
      BY <2>1, <2>2, <2>3, <2>4 DEF Shutdown
  <1>5. CASE OpenCollection \/ ReceiveResult \/ DrainNext \/ DrainStop
    <2>1. /\ writer # "done" /\ writer' # "done"
          /\ UNCHANGED <<reader, result, worker, tasks, errorPages, handler,
                         saveErr, parserErr>>
      BY <1>5 DEF OpenCollection, ReceiveResult, DrainNext, DrainStop,
         readerVars, handlerVars
    <2> QED
      BY <2>1 DEF Shutdown
  <1>6. CASE CloseCollection
    <2>1. /\ writer # "done" /\ writer' = "done" /\ ResultsClosed
          /\ results = <<>> /\ (pending # {} => writeErr' = "failed")
          /\ UNCHANGED <<reader, result, worker, tasks, results, pending,
                         errorPages, handler, saveErr, parserErr>>
      BY <1>6 DEF CloseCollection, readerVars, handlerVars
    <2>2. reader \in {"writer", "errors", "done"} /\ ~ErrorsClosed
      BY <2>1 DEF Shutdown
    <2> QED
      BY <2>1, <2>2 DEF Shutdown
  <1>7. CASE SavePage \/ DropPage
    <2>1. /\ handler # "done" /\ handler' # "done"
          /\ UNCHANGED <<reader, result, worker, tasks, results, writer,
                         pending, writeErr>>
      BY <1>7 DEF SavePage, DropPage, readerVars, writerVars, handlerVars
    <2> QED
      BY <2>1 DEF Shutdown
  <1>8. CASE CloseErrorFile
    <2>1. /\ handler # "done" /\ handler' = "done" /\ ErrorsClosed
          /\ errorPages' = <<>>
          /\ UNCHANGED <<reader, result, worker, tasks, results, writer,
                         pending, writeErr>>
      BY <1>8 DEF CloseErrorFile, readerVars, writerVars
    <2> QED
      BY <2>1 DEF Shutdown
  <1>9. CASE UNCHANGED vars
    <2>1. UNCHANGED <<reader, result, worker, tasks, results, errorPages,
                      writer, pending, writeErr, handler, saveErr, parserErr>>
      BY <1>9 DEF vars, readerVars, writerVars, handlerVars
    <2>2. Outcome' = Outcome
      BY <2>1 DEF Outcome
    <2> QED
      BY <2>1, <2>2 DEF Shutdown
  <1> QED
    BY <1>1, <1>2, <1>3, <1>4, <1>5, <1>6, <1>7, <1>8, <1>9
       DEF Next, Reader, Writer, Handler, Returned

-----------------------------------------------------------------------------
(* The framing of a collection, and the limit. *)

(* At first no collection is open. *)
LEMMA FramingInit == Init => Framing
  <1> SUFFICES ASSUME Init  PROVE Framing
    OBVIOUS
  <1>1. written = <<>> /\ framing = "none" /\ writer # "done"
    BY DEF Init
  <1> QED
    BY <1>1 DEF Framing

(* A step keeps the framing and the separators of the output. *)
LEMMA FramingStep ==
  ASSUME TypeOK, Framing, [Next]_vars
  PROVE  Framing'
  <1> DEFINE Entry == [seq : Nat, before : {"", ","}]
             entry == [seq |-> next, before |-> Separator]
  <1>0. written \in Seq(Entry) /\ entry \in Entry /\ entry.before = Separator
    BY DEF TypeOK, WriterType, Separator
  <1> HIDE DEF Entry, entry
  <1>1. CASE DrainNext
    <2>1. UNCHANGED <<framing, writer>> /\ writer # "done"
      BY <1>1 DEF DrainNext
    <2>2. written' = written \/ written' = Append(written, entry)
      BY <1>1 DEF DrainNext, WriteFeature, entry
    <2>3. CASE written' = Append(written, entry)
      <3>1. /\ Len(written') = Len(written) + 1 /\ Len(written) \in Nat
            /\ \A i \in 1..Len(written) : written'[i] = written[i]
            /\ written'[Len(written) + 1].before = Separator
        BY <1>0, <2>3, AppendProperties, LenProperties
      <3>2. Separator = IF Strict /\ Len(written) + 1 > 1 THEN "," ELSE ""
        <4>1. written # <<>> <=> Len(written) + 1 > 1
          BY <1>0, EmptySeq, LenProperties
        <4> QED
          BY <4>1 DEF Separator
      <3>3. \A i \in 1..Len(written') : \/ i \in 1..Len(written)
                                        \/ i = Len(written) + 1
        BY <3>1
      <3>4. ASSUME NEW i \in 1..Len(written')
            PROVE  written'[i].before = IF Strict /\ i > 1 THEN "," ELSE ""
        <4>1. CASE i \in 1..Len(written)
          BY <3>1, <4>1 DEF Framing
        <4>2. CASE i = Len(written) + 1
          BY <3>1, <3>2, <4>2
        <4> QED
          BY <3>3, <4>1, <4>2
      <3> QED
        BY <2>1, <3>4 DEF Framing
    <2> QED
      BY <2>1, <2>2, <2>3 DEF Framing
  <1>2. CASE OpenCollection \/ ReceiveResult \/ DrainStop
    <2>1. /\ UNCHANGED written /\ writer' # "done"
          /\ framing' = "closed" => framing = "closed"
      BY <1>2 DEF OpenCollection, ReceiveResult, DrainStop
    <2> QED
      BY <2>1 DEF Framing
  <1>3. CASE CloseCollection
    <2>1. /\ UNCHANGED written
          /\ framing' = IF Strict /\ writeErr' = "nil" THEN "closed" ELSE framing
      BY <1>3 DEF CloseCollection
    <2> QED
      BY <2>1 DEF Framing
  <1>4. CASE Reader \/ Handler \/ UNCHANGED vars
    <2>1. UNCHANGED <<written, framing, writer, writeErr>>
      BY <1>4 DEF Reader, ReadPage, ReachLimit, EndOfInput, TakeSlot, SendTask,
         CloseResults, AwaitWriter, AwaitErrors, Handler, SavePage, DropPage,
         CloseErrorFile, vars, writerVars
    <2> QED
      BY <2>1 DEF Framing
  <1>5. ASSUME NEW w \in Workers, Worker(w)  PROVE Framing'
    <2>1. UNCHANGED <<written, framing, writer, writeErr>>
      BY <1>5 DEF Worker, ReceiveTask, ReportPage, DeliverResult, StopWorker,
         writerVars
    <2> QED
      BY <2>1 DEF Framing
  <1> QED
    BY <1>1, <1>2, <1>3, <1>4, <1>5 DEF Next, Writer, Returned

(* At first nothing is read. *)
LEMMA LimitedInit == Init => Limited
  BY PipelineAssumption DEF Init, Limited, NoLimit, TasksClosed

(* A step keeps the pages read within the limit. *)
LEMMA LimitedStep ==
  ASSUME TypeOK, Limited, [Next]_vars
  PROVE  Limited'
  <1> USE DEF TasksClosed
  <1>1. pages \in Nat /\ (Limit # NoLimit => Limit \in Nat)
    BY PipelineAssumption DEF TypeOK, ReaderType
  <1>2. CASE ReadPage \/ ReachLimit \/ EndOfInput
    <2>1. /\ reader = "next" /\ UNCHANGED pages
          /\ \/ reader' = "slot" /\ BelowLimit /\ UNCHANGED parserErr
             \/ reader' = "join" /\ ~BelowLimit /\ UNCHANGED parserErr
             \/ reader' = "join" /\ parserErr' # "nil"
      BY <1>2 DEF ReadPage, ReachLimit, EndOfInput
    <2> QED
      BY <1>1, <2>1 DEF Limited, BelowLimit
  <1>3. CASE TakeSlot \/ CloseResults \/ AwaitWriter \/ AwaitErrors
    <2>1. /\ UNCHANGED <<pages, parserErr>>
          /\ \/ reader = "slot" /\ reader' = "send"
             \/ TasksClosed /\ reader' \in {"writer", "errors", "done"}
      BY <1>3 DEF TakeSlot, CloseResults, AwaitWriter, AwaitErrors
    <2> QED
      BY <2>1 DEF Limited
  <1>4. CASE SendTask
    <2>1. /\ reader = "send" /\ reader' = "next" /\ pages' = pages + 1
          /\ UNCHANGED parserErr
      BY <1>4 DEF SendTask
    <2> QED
      BY <1>1, <2>1 DEF Limited
  <1>5. CASE ~Reader
    <2>1. UNCHANGED <<pages, parserErr, reader>>
      BY <1>5 DEF Next, Writer, OpenCollection, ReceiveResult, DrainNext,
         DrainStop, CloseCollection, Handler, SavePage, DropPage,
         CloseErrorFile, Worker, ReceiveTask, ReportPage, DeliverResult,
         StopWorker, Returned, vars, readerVars
    <2> QED
      BY <2>1 DEF Limited
  <1> QED
    BY <1>2, <1>3, <1>4, <1>5 DEF Reader

-----------------------------------------------------------------------------
(* Where the pages that failed are. *)

(* At first no page has failed. *)
LEMMA ErrorPagesInit == Init => ErrorPages
  <1> SUFFICES ASSUME Init  PROVE ErrorPages
    OBVIOUS
  <1>1. /\ errorPages = <<>> /\ saved = <<>> /\ pages = 0
        /\ \A w \in Workers : worker[w].at # "report"
    BY DEF Init, Idle
  <1>2. /\ ToSet(errorPages) = {} /\ ToSet(saved) = {}
        /\ IsInjective(errorPages) /\ IsInjective(saved)
    BY <1>1, EmptyChannel
  <1>3. 0..pages-1 = {}
    BY <1>1
  <1> QED
    BY <1>1, <1>2, <1>3 DEF ErrorPages

(* A step that moves no failed page. *)
LEMMA ErrorPagesUnchanged ==
  ASSUME TypeOK, EveryPageInOnePlace, Counting, ErrorPages, [Next]_vars,
         UNCHANGED <<tasks, worker, errorPages, saved, pages>>,
         saveErr' = "nil" => saveErr = "nil"
  PROVE  ErrorPages'
  <1>1. \A n \in 0..pages-1 : Kind(n)' = Kind(n)
    BY KindUnchanged
  <1>2. \A w \in Workers : worker[w].at = "report" => worker[w].seq \in 0..pages-1
    <2>1. \A w \in Workers : worker[w].at = "report" => worker[w].seq \in InFlight
      BY DEF InFlight, Held, Active
    <2>2. \A n \in InFlight : n \in 0..pages-1
      <3>1. pages \in Nat
        BY DEF TypeOK, ReaderType
      <3> QED
        BY <3>1, InFlightRange
    <2> QED
      BY <2>1, <2>2
  <1>3. Unreported' = Unreported
    BY DEF Unreported
  <1> QED
    BY <1>1, <1>2, <1>3 DEF ErrorPages, Kind

(* A page handler reports a page that failed before it answers for it. *)
LEMMA ErrorPagesWorker ==
  ASSUME TypeOK, EveryPageInOnePlace, Counting, ErrorPages,
         NEW w \in Workers, Worker(w)
  PROVE  ErrorPages'
  <1> DEFINE h == Head(tasks)
             n == worker[w].seq
  <1>1. UNCHANGED <<input, pages, saved, saveErr>>
    BY DEF Worker, ReceiveTask, ReportPage, DeliverResult, StopWorker,
       readerVars, handlerVars
  <1>2. \A v \in Workers \ {w} : worker'[v] = worker[v]
    BY DEF Worker, ReceiveTask, ReportPage, DeliverResult, StopWorker,
       TypeOK, ChannelType
  <1>3. CASE ReceiveTask(w)
    <2>1. /\ tasks # <<>> /\ tasks' = Tail(tasks) /\ UNCHANGED errorPages
          /\ worker[w].at = "idle" /\ worker'[w].seq = h
          /\ worker'[w].at = IF Kind(h) = "broken" THEN "report" ELSE "deliver"
      BY <1>3 DEF ReceiveTask, TypeOK, ChannelType
    <2>2. ToSet(tasks) = {h} \cup ToSet(tasks')
      BY <2>1, ReceiveElements DEF TypeOK, ChannelType
    <2>3. Unreported' \subseteq Unreported
      BY <1>2, <2>1, <2>2 DEF Unreported
    <2>4. \A m \in Unreported : Kind(m) = "broken" => m \in Unreported'
      BY <1>2, <2>1, <2>2 DEF Unreported
    <2>5. \A v \in Workers :
             worker'[v].at = "report" => Kind(worker'[v].seq) = "broken"
      BY <1>2, <2>1 DEF ErrorPages
    <2> QED
      BY <1>1, <2>1, <2>3, <2>4, <2>5 DEF ErrorPages, Kind
  <1>4. CASE ReportPage(w)
    <2>1. /\ UNCHANGED tasks /\ worker[w].at = "report"
          /\ worker'[w].at = "deliver"
          /\ errorPages' = Append(errorPages, n)
      BY <1>4 DEF ReportPage, TypeOK, ChannelType
    <2>2. n \in Unreported /\ Active(w) /\ n \in Held /\ n \in InFlight
      BY <2>1 DEF Unreported, Active, Held, InFlight
    <2>3. n \in 0..pages-1 /\ n \in Nat /\ n \notin ToSet(tasks)
      <3>1. n \in Nat /\ n < pages
        BY <2>2, InFlightRange
      <3>2. n \notin ToSet(tasks)
        BY <2>2 DEF EveryPageInOnePlace
      <3>3. pages \in Nat
        BY DEF TypeOK, ReaderType
      <3> QED
        BY <3>1, <3>2, <3>3
    <2>4. Kind(n) = "broken" /\ n \notin ToSet(errorPages) /\ n \notin ToSet(saved)
      BY <2>1, <2>2 DEF ErrorPages
    <2>5. ToSet(errorPages') = ToSet(errorPages) \cup {n} /\ IsInjective(errorPages')
      BY <2>1, <2>3, <2>4, SendElements, SendInjective
         DEF TypeOK, ChannelType, ErrorPages
    <2>6. Unreported' = Unreported \ {n}
      <3>1. \A v \in Workers \ {w} : worker[v].at = "report" => worker[v].seq # n
        BY <2>2 DEF EveryPageInOnePlace, Active
      <3> QED
        BY <1>2, <2>1, <2>3, <3>1 DEF Unreported
    <2>7. \A v \in Workers :
             worker'[v].at = "report" => Kind(worker'[v].seq) = "broken"
      BY <1>2, <2>1 DEF ErrorPages
    <2> QED
      BY <1>1, <2>2, <2>3, <2>4, <2>5, <2>6, <2>7 DEF ErrorPages, Kind
  <1>5. CASE DeliverResult(w) \/ StopWorker(w)
    <2>1. /\ UNCHANGED <<tasks, errorPages>> /\ worker[w].at # "report"
          /\ worker'[w].at # "report"
      BY <1>5 DEF DeliverResult, StopWorker, Idle, TypeOK, ChannelType
    <2>2. Unreported' = Unreported
      BY <1>2, <2>1 DEF Unreported
    <2>3. \A v \in Workers :
             worker'[v].at = "report" => Kind(worker'[v].seq) = "broken"
      BY <1>2, <2>1 DEF ErrorPages
    <2> QED
      BY <1>1, <2>1, <2>2, <2>3 DEF ErrorPages, Kind
  <1> QED
    BY <1>3, <1>4, <1>5 DEF Worker

(* No step loses a page that failed, unless the error file has failed. *)
LEMMA ErrorPagesStep ==
  ASSUME TypeOK, EveryPageInOnePlace, Counting, ErrorPages, [Next]_vars
  PROVE  ErrorPages'
  <1>1. CASE SendTask
    <2>1. /\ tasks' = Append(tasks, pages) /\ pages' = pages + 1
          /\ reader = "send" /\ UNCHANGED <<input, worker, errorPages, saved, saveErr>>
      BY <1>1 DEF SendTask, handlerVars
    <2>2. pages \in Nat
      BY DEF TypeOK, ReaderType
    <2>3. ToSet(tasks') = ToSet(tasks) \cup {pages}
      <3>1. tasks \in Seq(Nat)
        BY DEF TypeOK, ChannelType
      <3> QED
        BY <2>1, <2>2, <3>1, SendElements
    <2>4. Unreported' = Unreported \cup {pages}
      BY <2>1, <2>3 DEF Unreported
    <2>5. 0..pages'-1 = (0..pages-1) \cup {pages} /\ pages \notin 0..pages-1
      BY <2>1, <2>2
    <2> QED
      BY <2>1, <2>4, <2>5 DEF ErrorPages, Kind
  <1>2. CASE SavePage
    <2> DEFINE h == Head(errorPages)
    <2>1. /\ errorPages # <<>> /\ errorPages' = Tail(errorPages)
          /\ UNCHANGED <<input, pages, tasks, worker>> /\ saveErr = "nil"
          /\ \/ saveErr' = "failed" /\ UNCHANGED saved
             \/ saved' = Append(saved, h) /\ UNCHANGED saveErr
      BY <1>2 DEF SavePage, readerVars
    <2>2. /\ ToSet(errorPages) = {h} \cup ToSet(errorPages')
          /\ h \notin ToSet(errorPages') /\ IsInjective(errorPages')
          /\ h \in ToSet(errorPages)
      BY <2>1, ReceiveElements, ReceiveInjective
         DEF TypeOK, ChannelType, ErrorPages
    <2>3. Unreported' = Unreported
      BY <2>1 DEF Unreported
    <2>4. CASE saved' = saved /\ saveErr' = "failed"
      BY <2>1, <2>2, <2>3, <2>4 DEF ErrorPages, Kind
    <2>5. CASE saved' = Append(saved, h) /\ UNCHANGED saveErr
      <3>1. h \in Nat /\ h \notin ToSet(saved)
        <4>1. Head(errorPages) \in Nat
          BY <2>1, HeadTailProperties DEF TypeOK, ChannelType
        <4> QED
          BY <2>2, <4>1 DEF ErrorPages
      <3>2. ToSet(saved') = ToSet(saved) \cup {h} /\ IsInjective(saved')
        BY <2>5, <3>1, SendElements, SendInjective
           DEF TypeOK, HandlerType, ErrorPages
      <3> QED
        BY <2>1, <2>2, <2>3, <2>5, <3>1, <3>2 DEF ErrorPages, Kind
    <2> QED
      BY <2>1, <2>4, <2>5
  <1>3. CASE DropPage
    <2>1. /\ errorPages # <<>> /\ errorPages' = Tail(errorPages)
          /\ UNCHANGED <<input, pages, tasks, worker, saved, saveErr>>
          /\ saveErr # "nil"
      BY <1>3 DEF DropPage, readerVars, handlerVars
    <2>2. /\ ToSet(errorPages) = {Head(errorPages)} \cup ToSet(errorPages')
          /\ IsInjective(errorPages')
      BY <2>1, ReceiveElements, ReceiveInjective
         DEF TypeOK, ChannelType, ErrorPages
    <2>3. Unreported' = Unreported
      BY <2>1 DEF Unreported
    <2> QED
      BY <2>1, <2>2, <2>3 DEF ErrorPages, Kind
  <1>4. ASSUME NEW w \in Workers, Worker(w)  PROVE ErrorPages'
    BY <1>4, ErrorPagesWorker
  <1>5. CASE CloseErrorFile
    <2>1. /\ UNCHANGED <<tasks, worker, errorPages, saved, pages>>
          /\ saveErr' = "nil" => saveErr = "nil"
      BY <1>5 DEF CloseErrorFile, readerVars, TypeOK, HandlerType
    <2> QED
      BY <2>1, ErrorPagesUnchanged
  <1>6. CASE Writer \/ UNCHANGED vars \/ (Reader /\ ~SendTask)
    <2>1. UNCHANGED <<tasks, worker, errorPages, saved, pages, saveErr>>
      BY <1>6 DEF Writer, OpenCollection, ReceiveResult, DrainNext, DrainStop,
         CloseCollection, Reader, ReadPage, ReachLimit, EndOfInput, TakeSlot,
         CloseResults, AwaitWriter, AwaitErrors, vars, readerVars, handlerVars
    <2> QED
      BY <2>1, ErrorPagesUnchanged
  <1> QED
    BY <1>1, <1>2, <1>3, <1>4, <1>5, <1>6 DEF Next, Handler, Returned

-----------------------------------------------------------------------------
(* The theorems. *)

(* The invariant holds at first. *)
LEMMA InvInit == Init => IInv
  BY TypeInit, OnePlaceInit, CountingInit, SourceOrderInit, ShutdownInit,
     ErrorPagesInit, FramingInit, LimitedInit DEF IInv

(* Every step keeps the invariant. *)
LEMMA InvStep == IInv /\ [Next]_vars => IInv'
  <1> SUFFICES ASSUME IInv, [Next]_vars  PROVE IInv'
    OBVIOUS
  <1>1. /\ TypeOK /\ EveryPageInOnePlace /\ Counting /\ SourceOrder
        /\ Shutdown /\ ErrorPages /\ Framing /\ Limited
    BY DEF IInv
  <1>2. TypeOK' /\ EveryPageInOnePlace' /\ Counting' /\ SourceOrder'
    BY <1>1, TypeStep, OnePlaceStep, CountingStep, SourceOrderStep
  <1>3. Shutdown' /\ ErrorPages' /\ Framing' /\ Limited'
    BY <1>1, ShutdownStep, ErrorPagesStep, FramingStep, LimitedStep
  <1> QED
    BY <1>2, <1>3 DEF IInv

(* The invariant holds in every reachable state. *)
THEOREM Invariance == Spec => []IInv
  BY InvInit, InvStep, PTL DEF Spec

(* However many workers race, the output is in source order, without        *)
(* repetition, and complete up to where the writer is.                      *)
THEOREM SourceOrderCorrect == Spec => []SourceOrder
  <1>1. IInv => SourceOrder
    BY DEF IInv
  <1> QED
    BY <1>1, Invariance, PTL

(* No page is lost, none is handled twice. *)
THEOREM OnePlaceCorrect == Spec => []EveryPageInOnePlace
  <1>1. IInv => EveryPageInOnePlace
    BY DEF IInv
  <1> QED
    BY <1>1, Invariance, PTL

(* What is in flight fits the window, and slots counts exactly that.        *)
THEOREM WindowCorrect == Spec => []WindowBounds
  <1>1. ASSUME IInv  PROVE WindowBounds
    <2>1. TypeOK /\ EveryPageInOnePlace /\ Counting
      BY <1>1 DEF IInv
    <2>2. next \in Nat /\ pages \in Nat
      BY <2>1 DEF TypeOK, ReaderType, WriterType
    <2>3. slots \in 0..Window /\ Window \in Nat
      BY <2>1, PipelineAssumption DEF TypeOK, ChannelType
    <2>4. slots = pages - next + (IF reader = "send" THEN 1 ELSE 0)
      BY <2>1 DEF Counting
    <2>5. pages <= next + Window
      BY <2>2, <2>3, <2>4
    <2>6. \A n \in InFlight : n \in Nat /\ next <= n /\ n < pages
      BY <2>1, InFlightRange
    <2>7. \A n \in InFlight : next <= n /\ n < next + Window
      BY <2>2, <2>3, <2>5, <2>6
    <2> QED
      BY <2>4, <2>7 DEF WindowBounds
  <1> QED
    BY <1>1, Invariance, PTL

(* No worker sends on a channel that has been closed. *)
THEOREM NoSendCorrect == Spec => []NoSendOnClosedChannel
  <1>1. ASSUME IInv  PROVE NoSendOnClosedChannel
    <2>1. ResultsClosed => \A w \in Workers : worker[w].at = "stopped"
      BY <1>1 DEF IInv, Shutdown
    <2>2. ErrorsClosed => ResultsClosed
      BY DEF ErrorsClosed, ResultsClosed
    <2> QED
      BY <2>1, <2>2 DEF NoSendOnClosedChannel
  <1> QED
    BY <1>1, Invariance, PTL

(* A run that returns nil wrote every page with coordinates and saved every *)
(* page that failed.                                                        *)
THEOREM SuccessCorrect == Spec => []SuccessIsComplete
  <1>1. ASSUME IInv, result = "ok"
        PROVE  /\ \A n \in 0..Len(input)-1 :
                    /\ Kind(n) = "found" =>
                         \E i \in 1..Len(written) : written[i].seq = n
                    /\ Kind(n) = "broken" => n \in ToSet(saved)
               /\ IsInjective(saved)
               /\ Strict => framing = "closed"
               /\ writeErr = "nil" /\ saveErr = "nil" /\ parserErr # "failed"
    <2>1. /\ TypeOK /\ EveryPageInOnePlace /\ Counting /\ SourceOrder
          /\ Shutdown /\ ErrorPages /\ Framing
      BY <1>1 DEF IInv
    <2>2. reader = "done" /\ handler = "done" /\ Outcome = "ok"
      BY <1>1, <2>1 DEF Shutdown
    <2>3. writeErr = "nil" /\ saveErr = "nil" /\ parserErr # "failed"
      BY <2>2 DEF Outcome
    <2>4. /\ \A w \in Workers : worker[w].at = "stopped"
          /\ writer = "done"
      BY <2>1, <2>2 DEF Shutdown, ResultsClosed, ErrorsClosed
    <2>5. /\ tasks = <<>> /\ results = <<>> /\ pending = {}
          /\ errorPages = <<>>
      BY <2>1, <2>2, <2>3, <2>4, PipelineAssumption DEF Shutdown
    <2>6. ToSet(tasks) = {} /\ ToSet(results) = {} /\ ToSet(errorPages) = {}
      BY <2>5, EmptyChannel
    <2>7. Held = {} /\ Unreported = {}
      BY <2>4, <2>6 DEF Held, Active, Unreported
    <2>8. InFlight = {}
      BY <2>5, <2>6, <2>7 DEF InFlight
    <2>9. next \in Nat /\ pages \in Nat /\ next <= pages /\ Len(input) = pages
      <3>1. next \in Nat /\ pages \in Nat
        BY <2>1 DEF TypeOK, ReaderType, WriterType
      <3>2. Len(input) = pages + 0 /\ next <= pages
        BY <2>1, <2>2 DEF Counting
      <3> QED
        BY <3>1, <3>2
    <2>10. next = pages
      <3>1. next..pages-1 = {}
        BY <2>1, <2>8 DEF EveryPageInOnePlace
      <3> QED
        BY <2>9, <3>1
    <2>11. \A n \in 0..Len(input)-1 :
             Kind(n) = "found" => \E i \in 1..Len(written) : written[i].seq = n
      BY <2>1, <2>3, <2>9, <2>10 DEF SourceOrder
    <2>12. \A n \in 0..Len(input)-1 : Kind(n) = "broken" => n \in ToSet(saved)
      BY <2>1, <2>3, <2>6, <2>7, <2>9 DEF ErrorPages
    <2> QED
      BY <2>1, <2>3, <2>4, <2>11, <2>12 DEF Framing, ErrorPages
  <1>2. IInv => SuccessIsComplete
    BY <1>1 DEF SuccessIsComplete
  <1> QED
    BY <1>2, Invariance, PTL

(* A FeatureCollection that is closed is well formed. *)
THEOREM ClosedCollectionCorrect == Spec => []ClosedCollectionIsWellFormed
  <1>1. ASSUME IInv  PROVE ClosedCollectionIsWellFormed
    <2>1. Framing
      BY <1>1 DEF IInv
    <2> QED
      BY <2>1 DEF Framing, ClosedCollectionIsWellFormed
  <1> QED
    BY <1>1, Invariance, PTL

(* -limit N is exact: one page more is never taken from the parser, and a   *)
(* success short of N means the input ended.                                *)
ExactlyLimit ==
    Limit # NoLimit =>
        /\ Len(input) <= Limit
        /\ result = "ok" => Len(input) = Limit \/ parserErr = "eof"

(* The limit is exact for every limit and however the goroutines run. *)
THEOREM LimitCorrect == Spec => []ExactlyLimit
  <1>1. ASSUME IInv, Limit # NoLimit
        PROVE  /\ Len(input) <= Limit
               /\ result = "ok" => Len(input) = Limit \/ parserErr = "eof"
    <2>1. TypeOK /\ Counting /\ Shutdown /\ Limited
      BY <1>1 DEF IInv
    <2>2. pages \in Nat /\ Limit \in Nat
      BY <1>1, <2>1, PipelineAssumption DEF TypeOK, ReaderType
    <2>3. /\ Len(input) = pages + (IF reader \in {"slot", "send"} THEN 1 ELSE 0)
          /\ pages <= Limit
          /\ reader \in {"slot", "send"} => pages < Limit
      BY <1>1, <2>1 DEF Counting, Limited
    <2>4. Len(input) <= Limit
      BY <2>2, <2>3
    <2>5. ASSUME result = "ok"  PROVE Len(input) = Limit \/ parserErr = "eof"
      <3>1. reader = "done" /\ Outcome = "ok"
        BY <2>1, <2>5 DEF Shutdown
      <3>2. parserErr # "failed" /\ parserErr \in {"nil", "eof", "failed"}
        BY <2>1, <3>1 DEF Outcome, TypeOK, ReaderType
      <3>3. pages = Limit \/ parserErr # "nil"
        BY <1>1, <2>1, <3>1 DEF Limited, TasksClosed
      <3>4. Len(input) = pages
        BY <2>2, <2>3, <3>1
      <3> QED
        BY <3>2, <3>3, <3>4
    <2> QED
      BY <2>4, <2>5
  <1>2. IInv => ExactlyLimit
    BY <1>1 DEF ExactlyLimit
  <1> QED
    BY <1>2, Invariance, PTL

-----------------------------------------------------------------------------
(* The pipeline implements the sequential conversion. *)

Output == [i \in 1..Len(written) |-> written[i].seq]

(* The sequence numbers written, as the sequential converter sees them. *)
LEMMA OutputElements ==
  ASSUME TypeOK
  PROVE  /\ Output \in Seq(Nat)
         /\ ToSet(Output) = {written[i].seq : i \in 1..Len(written)}
  <1> DEFINE Entry == [seq : Nat, before : {"", ","}]
  <1>1. written \in Seq(Entry) /\ \A e \in Entry : e.seq \in Nat
    BY DEF TypeOK, WriterType
  <1> HIDE DEF Entry
  <1>2. Len(written) \in Nat /\ \A i \in 1..Len(written) : written[i].seq \in Nat
    BY <1>1, LenProperties, ElementOfSeq
  <1>3. Output \in Seq(Nat)
    BY <1>2, IsASeq DEF Output
  <1>4. DOMAIN Output = 1..Len(written)
    BY DEF Output
  <1> QED
    BY <1>3, <1>4 DEF ToSet, Output

(* The initial states are those of the sequential converter. *)
LEMMA RefinementInit == Init => Sequential!Init
  <1> SUFFICES ASSUME Init  PROVE Sequential!Init
    OBVIOUS
  <1>1. /\ input = <<>> /\ written = <<>> /\ saved = <<>>
        /\ result = "running" /\ parserErr = "nil"
    BY DEF Init
  <1>2. Len(written) = 0
    BY <1>1
  <1>3. [i \in 1..Len(written) |-> written[i].seq] = <<>>
    BY <1>2
  <1> QED
    BY <1>1, <1>3 DEF Sequential!Init

(* Below its limit the reader asks the parser when the sequential converter *)
(* may.                                                                     *)
LEMMA MayReadBelowLimit ==
  ASSUME IInv, reader = "next", BelowLimit
  PROVE  parserErr = "nil" /\ Sequential!MayRead
  <1>1. parserErr = "nil"
    BY DEF IInv, Limited
  <1>2. Len(input) = pages + 0 /\ pages \in Nat
    BY DEF IInv, Counting, TypeOK, ReaderType
  <1>3. Limit = NoLimit \/ Len(input) < Limit
    BY <1>2 DEF BelowLimit
  <1> QED
    BY <1>1, <1>3 DEF Sequential!MayRead, Sequential!NoLimit, NoLimit

(* Taking a page from the parser is a step of the sequential converter. *)
LEMMA RefinementRead ==
  ASSUME IInv, ReadPage
  PROVE  Sequential!Next
  <1>1. result = "running"
    BY DEF IInv, Shutdown, ReadPage
  <1>2. /\ \E kind \in Kinds : input' = Append(input, kind)
        /\ UNCHANGED <<written, saved, result, parserErr>>
    BY DEF ReadPage, writerVars, handlerVars
  <1>3. Sequential!MayRead
    BY MayReadBelowLimit DEF ReadPage
  <1>4. Sequential!Read
    BY <1>2, <1>3 DEF Sequential!Read
  <1> QED
    BY <1>1, <1>4 DEF Sequential!Next

(* The end of the input is a step of the sequential converter, which does   *)
(* not see the parser fail.                                                 *)
LEMMA RefinementEnd ==
  ASSUME IInv, EndOfInput
  PROVE  [Sequential!Next]_Sequential!absVars
  <1>1. /\ result = "running" /\ parserErr' \in {"eof", "failed"}
        /\ UNCHANGED <<input, written, saved, result>>
    BY DEF IInv, Shutdown, EndOfInput, writerVars, handlerVars
  <1>2. parserErr = "nil" /\ Sequential!MayRead
    BY MayReadBelowLimit DEF EndOfInput
  <1>3. CASE parserErr' = "eof"
    <2>1. Sequential!End
      BY <1>1, <1>2, <1>3 DEF Sequential!End
    <2> QED
      BY <1>1, <2>1 DEF Sequential!Next
  <1>4. CASE parserErr' = "failed"
    <2>1. (parserErr' = "eof") = (parserErr = "eof")
      BY <1>2, <1>4
    <2> QED
      BY <1>1, <2>1 DEF Sequential!absVars
  <1> QED
    BY <1>1, <1>3, <1>4

(* Writing a page is a step of the sequential converter. *)
LEMMA RefinementWrite ==
  ASSUME IInv, DrainNext, written' # written
  PROVE  Sequential!Next
  <1> DEFINE Entry == [seq : Nat, before : {"", ","}]
             entry == [seq |-> next, before |-> Separator]
  <1>0. TypeOK /\ EveryPageInOnePlace /\ Counting /\ SourceOrder /\ Shutdown
    BY DEF IInv
  <1>1. /\ written' = Append(written, entry) /\ Kind(next) = "found"
        /\ writeErr = "nil" /\ next \in pending /\ writer = "drain"
        /\ UNCHANGED <<input, saved, result, parserErr>>
    BY DEF DrainNext, WriteFeature, readerVars, handlerVars
  <1>2. result = "running"
    BY <1>0, <1>1 DEF Shutdown, ErrorsClosed
  <1>3. next \in Nat /\ pages \in Nat /\ next < pages
    <2>1. next \in InFlight
      BY <1>1 DEF InFlight
    <2> QED
      BY <1>0, <2>1, InFlightRange DEF TypeOK, ReaderType, WriterType
  <1>4. \A m \in 0..next : m \in 0..Len(input)-1
    <2>1. Len(input) = pages \/ Len(input) = pages + 1
      BY <1>0, <1>3 DEF Counting
    <2> QED
      BY <1>3, <2>1
  <1>5. written \in Seq(Entry) /\ entry.seq = next /\ entry \in Entry
    BY <1>0 DEF TypeOK, WriterType, Separator
  <1> HIDE DEF Entry, entry
  <1>6. /\ Len(written') = Len(written) + 1 /\ Len(written) \in Nat
        /\ \A i \in 1..Len(written) : written'[i] = written[i]
        /\ written'[Len(written) + 1].seq = next
    BY <1>1, <1>5, AppendProperties, LenProperties
  <1>7. Output' = Append(Output, next)
    <2>1. Output' = [i \in 1..Len(written)+1 |-> written'[i].seq]
      BY <1>6 DEF Output
    <2>2. Output \in Seq(Nat) /\ Len(Output) = Len(written)
      BY <1>0, <1>6, OutputElements, LenProperties DEF Output
    <2>3. /\ Append(Output, next) \in Seq(Nat)
          /\ Len(Append(Output, next)) = Len(written) + 1
          /\ \A i \in 1..Len(written) : Append(Output, next)[i] = written[i].seq
          /\ Append(Output, next)[Len(written) + 1] = next
      BY <1>3, <2>2, AppendProperties DEF Output
    <2>4. Append(Output, next)
            = [i \in 1..Len(written)+1 |-> Append(Output, next)[i]]
      BY <2>3, LenProperties
    <2>5. \A i \in 1..Len(written)+1 :
             written'[i].seq = Append(Output, next)[i]
      <3>1. \A i \in 1..Len(written)+1 : \/ i \in 1..Len(written)
                                         \/ i = Len(written) + 1
        BY <1>6
      <3> QED
        BY <1>6, <2>3, <3>1
    <2> QED
      BY <2>1, <2>4, <2>5
  <1>8. next \in Sequential!PagesOf("found") \ ToSet(Output)
    <2>1. next \in Sequential!PagesOf("found")
      BY <1>1, <1>3, <1>4 DEF Sequential!PagesOf, Kind
    <2>2. \A i \in 1..Len(written) : written[i].seq < next
      BY <1>0 DEF SourceOrder
    <2>3. \A i \in 1..Len(written) : written[i].seq # next
      BY <1>3, <2>2
    <2> QED
      BY <1>0, <2>1, <2>3, OutputElements
  <1>9. \A m \in Sequential!PagesOf("found") : m < next => m \in ToSet(Output)
    <2>1. \A m \in Sequential!PagesOf("found") :
             m \in 0..Len(input)-1 /\ Kind(m) = "found"
      BY DEF Sequential!PagesOf, Kind
    <2>2. \A m \in 0..next-1 : Kind(m) = "found" => m \in ToSet(Output)
      BY <1>0, <1>1, OutputElements DEF SourceOrder
    <2>3. \A m \in 0..Len(input)-1 : m < next => m \in 0..next-1
      BY <1>3
    <2> QED
      BY <2>1, <2>2, <2>3
  <1>10. Sequential!Write
    <2>1. Sequential!ToSet(Output) = ToSet(Output)
      BY DEF ToSet, Sequential!ToSet
    <2>2. /\ next \in Sequential!PagesOf("found") \ Sequential!ToSet(Output)
          /\ \A m \in Sequential!PagesOf("found") :
                m < next => m \in Sequential!ToSet(Output)
          /\ Output' = Append(Output, next)
          /\ UNCHANGED <<input, saved, result, parserErr>>
      BY <1>1, <1>7, <1>8, <1>9, <2>1
    <2> QED
      BY <2>2 DEF Sequential!Write, Output
  <1> QED
    BY <1>2, <1>10 DEF Sequential!Next

(* Saving a page that failed is a step of the sequential converter. *)
LEMMA RefinementSave ==
  ASSUME IInv, SavePage, saved' # saved
  PROVE  Sequential!Next
  <1> DEFINE h == Head(errorPages)
  <1>0. TypeOK /\ Counting /\ Shutdown /\ ErrorPages
    BY DEF IInv
  <1>1. /\ saved' = Append(saved, h) /\ errorPages # <<>>
        /\ handler = "receive" /\ UNCHANGED <<input, written, result, parserErr>>
    BY DEF SavePage, readerVars, writerVars
  <1>2. result = "running"
    BY <1>0, <1>1 DEF Shutdown
  <1>3. h \in ToSet(errorPages)
    BY <1>0, <1>1, ReceiveElements DEF TypeOK, ChannelType
  <1>4. h \in 0..pages-1 /\ Kind(h) = "broken" /\ h \notin ToSet(saved)
    BY <1>0, <1>3 DEF ErrorPages
  <1>5. h \in 0..Len(input)-1
    <2>1. pages \in Nat
      BY <1>0 DEF TypeOK, ReaderType
    <2>2. Len(input) = pages \/ Len(input) = pages + 1
      BY <1>0, <2>1 DEF Counting
    <2> QED
      BY <1>4, <2>1, <2>2
  <1>6. h \in Sequential!PagesOf("broken") \ ToSet(saved)
    BY <1>4, <1>5 DEF Sequential!PagesOf, Kind
  <1>7. Sequential!Save
    <2>1. Sequential!ToSet(saved) = ToSet(saved)
      BY DEF ToSet, Sequential!ToSet
    <2>2. Output' = Output
      BY <1>1 DEF Output
    <2> QED
      BY <1>1, <1>6, <2>1, <2>2 DEF Sequential!Save, Output
  <1> QED
    BY <1>2, <1>7 DEF Sequential!Next

(* The return of process is the end of the sequential converter. *)
LEMMA RefinementFinish ==
  ASSUME IInv, IInv', SuccessIsComplete', AwaitErrors
  PROVE  Sequential!Next
  <1>0. TypeOK /\ Shutdown /\ Counting /\ Limited
    BY DEF IInv
  <1>1. /\ reader = "errors" /\ result' = Outcome
        /\ UNCHANGED <<input, written, saved, parserErr>>
    BY DEF AwaitErrors, writerVars, handlerVars
  <1>2. result = "running"
    BY <1>0, <1>1 DEF Shutdown
  <1>3. CASE result' = "ok"
    <2>1. \A n \in 0..Len(input)-1 :
             /\ Kind(n) = "found" => \E i \in 1..Len(written) : written[i].seq = n
             /\ Kind(n) = "broken" => n \in ToSet(saved)
      BY <1>1, <1>3 DEF SuccessIsComplete, Kind
    <2>2. Sequential!PagesOf("found") \subseteq ToSet(Output)
      BY <1>0, <2>1, OutputElements DEF Sequential!PagesOf, Kind
    <2>3. Sequential!PagesOf("broken") \subseteq ToSet(saved)
      BY <2>1 DEF Sequential!PagesOf, Kind
    <2>4. parserErr = "eof" \/ Len(input) = Limit
      <3>1. parserErr \in {"nil", "eof", "failed"} /\ parserErr # "failed"
        BY <1>0, <1>1, <1>3 DEF TypeOK, ReaderType, Outcome
      <3>2. parserErr # "nil" \/ pages = Limit
        BY <1>0, <1>1 DEF Limited, TasksClosed
      <3>3. Len(input) = pages + 0 /\ pages \in Nat
        BY <1>0, <1>1 DEF Counting, TypeOK, ReaderType
      <3> QED
        BY <3>1, <3>2, <3>3
    <2>5. Sequential!Succeed
      <3>1. /\ Sequential!ToSet(Output) = ToSet(Output)
            /\ Sequential!ToSet(saved) = ToSet(saved)
        BY DEF ToSet, Sequential!ToSet
      <3>2. /\ Sequential!PagesOf("found") \subseteq Sequential!ToSet(Output)
            /\ Sequential!PagesOf("broken") \subseteq Sequential!ToSet(saved)
        BY <2>2, <2>3, <3>1
      <3> QED
        BY <1>3, <2>4, <3>2 DEF Sequential!Succeed, Output
    <2> QED
      BY <1>1, <1>2, <2>5 DEF Sequential!Next
  <1>4. CASE result' # "ok"
    <2>1. Sequential!Fail
      BY <1>1, <1>4 DEF Sequential!Fail, Outcome
    <2> QED
      BY <1>1, <1>2, <2>1 DEF Sequential!Next
  <1> QED
    BY <1>3, <1>4

(* Every step is a step of the sequential converter or a stutter. *)
LEMMA RefinementStep ==
  ASSUME IInv, IInv', SuccessIsComplete', [Next]_vars
  PROVE  [Sequential!Next]_Sequential!absVars
  <1>1. CASE ReadPage
    BY <1>1, RefinementRead
  <1>2. CASE DrainNext /\ written' # written
    BY <1>2, RefinementWrite
  <1>3. CASE SavePage /\ saved' # saved
    BY <1>3, RefinementSave
  <1>4. CASE AwaitErrors
    BY <1>4, RefinementFinish
  <1>5. CASE EndOfInput
    BY <1>5, RefinementEnd
  <1>6. CASE ~ReadPage /\ ~(DrainNext /\ written' # written)
             /\ ~(SavePage /\ saved' # saved) /\ ~AwaitErrors /\ ~EndOfInput
    <2>1. UNCHANGED <<input, written, saved, result, parserErr>>
      <3>1. CASE Reader
        BY <1>6, <3>1 DEF Reader, ReachLimit, TakeSlot, SendTask,
           CloseResults, AwaitWriter, writerVars, handlerVars
      <3>2. CASE Writer
        BY <1>6, <3>2 DEF Writer, OpenCollection, ReceiveResult, DrainNext,
           DrainStop, CloseCollection, readerVars, handlerVars
      <3>3. CASE Handler
        BY <1>6, <3>3 DEF Handler, SavePage, DropPage, CloseErrorFile,
           readerVars, writerVars, handlerVars
      <3>4. ASSUME NEW w \in Workers, Worker(w)
            PROVE  UNCHANGED <<input, written, saved, result, parserErr>>
        BY <3>4 DEF Worker, ReceiveTask, ReportPage, DeliverResult, StopWorker,
           readerVars, writerVars, handlerVars
      <3>5. CASE UNCHANGED vars
        BY <3>5 DEF vars, readerVars, writerVars, handlerVars
      <3> QED
        BY <3>1, <3>2, <3>3, <3>4, <3>5 DEF Next, Returned
    <2> QED
      BY <2>1 DEF Sequential!absVars
  <1> QED
    BY <1>1, <1>2, <1>3, <1>4, <1>5, <1>6

(* Every behaviour of the goroutines is, seen through the output and the    *)
(* error file, a behaviour of the sequential conversion.                    *)
THEOREM Refinement == Spec => ImplementsSequential
  <1>1. Init => Sequential!Init
    BY RefinementInit
  <1>2. IInv /\ IInv' /\ SuccessIsComplete' /\ [Next]_vars
          => [Sequential!Next]_Sequential!absVars
    BY RefinementStep
  <1> QED
    BY <1>1, <1>2, Invariance, SuccessCorrect, PTL
       DEF Spec, ImplementsSequential, Sequential!Spec
=============================================================================
