------------------------- MODULE LocalConsumerProofs -------------------------
(***************************************************************************)
(* Proofs about the requests of the user, for any number of requests,      *)
(* rounds of hole punching, frames and restarts of the supplier. What      *)
(* happens to one request leaves the others alone, so the invariant is     *)
(* one of each request by itself.                                          *)
(***************************************************************************)
EXTENDS LocalConsumerProps, FiniteSetTheorems, SequenceTheorems, TLAPS

\* The handler is at its direct attempt.
Asking == {"candidates", "offer", "punch", "write", "exchange"}

Connecting == Asking \ {"candidates"}

\* The supplier has not taken the direct task, and may have taken it.
NotTaken == {"none", "registered", "answered", "refused"}
Direct(r) == IF supplier[r] \in NotTaken THEN 0 ELSE 1

\* How often the task may have been run or posted, where its handler stands.
Ways(r) ==
    IF pc[r] = "idle" THEN 0
    ELSE IF entry[r] = "messages" THEN 1
    ELSE IF pc[r] \in Asking THEN Direct(r)
    ELSE IF entry[r] = "share_consume" \/ pc[r] = "relay" THEN Direct(r) + 1
    ELSE Direct(r) + 2

\* Which steps an entry point has, and who has heard of the request by then.
PlaceInv(r) ==
    /\ entry[r] = "none" <=> pc[r] = "idle"
    /\ entry[r] = "messages" => pc[r] \in {"dispatch", "stream", "done", "gone"}
    /\ entry[r] = "share_consume" => pc[r] \in Asking \union {"relay", "done"}
    /\ entry[r] \in {"none", "messages"} => r \notin offers /\ supplier[r] = "none"
    /\ r \in offers => supplier[r] = "none"
    /\ pc[r] = "candidates" => r \notin offers /\ supplier[r] = "none"
    /\ pc[r] \in Asking \union {"idle"} => posted[r]["relay"] = 0 /\ posted[r]["dispatch"] = 0

\* Runs and posts together stay within the ways; a task that was taken has been run.
RunsInv(r) ==
    /\ runs[r] + posted[r]["relay"] + posted[r]["dispatch"] <= Ways(r)
    /\ supplier[r] \notin NotTaken \union {"lost"} => runs[r] >= 1

\* A report is of a direct task that was sent back, and no post to the relay is about.
ReportInv(r) ==
    report[r] # "none" =>
        /\ supplier[r] \in Sent /\ row[r] = "none" /\ posted[r]["relay"] = 0
        /\ entry[r] # "messages" /\ pc[r] \in {"dispatch", "stream", "done", "gone"}
        /\ report[r] = "completed" =>
            pc[r] = "done" /\ answer[r] = "ok" /\ runs[r] = 1 /\ posted[r]["dispatch"] = 0
        /\ runs[r] + posted[r]["dispatch"] <= (IF entry[r] = "chat_completions" THEN 2 ELSE 1)

RowInv(r) ==
    /\ pc[r] \in Asking \union {"idle", "relay"} => row[r] = "none" /\ answer[r] = "none"
    /\ row[r] = "completed" => pc[r] = "done" /\ answer[r] = "ok"
    /\ row[r] = "failed" /\ entry[r] = "share_consume" => answer[r] = "error"
    /\ entry[r] = "chat_completions" /\ (pc[r] \in {"dispatch", "stream"} \/ answer[r] = "sse") =>
        row[r] = "failed" \/ report[r] = "failed"

Fine(r) == PlaceInv(r) /\ RunsInv(r) /\ ReportInv(r) /\ RowInv(r)

ConsumerInv == RequestTypes /\ \A r \in Requests : Fine(r)

\* Nothing has happened to request r.
Same(r) ==
    /\ entry'[r] = entry[r] /\ pc'[r] = pc[r] /\ supplier'[r] = supplier[r]
    /\ (r \in offers' <=> r \in offers) /\ posted'[r] = posted[r] /\ runs'[r] = runs[r]
    /\ row'[r] = row[r] /\ report'[r] = report[r] /\ answer'[r] = answer[r]

LEMMA SameIsFine == ASSUME NEW r \in Requests, Fine(r), Same(r) PROVE Fine(r)'
  <1>1. PlaceInv(r)'
    BY DEF Same, Fine, PlaceInv
  <1>2. RunsInv(r)'
    BY DEF Same, Fine, RunsInv, Ways, Direct
  <1>3. ReportInv(r)' /\ RowInv(r)'
    BY DEF Same, Fine, ReportInv, RowInv
  <1> QED
    BY <1>1, <1>2, <1>3 DEF Fine

LEMMA InitFine == ASSUME Init PROVE ConsumerInv
  <1>1. RequestTypes
    <2>1. <<>> \in Seq(Frames) /\ <<>> \in Seq(Events)
      OBVIOUS
    <2>2. frames \in [Requests -> Seq(Frames)] /\ events \in [Requests -> Seq(Events)]
      BY <2>1 DEF Init
    <2>3. /\ posted \in [Requests -> [Posts -> Nat]] /\ runs \in [Requests -> Nat]
          /\ tries \in [Requests -> 0 .. PunchTries] /\ crashes \in 0 .. MaxCrashes
      BY ConsumerAssumption DEF Init
    <2>4. /\ entry \in [Requests -> Entries \union {"none"}] /\ streamed \in [Requests -> BOOLEAN]
          /\ pc \in [Requests -> Steps] /\ supplier \in [Requests -> Supplier]
      BY DEF Init, Steps, Supplier
    <2> QED
      BY <2>2, <2>3, <2>4 DEF Init, RequestTypes
  <1>2. ASSUME NEW r \in Requests PROVE Fine(r)
    <2>1. /\ entry[r] = "none" /\ pc[r] = "idle" /\ supplier[r] = "none" /\ r \notin offers
          /\ posted[r]["relay"] = 0 /\ posted[r]["dispatch"] = 0 /\ runs[r] = 0
          /\ row[r] = "none" /\ report[r] = "none" /\ answer[r] = "none"
      BY DEF Init, Posts
    <2> QED
      BY <2>1 DEF Fine, PlaceInv, RunsInv, ReportInv, RowInv, Ways, NotTaken, Asking
  <1> QED
    BY <1>1, <1>2 DEF ConsumerInv

----------------------------------------------------------------------------
(* The handler.                                                            *)

\* A post adds one to what is posted.
LEMMA Posting ==
    ASSUME RequestTypes, NEW r \in Requests, NEW p \in Posts, Post(r, p)
    PROVE  /\ pc' = [pc EXCEPT ![r] = p] /\ p \in Steps
           /\ posted' \in [Requests -> [Posts -> Nat]] /\ reply' \in [Requests -> {"none", "ok"}]
           /\ posted'[r][p] = posted[r][p] + 1 /\ \A q \in Posts \ {p} : posted'[r][q] = posted[r][q]
           /\ \A q \in Requests \ {r} : posted'[q] = posted[q]
  BY DEF Post, GoTo, RequestTypes, Steps

\* A request that comes in stands at one of four steps.
LEMMA EnterKeepsInv ==
    ASSUME ConsumerInv, NEW r \in Requests, NEW e \in Entries, Enter(r, e),
           \/ Refuse(r)
           \/ SeekSupplier(r) /\ e # "messages"
           \/ PostRelay(r) /\ UNCHANGED <<offers, answer>> /\ e # "messages"
           \/ PostDispatch(r) /\ UNCHANGED <<offers, answer>> /\ e = "messages"
    PROVE  ConsumerInv'
  <1>1. /\ pc[r] = "idle" /\ entry' = [entry EXCEPT ![r] = e]
        /\ \E s \in BOOLEAN : streamed' = [streamed EXCEPT ![r] = s]
        /\ UNCHANGED <<tries, conn, supplier, sessions, runs, row, report, frames, events, crashes>>
    BY DEF Enter
  <1>2. RequestTypes /\ Fine(r)
    BY DEF ConsumerInv
  <1>3. /\ runs[r] = 0 /\ posted[r]["relay"] = 0 /\ posted[r]["dispatch"] = 0
        /\ supplier[r] = "none" /\ r \notin offers /\ report[r] = "none" /\ row[r] = "none"
        /\ answer[r] = "none" /\ entry'[r] = e
    <2>1. runs[r] \in Nat /\ posted[r]["relay"] \in Nat /\ posted[r]["dispatch"] \in Nat
      BY <1>2 DEF RequestTypes, Posts
    <2>2. runs[r] + posted[r]["relay"] + posted[r]["dispatch"] <= 0
      BY <1>1, <1>2 DEF Fine, RunsInv, Ways
    <2>3. report[r] = "none"
      BY <1>1, <1>2 DEF Fine, ReportInv
    <2> QED
      BY <1>1, <1>2, <2>1, <2>2, <2>3 DEF Fine, PlaceInv, RowInv, RequestTypes
  <1>4. /\ offers' \in SUBSET Requests /\ posted' \in [Requests -> [Posts -> Nat]]
        /\ reply' \in [Requests -> {"none", "ok"}]
        /\ answer' \in [Requests -> {"none", "ok", "error", "sse"}] /\ pc' \in [Requests -> Steps]
        /\ \A q \in Requests \ {r} : Same(q)
        /\ Fine(r)'
    <2>1. CASE Refuse(r)
      <3>1. /\ pc' = [pc EXCEPT ![r] = "done"] /\ answer' = [answer EXCEPT ![r] = "error"]
            /\ UNCHANGED <<offers, posted, reply>>
        BY <2>1 DEF Refuse, Answer, GoTo
      <3>2. Fine(r)'
        BY <1>1, <1>2, <1>3, <3>1
           DEF RequestTypes, Fine, PlaceInv, RunsInv, ReportInv, RowInv, Ways, Direct, NotTaken, Asking, Entries
      <3> QED
        BY <1>1, <1>2, <3>1, <3>2 DEF RequestTypes, Same, Steps
    <2>2. CASE SeekSupplier(r) /\ e # "messages"
      <3>1. /\ pc' = [pc EXCEPT ![r] = "candidates"]
            /\ UNCHANGED <<offers, posted, reply, answer>>
        BY <2>2 DEF SeekSupplier, GoTo
      <3>2. Fine(r)'
        BY <1>1, <1>2, <1>3, <2>2, <3>1
           DEF RequestTypes, Fine, PlaceInv, RunsInv, ReportInv, RowInv, Ways, Direct, NotTaken, Asking, Entries
      <3> QED
        BY <1>1, <1>2, <3>1, <3>2 DEF RequestTypes, Same, Steps
    <2>3. CASE PostRelay(r) /\ UNCHANGED <<offers, answer>> /\ e # "messages"
      <3>1. Post(r, "relay") /\ "relay" \in Posts
        BY <2>3 DEF PostRelay, Posts
      <3>2. /\ pc' = [pc EXCEPT ![r] = "relay"] /\ posted' \in [Requests -> [Posts -> Nat]]
            /\ reply' \in [Requests -> {"none", "ok"}] /\ "relay" \in Steps
            /\ posted'[r]["relay"] = 1 /\ posted'[r]["dispatch"] = 0
            /\ \A q \in Requests \ {r} : posted'[q] = posted[q]
        BY <1>2, <1>3, <3>1, Posting DEF Posts
      <3>3. /\ entry'[r] \in {"chat_completions", "share_consume"} /\ pc'[r] = "relay"
            /\ runs'[r] = 0 /\ supplier'[r] = "none" /\ r \notin offers' /\ report'[r] = "none"
            /\ row'[r] = "none" /\ answer'[r] = "none"
        BY <1>1, <1>2, <1>3, <2>3, <3>2 DEF RequestTypes, Entries
      <3>4. PlaceInv(r)' /\ ReportInv(r)' /\ RowInv(r)'
        BY <3>2, <3>3 DEF PlaceInv, ReportInv, RowInv, Asking
      <3>5. RunsInv(r)'
        BY <3>2, <3>3 DEF RunsInv, Ways, Direct, NotTaken, Asking
      <3>6. Fine(r)'
        BY <3>4, <3>5 DEF Fine
      <3> QED
        BY <1>1, <1>2, <2>3, <3>2, <3>6 DEF RequestTypes, Same
    <2>4. CASE PostDispatch(r) /\ UNCHANGED <<offers, answer>> /\ e = "messages"
      <3>1. Post(r, "dispatch") /\ "dispatch" \in Posts
        BY <2>4 DEF PostDispatch, Posts
      <3>2. /\ pc' = [pc EXCEPT ![r] = "dispatch"] /\ posted' \in [Requests -> [Posts -> Nat]]
            /\ reply' \in [Requests -> {"none", "ok"}] /\ "dispatch" \in Steps
            /\ posted'[r]["dispatch"] = 1 /\ posted'[r]["relay"] = 0
            /\ \A q \in Requests \ {r} : posted'[q] = posted[q]
        BY <1>2, <1>3, <3>1, Posting DEF Posts
      <3>3. Fine(r)'
        BY <1>1, <1>2, <1>3, <2>4, <3>2
           DEF RequestTypes, Fine, PlaceInv, RunsInv, ReportInv, RowInv, Ways, Direct, NotTaken, Asking
      <3> QED
        BY <1>1, <1>2, <2>4, <3>2, <3>3 DEF RequestTypes, Same
    <2> QED
      BY <2>1, <2>2, <2>3, <2>4
  <1>5. RequestTypes'
    BY <1>1, <1>2, <1>4 DEF RequestTypes
  <1> QED
    BY <1>4, <1>5, SameIsFine DEF ConsumerInv

LEMMA EntriesKeepInv ==
    ASSUME ConsumerInv, NEW r \in Requests, ChatCompletions(r) \/ Messages(r) \/ ShareConsume(r)
    PROVE  ConsumerInv'
  <1>1. CASE ChatCompletions(r)
    BY <1>1, EnterKeepsInv DEF ChatCompletions, Entries
  <1>2. CASE Messages(r)
    BY <1>2, EnterKeepsInv DEF Messages, Entries, PostDispatch
  <1>3. CASE ShareConsume(r)
    BY <1>3, EnterKeepsInv DEF ShareConsume, Entries
  <1> QED
    BY <1>1, <1>2, <1>3

\* A step of the direct attempt goes on with it or falls back to the relay.
LEMMA AttemptKeepsInv ==
    ASSUME ConsumerInv, NEW r \in Requests, pc[r] \in Asking,
           UNCHANGED <<offers, entry, streamed, supplier, sessions, runs, row, report, answer, frames,
                       events, crashes>>,
           tries' \in [Requests -> 0 .. PunchTries], conn' \in [Requests -> BOOLEAN],
           \/ \E s \in Connecting : pc' = [pc EXCEPT ![r] = s] /\ UNCHANGED <<posted, reply>>
           \/ PostRelay(r)
    PROVE  ConsumerInv'
  <1>1. RequestTypes /\ Fine(r)
    BY DEF ConsumerInv
  <1>2. CASE \E s \in Connecting : pc' = [pc EXCEPT ![r] = s] /\ UNCHANGED <<posted, reply>>
    <2>1. PICK s \in Connecting : pc' = [pc EXCEPT ![r] = s] /\ UNCHANGED <<posted, reply>>
      BY <1>2
    <2>2. RequestTypes' /\ \A q \in Requests \ {r} : Same(q)
      BY <1>1, <2>1 DEF RequestTypes, Same, Connecting, Asking, Steps
    <2>3. pc'[r] \in Asking /\ "idle" \notin Asking /\ pc'[r] # "candidates"
      BY <1>1, <2>1 DEF RequestTypes, Connecting, Asking
    <2>4. Fine(r)'
      BY <1>1, <2>1, <2>3
         DEF Fine, PlaceInv, RunsInv, ReportInv, RowInv, Ways, Direct, NotTaken, Asking
    <2> QED
      BY <2>2, <2>4, SameIsFine DEF ConsumerInv
  <1>3. CASE PostRelay(r)
    <2>1. Post(r, "relay") /\ "relay" \in Posts
      BY <1>3 DEF PostRelay, Posts
    <2>2. posted[r]["relay"] = 0 /\ posted[r]["dispatch"] = 0 /\ entry[r] # "none" /\ pc[r] # "idle"
      BY <1>1 DEF Fine, PlaceInv, Asking
    <2>3. /\ pc' = [pc EXCEPT ![r] = "relay"] /\ posted' \in [Requests -> [Posts -> Nat]]
          /\ reply' \in [Requests -> {"none", "ok"}] /\ "relay" \in Steps
          /\ posted'[r]["relay"] = 1 /\ posted'[r]["dispatch"] = 0
          /\ \A q \in Requests \ {r} : posted'[q] = posted[q]
      BY <1>1, <2>1, <2>2, Posting DEF Posts
    <2>4. RequestTypes' /\ \A q \in Requests \ {r} : Same(q)
      BY <1>1, <2>3 DEF RequestTypes, Same
    <2>5. Fine(r)'
      <3>1. pc'[r] = "relay" /\ runs[r] \in Nat /\ Direct(r) \in Nat
        BY <1>1, <2>3 DEF RequestTypes, Direct
      <3>2. runs[r] <= Direct(r)
        BY <1>1, <2>2, <3>1 DEF Fine, RunsInv, Ways, PlaceInv, Asking
      <3>3. PlaceInv(r)'
        BY <1>1, <2>2, <2>3, <3>1 DEF Fine, PlaceInv, Asking
      <3>4. RunsInv(r)'
        BY <1>1, <2>3, <3>1, <3>2, <3>3 DEF Fine, RunsInv, PlaceInv, Ways, Direct, Asking
      <3>5. ReportInv(r)' /\ RowInv(r)'
        BY <1>1, <2>3, <3>1 DEF Fine, ReportInv, RowInv, Asking
      <3> QED
        BY <3>3, <3>4, <3>5 DEF Fine
    <2> QED
      BY <2>4, <2>5, SameIsFine DEF ConsumerInv
  <1> QED
    BY <1>2, <1>3

LEMMA DirectStepsKeepInv ==
    ASSUME ConsumerInv, NEW r \in Requests, OfferReturns(r) \/ Punch(r) \/ WriteTask(r)
    PROVE  ConsumerInv'
  <1>1. /\ UNCHANGED <<offers, entry, streamed, supplier, sessions, runs, row, report, answer, frames,
                       events, crashes>>
        /\ pc[r] \in Connecting /\ pc[r] \in Asking
        /\ "punch" \in Connecting /\ "write" \in Connecting /\ "exchange" \in Connecting
    BY DEF OfferReturns, Punch, WriteTask, Asking, Connecting
  <1>2. RequestTypes
    BY DEF ConsumerInv
  <1>3. tries' \in [Requests -> 0 .. PunchTries] /\ conn' \in [Requests -> BOOLEAN]
    <2>1. conn' \in [Requests -> BOOLEAN]
      BY <1>2 DEF OfferReturns, Punch, WriteTask, FallBack, RequestTypes
    <2>2. tries' = tries \/ (tries[r] < PunchTries /\ tries' = [tries EXCEPT ![r] = @ + 1])
      BY DEF OfferReturns, Punch, MoreTries, WriteTask
    <2>3. tries[r] \in Nat
      BY <1>2, ConsumerAssumption DEF RequestTypes
    <2> QED
      BY <1>2, <2>1, <2>2, <2>3, ConsumerAssumption DEF RequestTypes
  <1>4. \/ \E s \in Connecting : pc' = [pc EXCEPT ![r] = s] /\ UNCHANGED <<posted, reply>>
        \/ PostRelay(r)
    <2>1. pc = [pc EXCEPT ![r] = pc[r]]
      BY <1>2 DEF RequestTypes
    <2> QED
      BY <1>1, <2>1 DEF OfferReturns, Punch, WriteTask, FallBack, GoTo
  <1> QED
    BY <1>1, <1>3, <1>4, AttemptKeepsInv

\* The session is offered to the supplier that has not heard of it.
LEMMA AskingKeepsInv == ASSUME ConsumerInv, NEW r \in Requests, AskForSupplier(r) PROVE ConsumerInv'
  <1>1. /\ pc[r] = "candidates" /\ pc' = [pc EXCEPT ![r] = "offer"] /\ offers' = offers \union {r}
        /\ UNCHANGED <<entry, streamed, tries, conn, supplier, sessions, posted, reply, runs, row,
                       report, answer, frames, events, crashes>>
    BY DEF AskForSupplier, GoTo
  <1>2. RequestTypes /\ Fine(r)
    BY DEF ConsumerInv
  <1>3. pc'[r] = "offer" /\ offers' \in SUBSET Requests /\ pc' \in [Requests -> Steps]
    BY <1>1, <1>2 DEF RequestTypes, Steps
  <1>4. RequestTypes' /\ \A q \in Requests \ {r} : Same(q)
    BY <1>1, <1>2, <1>3 DEF RequestTypes, Same
  <1>5. entry[r] \notin {"none", "messages"}
    BY <1>1, <1>2 DEF Fine, PlaceInv
  <1>6. Fine(r)'
    BY <1>1, <1>2, <1>3, <1>5 DEF Fine, PlaceInv, RunsInv, ReportInv, RowInv, Ways, Direct, Asking
  <1> QED
    BY <1>4, <1>6, SameIsFine DEF ConsumerInv

\* The result of a direct task: it has been run once, and neither the relay nor the
\* handler has posted it yet.
LEMMA ReadResultKeepsInv == ASSUME ConsumerInv, NEW r \in Requests, ReadResult(r) PROVE ConsumerInv'
  <1>1. /\ pc[r] = "exchange" /\ pc[r] \in Asking
        /\ UNCHANGED <<offers, entry, streamed, tries, supplier, sessions, runs, row, frames,
                       events, crashes>>
    BY DEF ReadResult, Asking
  <1>2. RequestTypes /\ Fine(r)
    BY DEF ConsumerInv
  <1>3. CASE FallBack(r) /\ UNCHANGED <<report, answer>>
    <2>1. PostRelay(r) /\ conn' \in [Requests -> BOOLEAN] /\ tries' \in [Requests -> 0 .. PunchTries]
      BY <1>1, <1>2, <1>3 DEF FallBack, RequestTypes
    <2> QED
      BY <1>1, <1>3, <2>1, AttemptKeepsInv
  <1>4. CASE /\ conn' = [conn EXCEPT ![r] = FALSE]
             /\ \E status \in {"completed", "failed"} :
                 /\ supplier[r] \in SentAs(status)
                 /\ report' = [report EXCEPT ![r] = status]
                 /\ IF status = "completed"
                    THEN Answer(r, "ok") /\ UNCHANGED <<posted, reply>>
                    ELSE Failed(r)
    <2>1. PICK status \in {"completed", "failed"} :
            /\ supplier[r] \in SentAs(status)
            /\ report' = [report EXCEPT ![r] = status]
            /\ IF status = "completed"
               THEN Answer(r, "ok") /\ UNCHANGED <<posted, reply>>
               ELSE Failed(r)
      BY <1>4
    <2>2. /\ supplier[r] \in Sent /\ supplier[r] \notin NotTaken \union {"lost"}
          /\ posted[r]["relay"] = 0 /\ posted[r]["dispatch"] = 0
          /\ entry[r] \in {"share_consume", "chat_completions"}
          /\ row[r] = "none" /\ answer[r] = "none"
      BY <1>1, <1>2, <2>1 DEF Sent, SentAs, NotTaken, Fine, PlaceInv, RowInv, RequestTypes, Entries
    <2>3. runs[r] = 1 /\ Direct(r) = 1
      <3>1. runs[r] \in Nat /\ runs[r] >= 1 /\ Direct(r) = 1
        BY <1>2, <2>2 DEF Fine, RunsInv, RequestTypes, Direct
      <3>2. Ways(r) = 1
        BY <1>1, <2>2, <3>1 DEF Ways
      <3> QED
        BY <1>2, <2>2, <3>1, <3>2 DEF Fine, RunsInv
    <2>4. /\ report' \in [Requests -> {"none", "completed", "failed"}] /\ report'[r] = status
          /\ conn' \in [Requests -> BOOLEAN] /\ \A q \in Requests \ {r} : report'[q] = report[q]
      BY <1>2, <1>4, <2>1 DEF RequestTypes
    <2>5. CASE \E a \in {"ok", "error"} :
                /\ Answer(r, a) /\ UNCHANGED <<posted, reply>> /\ (status = "completed" <=> a = "ok")
      <3>1. PICK a \in {"ok", "error"} :
              /\ Answer(r, a) /\ UNCHANGED <<posted, reply>> /\ (status = "completed" <=> a = "ok")
        BY <2>5
      <3>2. /\ pc' = [pc EXCEPT ![r] = "done"] /\ answer' = [answer EXCEPT ![r] = a] /\ "done" \in Steps
            /\ pc'[r] = "done" /\ answer'[r] = a
        BY <1>2, <3>1 DEF Answer, GoTo, RequestTypes, Steps
      <3>3. RequestTypes' /\ \A q \in Requests \ {r} : Same(q)
        BY <1>1, <1>2, <2>4, <3>1, <3>2 DEF RequestTypes, Same
      <3>4. Fine(r)'
        BY <1>1, <1>2, <2>2, <2>3, <2>4, <3>1, <3>2
           DEF Fine, PlaceInv, RunsInv, ReportInv, RowInv, Ways, Direct, Asking
      <3> QED
        BY <3>3, <3>4, SameIsFine DEF ConsumerInv
    <2>6. CASE status = "failed" /\ entry[r] = "chat_completions" /\ PostDispatch(r) /\ UNCHANGED answer
      <3>1. Post(r, "dispatch") /\ "dispatch" \in Posts
        BY <2>6 DEF PostDispatch, Posts
      <3>2. /\ pc' = [pc EXCEPT ![r] = "dispatch"] /\ posted' \in [Requests -> [Posts -> Nat]]
            /\ reply' \in [Requests -> {"none", "ok"}] /\ "dispatch" \in Steps
            /\ posted'[r]["dispatch"] = 1 /\ posted'[r]["relay"] = 0
            /\ \A q \in Requests \ {r} : posted'[q] = posted[q]
        BY <1>2, <2>2, <3>1, Posting DEF Posts
      <3>3. RequestTypes' /\ \A q \in Requests \ {r} : Same(q)
        BY <1>1, <1>2, <2>4, <2>6, <3>2 DEF RequestTypes, Same
      <3>4. pc'[r] = "dispatch"
        BY <1>2, <3>2 DEF RequestTypes
      <3>5. Fine(r)'
        BY <1>1, <1>2, <2>2, <2>3, <2>4, <2>6, <3>2, <3>4
           DEF Fine, PlaceInv, RunsInv, ReportInv, RowInv, Ways, Direct, Asking
      <3> QED
        BY <3>3, <3>5, SameIsFine DEF ConsumerInv
    <2> QED
      BY <2>1, <2>2, <2>5, <2>6 DEF Failed
  <1> QED
    BY <1>3, <1>4 DEF ReadResult

\* The relay has been posted once, and run or refused or neither.
LEMMA RelayReturnsKeepsInv == ASSUME ConsumerInv, NEW r \in Requests, RelayReturns(r) PROVE ConsumerInv'
  <1>1. /\ pc[r] = "relay"
        /\ UNCHANGED <<offers, entry, streamed, tries, conn, supplier, sessions, runs, report,
                       frames, events, crashes>>
    BY DEF RelayReturns
  <1>2. RequestTypes /\ Fine(r)
    BY DEF ConsumerInv
  <1>3. /\ entry[r] \in {"share_consume", "chat_completions"} /\ report[r] = "none"
        /\ runs[r] \in Nat /\ posted[r]["relay"] \in Nat /\ posted[r]["dispatch"] \in Nat
        /\ Direct(r) \in {0, 1}
        /\ runs[r] + posted[r]["relay"] + posted[r]["dispatch"] <= Direct(r) + 1
    <2>1. entry[r] \in {"share_consume", "chat_completions"} /\ report[r] = "none"
      BY <1>1, <1>2 DEF RequestTypes, Fine, PlaceInv, ReportInv, Entries
    <2>2. Ways(r) = Direct(r) + 1
      BY <1>1, <2>1 DEF Ways, Asking
    <2> QED
      BY <1>2, <2>1, <2>2 DEF RequestTypes, Posts, Fine, RunsInv, Direct
  <1>4. \A status \in {"completed", "failed"} : LogRow(r, status) =>
            /\ row' \in [Requests -> {"none", "completed", "failed"}] /\ row'[r] = status
            /\ \A q \in Requests \ {r} : row'[q] = row[q]
    BY <1>2 DEF LogRow, RequestTypes
  <1>5. ASSUME NEW status \in {"completed", "failed"}, NEW a \in {"ok", "error"},
               LogRow(r, status), Answer(r, a), UNCHANGED <<posted, reply>>, status = "completed" <=> a = "ok",
               status = "failed" => entry[r] = "share_consume"
        PROVE  ConsumerInv'
    <2>1. /\ pc' = [pc EXCEPT ![r] = "done"] /\ answer' = [answer EXCEPT ![r] = a] /\ "done" \in Steps
          /\ pc'[r] = "done" /\ answer'[r] = a
      BY <1>2, <1>5 DEF Answer, GoTo, RequestTypes, Steps
    <2>2. RequestTypes' /\ \A q \in Requests \ {r} : Same(q)
      BY <1>1, <1>2, <1>4, <1>5, <2>1 DEF RequestTypes, Same
    <2>3. Fine(r)'
      BY <1>1, <1>2, <1>3, <1>4, <1>5, <2>1
         DEF Fine, PlaceInv, RunsInv, ReportInv, RowInv, Ways, Direct, Asking
    <2> QED
      BY <2>2, <2>3, SameIsFine DEF ConsumerInv
  <1>6. ASSUME LogRow(r, "failed"), PostDispatch(r), UNCHANGED answer, entry[r] = "chat_completions"
        PROVE  ConsumerInv'
    <2>1. Post(r, "dispatch") /\ "dispatch" \in Posts
      BY <1>6 DEF PostDispatch, Posts
    <2>2. /\ pc' = [pc EXCEPT ![r] = "dispatch"] /\ posted' \in [Requests -> [Posts -> Nat]]
          /\ reply' \in [Requests -> {"none", "ok"}] /\ "dispatch" \in Steps
          /\ posted'[r]["dispatch"] = posted[r]["dispatch"] + 1 /\ posted'[r]["relay"] = posted[r]["relay"]
          /\ \A q \in Requests \ {r} : posted'[q] = posted[q]
      BY <1>2, <2>1, Posting DEF Posts
    <2>3. RequestTypes' /\ \A q \in Requests \ {r} : Same(q)
      BY <1>1, <1>2, <1>4, <1>6, <2>2 DEF RequestTypes, Same
    <2>4. pc'[r] = "dispatch" /\ answer[r] = "none" /\ row'[r] = "failed"
      BY <1>1, <1>2, <1>4, <1>6, <2>2 DEF RequestTypes, Fine, RowInv
    <2>5. PlaceInv(r)' /\ ReportInv(r)' /\ RowInv(r)'
      BY <1>1, <1>2, <1>3, <1>6, <2>2, <2>4 DEF Fine, PlaceInv, ReportInv, RowInv, Asking
    <2>6. RunsInv(r)'
      BY <1>1, <1>2, <1>3, <1>6, <2>2, <2>4 DEF Fine, RunsInv, Ways, Direct, Asking
    <2> QED
      BY <2>3, <2>5, <2>6, SameIsFine DEF ConsumerInv, Fine
  <1> QED
    BY <1>3, <1>5, <1>6 DEF RelayReturns, Failed

\* The handler's own post returns, a streamed answer ends, or the user leaves: nothing is
\* posted any more.
LEMMA EndingKeepsInv ==
    ASSUME ConsumerInv, NEW r \in Requests, NEW s \in {"stream", "done", "gone"},
           pc[r] \notin {"idle", "done", "gone"}, pc' = [pc EXCEPT ![r] = s],
           UNCHANGED <<offers, entry, streamed, tries, supplier, sessions, posted, reply, runs,
                       row, report, crashes>>,
           conn' \in [Requests -> BOOLEAN],
           frames' \in [Requests -> Seq(Frames)], events' \in [Requests -> Seq(Events)],
           \/ s = "gone" /\ answer' = answer /\ entry[r] # "share_consume"
           \/ s = "done" /\ answer' = answer /\ pc[r] = "stream"
           \/ s = "done" /\ pc[r] = "dispatch"
                /\ \E a \in {"ok", "error"} : answer' = [answer EXCEPT ![r] = a]
           \/ s = "stream" /\ pc[r] = "dispatch" /\ answer' = [answer EXCEPT ![r] = "sse"]
    PROVE  ConsumerInv'
  <1>1. RequestTypes /\ Fine(r)
    BY DEF ConsumerInv
  <1>2. RequestTypes' /\ \A q \in Requests \ {r} : Same(q)
    <2>1. /\ pc' \in [Requests -> Steps] /\ \A q \in Requests \ {r} : pc'[q] = pc[q]
          /\ answer' \in [Requests -> {"none", "ok", "error", "sse"}]
          /\ \A q \in Requests \ {r} : answer'[q] = answer[q]
      <3>1. pc \in [Requests -> Steps] /\ s \in Steps
        BY <1>1 DEF RequestTypes, Steps
      <3>2. answer \in [Requests -> {"none", "ok", "error", "sse"}]
        BY <1>1 DEF RequestTypes
      <3>3. pc' \in [Requests -> Steps] /\ \A q \in Requests \ {r} : pc'[q] = pc[q]
        BY <3>1
      <3>4. answer' = answer \/ \E a \in {"ok", "error", "sse"} : answer' = [answer EXCEPT ![r] = a]
        OBVIOUS
      <3>5. /\ answer' \in [Requests -> {"none", "ok", "error", "sse"}]
            /\ \A q \in Requests \ {r} : answer'[q] = answer[q]
        BY <3>2, <3>4
      <3> QED
        BY <3>3, <3>5
    <2>2. RequestTypes'
      BY <1>1, <2>1 DEF RequestTypes
    <2> QED
      BY <2>1, <2>2 DEF Same
  <1>3. pc'[r] = s /\ answer'[r] \in {answer[r], "ok", "error", "sse"} /\ entry[r] # "none"
    BY <1>1 DEF RequestTypes, Fine, PlaceInv
  <1>4. PlaceInv(r)'
    BY <1>1, <1>3 DEF Fine, PlaceInv, Asking
  <1>5. RunsInv(r)'
    <2>1. /\ Direct(r) \in {0, 1} /\ Direct(r)' = Direct(r) /\ entry'[r] = entry[r]
          /\ runs[r] \in Nat /\ posted[r]["relay"] \in Nat /\ posted[r]["dispatch"] \in Nat
      BY <1>1 DEF Direct, RequestTypes, Posts
    <2>2. Ways(r) <= Ways(r)' /\ Ways(r) \in Nat /\ Ways(r)' \in Nat
      BY <1>3, <2>1 DEF Ways, Asking
    <2> QED
      BY <1>1, <2>1, <2>2 DEF Fine, RunsInv
  <1>6. ReportInv(r)'
    BY <1>1, <1>3 DEF Fine, ReportInv
  <1>7. RowInv(r)'
    BY <1>1, <1>3 DEF Fine, PlaceInv, ReportInv, RowInv, RequestTypes, Entries, Asking
  <1> QED
    BY <1>2, <1>4, <1>5, <1>6, <1>7, SameIsFine DEF ConsumerInv, Fine

\* What is sent to the user are events.
LEMMA EventsAre ==
    ASSUME RequestTypes, NEW r \in Requests
    PROVE  /\ \A f \in Frames : OpenAIEvents(f) \in Seq(Events) /\ AnthropicEvents(r, f) \in Seq(Events)
           /\ \A rest \in Frames \union {"none"} : OpenAITail(rest) \in Seq(Events)
           /\ \A broken \in BOOLEAN : AnthropicTail(r, broken) \in Seq(Events)
  <1>1. /\ <<>> \in Seq(Events) /\ <<"delta">> \in Seq(Events)
        /\ <<"finish">> \in Seq(Events) /\ <<"finish_with_error">> \in Seq(Events)
        /\ <<"message_start">> \in Seq(Events) /\ <<"message_start", "content_block_start">> \in Seq(Events)
        /\ <<"error", "message_stop">> \in Seq(Events)
    BY DEF Events
  <1>2. Closing("end_turn") \in Seq(Events) /\ Closing("stop_error") \in Seq(Events)
    BY DEF Closing, Events
  <1>3. Closing("stop_error") # <<>> /\ Tail(Closing("stop_error")) \in Seq(Events)
    <2>1. <<"content_block_stop", "stop_error", "message_stop">> # <<>>
      OBVIOUS
    <2>2. Closing("stop_error") # <<>>
      BY <2>1 DEF Closing
    <2> QED
      BY <1>2, <2>2, HeadTailProperties
  <1>4. \A s, t \in Seq(Events) : s \o t \in Seq(Events)
    OBVIOUS
  <1>5. ASSUME NEW f \in Frames PROVE OpenAIEvents(f) \in Seq(Events) /\ AnthropicEvents(r, f) \in Seq(Events)
    <2>1. f \in {"text", "completed", "failed"}
      BY DEF Frames
    <2>2. OpenAIEvents(f) \in Seq(Events)
      BY <1>1, <2>1 DEF OpenAIEvents
    <2>3. CASE f = "text"
      BY <1>1, <1>4, <2>2, <2>3 DEF AnthropicEvents
    <2>4. CASE f = "completed"
      BY <1>1, <1>2, <1>4, <2>2, <2>4 DEF AnthropicEvents
    <2>5. CASE f = "failed"
      BY <1>2, <1>3, <2>2, <2>5 DEF AnthropicEvents
    <2> QED
      BY <2>1, <2>3, <2>4, <2>5
  <1>6. ASSUME NEW rest \in Frames \union {"none"} PROVE OpenAITail(rest) \in Seq(Events)
    BY <1>1 DEF OpenAITail
  <1>7. ASSUME NEW broken \in BOOLEAN PROVE AnthropicTail(r, broken) \in Seq(Events)
    BY <1>1, <1>2, <1>4 DEF AnthropicTail
  <1> QED
    BY <1>5, <1>6, <1>7

LEMMA AnswersKeepInv ==
    ASSUME ConsumerInv, NEW r \in Requests,
           \/ DispatchReturns(r) \/ ClientLeaves(r)
           \/ \E broken \in BOOLEAN, rest \in Frames \union {"none"} : StreamEnds(r, broken, rest)
    PROVE  ConsumerInv'
  <1>1. RequestTypes
    BY DEF ConsumerInv
  <1>2. CASE DispatchReturns(r)
    <2>1. /\ frames' \in [Requests -> Seq(Frames)] /\ events' \in [Requests -> Seq(Events)]
          /\ conn' \in [Requests -> BOOLEAN]
      BY <1>1, <1>2 DEF DispatchReturns, RequestTypes
    <2>2. \/ /\ pc' = [pc EXCEPT ![r] = "done"]
             /\ \E a \in {"ok", "error"} : answer' = [answer EXCEPT ![r] = a]
          \/ pc' = [pc EXCEPT ![r] = "stream"] /\ answer' = [answer EXCEPT ![r] = "sse"]
      BY <1>2 DEF DispatchReturns, NonStreamed, Answer, GoTo
    <2> QED
      BY <1>2, <2>1, <2>2, EndingKeepsInv DEF DispatchReturns
  <1>3. CASE ClientLeaves(r)
    <2>1. /\ frames' \in [Requests -> Seq(Frames)] /\ events' \in [Requests -> Seq(Events)]
          /\ conn' \in [Requests -> BOOLEAN]
      BY <1>1, <1>3 DEF ClientLeaves, RequestTypes
    <2> QED
      BY <1>3, <2>1, EndingKeepsInv DEF ClientLeaves, GoTo
  <1>4. ASSUME NEW broken \in BOOLEAN, NEW rest \in Frames \union {"none"}, StreamEnds(r, broken, rest)
        PROVE  ConsumerInv'
    <2>1. conn' \in [Requests -> BOOLEAN]
      BY <1>1, <1>4 DEF StreamEnds, RequestTypes
    <2>2. frames[r] \in Seq(Frames) /\ events[r] \in Seq(Events)
      BY <1>1 DEF RequestTypes
    <2>3. /\ \A t \in Seq(Events) : events[r] \o t \in Seq(Events)
          /\ \A f \in Frames : Append(frames[r], f) \in Seq(Frames)
      BY <2>2
    <2>4. events[r] \o OpenAITail(rest) \in Seq(Events) /\ events[r] \o AnthropicTail(r, broken) \in Seq(Events)
      BY <1>1, <2>3, EventsAre
    <2>5. /\ frames' = frames \/ (rest \in Frames /\ frames' = [frames EXCEPT ![r] = Append(@, rest)])
          /\ \/ events' = [events EXCEPT ![r] = @ \o OpenAITail(rest)]
             \/ events' = [events EXCEPT ![r] = @ \o AnthropicTail(r, broken)]
      BY <1>4 DEF StreamEnds
    <2>6. frames' \in [Requests -> Seq(Frames)] /\ events' \in [Requests -> Seq(Events)]
      <3>1. ASSUME NEW e \in Seq(Events), events' = [events EXCEPT ![r] = e]
            PROVE  events' \in [Requests -> Seq(Events)]
        BY <1>1, <3>1 DEF RequestTypes
      <3>2. ASSUME NEW l \in Seq(Frames), frames' = [frames EXCEPT ![r] = l]
            PROVE  frames' \in [Requests -> Seq(Frames)]
        BY <1>1, <3>2 DEF RequestTypes
      <3>3. frames \in [Requests -> Seq(Frames)]
        BY <1>1 DEF RequestTypes
      <3>4. frames' \in [Requests -> Seq(Frames)]
        BY <2>3, <2>5, <3>2, <3>3
      <3>5. events' \in [Requests -> Seq(Events)]
        BY <2>4, <2>5, <3>1
      <3> QED
        BY <3>4, <3>5
    <2> QED
      BY <1>4, <2>1, <2>6, EndingKeepsInv DEF StreamEnds, GoTo
  <1> QED
    BY <1>2, <1>3, <1>4

LEMMA StreamFrameKeepsInv ==
    ASSUME ConsumerInv, NEW r \in Requests, NEW f \in Frames, StreamFrame(r, f) PROVE ConsumerInv'
  <1>1. RequestTypes /\ frames[r] \in Seq(Frames) /\ events[r] \in Seq(Events)
    BY DEF ConsumerInv, RequestTypes
  <1>2. /\ \A t \in Seq(Events) : events[r] \o t \in Seq(Events)
        /\ Append(frames[r], f) \in Seq(Frames)
    BY <1>1
  <1>3. events[r] \o OpenAIEvents(f) \in Seq(Events) /\ events[r] \o AnthropicEvents(r, f) \in Seq(Events)
    BY <1>1, <1>2, EventsAre
  <1>4. /\ frames' = [frames EXCEPT ![r] = Append(@, f)]
        /\ \/ events' = [events EXCEPT ![r] = @ \o OpenAIEvents(f)]
           \/ events' = [events EXCEPT ![r] = @ \o AnthropicEvents(r, f)]
    BY DEF StreamFrame
  <1>5. frames' \in [Requests -> Seq(Frames)] /\ events' \in [Requests -> Seq(Events)]
    <2>1. ASSUME NEW e \in Seq(Events), events' = [events EXCEPT ![r] = e]
          PROVE  events' \in [Requests -> Seq(Events)]
      BY <1>1, <2>1 DEF RequestTypes
    <2>2. ASSUME NEW l \in Seq(Frames), frames' = [frames EXCEPT ![r] = l]
          PROVE  frames' \in [Requests -> Seq(Frames)]
      BY <1>1, <2>2 DEF RequestTypes
    <2>3. frames' \in [Requests -> Seq(Frames)]
      BY <1>2, <1>4, <2>2
    <2>4. events' \in [Requests -> Seq(Events)]
      BY <1>3, <1>4, <2>1
    <2> QED
      BY <2>3, <2>4
  <1>6. RequestTypes' /\ \A q \in Requests : Same(q)
    BY <1>1, <1>5 DEF StreamFrame, RequestTypes, Same
  <1> QED
    BY <1>6, SameIsFine DEF ConsumerInv

----------------------------------------------------------------------------
(* The supplier and the cloud.                                             *)

LEMMA TakeTaskKeepsInv == ASSUME ConsumerInv, NEW r \in Requests, TakeTask(r) PROVE ConsumerInv'
  <1>1. /\ supplier[r] = "answered" /\ pc[r] \in Asking /\ pc[r] # "idle"
        /\ UNCHANGED <<handlerVars, offers, conn, sessions, posted, crashes>>
        /\ \/ supplier' = [supplier EXCEPT ![r] = "executing"] /\ runs' = [runs EXCEPT ![r] = @ + 1]
           \/ supplier' = [supplier EXCEPT ![r] = "refused"] /\ runs' = runs
    BY DEF TakeTask, StreamOpened, Asking
  <1>2. RequestTypes /\ Fine(r)
    BY DEF ConsumerInv
  <1>3. /\ entry[r] # "messages" /\ entry[r] # "none" /\ Direct(r) = 0 /\ runs[r] = 0
        /\ posted[r]["relay"] = 0 /\ posted[r]["dispatch"] = 0 /\ report[r] = "none"
    BY <1>1, <1>2 DEF RequestTypes, Fine, PlaceInv, RunsInv, ReportInv, Ways, Direct, NotTaken, Asking
  <1>4. RequestTypes' /\ \A q \in Requests \ {r} : Same(q)
    <2>1. /\ supplier' \in [Requests -> Supplier] /\ runs' \in [Requests -> Nat]
          /\ \A q \in Requests \ {r} : supplier'[q] = supplier[q] /\ runs'[q] = runs[q]
      <3>1. supplier \in [Requests -> Supplier] /\ runs \in [Requests -> Nat] /\ runs[r] + 1 \in Nat
        BY <1>2 DEF RequestTypes
      <3>2. "executing" \in Supplier /\ "refused" \in Supplier
        BY DEF Supplier
      <3>3. /\ \E s \in Supplier : supplier' = [supplier EXCEPT ![r] = s]
            /\ runs' = runs \/ runs' = [runs EXCEPT ![r] = runs[r] + 1]
        BY <1>1, <3>2
      <3>4. supplier' \in [Requests -> Supplier] /\ \A q \in Requests \ {r} : supplier'[q] = supplier[q]
        BY <3>1, <3>3
      <3>5. runs' \in [Requests -> Nat] /\ \A q \in Requests \ {r} : runs'[q] = runs[q]
        BY <3>1, <3>3
      <3> QED
        BY <3>4, <3>5
    <2>2. RequestTypes'
      BY <1>1, <1>2, <2>1 DEF RequestTypes, handlerVars
    <2> QED
      BY <1>1, <2>1, <2>2 DEF handlerVars, Same
  <1>5. \/ supplier'[r] = "executing" /\ runs'[r] = 1
        \/ supplier'[r] = "refused" /\ runs'[r] = 0
    BY <1>1, <1>2, <1>3 DEF RequestTypes
  <1>6. Fine(r)'
    BY <1>1, <1>2, <1>3, <1>5
       DEF handlerVars, Fine, PlaceInv, RunsInv, ReportInv, RowInv, Ways, Direct, NotTaken
  <1> QED
    BY <1>4, <1>6, SameIsFine DEF ConsumerInv

\* Neither the other steps of the supplier nor its restart run a task.
LEMMA SupplierKeepsInv ==
    ASSUME ConsumerInv, UNCHANGED <<handlerVars, posted, runs>>,
           offers' \in SUBSET Requests, conn' \in [Requests -> BOOLEAN], sessions' \in SUBSET Requests,
           supplier' \in [Requests -> Supplier], crashes' \in 0 .. MaxCrashes,
           \A r \in Requests :
                /\ r \in offers' => r \in offers /\ supplier'[r] = supplier[r]
                /\ supplier[r] = "none" /\ r \notin offers => supplier'[r] = "none"
                /\ supplier[r] \notin NotTaken => supplier'[r] \notin NotTaken
                /\ supplier[r] \in Sent => supplier'[r] \in Sent
                /\ supplier'[r] \notin NotTaken \union {"lost"} =>
                        supplier[r] \notin NotTaken \union {"lost"}
    PROVE  ConsumerInv'
  <1>1. RequestTypes'
    BY DEF ConsumerInv, RequestTypes, handlerVars
  <1>2. ASSUME NEW r \in Requests PROVE Fine(r)'
    <2>1. Fine(r) /\ RequestTypes
      BY DEF ConsumerInv
    <2>2. /\ entry'[r] = entry[r] /\ pc'[r] = pc[r] /\ row'[r] = row[r] /\ report'[r] = report[r]
          /\ answer'[r] = answer[r] /\ posted'[r] = posted[r] /\ runs'[r] = runs[r]
      BY DEF handlerVars
    <2>3. PlaceInv(r)'
      BY <2>1, <2>2 DEF Fine, PlaceInv
    <2>4. RunsInv(r)'
      <3>1. Direct(r) \in {0, 1} /\ Direct(r)' \in {0, 1} /\ Direct(r) <= Direct(r)'
        BY DEF Direct
      <3>2. Ways(r) <= Ways(r)' /\ Ways(r) \in Nat /\ Ways(r)' \in Nat
        BY <2>2, <3>1 DEF Ways
      <3>3. runs[r] \in Nat /\ posted[r]["relay"] \in Nat /\ posted[r]["dispatch"] \in Nat
        BY <2>1 DEF RequestTypes, Posts
      <3> QED
        BY <2>1, <2>2, <3>2, <3>3 DEF Fine, RunsInv
    <2>5. ReportInv(r)' /\ RowInv(r)'
      BY <2>1, <2>2 DEF Fine, ReportInv, RowInv
    <2> QED
      BY <2>3, <2>4, <2>5 DEF Fine
  <1> QED
    BY <1>1, <1>2 DEF ConsumerInv

\* The supplier goes on with the task of one request.
SupplierMoves(r) ==
    /\ supplier' \in [Requests -> Supplier]
    /\ r \notin offers
    /\ \A q \in Requests \ {r} : supplier'[q] = supplier[q]
    /\ supplier[r] # "none"
    /\ supplier[r] \notin NotTaken => supplier'[r] \notin NotTaken
    /\ supplier[r] \in Sent => supplier'[r] \in Sent
    /\ supplier'[r] \notin NotTaken \union {"lost"} => supplier[r] \notin NotTaken \union {"lost"}

LEMMA SupplierMovesKeepsInv ==
    ASSUME ConsumerInv, NEW r \in Requests, SupplierMoves(r),
           UNCHANGED <<handlerVars, offers, conn, posted, runs, crashes>>, sessions' \in SUBSET Requests
    PROVE  ConsumerInv'
  <1>1. /\ UNCHANGED <<handlerVars, posted, runs>>
        /\ offers' = offers /\ offers' \in SUBSET Requests /\ conn' \in [Requests -> BOOLEAN]
        /\ crashes' \in 0 .. MaxCrashes /\ supplier' \in [Requests -> Supplier]
    BY DEF ConsumerInv, RequestTypes, SupplierMoves
  <1>2. ASSUME NEW q \in Requests
        PROVE  /\ q \in offers' => q \in offers /\ supplier'[q] = supplier[q]
               /\ supplier[q] = "none" /\ q \notin offers => supplier'[q] = "none"
               /\ supplier[q] \notin NotTaken => supplier'[q] \notin NotTaken
               /\ supplier[q] \in Sent => supplier'[q] \in Sent
               /\ supplier'[q] \notin NotTaken \union {"lost"} =>
                        supplier[q] \notin NotTaken \union {"lost"}
    <2>1. CASE q = r
      BY <1>1, <2>1 DEF SupplierMoves
    <2>2. CASE q # r
      BY <1>1, <2>2 DEF SupplierMoves
    <2> QED
      BY <2>1, <2>2
  <1> QED
    BY <1>1, <1>2, SupplierKeepsInv

LEMMA SupplierStepsKeepInv ==
    ASSUME ConsumerInv, NEW r \in Requests,
           \/ TakeOffer(r) \/ AnswerOffer(r) \/ FinishTask(r) \/ SendResult(r) \/ ForgetSession(r)
           \/ LoseConnection(r) \/ RestartSupplier
    PROVE  ConsumerInv'
  <1>1. RequestTypes /\ \A q \in Requests : PlaceInv(q)
    BY DEF ConsumerInv, Fine
  <1>2. CASE TakeOffer(r)
    <2>1. r \in offers /\ supplier[r] = "none"
      BY <1>1, <1>2 DEF TakeOffer, PlaceInv
    <2> QED
      BY <1>1, <1>2, <2>1, SupplierKeepsInv
         DEF TakeOffer, Register, RequestTypes, Supplier, NotTaken, Sent, SentAs, handlerVars
  <1>3. CASE AnswerOffer(r) \/ FinishTask(r)
    <2>1. r \notin offers
      BY <1>1, <1>3 DEF AnswerOffer, FinishTask, PlaceInv
    <2>2. \E s \in {"answered", "ran completed", "ran failed"} :
            /\ supplier' = [supplier EXCEPT ![r] = s]
            /\ s # "answered" => supplier[r] = "executing"
            /\ s = "answered" => supplier[r] = "registered"
      BY <1>3 DEF AnswerOffer, FinishTask
    <2>3. SupplierMoves(r)
      <3>1. PICK s \in {"answered", "ran completed", "ran failed"} :
              /\ supplier' = [supplier EXCEPT ![r] = s]
              /\ s # "answered" => supplier[r] = "executing"
              /\ s = "answered" => supplier[r] = "registered"
        BY <2>2
      <3>2. supplier \in [Requests -> Supplier] /\ s \in Supplier
        BY <1>1 DEF RequestTypes, Supplier
      <3>3. /\ supplier' \in [Requests -> Supplier] /\ supplier'[r] = s
            /\ \A q \in Requests \ {r} : supplier'[q] = supplier[q]
        BY <3>1, <3>2
      <3> QED
        BY <2>1, <3>1, <3>3 DEF SupplierMoves, NotTaken, Sent, SentAs
    <2>4. UNCHANGED <<handlerVars, offers, conn, sessions, posted, runs, crashes>>
      BY <1>3 DEF AnswerOffer, FinishTask
    <2> QED
      BY <1>1, <2>3, <2>4, SupplierMovesKeepsInv DEF RequestTypes
  <1>4. CASE SendResult(r) \/ ForgetSession(r)
    <2>1. r \notin offers
      BY <1>1, <1>4 DEF SendResult, ForgetSession, PlaceInv
    <2>2. PICK s : supplier' = [supplier EXCEPT ![r] = s] /\ (s = "unsent" \/ s \in Sent)
                   /\ supplier[r] \in {"ran completed", "ran failed", "sent completed", "sent failed"}
                   /\ (s = "unsent" => supplier[r] \in {"ran completed", "ran failed"})
      <3>1. CASE SendResult(r)
        <4>1. CASE ~conn[r]
          <5>1. supplier' = [supplier EXCEPT ![r] = "unsent"]
            BY <3>1, <4>1, Zenon DEF SendResult
          <5>2. supplier[r] \in {"ran completed", "ran failed"}
            BY <3>1 DEF SendResult
          <5> QED
            BY <5>1, <5>2
        <4>2. CASE conn[r] /\ supplier[r] = "ran completed"
          <5>1. supplier' = [supplier EXCEPT ![r] = "sent completed"]
            BY <3>1, <4>2, Zenon DEF SendResult
          <5> QED
            BY <4>2, <5>1 DEF Sent, SentAs
        <4>3. CASE conn[r] /\ supplier[r] = "ran failed"
          <5>1. supplier' = [supplier EXCEPT ![r] = "sent failed"]
            BY <3>1, <4>3 DEF SendResult
          <5> QED
            BY <4>3, <5>1 DEF Sent, SentAs
        <4> QED
          BY <3>1, <4>1, <4>2, <4>3 DEF SendResult
      <3>2. CASE ForgetSession(r)
        <4>1. supplier[r] \in {"sent completed", "sent failed"}
          BY <3>2 DEF ForgetSession
        <4>2. \/ supplier' = [supplier EXCEPT ![r] = "told completed"]
              \/ supplier' = [supplier EXCEPT ![r] = "told failed"]
          BY <3>2 DEF ForgetSession
        <4>3. "told completed" \in Sent /\ "told failed" \in Sent
          BY DEF Sent, SentAs
        <4> QED
          BY <4>1, <4>2, <4>3
      <3> QED
        BY <1>4, <3>1, <3>2
    <2>3. SupplierMoves(r)
      <3>1. supplier \in [Requests -> Supplier] /\ s \in Supplier
        BY <1>1, <2>2 DEF RequestTypes, Supplier, Sent, SentAs
      <3>2. /\ supplier' \in [Requests -> Supplier] /\ supplier'[r] = s
            /\ \A q \in Requests \ {r} : supplier'[q] = supplier[q]
        BY <2>2, <3>1
      <3> QED
        BY <2>1, <2>2, <3>2 DEF SupplierMoves, NotTaken, Sent, SentAs
    <2>4. UNCHANGED <<handlerVars, offers, conn, posted, runs, crashes>> /\ sessions' \in SUBSET Requests
      BY <1>1, <1>4 DEF SendResult, ForgetSession, Remove, RequestTypes
    <2> QED
      BY <1>1, <2>3, <2>4, SupplierMovesKeepsInv DEF RequestTypes
  <1>5. CASE LoseConnection(r)
    BY <1>1, <1>5, SupplierKeepsInv DEF LoseConnection, RequestTypes
  <1>6. CASE RestartSupplier
    <2>1. /\ offers' = offers /\ sessions' = {} /\ UNCHANGED <<handlerVars, posted, runs>>
          /\ conn' \in [Requests -> BOOLEAN] /\ crashes' \in 0 .. MaxCrashes
      <3>1. crashes \in 0 .. MaxCrashes /\ crashes < MaxCrashes /\ crashes' = crashes + 1
        BY <1>1, <1>6 DEF RestartSupplier, RequestTypes
      <3>2. crashes' \in 0 .. MaxCrashes
        BY <3>1, ConsumerAssumption
      <3>3. conn' = [q \in Requests |-> FALSE]
        BY <1>6 DEF RestartSupplier
      <3>4. offers' = offers /\ sessions' = {} /\ UNCHANGED <<handlerVars, posted, runs>>
        BY <1>6 DEF RestartSupplier
      <3> QED
        BY <3>2, <3>3, <3>4
    <2>2. \A q \in Requests : supplier'[q] =
            CASE supplier[q] \in {"registered", "executing", "ran completed", "ran failed"} -> "lost"
              [] supplier[q] = "sent completed" -> "told completed"
              [] supplier[q] = "sent failed" -> "told failed"
              [] OTHER -> supplier[q]
      BY <1>6 DEF RestartSupplier
    <2>3. supplier' \in [Requests -> Supplier]
      BY <1>1, <1>6 DEF RestartSupplier, RequestTypes, Supplier
    <2>4. ASSUME NEW q \in Requests
          PROVE  /\ q \in offers' => q \in offers /\ supplier'[q] = supplier[q]
                 /\ supplier[q] = "none" /\ q \notin offers => supplier'[q] = "none"
                 /\ supplier[q] \notin NotTaken => supplier'[q] \notin NotTaken
                 /\ supplier[q] \in Sent => supplier'[q] \in Sent
                 /\ supplier'[q] \notin NotTaken \union {"lost"} =>
                        supplier[q] \notin NotTaken \union {"lost"}
      <3>1. supplier[q] \in Supplier /\ (q \in offers => supplier[q] = "none")
        BY <1>1 DEF RequestTypes, PlaceInv
      <3> QED
        BY <2>1, <2>2, <3>1 DEF Supplier, NotTaken, Sent, SentAs
    <2> QED
      BY <1>1, <2>1, <2>3, <2>4, SupplierKeepsInv DEF RequestTypes
  <1> QED
    BY <1>2, <1>3, <1>4, <1>5, <1>6

\* A post that is worked off becomes a run, or nothing.
LEMMA CloudKeepsInv ==
    ASSUME ConsumerInv, NEW r \in Requests, NEW p \in Posts, CloudRuns(r, p) \/ CloudRefuses(r, p)
    PROVE  ConsumerInv'
  <1>1. /\ posted[r][p] > 0 /\ posted' = [posted EXCEPT ![r][p] = @ - 1]
        /\ runs' = runs \/ runs' = [runs EXCEPT ![r] = @ + 1]
        /\ reply' = reply \/ reply' = [reply EXCEPT ![r] = "ok"]
        /\ UNCHANGED <<offers, entry, streamed, pc, tries, conn, supplier, sessions, row, report, answer,
                       frames, events, crashes>>
    BY DEF CloudRuns, CloudRefuses, handlerVars
  <1>2. RequestTypes /\ Fine(r)
    BY DEF ConsumerInv
  <1>3. /\ posted' \in [Requests -> [Posts -> Nat]] /\ runs' \in [Requests -> Nat]
        /\ \A q \in Requests \ {r} : posted'[q] = posted[q] /\ runs'[q] = runs[q]
    <2>1. posted[r] \in [Posts -> Nat] /\ posted[r][p] - 1 \in Nat
      BY <1>1, <1>2 DEF RequestTypes
    <2>2. [posted[r] EXCEPT ![p] = @ - 1] \in [Posts -> Nat]
      BY <2>1
    <2>3. posted' = [posted EXCEPT ![r] = [posted[r] EXCEPT ![p] = @ - 1]]
      BY <1>1
    <2>4. posted' \in [Requests -> [Posts -> Nat]] /\ \A q \in Requests \ {r} : posted'[q] = posted[q]
      BY <1>2, <2>2, <2>3 DEF RequestTypes
    <2>5. runs' \in [Requests -> Nat] /\ \A q \in Requests \ {r} : runs'[q] = runs[q]
      <3>1. runs \in [Requests -> Nat] /\ runs[r] + 1 \in Nat
        BY <1>2 DEF RequestTypes
      <3>2. runs' = runs \/ runs' = [runs EXCEPT ![r] = runs[r] + 1]
        BY <1>1
      <3> QED
        BY <3>1, <3>2
    <2> QED
      BY <2>4, <2>5
  <1>4. RequestTypes' /\ \A q \in Requests \ {r} : Same(q)
    <2>1. reply' \in [Requests -> {"none", "ok"}]
      <3>1. reply \in [Requests -> {"none", "ok"}]
        BY <1>2 DEF RequestTypes
      <3> QED
        BY <1>1, <3>1
    <2>2. RequestTypes'
      BY <1>1, <1>2, <1>3, <2>1 DEF RequestTypes
    <2> QED
      BY <1>1, <1>3, <2>2 DEF Same
  <1>5. /\ runs[r] \in Nat /\ posted[r]["relay"] \in Nat /\ posted[r]["dispatch"] \in Nat
        /\ runs'[r] \in {runs[r], runs[r] + 1}
        /\ \/ /\ posted[r]["relay"] > 0 /\ posted'[r]["relay"] = posted[r]["relay"] - 1
              /\ posted'[r]["dispatch"] = posted[r]["dispatch"]
           \/ /\ posted[r]["dispatch"] > 0 /\ posted'[r]["dispatch"] = posted[r]["dispatch"] - 1
              /\ posted'[r]["relay"] = posted[r]["relay"]
    BY <1>1, <1>2 DEF RequestTypes, Posts
  <1>6. PlaceInv(r)' /\ RowInv(r)'
    BY <1>1, <1>2, <1>5 DEF Fine, PlaceInv, RowInv
  <1>7. RunsInv(r)'
    <2>1. Ways(r)' = Ways(r) /\ Ways(r) \in Nat
      BY <1>1 DEF Ways, Direct
    <2> QED
      BY <1>1, <1>2, <1>5, <2>1 DEF Fine, RunsInv
  <1>8. ReportInv(r)'
    BY <1>1, <1>2, <1>5 DEF Fine, ReportInv
  <1> QED
    BY <1>4, <1>6, <1>7, <1>8, SameIsFine DEF ConsumerInv, Fine

----------------------------------------------------------------------------

LEMMA RequestsRest ==
    ASSUME ConsumerInv, UNCHANGED <<handlerVars, offers, conn, supplier, sessions, posted, runs, crashes>>
    PROVE  ConsumerInv'
  <1>1. RequestTypes' /\ \A q \in Requests : Same(q)
    BY DEF handlerVars, ConsumerInv, RequestTypes, Same
  <1> QED
    BY <1>1, SameIsFine DEF ConsumerInv

LEMMA StepKeepsInv == ASSUME ConsumerInv, [Next]_vars PROVE ConsumerInv'
  <1>1. CASE Next
    <2>1. CASE RestartSupplier
      <3>1. CASE Requests = {}
        BY <2>1, <3>1, ConsumerAssumption DEF RestartSupplier, handlerVars, ConsumerInv, RequestTypes
      <3> QED
        BY <2>1, <3>1, SupplierStepsKeepInv
    <2>2. ASSUME NEW r \in Requests,
                 ChatCompletions(r) \/ Messages(r) \/ ShareConsume(r) \/ ClientLeaves(r)
                 \/ ReadsEndpoint(r) \/ Handler(r)
          PROVE  ConsumerInv'
      BY <2>2, EntriesKeepInv, AskingKeepsInv, DirectStepsKeepInv, ReadResultKeepsInv,
         RelayReturnsKeepsInv, AnswersKeepInv, SupplierStepsKeepInv DEF ReadsEndpoint, Handler
    <2>3. ASSUME NEW r \in Requests,
                 \/ SupplierStep(r) \/ \E f \in Frames : StreamFrame(r, f)
                 \/ \E p \in Posts : CloudRuns(r, p) \/ CloudRefuses(r, p)
          PROVE  ConsumerInv'
      BY <2>3, TakeTaskKeepsInv, SupplierStepsKeepInv, StreamFrameKeepsInv, CloudKeepsInv
         DEF SupplierStep
    <2>4. CASE WriterQueues \/ WriterLeaves
      BY <2>4, RequestsRest DEF WriterQueues, WriterLeaves, vars
    <2> QED
      BY <1>1, <2>1, <2>2, <2>3, <2>4 DEF Next
  <1>2. CASE UNCHANGED vars
    BY <1>2, RequestsRest DEF vars
  <1> QED
    BY <1>1, <1>2

LEMMA InvHolds == Spec => []ConsumerInv
  BY InitFine, StepKeepsInv, PTL DEF Spec

\* Every variable keeps its type, what is streamed included.
THEOREM TypeCorrect == Spec => []TypeOK
  <1>1. Init => locked \in BOOLEAN
    BY DEF Init
  <1>2. locked \in BOOLEAN /\ [Next]_vars => (locked \in BOOLEAN)'
    BY DEF Next, ReadsEndpoint, Handler, WriterQueues, WriterLeaves, vars
  <1>3. Spec => [](locked \in BOOLEAN)
    BY <1>1, <1>2, PTL DEF Spec
  <1>4. ConsumerInv /\ locked \in BOOLEAN => TypeOK
    BY DEF ConsumerInv, TypeOK
  <1> QED
    BY <1>3, <1>4, InvHolds, PTL

\* However often a direct attempt, the relay and the handler's own post fail after they have
\* begun, a request runs no more often than its entry point has ways.
THEOREM RunsAreBounded == Spec => []RunsPerEntry
  <1>1. ConsumerInv => RunsPerEntry
    <2> SUFFICES ASSUME ConsumerInv, NEW r \in Requests
                 PROVE  runs[r] <= CASE entry[r] = "none" -> 0
                                     [] entry[r] = "messages" -> 1
                                     [] entry[r] = "share_consume" -> 2
                                     [] entry[r] = "chat_completions" -> 3
      BY DEF RunsPerEntry
    <2>1. /\ runs[r] \in Nat /\ posted[r]["relay"] \in Nat /\ posted[r]["dispatch"] \in Nat
          /\ Direct(r) \in {0, 1} /\ entry[r] \in {"none", "messages", "share_consume", "chat_completions"}
      BY DEF ConsumerInv, RequestTypes, Posts, Direct, Entries
    <2>2. runs[r] <= Ways(r) /\ Ways(r) \in Nat /\ (entry[r] = "none" <=> pc[r] = "idle")
      <3>1. Ways(r) \in Nat
        BY <2>1 DEF Ways
      <3> QED
        BY <2>1, <3>1 DEF ConsumerInv, Fine, RunsInv, PlaceInv
    <2> QED
      BY <2>1, <2>2 DEF Ways
  <1> QED
    BY <1>1, InvHolds, PTL

\* Row, usage report and answer of every request agree as BooksTellAnswer says, whatever the
\* supplier and the cloud do and whenever they do it.
THEOREM BooksAreTrue == Spec => []BooksTellAnswer
  <1>1. ConsumerInv => BooksTellAnswer
    <2> SUFFICES ASSUME ConsumerInv, NEW r \in Requests
                 PROVE  /\ row[r] = "completed" => answer[r] = "ok"
                        /\ entry[r] = "share_consume" /\ answer[r] = "ok" => row[r] # "failed"
                        /\ report[r] # "none" =>
                            /\ row[r] = "none" /\ posted[r]["relay"] = 0
                            /\ report[r] = "completed" => runs[r] = 1 /\ answer[r] = "ok"
                            /\ runs[r] <= (IF entry[r] = "chat_completions" THEN 2 ELSE 1)
                        /\ entry[r] = "chat_completions" /\ answer[r] = "sse"
                            => row[r] = "failed" \/ report[r] = "failed"
      BY DEF BooksTellAnswer
    <2>1. Fine(r) /\ runs[r] \in Nat /\ posted[r]["dispatch"] \in Nat
      BY DEF ConsumerInv, RequestTypes, Posts
    <2>2. /\ row[r] = "completed" => answer[r] = "ok"
          /\ entry[r] = "share_consume" /\ answer[r] = "ok" => row[r] # "failed"
          /\ entry[r] = "chat_completions" /\ answer[r] = "sse"
                => row[r] = "failed" \/ report[r] = "failed"
      BY <2>1 DEF Fine, RowInv
    <2>3. report[r] # "none" =>
            /\ row[r] = "none" /\ posted[r]["relay"] = 0
            /\ report[r] = "completed" => runs[r] = 1 /\ answer[r] = "ok"
            /\ runs[r] <= (IF entry[r] = "chat_completions" THEN 2 ELSE 1)
      BY <2>1 DEF Fine, ReportInv
    <2> QED
      BY <2>2, <2>3
  <1> QED
    BY <1>1, InvHolds, PTL

----------------------------------------------------------------------------
(* The streamed answers.                                                   *)

\* Where a handler stands (p), the frames it has read (f) and the events it has sent (e).
Ended(f) == f # <<>> /\ f[Len(f)] # "text"
HasText(f) == \E i \in DOMAIN f : f[i] = "text"

\* A terminal frame is the last.
TerminalLast(f) == \A i \in 1 .. Len(f) : f[i] # "text" => i = Len(f)

\* An OpenAI stream: text, then at most one finish reason, once the task has ended.
AllText(e) == \A i \in 1 .. Len(e) : e[i] = "delta"
OpenAIStream(f, e) ==
    /\ \A i \in 1 .. Len(e) :
        e[i] = "delta" \/ (e[i] \in {"finish", "finish_with_error"} /\ i = Len(e))
    /\ Ended(f) \/ AllText(e)

\* An Anthropic stream without text: a terminal frame at most, then the error of a body
\* that broke off.
Cut == <<"error", "message_stop">>
Stopped == <<"message_start", "content_block_stop", "end_turn", "message_stop">>
Broke == <<"stop_error", "message_stop">>
Textless(p, f, e) ==
    \/ f = <<>> /\ (e = <<>> \/ (p = "done" /\ e = Cut))
    \/ f = <<"completed">> /\ (e = Stopped \/ (p = "done" /\ e = Stopped \o Cut))
    \/ f = <<"failed">> /\ (e = Broke \/ (p = "done" /\ e = Broke \o Cut))

\* One with text: it opens, brings text up to place m, and after that only ends.
Endings == {"content_block_stop", "end_turn", "stop_error", "error", "message_stop"}
TextUpTo(e, m) ==
    /\ e[1] = "message_start" /\ e[2] = "content_block_start"
    /\ \A i \in 3 .. m : e[i] = "delta"
    /\ \A i \in m + 1 .. Len(e) : e[i] \in Endings

\* The first stop reason after the text is that of the terminal frame.
FirstReason(f, e, m) ==
    /\ \A i \in m + 1 .. Len(e) : e[i] = "stop_error" => i = m + 2
    /\ Ended(f) /\ f[Len(f)] = "failed" =>
        m + 2 <= Len(e) /\ e[m + 1] = "content_block_stop" /\ e[m + 2] = "stop_error"
TextStream(p, f, e) ==
    \E m \in 3 .. Len(e) :
        /\ TextUpTo(e, m) /\ FirstReason(f, e, m)
        /\ p = "stream" /\ ~Ended(f) => Len(e) = m
        /\ p = "done" => m < Len(e) /\ e[Len(e)] = "message_stop"

\* The same for a request that came in by entry point n.
Fits(n, p, f, e) ==
    /\ p \notin {"stream", "done", "gone"} => f = <<>> /\ e = <<>>
    /\ TerminalLast(f)
    /\ n # "messages" => OpenAIStream(f, e)
    /\ n = "messages" => IF HasText(f) THEN TextStream(p, f, e) ELSE Textless(p, f, e)

StreamInv == \A r \in Requests : Fits(entry[r], pc[r], frames[r], events[r])

LEMMA EmptyFits == ASSUME NEW n, NEW p PROVE Fits(n, p, <<>>, <<>>)
  <1>1. Len(<<>>) = 0 /\ DOMAIN <<>> = {}
    OBVIOUS
  <1>2. TerminalLast(<<>>) /\ OpenAIStream(<<>>, <<>>)
    BY <1>1 DEF TerminalLast, OpenAIStream, AllText
  <1>3. ~HasText(<<>>) /\ Textless(p, <<>>, <<>>)
    BY <1>1 DEF HasText, Textless
  <1> QED
    BY <1>2, <1>3 DEF Fits

\* A step that streams nothing: the handler stays, or has not begun to stream, or is
\* dropped while it does.
LEMMA QuietStep ==
    ASSUME NEW n, NEW p, NEW f, NEW e, NEW n2, NEW p2, Fits(n, p, f, e),
           \/ p2 = p /\ n2 = n
           \/ p \notin {"stream", "done", "gone"}
           \/ p = "stream" /\ p2 = "gone" /\ n2 = n
    PROVE  Fits(n2, p2, f, e)
  <1>1. CASE p2 = p /\ n2 = n
    BY <1>1
  <1>2. CASE p \notin {"stream", "done", "gone"}
    <2>1. f = <<>> /\ e = <<>>
      BY <1>2 DEF Fits
    <2> QED
      BY <2>1, EmptyFits
  <1>3. CASE p = "stream" /\ p2 = "gone" /\ n2 = n
    <2>1. Textless(p, f, e) => Textless(p2, f, e)
      BY <1>3 DEF Textless
    <2>2. TextStream(p, f, e) => TextStream(p2, f, e)
      BY <1>3 DEF TextStream
    <2> QED
      BY <1>3, <2>1, <2>2 DEF Fits
  <1> QED
    BY <1>1, <1>2, <1>3

LEMMA JoinedEvents ==
    ASSUME NEW e \in Seq(Events), NEW x \in Seq(Events)
    PROVE  /\ e \o x \in Seq(Events) /\ Len(e \o x) = Len(e) + Len(x)
           /\ Len(e) \in Nat /\ Len(x) \in Nat
           /\ \A i \in 1 .. Len(e) : (e \o x)[i] = e[i]
           /\ \A j \in 1 .. Len(x) : (e \o x)[Len(e) + j] = x[j]
           /\ \A i \in Len(e) + 1 .. Len(e \o x) :
                \E j \in 1 .. Len(x) : i = Len(e) + j /\ (e \o x)[i] = x[j]
  <1>1. /\ e \o x \in Seq(Events) /\ Len(e \o x) = Len(e) + Len(x)
        /\ Len(e) \in Nat /\ Len(x) \in Nat
        /\ \A i \in 1 .. Len(e) + Len(x) :
                (e \o x)[i] = IF i <= Len(e) THEN e[i] ELSE x[i - Len(e)]
    BY ConcatProperties, LenProperties
  <1>2. \A i \in 1 .. Len(e) : (e \o x)[i] = e[i]
    BY <1>1
  <1>3. ASSUME NEW j \in 1 .. Len(x) PROVE (e \o x)[Len(e) + j] = x[j]
    <2>1. Len(e) + j \in 1 .. Len(e) + Len(x) /\ ~(Len(e) + j <= Len(e)) /\ (Len(e) + j) - Len(e) = j
      BY <1>1
    <2> QED
      BY <1>1, <2>1
  <1>4. ASSUME NEW i \in Len(e) + 1 .. Len(e \o x)
        PROVE  \E j \in 1 .. Len(x) : i = Len(e) + j /\ (e \o x)[i] = x[j]
    <2>1. i - Len(e) \in 1 .. Len(x) /\ i = Len(e) + (i - Len(e))
      BY <1>1
    <2> QED
      BY <1>3, <2>1
  <1> QED
    BY <1>1, <1>2, <1>3, <1>4

\* A stream of text that is followed by more text, or by ends.
LEMMA MoreText ==
    ASSUME NEW e \in Seq(Events), NEW m \in 3 .. Len(e), m = Len(e), TextUpTo(e, m)
    PROVE  /\ m + 1 \in 3 .. Len(e \o <<"delta">>) /\ Len(e \o <<"delta">>) = m + 1
           /\ TextUpTo(e \o <<"delta">>, m + 1)
  <1> DEFINE x == <<"delta">>
             t == e \o x
  <1>1. x \in Seq(Events) /\ Len(x) = 1 /\ x[1] = "delta"
    BY DEF Events
  <1> HIDE DEF x
  <1>2. /\ Len(t) = m + 1 /\ m \in Nat /\ \A i \in 1 .. m : t[i] = e[i]
        /\ t[m + 1] = "delta"
    <2>1. /\ Len(t) = Len(e) + Len(x) /\ Len(e) \in Nat
          /\ \A i \in 1 .. Len(e) : t[i] = e[i]
          /\ \A j \in 1 .. Len(x) : t[Len(e) + j] = x[j]
      BY <1>1, JoinedEvents
    <2>2. 1 \in 1 .. Len(x)
      BY <1>1
    <2>3. t[Len(e) + 1] = x[1]
      BY <2>1, <2>2
    <2> QED
      BY <1>1, <2>1, <2>3
  <1> HIDE DEF t
  <1>3. t[1] = "message_start" /\ t[2] = "content_block_start"
    BY <1>2 DEF TextUpTo
  <1>4. \A i \in 3 .. m + 1 : t[i] = "delta"
    <2>1. \A i \in 3 .. m + 1 : i = m + 1 \/ i \in 3 .. m
      BY <1>2
    <2>2. \A i \in 3 .. m : t[i] = "delta"
      BY <1>2 DEF TextUpTo
    <2> QED
      BY <1>2, <2>1, <2>2
  <1>5. TextUpTo(t, m + 1)
    BY <1>2, <1>3, <1>4 DEF TextUpTo
  <1> QED
    BY <1>2, <1>5 DEF t, x

LEMMA MoreEnds ==
    ASSUME NEW e \in Seq(Events), NEW m \in 3 .. Len(e), TextUpTo(e, m),
           NEW x \in Seq(Events), \A j \in 1 .. Len(x) : x[j] \in Endings
    PROVE  m \in 3 .. Len(e \o x) /\ TextUpTo(e \o x, m)
  <1> DEFINE t == e \o x
  <1>1. /\ Len(t) = Len(e) + Len(x) /\ Len(e) \in Nat /\ Len(x) \in Nat
        /\ \A i \in 1 .. Len(e) : t[i] = e[i]
        /\ \A i \in Len(e) + 1 .. Len(t) : \E j \in 1 .. Len(x) : i = Len(e) + j /\ t[i] = x[j]
    BY JoinedEvents
  <1> HIDE DEF t
  <1>2. t[1] = "message_start" /\ t[2] = "content_block_start" /\ \A i \in 3 .. m : t[i] = "delta"
    <2>1. 1 \in 1 .. Len(e) /\ 2 \in 1 .. Len(e) /\ \A i \in 3 .. m : i \in 1 .. Len(e)
      BY <1>1
    <2>2. t[1] = e[1] /\ t[2] = e[2] /\ \A i \in 3 .. m : t[i] = e[i]
      BY <1>1, <2>1
    <2> QED
      BY <2>2 DEF TextUpTo
  <1>3. \A i \in m + 1 .. Len(t) : t[i] \in Endings
    <2>1. \A i \in m + 1 .. Len(t) : i \in m + 1 .. Len(e) \/ i \in Len(e) + 1 .. Len(t)
      BY <1>1
    <2>2. \A i \in m + 1 .. Len(e) : i \in 1 .. Len(e)
      BY <1>1
    <2>3. \A i \in m + 1 .. Len(e) : t[i] \in Endings
      BY <1>1, <2>2 DEF TextUpTo
    <2>4. \A i \in Len(e) + 1 .. Len(t) : t[i] \in Endings
      BY <1>1
    <2> QED
      BY <2>1, <2>3, <2>4
  <1>4. m \in 3 .. Len(t)
    BY <1>1
  <1> QED
    BY <1>2, <1>3, <1>4 DEF TextUpTo, t

\* The sequences that are sent at the end.
LEMMA Ends ==
    ASSUME NEW reason \in {"end_turn", "stop_error"}
    PROVE  /\ Closing(reason) \in Seq(Events) /\ Len(Closing(reason)) = 3
           /\ Closing(reason)[1] = "content_block_stop" /\ Closing(reason)[2] = reason
           /\ Closing(reason)[3] = "message_stop"
           /\ \A j \in 1 .. 3 : Closing(reason)[j] \in Endings
  <1>1. {"content_block_stop", reason, "message_stop"} \subseteq Events \intersect Endings
    BY DEF Events, Endings
  <1>2. Closing(reason) = <<"content_block_stop", reason, "message_stop">>
    BY DEF Closing
  <1>3. Closing(reason) \in Seq(Events) /\ Len(Closing(reason)) = 3
    BY <1>1, <1>2
  <1>4. /\ Closing(reason)[1] = "content_block_stop" /\ Closing(reason)[2] = reason
        /\ Closing(reason)[3] = "message_stop"
    BY <1>2
  <1>5. \A j \in 1 .. 3 : j \in {1, 2, 3}
    OBVIOUS
  <1> QED
    BY <1>1, <1>3, <1>4, <1>5

LEMMA CutEnds ==
    /\ Cut \in Seq(Events) /\ Len(Cut) = 2 /\ Cut[1] = "error" /\ Cut[2] = "message_stop"
    /\ \A j \in 1 .. 2 : Cut[j] \in Endings
  <1>1. {"error", "message_stop"} \subseteq Events \intersect Endings
    BY DEF Events, Endings
  <1>2. Cut \in Seq(Events) /\ Len(Cut) = 2 /\ Cut[1] = "error" /\ Cut[2] = "message_stop"
    BY <1>1 DEF Cut
  <1>3. \A j \in 1 .. 2 : j \in {1, 2}
    OBVIOUS
  <1> QED
    BY <1>1, <1>2, <1>3

\* One frame more, when the task has not ended.
LEMMA FrameAppended ==
    ASSUME NEW f \in Seq(Frames), NEW g \in Frames, TerminalLast(f), ~Ended(f)
    PROVE  /\ Append(f, g) \in Seq(Frames) /\ TerminalLast(Append(f, g))
           /\ Append(f, g) # <<>> /\ Append(f, g)[Len(Append(f, g))] = g
           /\ Ended(Append(f, g)) <=> g # "text"
           /\ HasText(Append(f, g)) <=> HasText(f) \/ g = "text"
           /\ ~HasText(f) => f = <<>>
  <1> DEFINE h == Append(f, g)
  <1>1. /\ h \in Seq(Frames) /\ Len(h) = Len(f) + 1 /\ Len(f) \in Nat
        /\ h[Len(f) + 1] = g /\ \A i \in 1 .. Len(f) : h[i] = f[i]
    BY AppendProperties, LenProperties
  <1>2. DOMAIN f = 1 .. Len(f) /\ DOMAIN h = 1 .. Len(h) /\ (f = <<>> <=> Len(f) = 0)
        /\ (h = <<>> <=> Len(h) = 0)
    BY <1>1, LenProperties, EmptySeq
  <1> HIDE DEF h
  <1>3. \A i \in 1 .. Len(f) : f[i] = "text"
    <2>1. Len(f) # 0 => f[Len(f)] = "text"
      BY <1>2 DEF Ended
    <2> QED
      BY <1>1, <2>1 DEF TerminalLast
  <1>4. \A i \in 1 .. Len(h) : i = Len(h) \/ i \in 1 .. Len(f)
    BY <1>1
  <1>5. TerminalLast(h)
    BY <1>1, <1>3, <1>4 DEF TerminalLast
  <1>6. h # <<>> /\ h[Len(h)] = g /\ Len(h) \in 1 .. Len(h)
    BY <1>1, <1>2
  <1>7. HasText(h) <=> HasText(f) \/ g = "text"
    <2>1. \A i \in 1 .. Len(f) : i \in 1 .. Len(h)
      BY <1>1
    <2>2. HasText(h) => HasText(f) \/ g = "text"
      BY <1>1, <1>2, <1>4, <1>6 DEF HasText
    <2>3. HasText(f) => HasText(h)
      BY <1>1, <1>2, <2>1 DEF HasText
    <2>4. g = "text" => HasText(h)
      BY <1>2, <1>6 DEF HasText
    <2> QED
      BY <2>2, <2>3, <2>4
  <1>8. ~HasText(f) => f = <<>>
    <2>1. Len(f) # 0 => Len(f) \in 1 .. Len(f)
      BY <1>1
    <2> QED
      BY <1>2, <1>3, <2>1 DEF HasText
  <1>9. Ended(h) <=> g # "text"
    BY <1>6 DEF Ended
  <1> QED
    BY <1>1, <1>5, <1>6, <1>7, <1>8, <1>9 DEF h

LEMMA OpenAIChunk ==
    ASSUME NEW f \in Seq(Frames), NEW e \in Seq(Events), NEW g \in Frames,
           TerminalLast(f), ~Ended(f), OpenAIStream(f, e),
           NEW v \in {"delta", "finish", "finish_with_error"}, v # "delta" => g # "text"
    PROVE  OpenAIStream(Append(f, g), e \o <<v>>)
  <1> DEFINE x == <<v>>
             t == e \o x
  <1>1. x \in Seq(Events) /\ Len(x) = 1 /\ x[1] = v
    BY DEF Events
  <1> HIDE DEF x
  <1>2. /\ Len(t) = Len(e) + 1 /\ Len(e) \in Nat /\ \A i \in 1 .. Len(e) : t[i] = e[i]
        /\ \A i \in Len(e) + 1 .. Len(t) : i = Len(e) + 1 /\ t[i] = v
    <2>1. /\ Len(t) = Len(e) + Len(x) /\ Len(e) \in Nat
          /\ \A i \in 1 .. Len(e) : t[i] = e[i]
          /\ \A i \in Len(e) + 1 .. Len(t) : \E j \in 1 .. Len(x) : i = Len(e) + j /\ t[i] = x[j]
      BY JoinedEvents, <1>1
    <2>2. \A j \in 1 .. Len(x) : j = 1
      BY <1>1
    <2>3. \A i \in Len(e) + 1 .. Len(t) : i = Len(e) + 1 /\ t[i] = x[1]
      BY <2>1, <2>2
    <2> QED
      BY <1>1, <2>1, <2>3
  <1> HIDE DEF t
  <1>3. \A i \in 1 .. Len(t) : i \in 1 .. Len(e) \/ i \in Len(e) + 1 .. Len(t)
    BY <1>2
  <1>4. \A i \in 1 .. Len(e) : e[i] = "delta"
    BY DEF OpenAIStream, AllText
  <1>5. \A i \in 1 .. Len(t) : t[i] = "delta" \/ (t[i] = v /\ i = Len(t))
    BY <1>2, <1>3, <1>4
  <1>6. v = "delta" => AllText(t)
    BY <1>5 DEF AllText
  <1>7. Ended(Append(f, g)) <=> g # "text"
    BY FrameAppended
  <1>8. OpenAIStream(Append(f, g), t)
    BY <1>5, <1>6, <1>7 DEF OpenAIStream
  <1> QED
    BY <1>8 DEF t, x

LEMMA ThreeMore ==
    ASSUME NEW k \in Nat PROVE \A i \in k + 1 .. k + 3 : i = k + 1 \/ i = k + 2 \/ i = k + 3
  OBVIOUS

LEMMA FewPlaces ==
    /\ \A i \in 1 .. 3 : i = 1 \/ i = 2 \/ i = 3
    /\ \A i \in 1 .. 4 : i = 1 \/ i = 2 \/ i = 3 \/ i = 4
  OBVIOUS

\* What stream_anthropic_sse sends for a frame.
LEMMA Spelled ==
    /\ <<>> \o <<"delta">> = <<"delta">>
    /\ <<"message_start", "content_block_start">> \o <<"delta">>
            = <<"message_start", "content_block_start", "delta">>
    /\ \A reason \in {"end_turn", "stop_error"} : <<>> \o Closing(reason) = Closing(reason)
    /\ <<"message_start">> \o Closing("end_turn") = Stopped
    /\ Tail(Closing("stop_error")) = Broke
    /\ \A e \in Seq(Events) : <<>> \o e = e /\ e \o <<>> = e
  <1>1. <<>> \o <<"delta">> = <<"delta">>
    OBVIOUS
  <1>2. <<"message_start", "content_block_start">> \o <<"delta">>
            = <<"message_start", "content_block_start", "delta">>
    <2> DEFINE a == <<"message_start", "content_block_start">>
               b == <<"delta">>
               c == <<"message_start", "content_block_start", "delta">>
               t == a \o b
    <2>1. /\ a \in Seq(Events) /\ b \in Seq(Events) /\ c \in Seq(Events)
          /\ Len(a) = 2 /\ Len(b) = 1 /\ Len(c) = 3
          /\ a[1] = c[1] /\ a[2] = c[2] /\ b[1] = c[3]
      BY DEF Events
    <2> HIDE DEF a, b, c
    <2>2. /\ t \in Seq(Events) /\ Len(t) = Len(a) + Len(b)
          /\ \A i \in 1 .. Len(a) : t[i] = a[i]
          /\ \A j \in 1 .. Len(b) : t[Len(a) + j] = b[j]
      <3>1. a \in Seq(Events) /\ b \in Seq(Events)
        BY <2>1
      <3> QED
        BY <3>1, JoinedEvents
    <2> HIDE DEF t
    <2>3. /\ Len(t) = 3 /\ t[1] = c[1] /\ t[2] = c[2] /\ t[3] = c[3]
      BY <2>1, <2>2
    <2>4. \A i \in 1 .. 3 : t[i] = c[i]
      BY <2>3, FewPlaces
    <2>5. t = c
      BY <2>1, <2>2, <2>3, <2>4, SeqEqual
    <2> QED
      BY <2>5 DEF a, b, c, t
  <1>3. \A reason \in {"end_turn", "stop_error"} : <<>> \o Closing(reason) = Closing(reason)
    BY DEF Closing
  <1>4. <<"message_start">> \o Closing("end_turn") = Stopped
    <2> DEFINE a == <<"message_start">>
               b == Closing("end_turn")
               t == a \o b
    <2>1. /\ a \in Seq(Events) /\ Stopped \in Seq(Events) /\ Len(a) = 1 /\ Len(Stopped) = 4
          /\ a[1] = "message_start" /\ Stopped[1] = "message_start"
          /\ Stopped[2] = "content_block_stop" /\ Stopped[3] = "end_turn"
          /\ Stopped[4] = "message_stop"
      BY DEF Events, Stopped
    <2>2. /\ b \in Seq(Events) /\ Len(b) = 3 /\ b[1] = "content_block_stop"
          /\ b[2] = "end_turn" /\ b[3] = "message_stop"
      BY Ends
    <2> HIDE DEF a, b
    <2>3. /\ t \in Seq(Events) /\ Len(t) = Len(a) + Len(b)
          /\ \A i \in 1 .. Len(a) : t[i] = a[i] /\ \A j \in 1 .. Len(b) : t[Len(a) + j] = b[j]
      BY <2>1, <2>2, JoinedEvents
    <2> HIDE DEF t
    <2>4. Len(t) = 4 /\ t[1] = a[1] /\ t[2] = b[1] /\ t[3] = b[2] /\ t[4] = b[3]
      BY <2>1, <2>2, <2>3
    <2>5. \A i \in 1 .. 4 : t[i] = Stopped[i]
      BY <2>1, <2>2, <2>4, FewPlaces
    <2>6. t = Stopped
      BY <2>1, <2>3, <2>4, <2>5, SeqEqual
    <2> QED
      BY <2>6 DEF a, b, t
  <1>5. Tail(Closing("stop_error")) = Broke
    BY DEF Closing, Broke
  <1>6. \A e \in Seq(Events) : <<>> \o e = e /\ e \o <<>> = e
    BY ConcatEmptySeq
  <1> QED
    BY <1>1, <1>2, <1>3, <1>4, <1>5, <1>6

\* What stream_anthropic_sse has sent for a frame keeps the form of the stream.
LEMMA AnthropicFrame ==
    ASSUME NEW f \in Seq(Frames), NEW e \in Seq(Events), NEW g \in Frames, NEW x \in Seq(Events),
           ~Ended(f), Fits("messages", "stream", f, e),
           x = CASE g = "text" -> (IF HasText(f) THEN <<>>
                                   ELSE <<"message_start", "content_block_start">>) \o <<"delta">>
                 [] g = "completed" -> (IF HasText(f) THEN <<>> ELSE <<"message_start">>)
                                       \o Closing("end_turn")
                 [] g = "failed" -> IF HasText(f) THEN Closing("stop_error")
                                    ELSE Tail(Closing("stop_error"))
    PROVE  Fits("messages", "stream", Append(f, g), e \o x)
  <1> DEFINE h == Append(f, g)
             t == e \o x
  <1>1. /\ TerminalLast(f)
        /\ IF HasText(f) THEN TextStream("stream", f, e) ELSE Textless("stream", f, e)
    BY DEF Fits
  <1>2. /\ TerminalLast(h) /\ h # <<>> /\ h[Len(h)] = g
        /\ (Ended(h) <=> g # "text") /\ (HasText(h) <=> HasText(f) \/ g = "text")
        /\ (~HasText(f) => f = <<>>) /\ (f = <<>> => h = <<g>>)
    <2>1. f = <<>> => h = <<g>>
      OBVIOUS
    <2> HIDE DEF h
    <2>2. /\ TerminalLast(h) /\ h # <<>> /\ h[Len(h)] = g
          /\ (Ended(h) <=> g # "text") /\ (HasText(h) <=> HasText(f) \/ g = "text")
          /\ (~HasText(f) => f = <<>>)
      BY <1>1, FrameAppended DEF h
    <2> QED
      BY <2>1, <2>2
  <1>3. SUFFICES IF HasText(h) THEN TextStream("stream", h, t) ELSE Textless("stream", h, t)
    BY <1>2 DEF Fits
  <1>4. g \in {"text", "completed", "failed"}
    BY DEF Frames
  <1>5. ASSUME ~HasText(f) PROVE f = <<>> /\ t = x /\ h = <<g>>
    <2>1. f = <<>> /\ h = <<g>>
      BY <1>2, <1>5
    <2>2. e = <<>>
      BY <1>1, <1>5, <2>1 DEF Textless
    <2> QED
      BY <2>1, <2>2, Spelled
  <1> HIDE DEF h, t
  <1>6. CASE ~HasText(f) /\ g = "text"
    <2>1. x = <<"message_start", "content_block_start">> \o <<"delta">>
      BY <1>6
    <2>2. t = <<"message_start", "content_block_start", "delta">>
      BY <1>5, <1>6, <2>1, Spelled
    <2>3. /\ Len(t) = 3 /\ t[1] = "message_start" /\ t[2] = "content_block_start"
          /\ t[3] = "delta"
      BY <2>2
    <2>4. (\A i \in 3 .. 3 : i = 3) /\ \A i \in 3 + 1 .. 3 : FALSE
      OBVIOUS
    <2>5. TextUpTo(t, 3) /\ FirstReason(h, t, 3)
      BY <1>2, <1>6, <2>3, <2>4 DEF TextUpTo, FirstReason
    <2>6. 3 \in 3 .. Len(t)
      BY <2>3
    <2>7. TextStream("stream", h, t)
      BY <2>3, <2>5, <2>6 DEF TextStream
    <2> QED
      BY <1>2, <1>6, <2>7
  <1>7. CASE ~HasText(f) /\ g = "completed"
    <2>1. x = <<"message_start">> \o Closing("end_turn")
      BY <1>7
    <2>2. t = Stopped /\ h = <<"completed">>
      BY <1>5, <1>7, <2>1, Spelled
    <2> QED
      BY <1>2, <1>7, <2>2 DEF Textless
  <1>8. CASE ~HasText(f) /\ g = "failed"
    <2>1. x = Tail(Closing("stop_error"))
      BY <1>8
    <2>2. t = Broke /\ h = <<"failed">>
      BY <1>5, <1>8, <2>1, Spelled
    <2> QED
      BY <1>2, <1>8, <2>2 DEF Textless
  <1>9. CASE HasText(f)
    <2>1. PICK m \in 3 .. Len(e) : TextUpTo(e, m) /\ Len(e) = m
      BY <1>1, <1>9 DEF TextStream
    <2>2. HasText(h)
      BY <1>2, <1>9
    <2>3. CASE g = "text"
      <3>1. x = <<>> \o <<"delta">>
        BY <1>9, <2>3
      <3>2. x = <<"delta">>
        BY <3>1, Spelled
      <3>3. m + 1 \in 3 .. Len(t) /\ Len(t) = m + 1 /\ TextUpTo(t, m + 1)
        BY <2>1, <3>2, MoreText DEF t
      <3>4. \A i \in (m + 1) + 1 .. Len(t) : FALSE
        BY <3>3
      <3>5. FirstReason(h, t, m + 1)
        BY <1>2, <2>3, <3>4 DEF FirstReason
      <3>6. TextStream("stream", h, t)
        BY <3>3, <3>5 DEF TextStream
      <3> QED
        BY <2>2, <3>6
    <2>4. CASE g # "text"
      <3> DEFINE reason == IF g = "failed" THEN "stop_error" ELSE "end_turn"
      <3>1. x = Closing(reason)
        <4>1. CASE g = "completed"
          <5>1. x = <<>> \o Closing("end_turn")
            BY <1>9, <4>1
          <5> QED
            BY <4>1, <5>1, Spelled
        <4>2. CASE g = "failed"
          BY <1>9, <4>2
        <4> QED
          BY <1>4, <2>4, <4>1, <4>2
      <3>2. reason \in {"end_turn", "stop_error"} /\ (g = "failed" => reason = "stop_error")
        OBVIOUS
      <3> HIDE DEF reason
      <3>3. /\ Len(x) = 3 /\ x[1] = "content_block_stop" /\ x[2] = reason
            /\ x[3] = "message_stop" /\ \A j \in 1 .. 3 : x[j] \in Endings
        BY <3>1, <3>2, Ends
      <3>4. /\ Len(t) = Len(e) + Len(x) /\ Len(e) \in Nat
            /\ \A j \in 1 .. Len(x) : t[Len(e) + j] = x[j]
        BY JoinedEvents DEF t
      <3>5. Len(t) = m + 3 /\ m \in Nat /\ t[m + 1] = x[1] /\ t[m + 2] = x[2] /\ t[m + 3] = x[3]
        <4>1. \A j \in 1 .. 3 : t[m + j] = x[j]
          BY <2>1, <3>3, <3>4
        <4>2. 1 \in 1 .. 3 /\ 2 \in 1 .. 3 /\ 3 \in 1 .. 3
          OBVIOUS
        <4>3. t[m + 1] = x[1] /\ t[m + 2] = x[2] /\ t[m + 3] = x[3]
          BY <4>1, <4>2
        <4>4. Len(t) = m + 3 /\ m \in Nat
          BY <2>1, <3>3, <3>4
        <4> QED
          BY <4>3, <4>4
      <3>6. \A j \in 1 .. Len(x) : x[j] \in Endings
        BY <3>3
      <3>7. m \in 3 .. Len(t) /\ TextUpTo(t, m)
        BY <2>1, <3>6, MoreEnds DEF t
      <3>8. \A i \in m + 1 .. Len(t) : t[i] = "stop_error" => i = m + 2
        <4>1. m + 1 .. Len(t) = m + 1 .. m + 3 /\ m \in Nat
          BY <3>5
        <4>2. \A i \in m + 1 .. Len(t) : i = m + 1 \/ i = m + 2 \/ i = m + 3
          BY <4>1, ThreeMore
        <4> QED
          BY <3>3, <3>5, <4>2
      <3>9. FirstReason(h, t, m)
        <4>1. m + 2 <= Len(t)
          BY <3>5
        <4> QED
          BY <1>2, <3>2, <3>3, <3>5, <3>8, <4>1 DEF FirstReason
      <3>10. TextStream("stream", h, t)
        BY <1>2, <2>4, <3>7, <3>9 DEF TextStream
      <3> QED
        BY <2>2, <3>10
    <2> QED
      BY <2>3, <2>4
  <1> QED
    BY <1>4, <1>6, <1>7, <1>8, <1>9 DEF h, t

\* What it sends after the body closes a message that has text.
LEMMA AnthropicEnd ==
    ASSUME NEW f \in Seq(Frames), NEW e \in Seq(Events), NEW b \in {<<>>, Cut},
           Fits("messages", "stream", f, e)
    PROVE  Fits("messages", "done", f, e \o (b \o (IF HasText(f) THEN Closing("end_turn") ELSE <<>>)))
  <1>1. /\ TerminalLast(f)
        /\ IF HasText(f) THEN TextStream("stream", f, e) ELSE Textless("stream", f, e)
    BY DEF Fits
  <1>2. b \in Seq(Events) /\ (b = <<>> \/ b = Cut) /\ Len(b) \in Nat
        /\ \A j \in 1 .. Len(b) : b[j] \in Endings /\ b[j] # "stop_error"
    <2>1. CASE b = <<>>
      BY <2>1
    <2>2. CASE b = Cut
      <3>1. \A j \in 1 .. 2 : j = 1 \/ j = 2
        OBVIOUS
      <3> QED
        BY <2>2, <3>1, CutEnds
    <2> QED
      BY <2>1, <2>2
  <1>3. CASE ~HasText(f)
    <2>1. b \o (IF HasText(f) THEN Closing("end_turn") ELSE <<>>) = b
      BY <1>2, <1>3, Spelled
    <2>2. Stopped \in Seq(Events) /\ Broke \in Seq(Events) /\ Cut \in Seq(Events)
      BY CutEnds DEF Stopped, Broke, Events
    <2>3. /\ <<>> \o <<>> = <<>> /\ <<>> \o Cut = Cut
          /\ Stopped \o <<>> = Stopped /\ Broke \o <<>> = Broke
      <3>1. <<>> \in Seq(Events)
        OBVIOUS
      <3> QED
        BY <2>2, <3>1, Spelled
    <2>4. \/ f = <<>> /\ e = <<>>
          \/ f = <<"completed">> /\ e = Stopped
          \/ f = <<"failed">> /\ e = Broke
      BY <1>1, <1>3 DEF Textless
    <2>5. Textless("done", f, e \o b)
      BY <1>2, <2>3, <2>4 DEF Textless
    <2> QED
      BY <1>1, <1>3, <2>1, <2>5 DEF Fits
  <1>4. CASE HasText(f)
    <2> DEFINE c == Closing("end_turn")
               x == b \o c
               t == e \o x
    <2>1. /\ c \in Seq(Events) /\ Len(c) = 3 /\ c[1] = "content_block_stop" /\ c[2] = "end_turn"
          /\ c[3] = "message_stop" /\ \A j \in 1 .. 3 : c[j] \in Endings
      BY Ends
    <2> HIDE DEF c
    <2>2. /\ x \in Seq(Events) /\ Len(x) = Len(b) + Len(c)
          /\ \A j \in 1 .. Len(b) : x[j] = b[j]
          /\ \A j \in 1 .. Len(c) : x[Len(b) + j] = c[j]
          /\ \A i \in Len(b) + 1 .. Len(x) : \E j \in 1 .. Len(c) : i = Len(b) + j /\ x[i] = c[j]
      BY <1>2, <2>1, JoinedEvents
    <2> HIDE DEF x
    <2>3. \A j \in 1 .. Len(x) : x[j] \in Endings /\ x[j] # "stop_error"
      <3>1. \A j \in 1 .. Len(x) : j \in 1 .. Len(b) \/ j \in Len(b) + 1 .. Len(x)
        BY <1>2, <2>1, <2>2
      <3>2. \A j \in 1 .. Len(c) : c[j] \in Endings /\ c[j] # "stop_error"
        BY <2>1, FewPlaces
      <3> QED
        BY <1>2, <2>2, <3>1, <3>2
    <2>4. Len(x) \in Nat /\ Len(x) >= 3 /\ Len(x) \in 1 .. Len(x) /\ x[Len(x)] = "message_stop"
      BY <1>2, <2>1, <2>2
    <2>5. /\ Len(t) = Len(e) + Len(x) /\ Len(e) \in Nat
          /\ \A i \in 1 .. Len(e) : t[i] = e[i]
          /\ \A j \in 1 .. Len(x) : t[Len(e) + j] = x[j]
          /\ \A i \in Len(e) + 1 .. Len(t) : \E j \in 1 .. Len(x) : i = Len(e) + j /\ t[i] = x[j]
      BY <2>2, JoinedEvents
    <2> HIDE DEF t
    <2>6. PICK m \in 3 .. Len(e) : TextUpTo(e, m) /\ FirstReason(f, e, m)
      BY <1>1, <1>4 DEF TextStream
    <2>7. m \in 3 .. Len(t) /\ TextUpTo(t, m)
      BY <2>2, <2>3, <2>6, MoreEnds DEF t
    <2>8. FirstReason(f, t, m)
      <3>1. \A i \in m + 1 .. Len(t) : t[i] = "stop_error" => i = m + 2
        <4>1. \A i \in m + 1 .. Len(t) : i \in m + 1 .. Len(e) \/ i \in Len(e) + 1 .. Len(t)
          BY <2>5
        <4>2. \A i \in m + 1 .. Len(e) : i \in 1 .. Len(e)
          BY <2>5
        <4>3. \A i \in m + 1 .. Len(e) : t[i] = "stop_error" => i = m + 2
          BY <2>5, <2>6, <4>2 DEF FirstReason
        <4>4. \A i \in Len(e) + 1 .. Len(t) : t[i] # "stop_error"
          BY <2>3, <2>5
        <4> QED
          BY <4>1, <4>3, <4>4
      <3>2. ASSUME Ended(f), f[Len(f)] = "failed"
            PROVE  m + 2 <= Len(t) /\ t[m + 1] = "content_block_stop" /\ t[m + 2] = "stop_error"
        <4>1. /\ m + 2 <= Len(e) /\ e[m + 1] = "content_block_stop" /\ e[m + 2] = "stop_error"
          BY <2>6, <3>2 DEF FirstReason
        <4>2. m + 1 \in 1 .. Len(e) /\ m + 2 \in 1 .. Len(e) /\ m + 2 <= Len(t)
          BY <2>4, <2>5, <4>1
        <4> QED
          BY <2>5, <4>1, <4>2
      <3> QED
        BY <3>1, <3>2 DEF FirstReason
    <2>9. m < Len(t) /\ t[Len(t)] = "message_stop"
      BY <2>4, <2>5
    <2>10. TextStream("done", f, t)
      BY <2>7, <2>8, <2>9 DEF TextStream
    <2>11. Fits("messages", "done", f, t)
      BY <1>1, <1>4, <2>10 DEF Fits
    <2> QED
      BY <1>4, <2>11 DEF t, x, c
  <1> QED
    BY <1>3, <1>4

\* What stream_openai_sse sends for a frame, or for what is left of the body.
LEMMA OpenAIFrame ==
    ASSUME NEW n, n # "messages", NEW f \in Seq(Frames), NEW e \in Seq(Events),
           ~Ended(f), Fits(n, "stream", f, e), NEW g \in Frames, NEW p \in {"stream", "done"},
           NEW v \in {"delta", "finish", "finish_with_error"}, v # "delta" => g # "text"
    PROVE  Fits(n, p, Append(f, g), e \o <<v>>)
  <1>1. TerminalLast(f) /\ OpenAIStream(f, e)
    BY DEF Fits
  <1>2. TerminalLast(Append(f, g))
    BY <1>1, FrameAppended
  <1>3. OpenAIStream(Append(f, g), e \o <<v>>)
    BY <1>1, OpenAIChunk
  <1> QED
    BY <1>2, <1>3 DEF Fits

LEMMA OpenAIEnd ==
    ASSUME NEW n, n # "messages", NEW f, NEW e \in Seq(Events), Fits(n, "stream", f, e)
    PROVE  Fits(n, "done", f, e \o <<>>)
  <1>1. e \o <<>> = e
    BY ConcatEmptySeq
  <1> QED
    BY <1>1 DEF Fits

\* The definitions of the model, of the frames read so far.
LEMMA StreamState ==
    ASSUME NEW r \in Requests
    PROVE  (Terminated(r) <=> Ended(frames[r])) /\ (Started(r) <=> HasText(frames[r]))
  BY DEF Terminated, Ended, Started, HasText

\* A step of one request that streams nothing.
LEMMA NothingStreamed ==
    ASSUME StreamInv, NEW r \in Requests, UNCHANGED <<frames, events>>,
           \A q \in Requests \ {r} : entry'[q] = entry[q] /\ pc'[q] = pc[q],
           \/ pc'[r] = pc[r] /\ entry'[r] = entry[r]
           \/ pc[r] \notin {"stream", "done", "gone"}
           \/ pc[r] = "stream" /\ pc'[r] = "gone" /\ entry'[r] = entry[r]
    PROVE  StreamInv'
  <1>1. ASSUME NEW q \in Requests PROVE Fits(entry'[q], pc'[q], frames[q], events[q])
    <2>1. Fits(entry[q], pc[q], frames[q], events[q])
      BY DEF StreamInv
    <2>2. CASE q = r
      BY <2>1, <2>2, QuietStep
    <2>3. CASE q # r
      BY <2>1, <2>3, QuietStep
    <2> QED
      BY <2>2, <2>3
  <1> QED
    BY <1>1 DEF StreamInv

LEMMA QuietStepsKeepStream ==
    ASSUME ConsumerInv, StreamInv, NEW r \in Requests,
           \/ ChatCompletions(r) \/ Messages(r) \/ ShareConsume(r) \/ ClientLeaves(r)
           \/ AskForSupplier(r) \/ OfferReturns(r) \/ Punch(r) \/ WriteTask(r) \/ ReadResult(r)
           \/ LoseConnection(r) \/ RelayReturns(r) \/ DispatchReturns(r) \/ SupplierStep(r) \/ RestartSupplier
           \/ \E p \in Posts : CloudRuns(r, p) \/ CloudRefuses(r, p)
    PROVE  StreamInv'
  <1>1. pc \in [Requests -> Steps] /\ entry \in [Requests -> Entries \union {"none"}]
    BY DEF ConsumerInv, RequestTypes
  <1>2. ASSUME NEW s, pc' = [pc EXCEPT ![r] = s]
        PROVE  pc'[r] = s /\ \A q \in Requests \ {r} : pc'[q] = pc[q]
    BY <1>1, <1>2
  <1>3. CASE ChatCompletions(r) \/ Messages(r) \/ ShareConsume(r)
    <2>1. \E e : Enter(r, e) /\ \E s : GoTo(r, s)
      BY <1>3 DEF ChatCompletions, Messages, ShareConsume, Refuse, Answer, SeekSupplier,
                  PostRelay, Post
    <2>2. /\ UNCHANGED <<frames, events>> /\ pc[r] = "idle"
          /\ \A q \in Requests \ {r} : entry'[q] = entry[q]
          /\ \E s : pc' = [pc EXCEPT ![r] = s]
      BY <1>1, <2>1 DEF Enter, GoTo
    <2> QED
      BY <1>2, <2>2, NothingStreamed
  <1>4. CASE ClientLeaves(r)
    <2>1. /\ pc' = [pc EXCEPT ![r] = "gone"] /\ entry' = entry /\ UNCHANGED <<frames, events>>
          /\ pc[r] \notin {"done", "gone"}
      BY <1>4 DEF ClientLeaves, GoTo
    <2> QED
      BY <1>2, <2>1, NothingStreamed
  <1>5. CASE \/ AskForSupplier(r) \/ OfferReturns(r) \/ Punch(r) \/ WriteTask(r) \/ ReadResult(r)
             \/ RelayReturns(r) \/ DispatchReturns(r)
    <2>1. /\ entry' = entry /\ UNCHANGED <<frames, events>>
          /\ pc[r] \notin {"stream", "done", "gone"}
      BY <1>5 DEF AskForSupplier, OfferReturns, Punch, WriteTask, ReadResult, RelayReturns, DispatchReturns
    <2>2. pc' = pc \/ \E s : GoTo(r, s)
      <3>1. CASE AskForSupplier(r) \/ OfferReturns(r) \/ Punch(r) \/ WriteTask(r)
        BY <3>1 DEF AskForSupplier, OfferReturns, Punch, WriteTask, FallBack, PostRelay, Post
      <3>2. CASE ReadResult(r)
        BY <3>2 DEF ReadResult, FallBack, PostRelay, Post, Failed, PostDispatch, Answer
      <3>3. CASE RelayReturns(r) \/ DispatchReturns(r)
        BY <3>3 DEF RelayReturns, DispatchReturns, NonStreamed, Post, Failed, PostDispatch, Answer
      <3> QED
        BY <1>5, <3>1, <3>2, <3>3
    <2> QED
      BY <1>2, <2>1, <2>2, NothingStreamed DEF GoTo
  <1>6. CASE \/ LoseConnection(r) \/ SupplierStep(r) \/ RestartSupplier
             \/ \E p \in Posts : CloudRuns(r, p) \/ CloudRefuses(r, p)
    <2>1. UNCHANGED <<entry, pc, frames, events>>
      BY <1>6 DEF LoseConnection, SupplierStep, TakeOffer, AnswerOffer, TakeTask, FinishTask,
                  SendResult, ForgetSession, RestartSupplier, CloudRuns, CloudRefuses, handlerVars
    <2> QED
      BY <2>1, NothingStreamed
  <1> QED
    BY <1>3, <1>4, <1>5, <1>6

\* A frame is translated.
LEMMA StreamFrameKeepsStream ==
    ASSUME ConsumerInv, StreamInv, NEW r \in Requests, NEW g \in Frames, StreamFrame(r, g)
    PROVE  StreamInv'
  <1> DEFINE f == frames[r]
             e == events[r]
  <1>1. RequestTypes /\ f \in Seq(Frames) /\ e \in Seq(Events) /\ Fits(entry[r], pc[r], f, e)
    BY DEF ConsumerInv, RequestTypes, StreamInv
  <1>2. /\ pc[r] = "stream" /\ ~Ended(f) /\ UNCHANGED <<entry, pc>>
        /\ frames' = [frames EXCEPT ![r] = Append(f, g)]
    BY StreamState DEF StreamFrame
  <1>3. ASSUME NEW x, events' = [events EXCEPT ![r] = e \o x],
               Fits(entry[r], "stream", Append(f, g), e \o x)
        PROVE  StreamInv'
    <2>1. /\ frames'[r] = Append(f, g) /\ events'[r] = e \o x
          /\ \A q \in Requests \ {r} : frames'[q] = frames[q] /\ events'[q] = events[q]
      BY <1>1, <1>2, <1>3 DEF RequestTypes
    <2>2. Fits(entry'[r], pc'[r], frames'[r], events'[r])
      BY <1>2, <1>3, <2>1
    <2>3. \A q \in Requests \ {r} : Fits(entry'[q], pc'[q], frames'[q], events'[q])
      BY <1>2, <2>1 DEF StreamInv
    <2> QED
      BY <2>2, <2>3 DEF StreamInv
  <1>4. CASE entry[r] = "messages"
    <2> DEFINE x == AnthropicEvents(r, g)
    <2>1. events' = [events EXCEPT ![r] = e \o x]
      BY <1>4 DEF StreamFrame
    <2>2. x \in Seq(Events)
      BY <1>1, EventsAre
    <2>3. x = CASE g = "text" -> (IF HasText(f) THEN <<>>
                                  ELSE <<"message_start", "content_block_start">>) \o <<"delta">>
                [] g = "completed" -> (IF HasText(f) THEN <<>> ELSE <<"message_start">>)
                                      \o Closing("end_turn")
                [] g = "failed" -> IF HasText(f) THEN Closing("stop_error")
                                   ELSE Tail(Closing("stop_error"))
      <3>1. Started(r) <=> HasText(f)
        BY StreamState
      <3> HIDE DEF f
      <3> QED
        BY <3>1, <1>1 DEF AnthropicEvents, Frames
    <2> HIDE DEF x, f, e
    <2>4. Fits("messages", "stream", Append(f, g), e \o x)
      BY <1>1, <1>2, <1>4, <2>2, <2>3, AnthropicFrame
    <2> QED
      BY <1>3, <1>4, <2>1, <2>4
  <1>5. CASE entry[r] # "messages"
    <2>1. events' = [events EXCEPT ![r] = e \o OpenAIEvents(g)]
      BY <1>5 DEF StreamFrame
    <2>2. PICK v \in {"delta", "finish", "finish_with_error"} :
            OpenAIEvents(g) = <<v>> /\ (v # "delta" => g # "text")
      BY DEF OpenAIEvents, Frames
    <2> HIDE DEF f, e
    <2>3. Fits(entry[r], "stream", Append(f, g), e \o <<v>>)
      BY <1>1, <1>2, <1>5, <2>2, OpenAIFrame
    <2> QED
      BY <1>3, <2>1, <2>2, <2>3
  <1> QED
    BY <1>4, <1>5

\* The body ends or breaks off.
LEMMA StreamEndsKeepsStream ==
    ASSUME ConsumerInv, StreamInv, NEW r \in Requests,
           NEW broken \in BOOLEAN, NEW rest \in Frames \union {"none"}, StreamEnds(r, broken, rest)
    PROVE  StreamInv'
  <1> DEFINE f == frames[r]
             e == events[r]
  <1>1. RequestTypes /\ f \in Seq(Frames) /\ e \in Seq(Events) /\ Fits(entry[r], "stream", f, e)
    BY DEF ConsumerInv, RequestTypes, StreamInv, StreamEnds
  <1>2. /\ pc[r] = "stream" /\ pc' = [pc EXCEPT ![r] = "done"] /\ entry' = entry
        /\ rest # "none" => ~Ended(f)
    BY StreamState DEF StreamEnds, GoTo
  <1>3. ASSUME NEW h, NEW x, events' = [events EXCEPT ![r] = e \o x],
               frames' = [frames EXCEPT ![r] = h], Fits(entry[r], "done", h, e \o x)
        PROVE  StreamInv'
    <2>1. /\ frames'[r] = h /\ events'[r] = e \o x /\ pc'[r] = "done"
          /\ \A q \in Requests \ {r} :
                frames'[q] = frames[q] /\ events'[q] = events[q] /\ pc'[q] = pc[q]
      BY <1>1, <1>2, <1>3 DEF RequestTypes
    <2>2. Fits(entry'[r], pc'[r], frames'[r], events'[r])
      BY <1>2, <1>3, <2>1
    <2>3. \A q \in Requests \ {r} : Fits(entry'[q], pc'[q], frames'[q], events'[q])
      BY <1>2, <2>1 DEF StreamInv
    <2> QED
      BY <2>2, <2>3 DEF StreamInv
  <1>4. frames' = frames => frames' = [frames EXCEPT ![r] = f]
    BY <1>1 DEF RequestTypes
  <1>5. CASE entry[r] = "messages"
    <2> DEFINE b == IF broken THEN Cut ELSE <<>>
    <2>1. AnthropicTail(r, broken) = b \o (IF HasText(f) THEN Closing("end_turn") ELSE <<>>)
      BY StreamState DEF AnthropicTail, Cut
    <2>2. events' = [events EXCEPT ![r] = e \o AnthropicTail(r, broken)] /\ frames' = frames
      BY <1>5 DEF StreamEnds
    <2>3. b \in {<<>>, Cut}
      OBVIOUS
    <2> HIDE DEF b, f, e
    <2>4. Fits("messages", "done", f, e \o (b \o (IF HasText(f) THEN Closing("end_turn") ELSE <<>>)))
      BY <1>1, <1>5, <2>3, AnthropicEnd
    <2> QED
      BY <1>3, <1>4, <1>5, <2>1, <2>2, <2>4
  <1>6. CASE entry[r] # "messages"
    <2>1. events' = [events EXCEPT ![r] = e \o OpenAITail(rest)]
      BY <1>6 DEF StreamEnds
    <2>2. CASE rest = "none"
      <3>1. OpenAITail(rest) = <<>> /\ frames' = frames
        BY <1>6, <2>2 DEF OpenAITail, StreamEnds
      <3> HIDE DEF f, e
      <3>2. Fits(entry[r], "done", f, e \o <<>>)
        BY <1>1, <1>6, OpenAIEnd
      <3> QED
        BY <1>3, <1>4, <2>1, <3>1, <3>2
    <2>3. CASE rest # "none"
      <3>1. rest \in Frames /\ frames' = [frames EXCEPT ![r] = Append(f, rest)]
        BY <1>6, <2>3 DEF StreamEnds
      <3>2. PICK v \in {"delta", "finish", "finish_with_error"} :
              OpenAITail(rest) = <<v>> /\ (v # "delta" => rest # "text")
        BY <2>3, <3>1 DEF OpenAITail, Frames
      <3> HIDE DEF f, e
      <3>3. Fits(entry[r], "done", Append(f, rest), e \o <<v>>)
        BY <1>1, <1>2, <1>6, <2>3, <3>1, <3>2, OpenAIFrame
      <3> QED
        BY <1>3, <2>1, <3>1, <3>2, <3>3
    <2> QED
      BY <2>2, <2>3
  <1> QED
    BY <1>5, <1>6

LEMMA StepKeepsStreamInv == ASSUME ConsumerInv, StreamInv, [Next]_vars PROVE StreamInv'
  <1>1. CASE Next
    <2>1. CASE RestartSupplier
      <3>1. CASE Requests = {}
        BY <3>1 DEF StreamInv
      <3> QED
        BY <2>1, <3>1, QuietStepsKeepStream
    <2>2. ASSUME NEW r \in Requests,
                 \/ ChatCompletions(r) \/ Messages(r) \/ ShareConsume(r) \/ ClientLeaves(r)
                 \/ ReadsEndpoint(r) \/ Handler(r) \/ SupplierStep(r)
                 \/ \E f \in Frames : StreamFrame(r, f)
                 \/ \E p \in Posts : CloudRuns(r, p) \/ CloudRefuses(r, p)
          PROVE  StreamInv'
      BY <2>2, QuietStepsKeepStream, StreamFrameKeepsStream, StreamEndsKeepsStream DEF ReadsEndpoint, Handler
    <2>3. CASE WriterQueues \/ WriterLeaves
      <3>1. UNCHANGED <<entry, pc, frames, events>>
        BY <2>3 DEF WriterQueues, WriterLeaves, handlerVars
      <3> QED
        BY <3>1 DEF StreamInv
    <2> QED
      BY <1>1, <2>1, <2>2, <2>3 DEF Next
  <1>2. CASE UNCHANGED vars
    <2>1. UNCHANGED <<entry, pc, frames, events>>
      BY <1>2 DEF vars, handlerVars
    <2> QED
      BY <2>1 DEF StreamInv
  <1> QED
    BY <1>1, <1>2

LEMMA StreamHolds == Spec => []StreamInv
  <1>1. Init => StreamInv
    <2>1. ASSUME Init, NEW r \in Requests PROVE Fits(entry[r], pc[r], frames[r], events[r])
      <3>1. frames[r] = <<>> /\ events[r] = <<>>
        BY <2>1 DEF Init
      <3> QED
        BY <3>1, EmptyFits
    <2> QED
      BY <2>1 DEF StreamInv
  <1> QED
    BY <1>1, InvHolds, StepKeepsStreamInv, PTL DEF Spec

----------------------------------------------------------------------------
(* What the user can tell from the form of the stream.                     *)

Places(e, v) == {i \in DOMAIN e : e[i] = v}

\* What holds of the events of a message, whether or not text has come.
Placed(e) ==
    \A i \in 1 .. Len(e) :
        /\ e[i] \notin {"finish", "finish_with_error"}
        /\ e[i] = "message_start" => i = 1
        /\ e[i] = "content_block_start" => i = 2
        /\ e[i] = "content_block_stop" => i >= 2

\* Text comes up to place m, and the message stops after that.
TextBeforeStop(e, m) ==
    \A i \in 1 .. Len(e) : (e[i] = "delta" => 3 <= i /\ i <= m) /\ (e[i] = "message_stop" => m < i)

\* The stop reason of a failed task comes first, at place k.
ErrorFirst(e, k) ==
    /\ k \in 1 .. Len(e) /\ e[k] = "stop_error"
    /\ \A i \in 1 .. Len(e) : (e[i] = "stop_error" => i = k) /\ (e[i] = "end_turn" => k < i)

Message(p, f, e) ==
    /\ Placed(e)
    /\ \E m \in Nat : TextBeforeStop(e, m)
    /\ Ended(f) /\ f[Len(f)] = "failed" =>
        (\A i \in 1 .. Len(e) : e[i] # "end_turn") \/ \E k \in Nat : ErrorFirst(e, k)
    /\ p = "done" =>
        \/ \A i \in 1 .. Len(e) : e[i] # "delta"
        \/ \E i \in 1 .. Len(e) : e[i] = "message_stop"

\* A message without text.
Bare(e) ==
    /\ Placed(e)
    /\ \A i \in 1 .. Len(e) : e[i] # "delta" /\ (e[i] = "message_stop" => 0 < i)

LEMMA BareEvents ==
    /\ Bare(<<>>) /\ Bare(Stopped) /\ Bare(Broke) /\ Bare(Cut)
    /\ \A e \in Seq(Events) : Bare(e) => Bare(e \o Cut)
    /\ \A i \in 1 .. Len(Broke) : Broke[i] # "end_turn"
    /\ \A i \in 1 .. Len(Broke \o Cut) : (Broke \o Cut)[i] # "end_turn"
    /\ Stopped \in Seq(Events) /\ Broke \in Seq(Events)
  <1>1. Bare(<<>>)
    <2>1. \A i \in 1 .. Len(<<>>) : FALSE
      OBVIOUS
    <2> QED
      BY <2>1 DEF Bare, Placed
  <1>2. Stopped \in Seq(Events) /\ Broke \in Seq(Events) /\ Len(Stopped) = 4 /\ Len(Broke) = 2
    BY DEF Stopped, Broke, Events
  <1>3. /\ Stopped[1] = "message_start" /\ Stopped[2] = "content_block_stop"
        /\ Stopped[3] = "end_turn" /\ Stopped[4] = "message_stop"
        /\ Broke[1] = "stop_error" /\ Broke[2] = "message_stop"
    BY DEF Stopped, Broke
  <1>4. \A i \in 1 .. 2 : i = 1 \/ i = 2
    OBVIOUS
  <1>5. Bare(Stopped) /\ Bare(Broke) /\ Bare(Cut)
    <2>1. Bare(Stopped)
      BY <1>2, <1>3, FewPlaces DEF Bare, Placed
    <2>2. Bare(Broke)
      BY <1>2, <1>3, <1>4 DEF Bare, Placed
    <2>3. Bare(Cut)
      BY CutEnds, <1>4 DEF Bare, Placed
    <2> QED
      BY <2>1, <2>2, <2>3
  <1>6. \A j \in 1 .. Len(Cut) : Cut[j] = "error" \/ Cut[j] = "message_stop"
    BY CutEnds, <1>4
  <1>7. ASSUME NEW e \in Seq(Events), NEW i \in 1 .. Len(e \o Cut)
        PROVE  \/ i \in 1 .. Len(e) /\ (e \o Cut)[i] = e[i]
               \/ (e \o Cut)[i] = "error"
               \/ (e \o Cut)[i] = "message_stop"
    <2>1. /\ Len(e) \in Nat /\ Len(e \o Cut) \in Nat
          /\ \A k \in 1 .. Len(e) : (e \o Cut)[k] = e[k]
          /\ \A k \in Len(e) + 1 .. Len(e \o Cut) :
                \E j \in 1 .. Len(Cut) : k = Len(e) + j /\ (e \o Cut)[k] = Cut[j]
      <3>1. Len(e \o Cut) = Len(e) + Len(Cut) /\ Len(e) \in Nat /\ Len(Cut) \in Nat
        BY JoinedEvents, CutEnds
      <3> QED
        BY <3>1, JoinedEvents, CutEnds
    <2>2. i \in 1 .. Len(e) \/ i \in Len(e) + 1 .. Len(e \o Cut)
      BY <2>1
    <2> QED
      BY <1>6, <2>1, <2>2
  <1>8. ASSUME NEW e \in Seq(Events), Bare(e) PROVE Bare(e \o Cut)
    <2>1. ASSUME NEW i \in 1 .. Len(e \o Cut)
          PROVE  /\ (e \o Cut)[i] \notin {"finish", "finish_with_error", "delta"}
                 /\ (e \o Cut)[i] = "message_start" => i = 1
                 /\ (e \o Cut)[i] = "content_block_start" => i = 2
                 /\ (e \o Cut)[i] = "content_block_stop" => i >= 2
                 /\ (e \o Cut)[i] = "message_stop" => 0 < i
      BY <1>7, <1>8 DEF Bare, Placed
    <2> QED
      BY <2>1 DEF Bare, Placed
  <1>9. \A i \in 1 .. Len(Broke) : Broke[i] # "end_turn"
    BY <1>2, <1>3, <1>4
  <1>10. \A i \in 1 .. Len(Broke \o Cut) : (Broke \o Cut)[i] # "end_turn"
    BY <1>2, <1>7, <1>9
  <1> QED
    BY <1>1, <1>2, <1>5, <1>8, <1>9, <1>10

LEMMA TextlessMessage ==
    ASSUME NEW p, NEW f, NEW e, Textless(p, f, e) PROVE Message(p, f, e)
  <1>1. Bare(e)
    <2>1. \A s \in {<<>>, Stopped, Broke} : Bare(s) /\ Bare(s \o Cut) /\ Bare(Cut)
      <3>1. <<>> \in Seq(Events)
        OBVIOUS
      <3> QED
        BY <3>1, BareEvents
    <2>2. \/ e \in {<<>>, Stopped, Broke} \/ e = Cut
          \/ \E s \in {<<>>, Stopped, Broke} : e = s \o Cut
      BY DEF Textless
    <2> QED
      BY <2>1, <2>2
  <1>2. Placed(e) /\ TextBeforeStop(e, 0)
    BY <1>1 DEF Bare, TextBeforeStop
  <1>3. ASSUME Ended(f), f[Len(f)] = "failed" PROVE \A i \in 1 .. Len(e) : e[i] # "end_turn"
    <2>1. f # <<>>
      BY <1>3 DEF Ended
    <2>2. f # <<"completed">>
      BY <1>3
    <2>3. e = Broke \/ e = Broke \o Cut
      BY <2>1, <2>2 DEF Textless
    <2> QED
      BY <2>3, BareEvents
  <1>4. \A i \in 1 .. Len(e) : e[i] # "delta"
    BY <1>1 DEF Bare
  <1> QED
    BY <1>2, <1>3, <1>4 DEF Message

LEMMA TextMessage ==
    ASSUME NEW p, NEW f, NEW e \in Seq(Events), TextStream(p, f, e) PROVE Message(p, f, e)
  <1>1. PICK m \in 3 .. Len(e) :
            /\ TextUpTo(e, m) /\ FirstReason(f, e, m)
            /\ p = "done" => m < Len(e) /\ e[Len(e)] = "message_stop"
    BY DEF TextStream
  <1>2. Len(e) \in Nat /\ m \in Nat /\ m >= 3
    BY <1>1, LenProperties
  <1>3. \A i \in 1 .. Len(e) : i = 1 \/ i = 2 \/ i \in 3 .. m \/ i \in m + 1 .. Len(e)
    BY <1>2
  <1>4. /\ e[1] = "message_start" /\ e[2] = "content_block_start"
        /\ \A i \in 3 .. m : e[i] = "delta" /\ 3 <= i /\ i <= m
        /\ \A i \in m + 1 .. Len(e) : e[i] \in Endings /\ m < i /\ i >= 2
    <2>1. /\ \A i \in 3 .. m : 3 <= i /\ i <= m
          /\ \A i \in m + 1 .. Len(e) : m < i /\ i >= 2
      BY <1>2
    <2> QED
      BY <1>1, <2>1 DEF TextUpTo
  <1>5. Placed(e)
    BY <1>3, <1>4 DEF Placed, Endings
  <1>6. TextBeforeStop(e, m)
    BY <1>3, <1>4 DEF TextBeforeStop, Endings
  <1>7. ASSUME Ended(f), f[Len(f)] = "failed" PROVE ErrorFirst(e, m + 2)
    <2>1. m + 2 <= Len(e) /\ e[m + 1] = "content_block_stop" /\ e[m + 2] = "stop_error"
      BY <1>1, <1>7 DEF FirstReason
    <2>2. \A i \in m + 1 .. Len(e) : e[i] = "stop_error" => i = m + 2
      BY <1>1 DEF FirstReason
    <2>3. \A i \in 1 .. Len(e) :
            e[i] = "stop_error" \/ e[i] = "end_turn" => i \in m + 1 .. Len(e)
      BY <1>3, <1>4
    <2>4. \A i \in m + 1 .. Len(e) : i = m + 1 \/ i = m + 2 \/ m + 2 < i
      BY <1>2
    <2>5. m + 2 \in 1 .. Len(e)
      BY <1>2, <2>1
    <2> QED
      BY <2>1, <2>2, <2>3, <2>4, <2>5 DEF ErrorFirst
  <1>8. Len(e) \in 1 .. Len(e) /\ m + 2 \in Nat
    BY <1>2
  <1> QED
    BY <1>1, <1>2, <1>5, <1>6, <1>7, <1>8 DEF Message

\* Counting places.
LEMMA Counted ==
    ASSUME NEW e \in Seq(Events), NEW v
    PROVE  /\ Cardinality(Places(e, v)) \in Nat
           /\ Cardinality(Places(e, v)) > 0 <=> \E i \in 1 .. Len(e) : e[i] = v
           /\ \A k : (\A i \in 1 .. Len(e) : e[i] = v => i = k) => Cardinality(Places(e, v)) <= 1
           /\ \A k \in 1 .. Len(e) :
                e[k] = v /\ (\A i \in 1 .. Len(e) : e[i] = v => i = k) => Cardinality(Places(e, v)) = 1
           /\ (\A i \in 1 .. Len(e) : e[i] # v) => Cardinality(Places(e, v)) = 0
  <1>1. DOMAIN e = 1 .. Len(e) /\ Len(e) \in Nat /\ 1 \in Int /\ Len(e) \in Int
    BY LenProperties
  <1>2. IsFiniteSet(Places(e, v)) /\ Cardinality(Places(e, v)) \in Nat
    <2>1. IsFiniteSet(1 .. Len(e)) /\ Places(e, v) \subseteq 1 .. Len(e)
      BY <1>1, FS_Interval DEF Places
    <2> QED
      BY <2>1, FS_Subset, FS_CardinalityType
  <1>3. Cardinality(Places(e, v)) = 0 <=> Places(e, v) = {}
    BY <1>2, FS_EmptySet
  <1>4. Places(e, v) = {} <=> \A i \in 1 .. Len(e) : e[i] # v
    BY <1>1 DEF Places
  <1>5. ASSUME NEW k, \A i \in 1 .. Len(e) : e[i] = v => i = k
        PROVE  /\ Places(e, v) = {} \/ Cardinality(Places(e, v)) = 1
               /\ k \in 1 .. Len(e) /\ e[k] = v => Cardinality(Places(e, v)) = 1
    <2>1. Places(e, v) = {} \/ Places(e, v) = {k}
      BY <1>1, <1>5 DEF Places
    <2>2. k \in 1 .. Len(e) /\ e[k] = v => Places(e, v) = {k}
      BY <1>1, <2>1 DEF Places
    <2>3. Cardinality({k}) = 1
      BY FS_Singleton
    <2> QED
      BY <2>1, <2>2, <2>3
  <1>6. Cardinality(Places(e, v)) > 0 <=> \E i \in 1 .. Len(e) : e[i] = v
    BY <1>2, <1>3, <1>4
  <1>7. ASSUME NEW k, \A i \in 1 .. Len(e) : e[i] = v => i = k PROVE Cardinality(Places(e, v)) <= 1
    BY <1>2, <1>3, <1>5, <1>7
  <1>8. ASSUME NEW k \in 1 .. Len(e), e[k] = v, \A i \in 1 .. Len(e) : e[i] = v => i = k
        PROVE  Cardinality(Places(e, v)) = 1
    BY <1>5, <1>8
  <1>9. (\A i \in 1 .. Len(e) : e[i] # v) => Cardinality(Places(e, v)) = 0
    BY <1>3, <1>4
  <1> QED
    BY <1>2, <1>6, <1>7, <1>8, <1>9

\* How a task may have ended, by the frames read.
Outcomes(f) == {f[i] : i \in DOMAIN f} \ {"text"}

LEMMA OutcomesCounted ==
    ASSUME NEW f \in Seq(Frames), TerminalLast(f)
    PROVE  /\ Cardinality(Outcomes(f)) \in Nat
           /\ Ended(f) => Cardinality(Outcomes(f)) >= 1
           /\ "failed" \in Outcomes(f) => Ended(f) /\ f[Len(f)] = "failed"
  <1>1. DOMAIN f = 1 .. Len(f) /\ Len(f) \in Nat /\ (f = <<>> <=> Len(f) = 0)
        /\ \A i \in 1 .. Len(f) : f[i] \in Frames
    BY LenProperties, EmptySeq, ElementOfSeq
  <1>2. IsFiniteSet(Outcomes(f)) /\ Cardinality(Outcomes(f)) \in Nat
    <2>1. Outcomes(f) \subseteq {"completed", "failed"}
      BY <1>1 DEF Outcomes, Frames
    <2>2. IsFiniteSet({"completed", "failed"})
      <3>1. IsFiniteSet({"completed"})
        BY FS_Singleton
      <3>2. {"completed", "failed"} = {"completed"} \union {"failed"}
        OBVIOUS
      <3> QED
        BY <3>1, <3>2, FS_AddElement
    <2> QED
      BY <2>1, <2>2, FS_Subset, FS_CardinalityType
  <1>3. ASSUME Ended(f) PROVE Cardinality(Outcomes(f)) >= 1
    <2>1. Len(f) \in DOMAIN f /\ f[Len(f)] # "text"
      BY <1>1, <1>3 DEF Ended
    <2>2. Outcomes(f) # {}
      BY <2>1 DEF Outcomes
    <2>3. Cardinality(Outcomes(f)) # 0
      BY <1>2, <2>2, FS_EmptySet
    <2> QED
      BY <1>2, <2>3
  <1>4. ASSUME "failed" \in Outcomes(f) PROVE Ended(f) /\ f[Len(f)] = "failed"
    <2>1. PICK i \in 1 .. Len(f) : f[i] = "failed"
      BY <1>1, <1>4 DEF Outcomes
    <2>2. i = Len(f)
      BY <2>1 DEF TerminalLast
    <2>3. f # <<>>
      BY <1>1
    <2> QED
      BY <2>1, <2>2, <2>3 DEF Ended
  <1> QED
    BY <1>2, <1>3, <1>4

\* A finish reason is the last event of an ended task.
LEMMA FinishOnce ==
    ASSUME NEW f \in Seq(Frames), NEW e \in Seq(Events), TerminalLast(f),
           OpenAIStream(f, e) \/ Placed(e)
    PROVE  Cardinality(Places(e, "finish")) + Cardinality(Places(e, "finish_with_error"))
                <= Cardinality(Outcomes(f))
  <1> DEFINE a == Cardinality(Places(e, "finish"))
             b == Cardinality(Places(e, "finish_with_error"))
             c == Cardinality(Outcomes(f))
  <1>1. a \in Nat /\ b \in Nat /\ c \in Nat /\ (Ended(f) => c >= 1)
    BY Counted, OutcomesCounted
  <1>2. CASE \A i \in 1 .. Len(e) : e[i] \notin {"finish", "finish_with_error"}
    <2>1. a = 0 /\ b = 0
      BY <1>2, Counted
    <2> QED
      BY <1>1, <2>1
  <1>3. CASE \E i \in 1 .. Len(e) : e[i] \in {"finish", "finish_with_error"}
    <2>1. OpenAIStream(f, e) /\ ~AllText(e)
      BY <1>3 DEF Placed, AllText
    <2>2. Ended(f)
      BY <2>1 DEF OpenAIStream
    <2>3. \A i \in 1 .. Len(e) : e[i] \in {"finish", "finish_with_error"} => i = Len(e)
      BY <2>1 DEF OpenAIStream
    <2>4. a <= 1 /\ b <= 1
      BY <2>3, Counted
    <2>5. a = 0 \/ b = 0
      <3>1. CASE e[Len(e)] = "finish"
        BY <2>3, <3>1, Counted
      <3>2. CASE e[Len(e)] # "finish"
        BY <2>3, <3>2, Counted
      <3> QED
        BY <3>1, <3>2
    <2> HIDE DEF a, b, c
    <2>6. a + b <= c
      BY <1>1, <2>2, <2>4, <2>5
    <2> QED
      BY <2>6 DEF a, b, c
  <1> QED
    BY <1>2, <1>3

\* StreamTellsOutcome, of one request.
Tells(n, p, f, e) ==
    LET Count(v) == Cardinality({i \in DOMAIN e : e[i] = v})
        Before(v, w) == \A i, j \in DOMAIN e : e[i] = v /\ e[j] = w => i < j
        ended == {f[i] : i \in DOMAIN f} \ {"text"}
    IN  /\ Count("finish") + Count("finish_with_error") <= Cardinality(ended)
        /\ Count("message_start") <= 1 /\ Count("content_block_start") <= 1
        /\ n = "messages" =>
            /\ Before("content_block_start", "delta") /\ Before("delta", "message_stop")
            /\ Before("message_start", "content_block_stop")
            /\ "failed" \in ended /\ Count("end_turn") > 0
                    => Count("stop_error") = 1 /\ Before("stop_error", "end_turn")
            /\ p = "done" /\ Count("delta") > 0 => Count("message_stop") > 0

Precedes(e, v, w) == \A i, j \in DOMAIN e : e[i] = v /\ e[j] = w => i < j

LEMMA FormTells ==
    ASSUME NEW n, NEW p, NEW f \in Seq(Frames), NEW e \in Seq(Events), Fits(n, p, f, e)
    PROVE  Tells(n, p, f, e)
  <1>1. DOMAIN e = 1 .. Len(e) /\ Len(e) \in Nat
    BY LenProperties
  <1>2. /\ TerminalLast(f) /\ (n # "messages" => OpenAIStream(f, e))
        /\ (n = "messages" => Message(p, f, e))
    BY TextMessage, TextlessMessage DEF Fits
  <1>3. Cardinality(Places(e, "finish")) + Cardinality(Places(e, "finish_with_error"))
            <= Cardinality(Outcomes(f))
    BY <1>2, FinishOnce DEF Message
  <1>4. Cardinality(Places(e, "message_start")) <= 1 /\ Cardinality(Places(e, "content_block_start")) <= 1
    <2>1. \A i \in 1 .. Len(e) :
            (e[i] = "message_start" => i = 1) /\ (e[i] = "content_block_start" => i = 2)
      BY <1>2 DEF Message, Placed, OpenAIStream
    <2> QED
      BY <2>1, Counted
  <1>5. ASSUME n = "messages"
        PROVE  /\ Precedes(e, "content_block_start", "delta") /\ Precedes(e, "delta", "message_stop")
               /\ Precedes(e, "message_start", "content_block_stop")
               /\ "failed" \in Outcomes(f) /\ Cardinality(Places(e, "end_turn")) > 0 =>
                    /\ Cardinality(Places(e, "stop_error")) = 1
                    /\ Precedes(e, "stop_error", "end_turn")
               /\ p = "done" /\ Cardinality(Places(e, "delta")) > 0 =>
                    Cardinality(Places(e, "message_stop")) > 0
    <2>1. Message(p, f, e)
      BY <1>2, <1>5
    <2>2. PICK m \in Nat : TextBeforeStop(e, m)
      BY <2>1 DEF Message
    <2>3. \A i \in 1 .. Len(e) :
            /\ e[i] = "message_start" => i = 1
            /\ e[i] = "content_block_start" => i = 2
            /\ e[i] = "content_block_stop" => i >= 2
            /\ e[i] = "delta" => 3 <= i /\ i <= m
            /\ e[i] = "message_stop" => m < i
      BY <2>1, <2>2 DEF Message, Placed, TextBeforeStop
    <2>4. Precedes(e, "content_block_start", "delta") /\ Precedes(e, "message_start", "content_block_stop")
      BY <1>1, <2>3 DEF Precedes
    <2>5. Precedes(e, "delta", "message_stop")
      <3>1. ASSUME NEW i \in 1 .. Len(e), NEW j \in 1 .. Len(e), e[i] = "delta", e[j] = "message_stop"
            PROVE  i < j
        <4>1. i <= m /\ m < j
          BY <2>3, <3>1
        <4> QED
          BY <2>2, <4>1
      <3> QED
        BY <1>1, <3>1 DEF Precedes
    <2>6. ASSUME "failed" \in Outcomes(f), Cardinality(Places(e, "end_turn")) > 0
          PROVE  Cardinality(Places(e, "stop_error")) = 1 /\ Precedes(e, "stop_error", "end_turn")
      <3>1. Ended(f) /\ f[Len(f)] = "failed"
        BY <1>2, <2>6, OutcomesCounted
      <3>2. \E i \in 1 .. Len(e) : e[i] = "end_turn"
        BY <2>6, Counted
      <3>3. PICK k \in Nat : ErrorFirst(e, k)
        BY <2>1, <3>1, <3>2 DEF Message
      <3>4. Cardinality(Places(e, "stop_error")) = 1
        BY <3>3, Counted DEF ErrorFirst
      <3>5. Precedes(e, "stop_error", "end_turn")
        BY <1>1, <3>3 DEF ErrorFirst, Precedes
      <3> QED
        BY <3>4, <3>5
    <2>7. ASSUME p = "done", Cardinality(Places(e, "delta")) > 0
          PROVE  Cardinality(Places(e, "message_stop")) > 0
      <3>1. \E i \in 1 .. Len(e) : e[i] = "delta"
        BY <2>7, Counted
      <3>2. \E i \in 1 .. Len(e) : e[i] = "message_stop"
        BY <2>1, <2>7, <3>1 DEF Message
      <3> QED
        BY <3>2, Counted
    <2> QED
      BY <2>4, <2>5, <2>6, <2>7
  <1> QED
    BY <1>3, <1>4, <1>5 DEF Tells, Places, Precedes, Outcomes

\* Whatever frames come, wherever the body breaks off, and whoever else is served meanwhile:
\* the events sent to a user tell how the task ended.
THEOREM StreamsTellOutcome == Spec => []StreamTellsOutcome
  <1>1. ConsumerInv /\ StreamInv => StreamTellsOutcome
    <2>1. ASSUME ConsumerInv, StreamInv, NEW r \in Requests
          PROVE  Tells(entry[r], pc[r], frames[r], events[r])
      <3>1. frames[r] \in Seq(Frames) /\ events[r] \in Seq(Events)
        BY <2>1 DEF ConsumerInv, RequestTypes
      <3>2. Fits(entry[r], pc[r], frames[r], events[r])
        BY <2>1 DEF StreamInv
      <3> QED
        BY <3>1, <3>2, FormTells
    <2> QED
      BY <2>1 DEF StreamTellsOutcome, Tells
  <1> QED
    BY <1>1, InvHolds, StreamHolds, PTL
=============================================================================
